SPECIFICATION SimSpec
CONSTANTS
  NumNodes = 2
  Tx <- MCTx
  NodeOf <- MCNodeOf
  SelectedTx <- MCSelectedTx
  FrameLen = 2
  Places <- MCPlaces
  Home <- MCHome
  Rooms <- MCRooms
  Datagrams <- MCDatagrams
  Capacity = 3
  Signal = 2
  Pad = 2
  MaxDatagrams <- MCMaxDatagrams
  MaxMoves = 1
INVARIANTS SimTypeOK FramesInFlight RestsWhenHeard
PROPERTIES SumsInSequence CarriesSignals
\* The simulator rests when the clients are done: its spinning is no step.
CHECK_DEADLOCK FALSE
