SPECIFICATION PipeSpec
CONSTANTS
  SF = 7
  ImplHead = FALSE
  Ldro = FALSE
  HeaderMsgs <- MCHeaderMsgs
  SyncCap = 2
  WordsCap = 20
  GraysCap = 12
  CodesCap = 12
  NibsCap = 16
  MaxFrames = 3
INVARIANTS HoldsOneFrame DecodedAtOwnRate
PROPERTIES WaitEnds LongFramesArrive
\* The pipeline rests after the last frame.
CHECK_DEADLOCK FALSE
