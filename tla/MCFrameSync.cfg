SPECIFICATION Spec
CONSTANTS
  N = 32
  SF = 5
  OS = 2
  PreambleLen = 5
  ImplHead = FALSE
  Ldro = FALSE
  Policy = "Seen"
  InitialNetIds <- MCNetIds
  UpBins <- MCUpBins
  DownBins <- MCDownBins
  IdBins <- MCIdBins
  InputSizes <- MCInputSizes
  OutputSizes <- MCOutputSizes
  HeaderMsgs <- MCHeaderMsgs
  MaxFrames = 1
INVARIANTS TypeOK CounterFitsState SlicesInBounds StepFitsInput
\* A panic ends the task: the environment sends good headers until the tag
\* channel is full.
CHECK_DEADLOCK FALSE
