SPECIFICATION Spec
CONSTANTS
  N = 128
  SF = 7
  OS = 4
  PreambleLen = 5
  ImplHead = FALSE
  Ldro = FALSE
  Policy = "None"
  InitialNetIds <- MCNetIds
  UpBins <- MCUpBins
  DownBins <- MCDownBins
  IdBins <- MCOffByOne
  InputSizes <- MCInputSizes
  OutputSizes <- MCOutputSizes
  HeaderMsgs <- MCBadHeader
  MaxFrames = 1
INVARIANTS NeverConsumesNegative
\* A panic ends the task.
CHECK_DEADLOCK FALSE
