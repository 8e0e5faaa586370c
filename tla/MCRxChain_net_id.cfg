SPECIFICATION ChainSpec
CONSTANTS
  N = 512
  SF = 9
  OS = 1
  PreambleLen = 5
  ImplHead = FALSE
  Ldro = FALSE
  Policy = "HeaderCrcOk"
  InitialNetIds <- MCNetIds
  UpBins <- MCUpBins
  DownBins <- MCDownBins
  IdBins <- MCWideIdBins
  InputSizes <- MCInputSizes
  OutputSizes <- MCOutputSizes
  HeaderMsgs <- MCBadOrLong
  MaxFrames = 1
  MaxRetunes = 0
INVARIANTS NeverPanics
\* A panic ends the task.
CHECK_DEADLOCK FALSE
