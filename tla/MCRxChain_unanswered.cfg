SPECIFICATION FairChainSpec
CONSTANTS
  N = 512
  SF = 9
  OS = 1
  PreambleLen = 5
  ImplHead = FALSE
  Ldro = FALSE
  Policy = "None"
  InitialNetIds <- MCNetIds
  UpBins <- MCUpBins
  DownBins <- MCDownBins
  IdBins <- MCExactId
  InputSizes <- MCInputSizes
  OutputSizes <- MCOutputSizes
  HeaderMsgs <- MCOnlyShort
  MaxFrames = 2
  MaxRetunes = 0
PROPERTIES HeaderIsAnswered
\* The receive chain really stops.
CHECK_DEADLOCK FALSE
