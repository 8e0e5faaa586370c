SPECIFICATION FairChainSpec
CONSTANTS
  N = 32
  SF = 5
  OS = 1
  PreambleLen = 5
  ImplHead = FALSE
  Ldro = FALSE
  Policy = "None"
  InitialNetIds <- MCNetIds
  UpBins <- MCUpBins
  DownBins <- MCDownBins
  IdBins <- MCExactId
  InputSizes <- MCInputSizes
  OutputSizes <- MCOutputSizes
  HeaderMsgs <- MCBadOrCrc
  MaxFrames = 2
  MaxRetunes = 0
PROPERTIES HeaderIsAnswered AcceptedIsPosted
