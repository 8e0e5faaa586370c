SPECIFICATION ChainSpec
CONSTANTS
  N = 32
  SF = 5
  OS = 1
  PreambleLen = 5
  ImplHead = FALSE
  Ldro = FALSE
  Policy = "PayloadCrcOk"
  InitialNetIds <- MCNetIds
  UpBins <- MCUpBins
  DownBins <- MCDownBins
  IdBins <- MCIdBins
  InputSizes <- MCInputSizes
  OutputSizes <- MCOutputSizes
  HeaderMsgs <- MCBadOrLong
  MaxFrames = 2
  MaxRetunes = 0
INVARIANTS CacheIsVouched
