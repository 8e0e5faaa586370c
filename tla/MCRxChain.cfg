SPECIFICATION ChainSpec
CONSTANTS
  N = 512
  SF = 9
  OS = 1
  PreambleLen = 5
  ImplHead = FALSE
  Ldro = FALSE
  Policy = "HeaderCrcOk"
  InitialNetIds <- MCNetIds
  UpBins <- MCUpBins
  DownBins <- MCDownBins
  IdBins <- MCIdBins
  InputSizes <- MCInputSizes
  OutputSizes <- MCOutputSizes
  HeaderMsgs <- MCBadTwoOrLong
  MaxFrames = 2
  MaxRetunes = 1
INVARIANTS AnswerIsForWaitingFrame TagChannelNotFull OneTagPerSymbol FramesAreWhole CacheIsVouched
PROPERTIES DeliversInOrder
\* A retuned receiver can stop: two tags on one sample.
CHECK_DEADLOCK FALSE
