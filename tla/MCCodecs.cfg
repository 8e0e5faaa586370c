SPECIFICATION CodecsSpec
CONSTANTS
  SF = 7
  ImplHead = FALSE
  Ldro = FALSE
  Payloads <- MCPayloads
  Blocks <- MCBlocks
  BinErrors <- MCBinErrors
  PayLens <- MCPayLens
  MaxFlips = 2
  PayloadBytes <- MCPayloadBytes
  PayloadLens = {2, 3, 4}
  NibbleErrors <- MCNibbleErrors
INVARIANTS TypeOK NeverCutsFrame PayloadTagHasSymbol
INVARIANTS BlockTypeOK HardBlocksSurvive SoftBlocksSurvive NextBinHitsOneWord
INVARIANTS NoWrongHeader GoodHeaderAccepted
INVARIANTS IntactPayloadPasses WrongNibblesFail
INVARIANTS NodeCanTalk SlotsFillBand NeedsWideSlot
\* The end of each computation.
CHECK_DEADLOCK FALSE
