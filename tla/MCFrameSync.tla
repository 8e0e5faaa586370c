---------------------------- MODULE MCFrameSync ----------------------------
(***************************************************************************)
(* Instances of FrameSync for TLC.                                         *)
(***************************************************************************)
EXTENDS FrameSync

\* N - 1 counts as one more upchirp, N / 2 does not.
MCUpBins == {N \div 2, N - 1}

\* Both ends of the CFO range.
MCDownBins == {N \div 2 - 1, N \div 2}

\* Net id 8 with the offsets -1 and 3, and the undecidable offset 4.
MCIdBins == {7, 11, 12}

\* Net id 8 with the offsets -1 and 1, which need no known net id.
MCOffByOne == {7, 9}

MCNetIds == {<<8, 8>>}

\* Exactly what the quarter downchirp asks for, and two symbols less.
MCInputSizes ==
  LET least == LargerOf(SPS \div 4 + OS * (N \div 2 + 4) + 2, SPS + 4)
  IN  IF SF < 7 THEN {least, least + 2 * SPS} ELSE {least, 2 * SPS + OS}
MCOutputSizes == {N}

MCHeaderMsgs ==
  {[err |-> TRUE, cr |-> 1, pay_len |-> 1, crc |-> FALSE, frame |-> 0],
   [err |-> FALSE, cr |-> 1, pay_len |-> 1, crc |-> TRUE, frame |-> 0]}
MCBadHeader == {m \in MCHeaderMsgs : m.err}

=============================================================================
