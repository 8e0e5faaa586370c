----------------------------- MODULE MCRxChain -----------------------------
(***************************************************************************)
(* Instances of RxChain for TLC.                                           *)
(***************************************************************************)
EXTENDS RxChain

\* One preamble bin, no CFO.
MCUpBins == {N \div 2}
MCDownBins == {0}

\* Net ids 8 and 16, the latter with an offset, so that unequal offsets occur.
MCIdBins == {8, 17}
\* ... and a bin whose low byte is net id 8, as there are from SF9 on.
MCWideIdBins == {8, 17, 264}
MCNetIds == {<<8, 8>>}

MCInputSizes == {4 * SPS}
\* Room for more than the symbol that is sent, as the buffers have.
MCOutputSizes == {2 * N}

MCBad == [err |-> TRUE, cr |-> 1, pay_len |-> 0, crc |-> FALSE, frame |-> 0]
MCShort == [err |-> FALSE, cr |-> 1, pay_len |-> 1, crc |-> FALSE, frame |-> 0]
MCShortCrc == [err |-> FALSE, cr |-> 1, pay_len |-> 1, crc |-> TRUE, frame |-> 0]
MCLongCrc == [err |-> FALSE, cr |-> 1, pay_len |-> 2, crc |-> TRUE, frame |-> 0]
MCTwoBytes == [err |-> FALSE, cr |-> 1, pay_len |-> 2, crc |-> FALSE, frame |-> 0]
MCBadTwoOrLong == {MCBad, MCTwoBytes, MCLongCrc}
MCBadOrCrc == {MCBad, MCShortCrc, MCLongCrc}
MCBadOrLong == {MCBad, MCLongCrc}
MCOnlyShort == {MCShort}

\* Only net ids without an offset, so that every preamble is a frame or noise.
MCExactId == {8}

=============================================================================
