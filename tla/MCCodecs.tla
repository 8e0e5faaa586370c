------------------------------ MODULE MCCodecs ------------------------------
(***************************************************************************)
(* Instance of Codecs for TLC.                                             *)
(***************************************************************************)
EXTENDS Codecs

\* Every short payload, and the ends of the whitening sequence.
MCPayloads == [pay_len : (0 .. 24) \cup (253 .. 257), cr : CodeRates, crc : BOOLEAN]

\* Blocks of equal nibbles but for one, which takes every value.
MCBlocks ==
  {[k \in 1 .. len |-> IF k = pos THEN nibble ELSE 13] :
     len \in {SF, SF - 2}, pos \in {1, 4}, nibble \in 0 .. 15}
MCBinErrors == {-1, 0, 1, 3, 90}

\* Both ends, and lengths that use every bit of both nibbles.
MCPayLens == {0, 1, 22, 105, 255}

\* From no byte in the CRC register to two; nothing wrong, single bits, several.
MCPayloadBytes == {{}, {1, 3, 4, 6}, 0 .. 7}
MCNibbleErrors == {{}, {0}, {1}, {3}, {0, 1, 3}, 0 .. 3}

=============================================================================
