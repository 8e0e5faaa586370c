----------------------------- MODULE HeaderCodec -----------------------------
(***************************************************************************)
(* The explicit header: header() of the Encoder (src/encoder.rs) and the   *)
(* part of the HeaderDecoder (src/header_decoder.rs) that takes it apart   *)
(* again.  On the way some of its bits may flip.                           *)
(***************************************************************************)
EXTENDS Integers, FiniteSetsExt, Sequences

CONSTANTS
  PayLens,      (* payload lengths in bytes                                *)
  MaxFlips      (* bound: bits that flip                                   *)

CodeRates == 1 .. 4

VARIABLES
  stage,        (* "encode", "air", "decode" or "decoded"                  *)
  header,       (* what the transmitter says                               *)
  nibbles,      (* the five nibbles of the header                          *)
  flips,        (* the bits that flipped: nibble and value of the bit      *)
  info          (* what the receiver makes of it: frame_info               *)

headerVars == <<stage, header, nibbles, flips, info>>

Bit(nibs, i, weight) == (nibs[i] \div weight) % 2

\* The five bits of the checksum.  The variant leaves out the last bit of c1.
c4(nibs) == (Bit(nibs, 1, 8) + Bit(nibs, 1, 4) + Bit(nibs, 1, 2) + Bit(nibs, 1, 1)) % 2
c3(nibs) == (Bit(nibs, 1, 8) + Bit(nibs, 2, 8) + Bit(nibs, 2, 4) + Bit(nibs, 2, 2)
               + Bit(nibs, 3, 1)) % 2
c2(nibs) == (Bit(nibs, 1, 4) + Bit(nibs, 2, 8) + Bit(nibs, 2, 1) + Bit(nibs, 3, 8)
               + Bit(nibs, 3, 2)) % 2
c1Short(nibs) == (Bit(nibs, 1, 2) + Bit(nibs, 2, 4) + Bit(nibs, 2, 1) + Bit(nibs, 3, 4)
                    + Bit(nibs, 3, 2)) % 2
c1(nibs) == (Bit(nibs, 1, 2) + Bit(nibs, 2, 4) + Bit(nibs, 2, 1) + Bit(nibs, 3, 4)
               + Bit(nibs, 3, 2) + Bit(nibs, 3, 1)) % 2
c0(nibs) == (Bit(nibs, 1, 1) + Bit(nibs, 2, 2) + Bit(nibs, 3, 8) + Bit(nibs, 3, 4)
               + Bit(nibs, 3, 2) + Bit(nibs, 3, 1)) % 2
Checksum(nibs) == <<c4(nibs), c3(nibs), c2(nibs), c1(nibs), c0(nibs)>>

EncodeHeader ==
  LET data == <<header.pay_len \div 16, header.pay_len % 16,
                2 * header.cr + (IF header.crc THEN 1 ELSE 0)>>
      c == Checksum(data)
  IN  /\ stage = "encode"
      /\ stage' = "air"
      /\ nibbles' = data \o <<c[1], 8 * c[2] + 4 * c[3] + 2 * c[4] + c[5]>>
      /\ UNCHANGED <<header, flips, info>>

\* What the Hamming decoder gets wrong.
Flipped(i) ==
  LET bit(w) == IF <<i, w>> \in flips' THEN 1 - Bit(nibbles, i, w) ELSE Bit(nibbles, i, w)
  IN  8 * bit(8) + 4 * bit(4) + 2 * bit(2) + bit(1)

Transfer ==
  /\ stage = "air"
  /\ stage' = "decode"
  /\ \E n \in 0 .. MaxFlips : flips' \in kSubset(n, (1 .. 5) \X {1, 2, 4, 8})
  /\ nibbles' = [i \in 1 .. 5 |-> Flipped(i)]
  /\ UNCHANGED <<header, info>>

\* Three bits of the fourth nibble are not looked at.  The variant refuses one
\* code rate more.
DecodeHeaderStrict ==
  LET header_chk == <<Bit(nibbles, 4, 1), Bit(nibbles, 5, 8), Bit(nibbles, 5, 4),
                      Bit(nibbles, 5, 2), Bit(nibbles, 5, 1)>>
      pay_len    == 16 * nibbles[1] + nibbles[2]
      code_rate  == nibbles[3] \div 2
  IN  /\ stage = "decode"
      /\ stage' = "decoded"
      /\ info' = [pay_len |-> pay_len, cr |-> code_rate, crc |-> nibbles[3] % 2 = 1,
                  err |-> header_chk # Checksum(nibbles) \/ pay_len = 0 \/ code_rate >= 3]
      /\ UNCHANGED <<header, nibbles, flips>>

DecodeHeader ==
  LET header_chk == <<Bit(nibbles, 4, 1), Bit(nibbles, 5, 8), Bit(nibbles, 5, 4),
                      Bit(nibbles, 5, 2), Bit(nibbles, 5, 1)>>
      pay_len    == 16 * nibbles[1] + nibbles[2]
      code_rate  == nibbles[3] \div 2
  IN  /\ stage = "decode"
      /\ stage' = "decoded"
      /\ info' = [pay_len |-> pay_len, cr |-> code_rate, crc |-> nibbles[3] % 2 = 1,
                  err |-> header_chk # Checksum(nibbles) \/ pay_len = 0 \/ code_rate > 3]
      /\ UNCHANGED <<header, nibbles, flips>>

Init ==
  /\ stage = "encode"
  /\ header \in [pay_len : PayLens, cr : CodeRates, crc : BOOLEAN]
  /\ nibbles = <<>> /\ flips = {}
  /\ info = [pay_len |-> 0, cr |-> 0, crc |-> FALSE, err |-> FALSE]

Next == EncodeHeader \/ Transfer \/ DecodeHeader
Spec == Init /\ [][Next]_headerVars

(***************************************************************************)
(* Properties.                                                             *)
(***************************************************************************)
Decoded(info_or_header) ==
  <<info_or_header.pay_len, info_or_header.cr, info_or_header.crc>>

\* A header with at most two wrong bits is either refused or, when the bits are
\* ones nobody looks at, read as it was sent: FrameSync never takes a wrong
\* length or code rate from it.
NoWrongHeader == stage = "decoded" /\ ~info.err => Decoded(info) = Decoded(header)

\* A header that arrives undisturbed is accepted if its payload is not empty and its
\* code rate no more than 4/7, and only then: checksum and layout agree on the two
\* sides, where the code has a copy each, but the range of code rates does not.  No
\* frame that the Encoder sends with 4/8, the default for SF5 and SF6 and the rate of
\* the preset LongModerate, is ever received.
GoodHeaderAccepted ==
  stage = "decoded" /\ flips = {} => (~info.err <=> header.pay_len > 0 /\ header.cr < 4)

=============================================================================
