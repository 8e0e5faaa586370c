---------------------------- MODULE PayloadCodec ----------------------------
(***************************************************************************)
(* The payload: whitening() and crc() of the Encoder (src/encoder.rs) and  *)
(* decode() of the Decoder (src/decoder.rs).  On the way some of the       *)
(* nibbles may change.                                                     *)
(*                                                                         *)
(* A nibble, a byte or a CRC is the set of its bits that are one, the      *)
(* least significant being 0, so that XOR is the symmetric difference.     *)
(***************************************************************************)
EXTENDS Integers, Sequences

CONSTANTS
  PayloadBytes,     (* bytes that payloads are made of                     *)
  PayloadLens,      (* lengths of payloads                                 *)
  NibbleErrors      (* what can be XORed to each of two nibbles in a row   *)

Nibble == SUBSET (0 .. 3)
Byte == SUBSET (0 .. 7)

WHITENING_SEQ ==
  <<255, 254, 252, 248, 240, 225, 194, 133, 11, 23, 47, 94, 188, 120, 241, 227, 198, 141,
    26, 52, 104, 208, 160, 64, 128, 1, 2, 4, 8, 17, 35, 71, 142, 28, 56, 113, 226, 196,
    137, 18, 37, 75, 151, 46, 92, 184, 112, 224, 192, 129, 3, 6, 12, 25, 50, 100, 201, 146,
    36, 73, 147, 38, 77, 155, 55, 110, 220, 185, 114, 228, 200, 144, 32, 65, 130, 5, 10,
    21, 43, 86, 173, 91, 182, 109, 218, 181, 107, 214, 172, 89, 178, 101, 203, 150, 44, 88,
    176, 97, 195, 135, 15, 31, 62, 125, 251, 246, 237, 219, 183, 111, 222, 189, 122, 245,
    235, 215, 174, 93, 186, 116, 232, 209, 162, 68, 136, 16, 33, 67, 134, 13, 27, 54, 108,
    216, 177, 99, 199, 143, 30, 60, 121, 243, 231, 206, 156, 57, 115, 230, 204, 152, 49,
    98, 197, 139, 22, 45, 90, 180, 105, 210, 164, 72, 145, 34, 69, 138, 20, 41, 82, 165,
    74, 149, 42, 84, 169, 83, 167, 78, 157, 59, 119, 238, 221, 187, 118, 236, 217, 179,
    103, 207, 158, 61, 123, 247, 239, 223, 191, 126, 253, 250, 244, 233, 211, 166, 76, 153,
    51, 102, 205, 154, 53, 106, 212, 168, 81, 163, 70, 140, 24, 48, 96, 193, 131, 7, 14,
    29, 58, 117, 234, 213, 170, 85, 171, 87, 175, 95, 190, 124, 249, 242, 229, 202, 148,
    40, 80, 161, 66, 132, 9, 19, 39, 79, 159, 63, 127>>

VARIABLES
  stage,            (* "encode", "air", "decode" or "decoded"              *)
  payload,          (* the payload                                         *)
  nibbles,          (* whitened payload and CRC                            *)
  errors,           (* what changed on the way                             *)
  dewhitened,       (* bytes the Decoder makes of it, with the CRC         *)
  crc_valid         (* the result it reports                               *)

payloadVars == <<stage, payload, nibbles, errors, dewhitened, crc_valid>>

(***************************************************************************)
(* Operations on bits.                                                     *)
(***************************************************************************)
Xor(a, b) == (a \ b) \cup (b \ a)
Up(bits, n) == {k + n : k \in bits}

\* One of the nibbles of a word, from the lowest, and a byte of two nibbles.
NibbleOf(word, n) == {k \in 0 .. 3 : k + 4 * n \in word}
Join(low, high) == low \cup Up(high, 4)

WhiteningByte(i) == {k \in 0 .. 7 : (WHITENING_SEQ[i] \div 2^k) % 2 = 1}

\* crc16, of which both sides have a copy: the register after one bit of a byte, after
\* the byte and after all bytes.
ShiftBit(crc, byte, k) ==
  LET shifted == Up(crc \ {15}, 1)
  IN  IF (15 \in crc) # (k \in byte) THEN Xor(shifted, {0, 5, 12}) ELSE shifted
ShiftByte(crc, byte) ==
  LET s(c, k) == ShiftBit(c, byte, k)
  IN  s(s(s(s(s(s(s(s(crc, 7), 6), 5), 4), 3), 2), 1), 0)
Crc16(bytes) ==
  LET crc[n \in 0 .. Len(bytes)] == IF n = 0 THEN {} ELSE ShiftByte(crc[n - 1], bytes[n])
  IN  crc[Len(bytes)]

\* The last two bytes are not shifted in but XORed.  The variant leaves them out.
PayloadCrcShort(bytes) == Crc16(SubSeq(bytes, 1, Len(bytes) - 2))

PayloadCrc(bytes) ==
  LET len == Len(bytes)
  IN  Xor(Crc16(SubSeq(bytes, 1, len - 2)), bytes[len] \cup Up(bytes[len - 1], 8))

(***************************************************************************)
(* The two sides, and the air between them.                                *)
(***************************************************************************)
EncodePayload ==
  LET white(i) == Xor(payload[i], WhiteningByte(i))
      crc == PayloadCrc(payload)
  IN  /\ stage = "encode"
      /\ stage' = "air"
      /\ nibbles' = [i \in 1 .. 2 * Len(payload) |->
                       NibbleOf(white((i + 1) \div 2), IF i % 2 = 1 THEN 0 ELSE 1)]
                    \o <<NibbleOf(crc, 0), NibbleOf(crc, 1), NibbleOf(crc, 2), NibbleOf(crc, 3)>>
      /\ UNCHANGED <<payload, errors, dewhitened, crc_valid>>

Transfer ==
  /\ stage = "air"
  /\ stage' = "decode"
  /\ \E i \in 1 .. Len(nibbles) - 1, e1, e2 \in NibbleErrors :
       /\ errors' = <<e1, e2>>
       /\ nibbles' = [nibbles EXCEPT ![i] = Xor(@, e1), ![i + 1] = Xor(@, e2)]
  /\ UNCHANGED <<payload, dewhitened, crc_valid>>

\* The nibbles of the payload are dewhitened, those of the CRC are not.  The
\* variant dewhitens both.
DecodePayloadAll ==
  /\ stage = "decode"
  /\ stage' = "decoded"
  /\ LET n == Len(nibbles) \div 2 - 2
         byte(i) == Join(nibbles[2 * i - 1], nibbles[2 * i])
     IN  /\ dewhitened' = [i \in 1 .. n + 2 |-> Xor(byte(i), WhiteningByte(i))]
         /\ crc_valid' = (dewhitened'[n + 1] \cup Up(dewhitened'[n + 2], 8)
                            = PayloadCrc(SubSeq(dewhitened', 1, n)))
  /\ UNCHANGED <<payload, nibbles, errors>>

DecodePayload ==
  /\ stage = "decode"
  /\ stage' = "decoded"
  /\ LET n == Len(nibbles) \div 2 - 2
         byte(i) == Join(nibbles[2 * i - 1], nibbles[2 * i])
         seq(i) == IF i <= n THEN WhiteningByte(i) ELSE {}
     IN  /\ dewhitened' = [i \in 1 .. n + 2 |-> Xor(byte(i), seq(i))]
         /\ crc_valid' = (dewhitened'[n + 1] \cup Up(dewhitened'[n + 2], 8)
                            = PayloadCrc(SubSeq(dewhitened', 1, n)))
  /\ UNCHANGED <<payload, nibbles, errors>>

Init ==
  /\ stage = "encode"
  /\ payload \in UNION {[1 .. len -> PayloadBytes] : len \in PayloadLens}
  /\ nibbles = <<>> /\ errors = <<{}, {}>> /\ dewhitened = <<>> /\ crc_valid = FALSE

Next == EncodePayload \/ Transfer \/ DecodePayload
Spec == Init /\ [][Next]_payloadVars

(***************************************************************************)
(* Properties.                                                             *)
(***************************************************************************)
\* The two implementations of whitening and CRC agree: an undisturbed payload
\* passes, and comes out as it went in.
IntactPayloadPasses ==
  stage = "decoded" /\ errors = <<{}, {}>> =>
    crc_valid /\ SubSeq(dewhitened, 1, Len(payload)) = payload

\* Two codewords in a row that the Hamming decoder got wrong never pass, wherever
\* they are: not in the payload, not in the last two bytes, which are treated
\* in another way, and not across the border to the CRC.
WrongNibblesFail == stage = "decoded" /\ errors # <<{}, {}>> => ~crc_valid

=============================================================================
