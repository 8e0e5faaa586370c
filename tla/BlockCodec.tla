----------------------------- MODULE BlockCodec -----------------------------
(***************************************************************************)
(* One interleaver block on its way through the codec: hamming_encode(),   *)
(* interleave() and gray_demap() of the Encoder (src/encoder.rs), the air, *)
(* and FftDemod, GrayMapping, Deinterleaver and HammingDecoder on the      *)
(* other side.  On the air one symbol may end up in another bin.           *)
(*                                                                         *)
(* The energy of a symbol is in a single bin, so with soft decoding every  *)
(* bit has the same likelihood ratio but for its sign.                     *)
(***************************************************************************)
EXTENDS FrameShape, Sequences, FiniteSets

CONSTANTS
  Blocks,           (* contents of blocks: sequences of nibbles            *)
  BinErrors         (* by how many bins a symbol can be off                *)

CodeRates == 1 .. 4

VARIABLES
  stage,       (* the next thing to happen to the block                    *)
  is_header,   (* the first block of a frame, which uses code rate 4/8     *)
  cr,          (* code rate of the block                                   *)
  nibbles,     (* what is sent                                             *)
  words,       (* codewords, as bits                                       *)
  rows,        (* symbols as bits                                          *)
  symbols,     (* symbols as bins                                          *)
  bin_error,   (* what happened to one of them on the air                  *)
  hard, soft   (* what the two decoders make of the block                  *)

blockVars == <<is_header, cr, nibbles>>
codecVars == <<stage, blockVars, words, rows, symbols, bin_error, hard, soft>>

Pass(from, to) == stage = from /\ stage' = to /\ UNCHANGED blockVars

(***************************************************************************)
(* Conversions.                                                            *)
(***************************************************************************)
PowersOfTwo == <<1, 2, 4, 8, 16, 32, 64, 128, 256, 512, 1024, 2048, 4096>>
Pow2(k) == PowersOfTwo[k + 1]

\* int2bool: the most significant bit first.
Bits(x, n) == [i \in 1 .. n |-> (x \div Pow2(n - i)) % 2]

\* The XOR of the bits.
Parity(bits) ==
  LET p[k \in 0 .. Len(bits)] == IF k = 0 THEN 0 ELSE (p[k - 1] + bits[k]) % 2
  IN  p[Len(bits)]

\* A number XOR all its shifts: every bit is the XOR of those above it and its own.
UndoGray(bits) ==
  LET v[k \in 0 .. Len(bits)] ==
        IF k = 0 THEN 0 ELSE 2 * v[k - 1] + ((v[k - 1] + bits[k]) % 2)
  IN  v[Len(bits)]

SfBits == SfApp(is_header)
Reduced == SfBits < SF

(***************************************************************************)
(* Encoder.                                                                *)
(***************************************************************************)
\* The data bits, least significant first, and as many parity bits as the rate asks for.
HammingWord(nibble) ==
  LET d(i) == (nibble \div Pow2(i - 1)) % 2
      full == <<d(1), d(2), d(3), d(4), (d(1) + d(2) + d(3)) % 2, (d(2) + d(3) + d(4)) % 2,
                (d(1) + d(2) + d(4)) % 2, (d(1) + d(3) + d(4)) % 2>>
  IN  [i \in 1 .. (4 + cr) |->
         IF cr = 1 /\ i = 5 THEN (d(1) + d(2) + d(3) + d(4)) % 2 ELSE full[i]]

HammingEncode ==
  /\ Pass("hamming_encode", "interleave")
  /\ words' = [k \in DOMAIN nibbles |-> HammingWord(nibbles[k])]
  /\ UNCHANGED <<rows, symbols, bin_error, hard, soft>>

\* The codeword that bit j of symbol i belongs to.
WordOf(i, j) == ((i - j - 1) % SfBits) + 1

\* With a reduced rate a parity bit and a zero fill the symbol up.
InterleaveBits ==
  /\ Pass("interleave", "gray_demap")
  /\ rows' = [i \in 1 .. CwLen(is_header, cr) |->
                LET row == [j \in 1 .. SfBits |-> words[WordOf(i, j)][i]]
                IN  [j \in 1 .. SF |-> CASE j <= SfBits -> row[j]
                                         [] j = SfBits + 1 -> Parity(row)
                                         [] j > SfBits + 1 -> 0]]
  /\ UNCHANGED <<words, symbols, bin_error, hard, soft>>

\* The variant does not wrap around.
GrayDemapNoWrap ==
  /\ Pass("gray_demap", "air")
  /\ symbols' = [i \in DOMAIN rows |-> UndoGray(rows[i]) + 1]
  /\ UNCHANGED <<words, rows, bin_error, hard, soft>>

GrayDemap ==
  /\ Pass("gray_demap", "air")
  /\ symbols' = [i \in DOMAIN rows |-> (UndoGray(rows[i]) + 1) % Pow2(SF)]
  /\ UNCHANGED <<words, rows, bin_error, hard, soft>>

Transmit ==
  /\ Pass("air", "demodulate")
  /\ \E i \in DOMAIN symbols, e \in BinErrors :
       /\ symbols' = [symbols EXCEPT ![i] = (@ + e) % Pow2(SF)]
       /\ bin_error' = e
  /\ UNCHANGED <<words, rows, hard, soft>>

(***************************************************************************)
(* Receiver.                                                               *)
(***************************************************************************)
\* val ^ (val >> 1): each bit with the one above it.  The variant is for symbols
\* that were not Gray coded.
GrayPlain(val) == Bits(val, SfBits)
Gray(val) ==
  LET b == Bits(val, SfBits)
  IN  [j \in 1 .. SfBits |-> IF j = 1 THEN b[1] ELSE (b[j] + b[j - 1]) % 2]

\* FftDemod and GrayMapping.  The variant forgets that bins are one too high.
DemodulatedBitsUnshifted(bin) == Gray(bin \div (IF Reduced THEN 4 ELSE 1))
DemodulatedBits(bin) == Gray(((bin - 1) % Pow2(SF)) \div (IF Reduced THEN 4 ELSE 1))

Demodulate ==
  /\ Pass("demodulate", "deinterleave")
  /\ rows' = [i \in DOMAIN symbols |-> DemodulatedBits(symbols[i])]
  /\ UNCHANGED <<words, symbols, bin_error, hard, soft>>

DeinterleaveBits ==
  /\ Pass("deinterleave", "decode")
  /\ words' = [k \in 1 .. SfBits |->
                 [i \in DOMAIN rows |-> rows[i][CHOOSE j \in 1 .. SfBits : WordOf(i, j) = k]]]
  /\ UNCHANGED <<rows, symbols, bin_error, hard, soft>>

\* Hard decisions are only corrected with code rate 4/7.  The variant has two
\* syndromes the wrong way round.
HardNibbleSwapped(word) ==
  LET syndrome == ((word[1] + word[2] + word[3] + word[5]) % 2)
                    + 2 * ((word[2] + word[3] + word[4] + word[6]) % 2)
                    + 4 * ((word[1] + word[2] + word[4] + word[7]) % 2)
      wrong == CASE syndrome = 5 -> 1 [] syndrome = 7 -> 2
                 [] syndrome = 6 -> 3 [] syndrome = 3 -> 4 [] OTHER -> 0
      d(i) == IF cr = 3 /\ i = wrong THEN 1 - word[i] ELSE word[i]
  IN  8 * d(4) + 4 * d(3) + 2 * d(2) + d(1)

HardNibble(word) ==
  LET syndrome == ((word[1] + word[2] + word[3] + word[5]) % 2)
                    + 2 * ((word[2] + word[3] + word[4] + word[6]) % 2)
                    + 4 * ((word[1] + word[2] + word[4] + word[7]) % 2)
      wrong == CASE syndrome = 5 -> 1 [] syndrome = 7 -> 2
                 [] syndrome = 3 -> 3 [] syndrome = 6 -> 4 [] OTHER -> 0
      d(i) == IF cr = 3 /\ i = wrong THEN 1 - word[i] ELSE word[i]
  IN  8 * d(4) + 4 * d(3) + 2 * d(2) + d(1)

CW_LUT == <<0, 23, 45, 58, 78, 89, 99, 116, 139, 156, 166, 177, 197, 210, 232, 255>>
CW_LUT_CR5 == <<0, 24, 40, 48, 72, 80, 96, 120, 136, 144, 160, 184, 192, 216, 232, 240>>

\* The codeword that agrees with most bits, the last of them if there are more.
SoftNibble(word) ==
  LET lut == IF cr = 1 THEN CW_LUT_CR5 ELSE CW_LUT
      proba == [n \in 1 .. 16 |->
                  Cardinality({j \in DOMAIN word : Bits(lut[n], 8)[j] = word[j]})]
      idx_max == CHOOSE n \in 1 .. 16 :
                   \A m \in 1 .. 16 : proba[m] < proba[n] \/ (proba[m] = proba[n] /\ m <= n)
      d == Bits(CW_LUT[idx_max], 8)
  IN  8 * d[4] + 4 * d[3] + 2 * d[2] + d[1]

Decode ==
  /\ Pass("decode", "decoded")
  /\ hard' = [k \in DOMAIN words |-> HardNibble(words[k])]
  /\ soft' = [k \in DOMAIN words |-> SoftNibble(words[k])]
  /\ UNCHANGED <<words, rows, symbols, bin_error>>

(***************************************************************************)
(* One block.                                                              *)
(***************************************************************************)
Init ==
  /\ stage = "hamming_encode"
  /\ is_header \in BOOLEAN
  /\ cr \in (IF is_header THEN {4} ELSE CodeRates)
  /\ nibbles \in {block \in Blocks : Len(block) = SfBits}
  /\ words = <<>> /\ rows = <<>> /\ symbols = <<>> /\ hard = <<>> /\ soft = <<>>
  /\ bin_error = 0

Next ==
  \/ HammingEncode \/ InterleaveBits \/ GrayDemap
  \/ Transmit
  \/ Demodulate \/ DeinterleaveBits \/ Decode

Spec == Init /\ [][Next]_codecVars

(***************************************************************************)
(* Properties.                                                             *)
(***************************************************************************)
TypeOK ==
  /\ {hard, soft} \subseteq {<<>>} \cup [1 .. SfBits -> 0 .. 15]
  /\ \A k \in DOMAIN words : Len(words[k]) = CwLen(is_header, cr)
  /\ \A i \in DOMAIN symbols : symbols[i] \in 0 .. (Pow2(SF) - 1)

\* What the decoders can cope with: a reduced rate leaves room for up to three
\* bins above; apart from that one wrong symbol, however wrong it is, costs no
\* codeword more than one bit, which soft decoding corrects from code rate 4/7 on
\* and hard decoding with 4/7 only.
HardCopes == bin_error \in (IF Reduced THEN 0 .. 3 ELSE {0}) \/ cr = 3
SoftCopes == bin_error \in (IF Reduced THEN 0 .. 3 ELSE {0}) \/ cr \in {3, 4}

\* The receiver's four blocks undo what three functions of the encoder do, each
\* written from the other side with index arithmetic and a table of its own, and
\* both decoders get a block right that is disturbed no more than they can cope with.
HardBlocksSurvive == stage = "decoded" /\ HardCopes => hard = nibbles
SoftBlocksSurvive == stage = "decoded" /\ SoftCopes => soft = nibbles

\* What the Gray code is for: a symbol that ends up in the next bin, around the
\* ends too, spoils no more than one bit of one codeword.
NextBinHitsOneWord ==
  LET spoiled == {x \in (1 .. SfBits) \X (1 .. CwLen(is_header, cr)) :
                    words[x[1]][x[2]] # HammingWord(nibbles[x[1]])[x[2]]}
  IN  stage = "decode" /\ bin_error \in {-1, 1} => \A x, y \in spoiled : x = y

=============================================================================
