------------------------ MODULE PayloadCodec_proofs ------------------------
(***************************************************************************)
(* Proofs about the payload: what the CRC finds.  XOR is linear, and so is *)
(* the CRC: the difference of two registers goes on as if the bytes were   *)
(* the differences of the bytes.                                           *)
(***************************************************************************)
EXTENDS PayloadCodec, SequenceTheorems, WellFoundedInduction, TLAPS

Word == SUBSET (0 .. 15)

(***************************************************************************)
(* XOR.                                                                    *)
(***************************************************************************)
LEMMA XorMember ==
  ASSUME NEW a, NEW b, NEW k
  PROVE  k \in Xor(a, b) <=> ~(k \in a <=> k \in b)
  BY DEF Xor

LEMMA XorAlgebra ==
  ASSUME NEW a, NEW b
  PROVE  /\ Xor(a, b) = Xor(b, a) /\ Xor(Xor(a, b), b) = a /\ Xor(a, {}) = a /\ Xor(a, a) = {}
         /\ Xor(a, b) = {} <=> a = b
  BY DEF Xor

LEMMA XorType ==
  ASSUME NEW a, NEW b, NEW S, a \subseteq S, b \subseteq S
  PROVE  Xor(a, b) \subseteq S
  BY DEF Xor

LEMMA XorWord ==
  ASSUME NEW a \in Word, NEW b \in Word
  PROVE  Xor(a, b) \in Word
  BY DEF Xor, Word

LEMMA XorByte ==
  ASSUME NEW a \in Byte, NEW b \in Byte
  PROVE  Xor(a, b) \in Byte
  BY DEF Xor, Byte

LEMMA XorNibble ==
  ASSUME NEW a \in Nibble, NEW b \in Nibble
  PROVE  Xor(a, b) \in Nibble
  BY DEF Xor, Nibble

(***************************************************************************)
(* One bit of the CRC.                                                     *)
(***************************************************************************)
LEMMA ShiftBitMember ==
  ASSUME NEW x \in Word, NEW b, NEW k
  PROVE  /\ ShiftBit(x, b, k) \in Word
         /\ \A j \in 0 .. 15 :
              j \in ShiftBit(x, b, k) <=>
                ~(j - 1 \in x <=> (j \in {0, 5, 12} /\ ~(15 \in x <=> k \in b)))
<1> DEFINE shifted == Up(x \ {15}, 1)
<1>1. shifted \subseteq 0 .. 15 /\ \A j \in 0 .. 15 : j \in shifted <=> j - 1 \in x
  <2>1. \A j \in x \ {15} : j + 1 \in 1 .. 15
    BY DEF Word
  <2>2. ASSUME NEW j \in 0 .. 15, j - 1 \in x PROVE j \in shifted
    <3>1. j - 1 \in x \ {15} /\ (j - 1) + 1 = j
      BY <2>2
    <3> QED
      BY <3>1 DEF Up
  <2>3. ASSUME NEW j \in 0 .. 15, j \in shifted PROVE j - 1 \in x
    <3>1. PICK i \in x \ {15} : j = i + 1
      BY <2>3 DEF Up
    <3>2. j - 1 = i
      BY <3>1 DEF Word
    <3> QED
      BY <3>2
  <2> QED
    BY <2>1, <2>2, <2>3 DEF Up
<1> HIDE DEF shifted
<1>2. CASE 15 \in x <=> k \in b
  <2>1. ShiftBit(x, b, k) = shifted
    BY <1>2 DEF ShiftBit, shifted
  <2> QED
    BY <1>1, <1>2, <2>1 DEF Word
<1>3. CASE ~(15 \in x <=> k \in b)
  <2>1. ShiftBit(x, b, k) = Xor(shifted, {0, 5, 12})
    BY <1>3 DEF ShiftBit, shifted
  <2>2. ShiftBit(x, b, k) \in Word
    <3>1. {0, 5, 12} \subseteq 0 .. 15
      OBVIOUS
    <3>2. Xor(shifted, {0, 5, 12}) \subseteq 0 .. 15
      BY <1>1, <3>1 DEF Xor
    <3> QED
      BY <2>1, <3>2 DEF Word
  <2>3. ASSUME NEW j \in 0 .. 15
        PROVE  j \in ShiftBit(x, b, k) <=> ~(j - 1 \in x <=> j \in {0, 5, 12})
    <3>1. j \in Xor(shifted, {0, 5, 12}) <=> ~(j \in shifted <=> j \in {0, 5, 12})
      BY XorMember
    <3>2. j \in shifted <=> j - 1 \in x
      BY <1>1
    <3> QED
      BY <2>1, <3>1, <3>2
  <2> QED
    BY <1>3, <2>2, <2>3
<1> QED
  BY <1>2, <1>3

LEMMA ShiftBitLinear ==
  ASSUME NEW x \in Word, NEW y \in Word, NEW b, NEW c, NEW k
  PROVE  Xor(ShiftBit(x, b, k), ShiftBit(y, c, k)) = ShiftBit(Xor(x, y), Xor(b, c), k)
<1>1. Xor(x, y) \in Word
  BY XorType DEF Word
<1> DEFINE p == ShiftBit(x, b, k)
           q == ShiftBit(y, c, k)
           r == ShiftBit(Xor(x, y), Xor(b, c), k)
<1>2. p \in Word /\ q \in Word /\ r \in Word
  BY <1>1, ShiftBitMember
<1>3. ASSUME NEW j \in 0 .. 15 PROVE j \in r <=> ~(j \in p <=> j \in q)
  <2>1. j \in p <=> ~(j - 1 \in x <=> (j \in {0, 5, 12} /\ ~(15 \in x <=> k \in b)))
    BY ShiftBitMember
  <2>2. j \in q <=> ~(j - 1 \in y <=> (j \in {0, 5, 12} /\ ~(15 \in y <=> k \in c)))
    BY ShiftBitMember
  <2>3. j \in r <=> ~(j - 1 \in Xor(x, y)
                        <=> (j \in {0, 5, 12} /\ ~(15 \in Xor(x, y) <=> k \in Xor(b, c))))
    BY <1>1, ShiftBitMember
  <2> HIDE DEF p, q, r
  <2> QED
    BY <2>1, <2>2, <2>3, XorMember
<1> HIDE DEF p, q, r
<1>4. Xor(p, q) = r
  BY <1>2, <1>3 DEF Xor, Word
<1> QED
  BY <1>4 DEF p, q, r

\* Going back one bit: what a register was of which only the highest bits are left.
Above(x, m) == x \subseteq m .. 15

LEMMA ShiftBitBack ==
  ASSUME NEW x \in Word, NEW b, NEW k, NEW m \in 1 .. 16, Above(ShiftBit(x, b, k), m)
  PROVE  Above(x, m - 1) /\ (15 \in x <=> k \in b)
<1>1. ShiftBit(x, b, k) \subseteq m .. 15 /\ 0 \notin ShiftBit(x, b, k)
  BY DEF Above
<1>2. 15 \in x <=> k \in b
  <2>1. 0 \in 0 .. 15 /\ 0 - 1 \notin x
    BY DEF Word
  <2> QED
    BY <1>1, <2>1, ShiftBitMember
<1>3. ASSUME NEW i \in x PROVE i \in m - 1 .. 15
  <2>1. i \in 0 .. 15
    BY DEF Word
  <2>2. CASE i = 15
    BY <2>2
  <2>3. CASE i # 15
    <3>1. PICK j \in 0 .. 15 : j = i + 1
      BY <2>1, <2>3
    <3>2. j - 1 = i
      BY <2>1, <3>1
    <3>3. j \in ShiftBit(x, b, k)
      BY <1>2, <3>2, ShiftBitMember
    <3> QED
      BY <1>1, <2>1, <3>1, <3>3
  <2> QED
    BY <2>2, <2>3
<1> QED
  BY <1>2, <1>3 DEF Above

(***************************************************************************)
(* One byte.                                                               *)
(***************************************************************************)
LEMMA ShiftByteType ==
  ASSUME NEW x \in Word, NEW b
  PROVE  ShiftByte(x, b) \in Word
<1> DEFINE x7 == ShiftBit(x, b, 7)
           x6 == ShiftBit(x7, b, 6)
           x5 == ShiftBit(x6, b, 5)
           x4 == ShiftBit(x5, b, 4)
           x3 == ShiftBit(x4, b, 3)
           x2 == ShiftBit(x3, b, 2)
           x1 == ShiftBit(x2, b, 1)
           x0 == ShiftBit(x1, b, 0)
<1>1. x7 \in Word
  BY ShiftBitMember
<1> HIDE DEF x7
<1>2. x6 \in Word
  BY <1>1, ShiftBitMember
<1> HIDE DEF x6
<1>3. x5 \in Word
  BY <1>2, ShiftBitMember
<1> HIDE DEF x5
<1>4. x4 \in Word
  BY <1>3, ShiftBitMember
<1> HIDE DEF x4
<1>5. x3 \in Word
  BY <1>4, ShiftBitMember
<1> HIDE DEF x3
<1>6. x2 \in Word
  BY <1>5, ShiftBitMember
<1> HIDE DEF x2
<1>7. x1 \in Word
  BY <1>6, ShiftBitMember
<1> HIDE DEF x1
<1>8. x0 \in Word
  BY <1>7, ShiftBitMember
<1> HIDE DEF x0
<1>9. ShiftByte(x, b) = x0
  BY DEF ShiftByte, x7, x6, x5, x4, x3, x2, x1, x0
<1> QED
  BY <1>8, <1>9

LEMMA ShiftByteLinear ==
  ASSUME NEW x \in Word, NEW y \in Word, NEW b, NEW c
  PROVE  Xor(ShiftByte(x, b), ShiftByte(y, c)) = ShiftByte(Xor(x, y), Xor(b, c))
<1> DEFINE x7 == ShiftBit(x, b, 7)
           x6 == ShiftBit(x7, b, 6)
           x5 == ShiftBit(x6, b, 5)
           x4 == ShiftBit(x5, b, 4)
           x3 == ShiftBit(x4, b, 3)
           x2 == ShiftBit(x3, b, 2)
           x1 == ShiftBit(x2, b, 1)
           x0 == ShiftBit(x1, b, 0)
           y7 == ShiftBit(y, c, 7)
           y6 == ShiftBit(y7, c, 6)
           y5 == ShiftBit(y6, c, 5)
           y4 == ShiftBit(y5, c, 4)
           y3 == ShiftBit(y4, c, 3)
           y2 == ShiftBit(y3, c, 2)
           y1 == ShiftBit(y2, c, 1)
           y0 == ShiftBit(y1, c, 0)
           z7 == ShiftBit(Xor(x, y), Xor(b, c), 7)
           z6 == ShiftBit(z7, Xor(b, c), 6)
           z5 == ShiftBit(z6, Xor(b, c), 5)
           z4 == ShiftBit(z5, Xor(b, c), 4)
           z3 == ShiftBit(z4, Xor(b, c), 3)
           z2 == ShiftBit(z3, Xor(b, c), 2)
           z1 == ShiftBit(z2, Xor(b, c), 1)
           z0 == ShiftBit(z1, Xor(b, c), 0)
<1>1. x7 \in Word /\ y7 \in Word /\ Xor(x7, y7) = z7
  BY ShiftBitMember, ShiftBitLinear
<1> HIDE DEF x7, y7, z7
<1>2. x6 \in Word /\ y6 \in Word /\ Xor(x6, y6) = z6
  BY <1>1, ShiftBitMember, ShiftBitLinear
<1> HIDE DEF x6, y6, z6
<1>3. x5 \in Word /\ y5 \in Word /\ Xor(x5, y5) = z5
  BY <1>2, ShiftBitMember, ShiftBitLinear
<1> HIDE DEF x5, y5, z5
<1>4. x4 \in Word /\ y4 \in Word /\ Xor(x4, y4) = z4
  BY <1>3, ShiftBitMember, ShiftBitLinear
<1> HIDE DEF x4, y4, z4
<1>5. x3 \in Word /\ y3 \in Word /\ Xor(x3, y3) = z3
  BY <1>4, ShiftBitMember, ShiftBitLinear
<1> HIDE DEF x3, y3, z3
<1>6. x2 \in Word /\ y2 \in Word /\ Xor(x2, y2) = z2
  BY <1>5, ShiftBitMember, ShiftBitLinear
<1> HIDE DEF x2, y2, z2
<1>7. x1 \in Word /\ y1 \in Word /\ Xor(x1, y1) = z1
  BY <1>6, ShiftBitMember, ShiftBitLinear
<1> HIDE DEF x1, y1, z1
<1>8. x0 \in Word /\ y0 \in Word /\ Xor(x0, y0) = z0
  BY <1>7, ShiftBitMember, ShiftBitLinear
<1> HIDE DEF x0, y0, z0
<1>9. ShiftByte(x, b) = x0 /\ ShiftByte(y, c) = y0 /\ ShiftByte(Xor(x, y), Xor(b, c)) = z0
  BY DEF ShiftByte, x7, x6, x5, x4, x3, x2, x1, x0,
         y7, y6, y5, y4, y3, y2, y1, y0, z7, z6, z5, z4, z3, z2, z1, z0
<1> QED
  BY <1>8, <1>9

LEMMA ShiftNothing ==
  ASSUME NEW b, NEW k, k \notin b
  PROVE  ShiftBit({}, b, k) = {}
  BY DEF ShiftBit, Up

\* Going back one byte: a register that is all zero, or of which only the upper byte is
\* left, tells what it was before.
LEMMA ShiftByteBack ==
  ASSUME NEW x \in Word, NEW b \in Byte, NEW m \in 8 .. 16, Above(ShiftByte(x, b), m)
  PROVE  /\ Above(x, m - 8)
         /\ x = {} => b = {}
         /\ m = 16 /\ b = {} => x = {}
<1> DEFINE x7 == ShiftBit(x, b, 7)
           x6 == ShiftBit(x7, b, 6)
           x5 == ShiftBit(x6, b, 5)
           x4 == ShiftBit(x5, b, 4)
           x3 == ShiftBit(x4, b, 3)
           x2 == ShiftBit(x3, b, 2)
           x1 == ShiftBit(x2, b, 1)
           x0 == ShiftBit(x1, b, 0)
<1>1. x7 \in Word
  BY ShiftBitMember
<1> HIDE DEF x7
<1>2. x6 \in Word
  BY <1>1, ShiftBitMember
<1> HIDE DEF x6
<1>3. x5 \in Word
  BY <1>2, ShiftBitMember
<1> HIDE DEF x5
<1>4. x4 \in Word
  BY <1>3, ShiftBitMember
<1> HIDE DEF x4
<1>5. x3 \in Word
  BY <1>4, ShiftBitMember
<1> HIDE DEF x3
<1>6. x2 \in Word
  BY <1>5, ShiftBitMember
<1> HIDE DEF x2
<1>7. x1 \in Word
  BY <1>6, ShiftBitMember
<1> HIDE DEF x1
<1>8. x0 \in Word
  BY <1>7, ShiftBitMember
<1> HIDE DEF x0
<1>9. Above(x0, m)
  BY DEF ShiftByte, x7, x6, x5, x4, x3, x2, x1, x0
<1>10. Above(x1, m - 1) /\ (15 \in x1 <=> 0 \in b)
  <2>1. PICK i \in 1 .. 16 : i = m
    OBVIOUS
  <2>2. Above(ShiftBit(x1, b, 0), i)
    BY <1>9, <2>1 DEF x0
  <2>3. Above(x1, i - 1) /\ (15 \in x1 <=> 0 \in b)
    BY <1>7, <2>2, ShiftBitBack
  <2> QED
    BY <2>1, <2>3
<1>11. Above(x2, m - 2) /\ (15 \in x2 <=> 1 \in b)
  <2>1. PICK i \in 1 .. 16 : i = m - 1
    OBVIOUS
  <2>2. Above(ShiftBit(x2, b, 1), i)
    BY <1>10, <2>1 DEF x1
  <2>3. Above(x2, i - 1) /\ (15 \in x2 <=> 1 \in b)
    BY <1>6, <2>2, ShiftBitBack
  <2> QED
    BY <2>1, <2>3
<1>12. Above(x3, m - 3) /\ (15 \in x3 <=> 2 \in b)
  <2>1. PICK i \in 1 .. 16 : i = m - 2
    OBVIOUS
  <2>2. Above(ShiftBit(x3, b, 2), i)
    BY <1>11, <2>1 DEF x2
  <2>3. Above(x3, i - 1) /\ (15 \in x3 <=> 2 \in b)
    BY <1>5, <2>2, ShiftBitBack
  <2> QED
    BY <2>1, <2>3
<1>13. Above(x4, m - 4) /\ (15 \in x4 <=> 3 \in b)
  <2>1. PICK i \in 1 .. 16 : i = m - 3
    OBVIOUS
  <2>2. Above(ShiftBit(x4, b, 3), i)
    BY <1>12, <2>1 DEF x3
  <2>3. Above(x4, i - 1) /\ (15 \in x4 <=> 3 \in b)
    BY <1>4, <2>2, ShiftBitBack
  <2> QED
    BY <2>1, <2>3
<1>14. Above(x5, m - 5) /\ (15 \in x5 <=> 4 \in b)
  <2>1. PICK i \in 1 .. 16 : i = m - 4
    OBVIOUS
  <2>2. Above(ShiftBit(x5, b, 4), i)
    BY <1>13, <2>1 DEF x4
  <2>3. Above(x5, i - 1) /\ (15 \in x5 <=> 4 \in b)
    BY <1>3, <2>2, ShiftBitBack
  <2> QED
    BY <2>1, <2>3
<1>15. Above(x6, m - 6) /\ (15 \in x6 <=> 5 \in b)
  <2>1. PICK i \in 1 .. 16 : i = m - 5
    OBVIOUS
  <2>2. Above(ShiftBit(x6, b, 5), i)
    BY <1>14, <2>1 DEF x5
  <2>3. Above(x6, i - 1) /\ (15 \in x6 <=> 5 \in b)
    BY <1>2, <2>2, ShiftBitBack
  <2> QED
    BY <2>1, <2>3
<1>16. Above(x7, m - 7) /\ (15 \in x7 <=> 6 \in b)
  <2>1. PICK i \in 1 .. 16 : i = m - 6
    OBVIOUS
  <2>2. Above(ShiftBit(x7, b, 6), i)
    BY <1>15, <2>1 DEF x6
  <2>3. Above(x7, i - 1) /\ (15 \in x7 <=> 6 \in b)
    BY <1>1, <2>2, ShiftBitBack
  <2> QED
    BY <2>1, <2>3
<1>17. Above(x, m - 8) /\ (15 \in x <=> 7 \in b)
  <2>1. PICK i \in 1 .. 16 : i = m - 7
    OBVIOUS
  <2>2. Above(ShiftBit(x, b, 7), i)
    BY <1>16, <2>1 DEF x7
  <2>3. Above(x, i - 1) /\ (15 \in x <=> 7 \in b)
    BY <2>2, ShiftBitBack
  <2> QED
    BY <2>1, <2>3
<1>18. ASSUME x = {} PROVE b = {}
  <2>1. 7 \notin b /\ x7 = {}
    BY <1>18, <1>17, ShiftNothing DEF x7
  <2>2. 6 \notin b /\ x6 = {}
    BY <2>1, <1>16, ShiftNothing DEF x6
  <2>3. 5 \notin b /\ x5 = {}
    BY <2>2, <1>15, ShiftNothing DEF x5
  <2>4. 4 \notin b /\ x4 = {}
    BY <2>3, <1>14, ShiftNothing DEF x4
  <2>5. 3 \notin b /\ x3 = {}
    BY <2>4, <1>13, ShiftNothing DEF x3
  <2>6. 2 \notin b /\ x2 = {}
    BY <2>5, <1>12, ShiftNothing DEF x2
  <2>7. 1 \notin b /\ x1 = {}
    BY <2>6, <1>11, ShiftNothing DEF x1
  <2>8. 0 \notin b /\ x0 = {}
    BY <2>7, <1>10, ShiftNothing DEF x0
  <2> QED
    BY <2>1, <2>2, <2>3, <2>4, <2>5, <2>6, <2>7, <2>8 DEF Byte
<1>19. ASSUME m = 16, b = {} PROVE x = {}
  <2>1. x0 = {}
    BY <1>9, <1>19 DEF Above
  <2>2. x1 = {}
    <3>1. Above(ShiftBit(x1, b, 0), 16) /\ 16 \in 1 .. 16
      BY <2>1 DEF x0, Above
    <3>2. Above(x1, 16 - 1) /\ (15 \in x1 <=> 0 \in b)
      BY <1>7, <3>1, ShiftBitBack
    <3> QED
      BY <1>19, <3>2 DEF Above
  <2>3. x2 = {}
    <3>1. Above(ShiftBit(x2, b, 1), 16) /\ 16 \in 1 .. 16
      BY <2>2 DEF x1, Above
    <3>2. Above(x2, 16 - 1) /\ (15 \in x2 <=> 1 \in b)
      BY <1>6, <3>1, ShiftBitBack
    <3> QED
      BY <1>19, <3>2 DEF Above
  <2>4. x3 = {}
    <3>1. Above(ShiftBit(x3, b, 2), 16) /\ 16 \in 1 .. 16
      BY <2>3 DEF x2, Above
    <3>2. Above(x3, 16 - 1) /\ (15 \in x3 <=> 2 \in b)
      BY <1>5, <3>1, ShiftBitBack
    <3> QED
      BY <1>19, <3>2 DEF Above
  <2>5. x4 = {}
    <3>1. Above(ShiftBit(x4, b, 3), 16) /\ 16 \in 1 .. 16
      BY <2>4 DEF x3, Above
    <3>2. Above(x4, 16 - 1) /\ (15 \in x4 <=> 3 \in b)
      BY <1>4, <3>1, ShiftBitBack
    <3> QED
      BY <1>19, <3>2 DEF Above
  <2>6. x5 = {}
    <3>1. Above(ShiftBit(x5, b, 4), 16) /\ 16 \in 1 .. 16
      BY <2>5 DEF x4, Above
    <3>2. Above(x5, 16 - 1) /\ (15 \in x5 <=> 4 \in b)
      BY <1>3, <3>1, ShiftBitBack
    <3> QED
      BY <1>19, <3>2 DEF Above
  <2>7. x6 = {}
    <3>1. Above(ShiftBit(x6, b, 5), 16) /\ 16 \in 1 .. 16
      BY <2>6 DEF x5, Above
    <3>2. Above(x6, 16 - 1) /\ (15 \in x6 <=> 5 \in b)
      BY <1>2, <3>1, ShiftBitBack
    <3> QED
      BY <1>19, <3>2 DEF Above
  <2>8. x7 = {}
    <3>1. Above(ShiftBit(x7, b, 6), 16) /\ 16 \in 1 .. 16
      BY <2>7 DEF x6, Above
    <3>2. Above(x7, 16 - 1) /\ (15 \in x7 <=> 6 \in b)
      BY <1>1, <3>1, ShiftBitBack
    <3> QED
      BY <1>19, <3>2 DEF Above
  <2>9. x = {}
    <3>1. Above(ShiftBit(x, b, 7), 16) /\ 16 \in 1 .. 16
      BY <2>8 DEF x7, Above
    <3>2. Above(x, 16 - 1) /\ (15 \in x <=> 7 \in b)
      BY <3>1, ShiftBitBack
    <3> QED
      BY <1>19, <3>2 DEF Above
  <2> QED
    BY <2>9
<1> QED
  BY <1>17, <1>18, <1>19

(***************************************************************************)
(* All bytes: the registers crc16 goes through, and the differences of the *)
(* registers of two sequences of bytes.                                    *)
(***************************************************************************)
LEMMA SmallestExists ==
  ASSUME NEW S, S \subseteq Nat, S # {}
  PROVE  \E i \in S : \A j \in S : i <= j
<1>1. PICK x \in S : \A y \in S : ~ (<<y, x>> \in OpToRel(<, Nat))
  BY NatLessThanWellFounded, WFMin, Zenon
<1>2. \A y \in S : ~(y < x)
  BY <1>1 DEF OpToRel
<1> QED
  BY <1>2

\* r holds the register before the first and after each of the first len bytes.
IsRun(r, bytes, len) ==
  /\ r \in [0 .. len -> Word]
  /\ r[0] = {}
  /\ \A n \in 1 .. len : r[n] = ShiftByte(r[n - 1], bytes[n])

\* The recursion of Crc16 defines a function.
LEMMA RecursionExists ==
  ASSUME NEW len \in Nat, NEW bytes
  PROVE  \E r : r = [n \in 0 .. len |-> IF n = 0 THEN {} ELSE ShiftByte(r[n - 1], bytes[n])]
<1> DEFINE Step(r, n) == IF n = 0 THEN {} ELSE ShiftByte(r[n - 1], bytes[n])
           Upto(k) == \E r : r = [n \in 0 .. k |-> Step(r, n)]
           missing == {k \in 0 .. len : ~Upto(k)}
<1>1. SUFFICES missing = {}
  <2>1. len \in 0 .. len
    OBVIOUS
  <2> QED
    BY <1>1, <2>1
<1>2. SUFFICES ASSUME missing # {} PROVE FALSE
  OBVIOUS
<1>3. missing \subseteq Nat
  OBVIOUS
<1>4. PICK k \in missing : \A j \in missing : k <= j
  <2> HIDE DEF missing
  <2> QED
    BY <1>2, <1>3, SmallestExists
<1>5. k \in 0 .. len /\ ~Upto(k)
  BY <1>4
<1>6. CASE k = 0
  <2> DEFINE r == [n \in 0 .. 0 |-> {}]
  <2>1. r = [n \in 0 .. 0 |-> Step(r, n)]
    OBVIOUS
  <2>2. Upto(0)
    <3> HIDE DEF r, Step
    <3> QED
      BY <2>1
  <2> HIDE DEF Upto
  <2> QED
    BY <1>5, <1>6, <2>2
<1>7. CASE k # 0
  <2>1. k - 1 \in 0 .. len /\ k - 1 \notin missing
    <3> HIDE DEF missing
    <3> QED
      BY <1>4, <1>5, <1>7
  <2>2. PICK f : f = [n \in 0 .. k - 1 |-> Step(f, n)]
    BY <2>1
  <2> DEFINE r == [n \in 0 .. k |-> IF n = k THEN Step(f, k) ELSE f[n]]
  <2>3. ASSUME NEW n \in 0 .. k PROVE r[n] = Step(r, n)
    <3>1. CASE n = k
      <4>1. r[n] = Step(f, k) /\ r[k - 1] = f[k - 1]
        BY <1>5, <1>7, <3>1
      <4> QED
        BY <1>7, <3>1, <4>1
    <3>2. CASE n # k
      <4>1. n \in 0 .. k - 1
        BY <1>5, <3>2
      <4>2. f[n] = Step(f, n) /\ r[n] = f[n]
        <5>1. f[n] = Step(f, n)
          <6> HIDE DEF Step
          <6> QED
            BY <2>2, <4>1, Zenon
        <5> QED
          BY <3>2, <5>1
      <4>3. n = 0 \/ r[n - 1] = f[n - 1]
        BY <1>5, <4>1
      <4> QED
        BY <4>2, <4>3
    <3> QED
      BY <3>1, <3>2
  <2>4. r = [n \in 0 .. k |-> Step(r, n)]
    <3>1. r = [n \in 0 .. k |-> r[n]]
      OBVIOUS
    <3> HIDE DEF r, Step
    <3> QED
      BY <2>3, <3>1
  <2>5. Upto(k)
    <3> HIDE DEF r, Step
    <3> QED
      BY <2>4
  <2> HIDE DEF Upto
  <2> QED
    BY <1>5, <2>5
<1> QED
  BY <1>6, <1>7

LEMMA CrcRun ==
  ASSUME NEW bytes, Len(bytes) \in Nat
  PROVE  \E r : IsRun(r, bytes, Len(bytes)) /\ Crc16(bytes) = r[Len(bytes)]
<1> DEFINE len == Len(bytes)
           Def(r) == r = [n \in 0 .. len |-> IF n = 0 THEN {} ELSE ShiftByte(r[n - 1], bytes[n])]
           crc == CHOOSE r : Def(r)
<1>1. Def(crc)
  <2>1. \E r : Def(r)
    BY RecursionExists
  <2> HIDE DEF Def
  <2> QED
    BY <2>1
<1>2. Crc16(bytes) = crc[len]
  BY DEF Crc16
<1> HIDE DEF crc
<1>3. /\ crc[0] = {} /\ \A n \in 1 .. len : crc[n] = ShiftByte(crc[n - 1], bytes[n])
      /\ crc = [n \in 0 .. len |-> crc[n]]
  <2>1. \A n \in 0 .. len : crc[n] = IF n = 0 THEN {} ELSE ShiftByte(crc[n - 1], bytes[n])
    BY <1>1, Zenon
  <2>2. crc = [n \in 0 .. len |-> crc[n]]
    BY <1>1
  <2>3. 0 \in 0 .. len /\ \A n \in 1 .. len : n \in 0 .. len /\ n # 0
    OBVIOUS
  <2> QED
    BY <2>1, <2>2, <2>3
<1> DEFINE wrong == {n \in 0 .. len : crc[n] \notin Word}
<1>4. wrong = {}
  <2>1. SUFFICES ASSUME wrong # {} PROVE FALSE
    OBVIOUS
  <2>2. wrong \subseteq Nat
    OBVIOUS
  <2>3. PICK k \in wrong : \A j \in wrong : k <= j
    <3> HIDE DEF wrong
    <3> QED
      BY <2>1, <2>2, SmallestExists
  <2>4. k \in 0 .. len /\ crc[k] \notin Word
    BY <2>3
  <2>5. k # 0
    BY <1>3, <2>4 DEF Word
  <2>6. k - 1 \in 0 .. len /\ k \in 1 .. len /\ crc[k - 1] \in Word
    <3>1. k - 1 \in 0 .. len /\ k \in 1 .. len
      BY <2>4, <2>5
    <3>2. k - 1 \notin wrong
      <4> HIDE DEF wrong
      <4> QED
        BY <2>3, <2>4
    <3> QED
      BY <3>1, <3>2
  <2>7. crc[k] = ShiftByte(crc[k - 1], bytes[k])
    BY <1>3, <2>6
  <2> QED
    BY <2>4, <2>6, <2>7, ShiftByteType
<1>5. IsRun(crc, bytes, len)
  <2>1. \A n \in 0 .. len : crc[n] \in Word
    BY <1>4
  <2>2. crc \in [0 .. len -> Word]
    BY <1>3, <2>1
  <2> QED
    BY <1>3, <2>2 DEF IsRun
<1> QED
  BY <1>2, <1>5

\* Two sequences of the same length: their CRCs differ by the last register of a run over
\* the differences of their bytes.
LEMMA CrcDifference ==
  ASSUME NEW p, NEW q, NEW d, Len(p) \in Nat, Len(q) = Len(p),
         \A n \in 1 .. Len(p) : d[n] = Xor(p[n], q[n])
  PROVE  \E r : IsRun(r, d, Len(p)) /\ Xor(Crc16(p), Crc16(q)) = r[Len(p)]
<1> DEFINE len == Len(p)
<1>1. PICK f : IsRun(f, p, len) /\ Crc16(p) = f[len]
  BY CrcRun
<1>2. PICK g : IsRun(g, q, len) /\ Crc16(q) = g[len]
  <2>1. \E r : IsRun(r, q, Len(q)) /\ Crc16(q) = r[Len(q)]
    BY CrcRun
  <2> QED
    BY <2>1
<1> DEFINE r == [n \in 0 .. len |-> Xor(f[n], g[n])]
<1>3. \A n \in 0 .. len : f[n] \in Word /\ g[n] \in Word
  BY <1>1, <1>2 DEF IsRun
<1>4. r \in [0 .. len -> Word]
  <2>1. \A n \in 0 .. len : Xor(f[n], g[n]) \in Word
    BY <1>3, XorWord
  <2> QED
    BY <2>1
<1>5. r[0] = {} /\ r[len] = Xor(Crc16(p), Crc16(q))
  <2>1. 0 \in 0 .. len /\ len \in 0 .. len
    OBVIOUS
  <2>2. r[0] = Xor(f[0], g[0]) /\ r[len] = Xor(f[len], g[len])
    BY <2>1
  <2>3. f[0] = {} /\ g[0] = {} /\ Xor({}, {}) = {}
    BY <1>1, <1>2, XorAlgebra DEF IsRun
  <2> HIDE DEF r
  <2> QED
    BY <1>1, <1>2, <2>2, <2>3
<1>6. ASSUME NEW n \in 1 .. len PROVE r[n] = ShiftByte(r[n - 1], d[n])
  <2>1. n \in 0 .. len /\ n - 1 \in 0 .. len
    OBVIOUS
  <2>2. f[n] = ShiftByte(f[n - 1], p[n]) /\ g[n] = ShiftByte(g[n - 1], q[n])
    BY <1>1, <1>2 DEF IsRun
  <2>3. Xor(f[n], g[n]) = ShiftByte(Xor(f[n - 1], g[n - 1]), Xor(p[n], q[n]))
    <3>1. f[n - 1] \in Word /\ g[n - 1] \in Word
      BY <1>3, <2>1
    <3>2. Xor(ShiftByte(f[n - 1], p[n]), ShiftByte(g[n - 1], q[n]))
            = ShiftByte(Xor(f[n - 1], g[n - 1]), Xor(p[n], q[n]))
      <4>1. PICK x \in Word, y \in Word : x = f[n - 1] /\ y = g[n - 1]
        BY <3>1
      <4>2. PICK b, c : b = p[n] /\ c = q[n]
        OBVIOUS
      <4>3. Xor(ShiftByte(x, b), ShiftByte(y, c)) = ShiftByte(Xor(x, y), Xor(b, c))
        BY ShiftByteLinear
      <4> QED
        BY <4>1, <4>2, <4>3
    <3> QED
      BY <2>2, <3>2
  <2>4. r[n] = Xor(f[n], g[n]) /\ r[n - 1] = Xor(f[n - 1], g[n - 1])
    BY <2>1
  <2> QED
    BY <2>3, <2>4
<1>7. IsRun(r, d, len)
  <2> HIDE DEF r
  <2> QED
    BY <1>4, <1>5, <1>6 DEF IsRun
<1> HIDE DEF r
<1> QED
  BY <1>5, <1>7

(***************************************************************************)
(* Bits of words, bytes and nibbles.                                       *)
(***************************************************************************)
LEMMA UpMember ==
  ASSUME NEW bits \in SUBSET Int, NEW n \in Int
  PROVE  Up(bits, n) \subseteq Int /\ \A k \in Int : k \in Up(bits, n) <=> k - n \in bits
<1>1. Up(bits, n) \subseteq Int
  BY DEF Up
<1>2. ASSUME NEW k \in Int, k \in Up(bits, n) PROVE k - n \in bits
  <2>1. PICK j \in bits : k = j + n
    BY <1>2 DEF Up
  <2>2. j \in Int /\ k - n = j
    BY <2>1
  <2> QED
    BY <2>2
<1>3. ASSUME NEW k \in Int, k - n \in bits PROVE k \in Up(bits, n)
  <2>1. k = (k - n) + n
    OBVIOUS
  <2> QED
    BY <1>3, <2>1 DEF Up
<1> QED
  BY <1>1, <1>2, <1>3

\* Two bytes as one word, and a difference of two such words.
TwoBytes(low, high) == low \cup Up(high, 8)

LEMMA TwoBytesMember ==
  ASSUME NEW low \in Byte, NEW high \in Byte
  PROVE  /\ TwoBytes(low, high) \in Word
         /\ \A k \in 0 .. 7 : (k \in TwoBytes(low, high) <=> k \in low)
                              /\ (k + 8 \in TwoBytes(low, high) <=> k \in high)
<1>1. low \in SUBSET Int /\ high \in SUBSET Int /\ 8 \in Int
  BY DEF Byte
<1>2. Up(high, 8) \subseteq Int /\ \A k \in Int : k \in Up(high, 8) <=> k - 8 \in high
  BY <1>1, UpMember
<1>3. \A k \in high : k \in 0 .. 7
  BY DEF Byte
<1>4. \A k \in low : k \in 0 .. 7
  BY DEF Byte
<1>5. \A k \in Up(high, 8) : k \in 8 .. 15
  <2>1. ASSUME NEW k \in Up(high, 8) PROVE k \in 8 .. 15
    <3>1. k \in Int /\ k - 8 \in high
      BY <1>2
    <3>2. k - 8 \in 0 .. 7
      BY <1>3, <3>1
    <3> QED
      BY <3>1, <3>2
  <2> QED
    BY <2>1
<1>6. TwoBytes(low, high) \in Word
  BY <1>4, <1>5 DEF TwoBytes, Word
<1>7. ASSUME NEW k \in 0 .. 7
      PROVE  (k \in TwoBytes(low, high) <=> k \in low)
             /\ (k + 8 \in TwoBytes(low, high) <=> k \in high)
  <2>1. k \notin Up(high, 8)
    BY <1>5
  <2>2. k + 8 \in Up(high, 8) <=> k \in high
    <3>1. k + 8 \in Int /\ (k + 8) - 8 = k
      OBVIOUS
    <3> QED
      BY <1>2, <3>1
  <2>3. k + 8 \notin low
    BY <1>4
  <2> QED
    BY <2>1, <2>2, <2>3 DEF TwoBytes
<1> QED
  BY <1>6, <1>7

LEMMA TwoBytesXor ==
  ASSUME NEW a \in Byte, NEW b \in Byte, NEW c \in Byte, NEW d \in Byte
  PROVE  /\ Xor(TwoBytes(a, b), TwoBytes(c, d)) = TwoBytes(Xor(a, c), Xor(b, d))
         /\ TwoBytes(a, b) = TwoBytes(c, d) => a = c /\ b = d
<1>1. Xor(a, c) \in Byte /\ Xor(b, d) \in Byte
  BY XorByte
<1> DEFINE x == TwoBytes(a, b)
           y == TwoBytes(c, d)
           z == TwoBytes(Xor(a, c), Xor(b, d))
<1>2. x \in Word /\ y \in Word /\ z \in Word
  BY <1>1, TwoBytesMember
<1>3. ASSUME NEW k \in 0 .. 7
      PROVE  /\ k \in z <=> ~(k \in x <=> k \in y)
             /\ k + 8 \in z <=> ~(k + 8 \in x <=> k + 8 \in y)
  <2>1. /\ (k \in x <=> k \in a) /\ (k + 8 \in x <=> k \in b)
        /\ (k \in y <=> k \in c) /\ (k + 8 \in y <=> k \in d)
        /\ (k \in z <=> k \in Xor(a, c)) /\ (k + 8 \in z <=> k \in Xor(b, d))
    BY <1>1, TwoBytesMember
  <2> HIDE DEF x, y, z
  <2> QED
    BY <2>1, XorMember
<1>4. Xor(x, y) = z
  <2>1. ASSUME NEW k \in 0 .. 15 PROVE k \in z <=> ~(k \in x <=> k \in y)
    <3> HIDE DEF x, y, z
    <3>1. CASE k \in 0 .. 7
      BY <1>3, <3>1
    <3>2. CASE k \notin 0 .. 7
      <4>1. PICK j \in 0 .. 7 : k = j + 8
        <5>1. k - 8 \in 0 .. 7 /\ k = (k - 8) + 8
          BY <3>2
        <5> QED
          BY <5>1
      <4> QED
        BY <1>3, <4>1
    <3> QED
      BY <3>1, <3>2
  <2> HIDE DEF x, y, z
  <2> QED
    BY <1>2, <2>1 DEF Xor, Word
<1>5. ASSUME x = y PROVE a = c /\ b = d
  <2>1. \A k \in 0 .. 7 : (k \in a <=> k \in c) /\ (k \in b <=> k \in d)
    <3>1. \A k \in 0 .. 7 : /\ (k \in x <=> k \in a) /\ (k + 8 \in x <=> k \in b)
                            /\ (k \in y <=> k \in c) /\ (k + 8 \in y <=> k \in d)
      BY TwoBytesMember
    <3> HIDE DEF x, y
    <3> QED
      BY <1>5, <3>1
  <2> QED
    BY <2>1 DEF Byte
<1> HIDE DEF x, y, z
<1> QED
  BY <1>4, <1>5 DEF x, y, z

LEMMA NibbleOfType ==
  ASSUME NEW word, NEW n
  PROVE  NibbleOf(word, n) \in Nibble
  BY DEF NibbleOf, Nibble

LEMMA JoinMember ==
  ASSUME NEW low \in Nibble, NEW high \in Nibble
  PROVE  /\ Join(low, high) \in Byte
         /\ \A k \in 0 .. 3 : (k \in Join(low, high) <=> k \in low)
                              /\ (k + 4 \in Join(low, high) <=> k \in high)
<1>1. low \in SUBSET Int /\ high \in SUBSET Int /\ 4 \in Int
  BY DEF Nibble
<1>2. Up(high, 4) \subseteq Int /\ \A k \in Int : k \in Up(high, 4) <=> k - 4 \in high
  BY <1>1, UpMember
<1>3. \A k \in high : k \in 0 .. 3
  BY DEF Nibble
<1>4. \A k \in low : k \in 0 .. 3
  BY DEF Nibble
<1>5. \A k \in Up(high, 4) : k \in 4 .. 7
  <2>1. ASSUME NEW k \in Up(high, 4) PROVE k \in 4 .. 7
    <3>1. k \in Int /\ k - 4 \in high
      BY <1>2
    <3>2. k - 4 \in 0 .. 3
      BY <1>3, <3>1
    <3> QED
      BY <3>1, <3>2
  <2> QED
    BY <2>1
<1>6. Join(low, high) \in Byte
  BY <1>4, <1>5 DEF Join, Byte
<1>7. ASSUME NEW k \in 0 .. 3
      PROVE  (k \in Join(low, high) <=> k \in low)
             /\ (k + 4 \in Join(low, high) <=> k \in high)
  <2>1. k \notin Up(high, 4)
    BY <1>5
  <2>2. k + 4 \in Up(high, 4) <=> k \in high
    <3>1. k + 4 \in Int /\ (k + 4) - 4 = k
      OBVIOUS
    <3> QED
      BY <1>2, <3>1
  <2>3. k + 4 \notin low
    BY <1>4
  <2> QED
    BY <2>1, <2>2, <2>3 DEF Join
<1> QED
  BY <1>6, <1>7

\* Two bytes are the same if both their halves are.
LEMMA SameHalves ==
  ASSUME NEW x \in Byte, NEW y \in Byte,
         \A k \in 0 .. 3 : (k \in x <=> k \in y) /\ (k + 4 \in x <=> k + 4 \in y)
  PROVE  x = y
<1>1. ASSUME NEW k \in 0 .. 7 PROVE k \in x <=> k \in y
  <2>1. CASE k \in 0 .. 3
    BY <2>1
  <2>2. CASE k \notin 0 .. 3
    <3>1. PICK j \in 0 .. 3 : k = j + 4
      <4>1. k - 4 \in 0 .. 3 /\ k = (k - 4) + 4
        BY <2>2
      <4> QED
        BY <4>1
    <3> QED
      BY <3>1
  <2> QED
    BY <2>1, <2>2
<1> QED
  BY <1>1 DEF Byte

LEMMA JoinXor ==
  ASSUME NEW a \in Nibble, NEW b \in Nibble, NEW c \in Nibble, NEW d \in Nibble
  PROVE  Join(Xor(a, c), Xor(b, d)) = Xor(Join(a, b), Join(c, d))
<1>1. Xor(a, c) \in Nibble /\ Xor(b, d) \in Nibble
  BY XorNibble
<1> DEFINE x == Join(a, b)
           y == Join(c, d)
           z == Join(Xor(a, c), Xor(b, d))
<1>2. x \in Byte /\ y \in Byte /\ z \in Byte
  BY <1>1, JoinMember
<1>3. Xor(x, y) \in Byte
  <2> HIDE DEF x, y
  <2> QED
    BY <1>2, XorType DEF Byte
<1>4. ASSUME NEW k \in 0 .. 3
      PROVE  (k \in z <=> k \in Xor(x, y)) /\ (k + 4 \in z <=> k + 4 \in Xor(x, y))
  <2>1. /\ (k \in x <=> k \in a) /\ (k + 4 \in x <=> k \in b)
        /\ (k \in y <=> k \in c) /\ (k + 4 \in y <=> k \in d)
        /\ (k \in z <=> k \in Xor(a, c)) /\ (k + 4 \in z <=> k \in Xor(b, d))
    BY <1>1, JoinMember
  <2> HIDE DEF x, y, z
  <2> QED
    BY <2>1, XorMember
<1> HIDE DEF x, y, z
<1>5. z = Xor(x, y)
  BY <1>2, <1>3, <1>4, SameHalves
<1> QED
  BY <1>5 DEF x, y, z

\* A byte is its two nibbles, and a word its four.
LEMMA JoinNibbles ==
  ASSUME NEW x \in Byte
  PROVE  Join(NibbleOf(x, 0), NibbleOf(x, 1)) = x
<1> DEFINE z == Join(NibbleOf(x, 0), NibbleOf(x, 1))
<1>1. z \in Byte
  BY NibbleOfType, JoinMember
<1>2. ASSUME NEW k \in 0 .. 3 PROVE (k \in z <=> k \in x) /\ (k + 4 \in z <=> k + 4 \in x)
  <2>1. (k \in z <=> k \in NibbleOf(x, 0)) /\ (k + 4 \in z <=> k \in NibbleOf(x, 1))
    BY NibbleOfType, JoinMember
  <2>2. k + 4 * 0 = k /\ k + 4 * 1 = k + 4
    OBVIOUS
  <2> HIDE DEF z
  <2> QED
    BY <2>1, <2>2 DEF NibbleOf
<1> HIDE DEF z
<1>3. z = x
  BY <1>1, <1>2, SameHalves
<1> QED
  BY <1>3 DEF z

LEMMA WordNibbles ==
  ASSUME NEW w \in Word
  PROVE  TwoBytes(Join(NibbleOf(w, 0), NibbleOf(w, 1)), Join(NibbleOf(w, 2), NibbleOf(w, 3))) = w
<1> DEFINE low == Join(NibbleOf(w, 0), NibbleOf(w, 1))
           high == Join(NibbleOf(w, 2), NibbleOf(w, 3))
           z == TwoBytes(low, high)
<1>1. low \in Byte /\ high \in Byte
  BY NibbleOfType, JoinMember
<1>2. ASSUME NEW k \in 0 .. 3
      PROVE  /\ (k \in low <=> k \in w) /\ (k + 4 \in low <=> k + 4 \in w)
             /\ (k \in high <=> k + 8 \in w) /\ (k + 4 \in high <=> k + 12 \in w)
  <2>1. /\ (k \in low <=> k \in NibbleOf(w, 0)) /\ (k + 4 \in low <=> k \in NibbleOf(w, 1))
        /\ (k \in high <=> k \in NibbleOf(w, 2)) /\ (k + 4 \in high <=> k \in NibbleOf(w, 3))
    BY NibbleOfType, JoinMember
  <2>2. k + 4 * 0 = k /\ k + 4 * 1 = k + 4 /\ k + 4 * 2 = k + 8 /\ k + 4 * 3 = k + 12
    OBVIOUS
  <2> HIDE DEF low, high
  <2> QED
    BY <2>1, <2>2 DEF NibbleOf
<1> HIDE DEF low, high
<1>3. z \in Word /\ \A k \in 0 .. 7 : (k \in z <=> k \in low) /\ (k + 8 \in z <=> k \in high)
  BY <1>1, TwoBytesMember
<1> HIDE DEF z
<1>4. ASSUME NEW k \in 0 .. 3
      PROVE  /\ (k \in z <=> k \in w) /\ (k + 4 \in z <=> k + 4 \in w)
             /\ (k + 8 \in z <=> k + 8 \in w) /\ (k + 12 \in z <=> k + 12 \in w)
  <2>1. PICK j \in 0 .. 7 : j = k + 4
    OBVIOUS
  <2>2. k \in 0 .. 7 /\ j + 8 = k + 12
    BY <2>1
  <2>3. (k \in z <=> k \in low) /\ (k + 8 \in z <=> k \in high)
    BY <1>3, <2>2
  <2>4. (j \in z <=> j \in low) /\ (j + 8 \in z <=> j \in high)
    BY <1>3
  <2> QED
    BY <1>2, <2>1, <2>2, <2>3, <2>4
<1>5. ASSUME NEW k \in 0 .. 15 PROVE k \in z <=> k \in w
  <2>1. k \in 0 .. 3 \/ k - 4 \in 0 .. 3 \/ k - 8 \in 0 .. 3 \/ k - 12 \in 0 .. 3
    OBVIOUS
  <2>2. PICK j \in 0 .. 3 : k = j \/ k = j + 4 \/ k = j + 8 \/ k = j + 12
    <3>1. k = (k - 4) + 4 /\ k = (k - 8) + 8 /\ k = (k - 12) + 12
      OBVIOUS
    <3> QED
      BY <2>1, <3>1
  <2> QED
    BY <1>4, <2>2
<1>6. z = w
  BY <1>3, <1>5 DEF Word
<1> QED
  BY <1>6 DEF z, low, high

(***************************************************************************)
(* Which differences the CRC finds.                                        *)
(***************************************************************************)
\* A run is zero before the first difference.
LEMMA RunBefore ==
  ASSUME NEW r, NEW d, NEW len \in Nat, IsRun(r, d, len), NEW m \in 0 .. len,
         \A k \in 1 .. m : d[k] = {}
  PROVE  r[m] = {}
<1> DEFINE other == {k \in 0 .. m : r[k] # {}}
<1>1. SUFFICES other = {}
  <2>1. m \in 0 .. m
    OBVIOUS
  <2> QED
    BY <1>1, <2>1
<1>2. SUFFICES ASSUME other # {} PROVE FALSE
  OBVIOUS
<1>3. other \subseteq Nat
  OBVIOUS
<1>4. PICK k \in other : \A j \in other : k <= j
  <2> HIDE DEF other
  <2> QED
    BY <1>2, <1>3, SmallestExists
<1>5. k \in 0 .. m /\ r[k] # {}
  BY <1>4
<1>6. k # 0
  BY <1>5 DEF IsRun
<1>7. k \in 1 .. len /\ k \in 1 .. m /\ k - 1 \in 0 .. m
  BY <1>5, <1>6
<1>8. k - 1 \notin other
  <2> HIDE DEF other
  <2> QED
    BY <1>4, <1>5
<1>9. r[k - 1] = {} /\ d[k] = {}
  BY <1>7, <1>8
<1>10. r[k] = ShiftByte({}, {})
  BY <1>7, <1>9 DEF IsRun
<1>11. ShiftByte({}, {}) = {}
  <2>1. /\ ShiftBit({}, {}, 7) = {} /\ ShiftBit({}, {}, 6) = {} /\ ShiftBit({}, {}, 5) = {}
        /\ ShiftBit({}, {}, 4) = {} /\ ShiftBit({}, {}, 3) = {} /\ ShiftBit({}, {}, 2) = {}
        /\ ShiftBit({}, {}, 1) = {} /\ ShiftBit({}, {}, 0) = {}
    BY ShiftNothing, Zenon
  <2> QED
    BY <2>1 DEF ShiftByte
<1> QED
  BY <1>5, <1>10, <1>11

\* Where the first difference is, the run leaves the upper byte.
LEMMA RunAt ==
  ASSUME NEW r, NEW d, NEW len \in Nat, IsRun(r, d, len), NEW f \in 1 .. len,
         \A k \in 1 .. f - 1 : d[k] = {}, d[f] \in Byte, d[f] # {}
  PROVE  r[f] \in Word /\ ~Above(r[f], 8)
<1>1. f - 1 \in 0 .. len /\ f \in 0 .. len
  OBVIOUS
<1>2. r[f - 1] = {}
  BY <1>1, RunBefore
<1>3. r[f] = ShiftByte({}, d[f]) /\ r[f] \in Word
  BY <1>1, <1>2 DEF IsRun
<1>4. ASSUME Above(r[f], 8) PROVE FALSE
  <2>1. {} \in Word /\ 8 \in 8 .. 16 /\ Above(ShiftByte({}, d[f]), 8)
    BY <1>3, <1>4 DEF Word
  <2>2. {} = {} => d[f] = {}
    BY <2>1, ShiftByteBack
  <2> QED
    BY <2>2
<1> QED
  BY <1>3, <1>4

\* Two differences in a row do not cancel each other, and the register never gets back
\* to zero.
LEMMA RunAfter ==
  ASSUME NEW r, NEW d, NEW len \in Nat, IsRun(r, d, len), NEW f \in 1 .. len,
         \A k \in 1 .. f - 1 : d[k] = {}, \A k \in 1 .. len : d[k] \in Byte, d[f] # {},
         \A k \in f + 2 .. len : d[k] = {}, NEW m \in f + 1 .. len
  PROVE  r[m] # {}
<1> DEFINE zero == {k \in f + 1 .. len : r[k] = {}}
<1>1. SUFFICES zero = {}
  BY <1>1
<1>2. SUFFICES ASSUME zero # {} PROVE FALSE
  OBVIOUS
<1>3. zero \subseteq Nat
  OBVIOUS
<1>4. PICK k \in zero : \A j \in zero : k <= j
  <2> HIDE DEF zero
  <2> QED
    BY <1>2, <1>3, SmallestExists
<1>5. k \in f + 1 .. len /\ r[k] = {}
  BY <1>4
<1>6. PICK b \in 1 .. len : b = k - 1 /\ b >= f
  BY <1>5
<1>7. r[b] \in Word /\ k \in 1 .. len /\ d[k] \in Byte /\ r[k] = ShiftByte(r[b], d[k])
  <2>1. b \in 0 .. len /\ k \in 1 .. len
    BY <1>5
  <2> QED
    BY <1>6, <2>1 DEF IsRun
<1>8. Above(ShiftByte(r[b], d[k]), 16) /\ 16 \in 8 .. 16
  BY <1>5, <1>7 DEF Above
<1>9. Above(r[b], 16 - 8) /\ (16 = 16 /\ d[k] = {} => r[b] = {})
  BY <1>7, <1>8, ShiftByteBack
<1>10. CASE b = f
  <2>1. ~Above(r[f], 8)
    BY RunAt
  <2>2. 16 - 8 = 8
    OBVIOUS
  <2> QED
    BY <1>9, <1>10, <2>1, <2>2
<1>11. CASE b # f
  <2>1. k \in f + 2 .. len /\ b \in f + 1 .. len
    BY <1>5, <1>6, <1>11
  <2>2. r[b] = {}
    BY <1>9, <2>1
  <2>3. b \in zero
    BY <2>1, <2>2
  <2> HIDE DEF zero
  <2> QED
    BY <1>4, <1>5, <1>6, <2>3
<1> QED
  BY <1>10, <1>11

\* The differences d of the bytes of a payload of n bytes and of its CRC, the first of
\* them at f, the others in the byte after it.
WrongAt(d, n, f) ==
  /\ \A k \in 1 .. n + 2 : d[k] \in Byte
  /\ f \in 1 .. n + 2
  /\ d[f] # {}
  /\ \A k \in 1 .. n + 2 : k # f /\ k # f + 1 => d[k] = {}
  /\ f + 1 <= n + 2 => d[f + 1] = {} \/ (d[f] \subseteq 4 .. 7 /\ d[f + 1] \subseteq 0 .. 3)

\* The CRC of the payload differs from the CRC at its end.
LEMMA CrcFinds ==
  ASSUME NEW n \in Nat, n >= 2, NEW d, NEW f, WrongAt(d, n, f),
         NEW r, IsRun(r, d, n - 2)
  PROVE  Xor(r[n - 2], TwoBytes(d[n], d[n - 1])) # TwoBytes(d[n + 1], d[n + 2])
<1>1. n - 2 \in Nat /\ n \in 1 .. n + 2 /\ n - 1 \in 1 .. n + 2 /\ n + 1 \in 1 .. n + 2
      /\ n + 2 \in 1 .. n + 2 /\ n - 2 \in 0 .. n - 2
  OBVIOUS
<1>2. /\ d[n] \in Byte /\ d[n - 1] \in Byte /\ d[n + 1] \in Byte /\ d[n + 2] \in Byte
      /\ {} \in Byte /\ r[n - 2] \in Word /\ f \in 1 .. n + 2
  BY <1>1 DEF WrongAt, IsRun, Byte
<1>3. \A k \in 1 .. n + 2 : k # f /\ k # f + 1 => d[k] = {}
  BY DEF WrongAt
<1>4. TwoBytes({}, {}) = {}
  BY DEF TwoBytes, Up
<1>5. CASE f > n - 2
  <2>1. r[n - 2] = {}
    <3>1. \A k \in 1 .. n - 2 : d[k] = {}
      BY <1>2, <1>3, <1>5
    <3> QED
      BY <1>1, <3>1, RunBefore
  <2>2. Xor(r[n - 2], TwoBytes(d[n], d[n - 1])) = TwoBytes(d[n], d[n - 1])
    BY <2>1, XorAlgebra
  <2>3. d[n] # d[n + 1] \/ d[n - 1] # d[n + 2]
    <3>1. CASE f = n - 1
      BY <1>1, <1>3, <3>1 DEF WrongAt
    <3>2. CASE f = n
      <4>1. d[n] # {} /\ (d[n + 1] = {} \/ (d[n] \subseteq 4 .. 7 /\ d[n + 1] \subseteq 0 .. 3))
        BY <1>1, <3>2 DEF WrongAt
      <4>2. \A k \in 4 .. 7 : k \notin 0 .. 3
        OBVIOUS
      <4> QED
        BY <4>1, <4>2
    <3>3. CASE f = n + 1
      BY <1>1, <1>3, <3>3 DEF WrongAt
    <3>4. CASE f = n + 2
      BY <1>1, <1>3, <3>4 DEF WrongAt
    <3> QED
      BY <1>2, <1>5, <3>1, <3>2, <3>3, <3>4
  <2> QED
    BY <1>2, <2>2, <2>3, TwoBytesXor
<1>6. CASE f <= n - 2
  <2>1. d[n] = {} /\ d[n + 1] = {} /\ d[n + 2] = {}
    BY <1>1, <1>2, <1>3, <1>6
  <2>2. f \in 1 .. n - 2 /\ d[f] # {} /\ d[f] \in Byte /\ \A k \in 1 .. f - 1 : d[k] = {}
    BY <1>1, <1>2, <1>3, <1>6 DEF WrongAt
  <2>3. r[n - 2] # TwoBytes({}, d[n - 1])
    <3>1. CASE f = n - 2
      <4>1. ~Above(r[n - 2], 8)
        BY <1>1, <2>2, <3>1, RunAt
      <4>2. Above(TwoBytes({}, d[n - 1]), 8)
        <5>1. TwoBytes({}, d[n - 1]) = Up(d[n - 1], 8)
          BY DEF TwoBytes
        <5>2. \A j \in d[n - 1] : j \in 0 .. 7
          BY <1>2 DEF Byte
        <5>3. \A j \in 0 .. 7 : j + 8 \in 8 .. 15
          OBVIOUS
        <5> QED
          BY <5>1, <5>2, <5>3 DEF Up, Above
      <4> QED
        BY <4>1, <4>2
    <3>2. CASE f # n - 2
      <4>1. d[n - 1] = {}
        BY <1>1, <1>2, <1>3, <1>6, <3>2
      <4>2. n - 2 \in f + 1 .. n - 2
        BY <1>1, <2>2, <3>2
      <4>3. \A k \in 1 .. n - 2 : d[k] \in Byte
        BY DEF WrongAt
      <4>4. \A k \in f + 2 .. n - 2 : d[k] = {}
        BY <1>1, <1>3, <2>2
      <4>5. r[n - 2] # {}
        BY <1>1, <2>2, <4>2, <4>3, <4>4, RunAfter
      <4> QED
        BY <1>4, <4>1, <4>5
    <3> QED
      BY <3>1, <3>2
  <2> QED
    BY <1>4, <2>1, <2>3, XorAlgebra
<1> QED
  BY <1>2, <1>5, <1>6

(***************************************************************************)
(* The nibbles that change on the way, as differences of bytes.            *)
(***************************************************************************)
ErrorOf(i, e1, e2, t) == IF t = i THEN e1 ELSE IF t = i + 1 THEN e2 ELSE {}

\* d holds the differences of n + 2 bytes if nibble i changes by e1 and the next by e2.
ErrorBytes(d, n, i, e1, e2) ==
  \A k \in 1 .. n + 2 : d[k] = Join(ErrorOf(i, e1, e2, 2 * k - 1), ErrorOf(i, e1, e2, 2 * k))

LEMMA JoinEmpty ==
  ASSUME NEW a \in Nibble, NEW b \in Nibble
  PROVE  /\ {} \in Nibble /\ Join({}, {}) = {}
         /\ Join(a, b) = {} => a = {} /\ b = {}
         /\ Join({}, b) \subseteq 4 .. 7
         /\ Join(a, {}) \subseteq 0 .. 3
<1>1. {} \in Nibble /\ Join({}, {}) = {} /\ Join(a, {}) = a
  BY DEF Nibble, Join, Up
<1>2. ASSUME Join(a, b) = {} PROVE a = {} /\ b = {}
  <2>1. a = {}
    BY <1>2 DEF Join
  <2>2. \A k \in b : k + 4 \in Join(a, b)
    BY DEF Join, Up
  <2> QED
    BY <1>2, <2>1, <2>2
<1>3. Join({}, b) \subseteq 4 .. 7
  <2>1. Join({}, b) = Up(b, 4)
    BY DEF Join
  <2>2. \A k \in b : k \in 0 .. 3
    BY DEF Nibble
  <2>3. \A k \in 0 .. 3 : k + 4 \in 4 .. 7
    OBVIOUS
  <2> QED
    BY <2>1, <2>2, <2>3 DEF Up
<1> QED
  BY <1>1, <1>2, <1>3 DEF Nibble

LEMMA NoError ==
  ASSUME NEW n \in Nat, NEW d, NEW i \in Int, ErrorBytes(d, n, i, {}, {}),
         NEW k \in 1 .. n + 2
  PROVE  d[k] = {}
<1>1. \A t : ErrorOf(i, {}, {}, t) = {}
  BY DEF ErrorOf
<1>2. {} \in Nibble
  BY DEF Nibble
<1>3. d[k] = Join({}, {})
  BY <1>1 DEF ErrorBytes
<1> QED
  BY <1>2, <1>3, JoinEmpty

LEMMA SomeError ==
  ASSUME NEW n \in Nat, n >= 2, NEW d, NEW i \in 1 .. 2 * n + 3,
         NEW e1 \in Nibble, NEW e2 \in Nibble, e1 # {} \/ e2 # {},
         ErrorBytes(d, n, i, e1, e2)
  PROVE  \E f : WrongAt(d, n, f)
<1> DEFINE E(t) == ErrorOf(i, e1, e2, t)
<1>1. {} \in Nibble /\ Join({}, {}) = {}
  BY JoinEmpty
<1>2. \A t : E(t) \in Nibble
  BY <1>1 DEF ErrorOf
<1>3. \A k \in 1 .. n + 2 : d[k] = Join(E(2 * k - 1), E(2 * k)) /\ d[k] \in Byte
  <2> HIDE DEF E
  <2>1. \A k \in 1 .. n + 2 : d[k] = Join(E(2 * k - 1), E(2 * k))
    BY DEF ErrorBytes, E
  <2> QED
    BY <1>2, <2>1, JoinMember
<1>4. E(i) = e1 /\ E(i + 1) = e2 /\ \A t \in Int : t # i /\ t # i + 1 => E(t) = {}
  BY DEF ErrorOf
<1> HIDE DEF E
<1>5. \/ \E j \in 1 .. n + 2 : i = 2 * j - 1
      \/ \E j \in 1 .. n + 1 : i = 2 * j
  <2>1. i % 2 = 1 \/ i % 2 = 0
    OBVIOUS
  <2>2. CASE i % 2 = 1
    <3>1. (i + 1) \div 2 \in 1 .. n + 2 /\ i = 2 * ((i + 1) \div 2) - 1
      BY <2>2
    <3> QED
      BY <3>1
  <2>3. CASE i % 2 = 0
    <3>1. i \div 2 \in 1 .. n + 1 /\ i = 2 * (i \div 2)
      BY <2>3
    <3> QED
      BY <3>1
  <2> QED
    BY <2>1, <2>2, <2>3
<1>6. CASE \E j \in 1 .. n + 2 : i = 2 * j - 1
  <2>1. PICK j \in 1 .. n + 2 : i = 2 * j - 1
    BY <1>6
  <2>2. d[j] = Join(e1, e2)
    <3>1. 2 * j - 1 = i /\ 2 * j = i + 1
      BY <2>1
    <3> QED
      BY <1>3, <1>4, <3>1
  <2>3. d[j] # {}
    BY <2>2, JoinEmpty
  <2>4. ASSUME NEW k \in 1 .. n + 2, k # j PROVE d[k] = {}
    <3>1. E(2 * k - 1) = {} /\ E(2 * k) = {}
      <4>1. 2 * k - 1 # i /\ 2 * k - 1 # i + 1 /\ 2 * k # i /\ 2 * k # i + 1
        BY <2>1, <2>4
      <4> QED
        BY <1>4, <4>1
    <3> QED
      BY <1>1, <1>3, <3>1
  <2>5. j + 1 <= n + 2 => d[j + 1] = {}
    <3>1. j + 1 <= n + 2 => j + 1 \in 1 .. n + 2 /\ j + 1 # j
      OBVIOUS
    <3> QED
      BY <2>4, <3>1
  <2>6. WrongAt(d, n, j)
    BY <1>3, <2>3, <2>4, <2>5 DEF WrongAt
  <2> QED
    BY <2>6
<1>7. CASE \E j \in 1 .. n + 1 : i = 2 * j
  <2>1. PICK j \in 1 .. n + 1 : i = 2 * j
    BY <1>7
  <2>2. j \in 1 .. n + 2 /\ j + 1 \in 1 .. n + 2
    OBVIOUS
  <2>3. d[j] = Join({}, e1)
    <3>1. 2 * j = i /\ 2 * j - 1 \in Int /\ 2 * j - 1 # i /\ 2 * j - 1 # i + 1
      BY <2>1
    <3> QED
      BY <1>3, <1>4, <2>2, <3>1
  <2>4. d[j + 1] = Join(e2, {})
    <3>1. /\ 2 * (j + 1) - 1 = i + 1
          /\ 2 * (j + 1) \in Int /\ 2 * (j + 1) # i /\ 2 * (j + 1) # i + 1
      BY <2>1
    <3>2. d[j + 1] = Join(E(2 * (j + 1) - 1), E(2 * (j + 1)))
      BY <1>3, <2>2
    <3>3. E(2 * (j + 1)) = {}
      BY <1>4, <3>1
    <3> QED
      BY <1>4, <3>1, <3>2, <3>3
  <2>5. ASSUME NEW k \in 1 .. n + 2, k # j, k # j + 1 PROVE d[k] = {}
    <3>1. E(2 * k - 1) = {} /\ E(2 * k) = {}
      <4>1. 2 * k - 1 # i /\ 2 * k - 1 # i + 1 /\ 2 * k # i /\ 2 * k # i + 1
        BY <2>1, <2>5
      <4> QED
        BY <1>4, <4>1
    <3> QED
      BY <1>1, <1>3, <3>1
  <2>6. CASE e1 # {}
    <3>1. d[j] # {} /\ d[j] \subseteq 4 .. 7 /\ d[j + 1] \subseteq 0 .. 3
      BY <1>1, <2>3, <2>4, <2>6, JoinEmpty
    <3>2. WrongAt(d, n, j)
      BY <1>3, <2>2, <2>5, <3>1 DEF WrongAt
    <3> QED
      BY <3>2
  <2>7. CASE e1 = {}
    <3>1. d[j] = {} /\ d[j + 1] # {}
      BY <1>1, <2>3, <2>4, <2>7, JoinEmpty
    <3>2. (j + 1) + 1 <= n + 2 => d[(j + 1) + 1] = {}
      <4>1. (j + 1) + 1 <= n + 2 => /\ (j + 1) + 1 \in 1 .. n + 2
                                    /\ (j + 1) + 1 # j /\ (j + 1) + 1 # j + 1
        OBVIOUS
      <4> QED
        BY <2>5, <4>1
    <3>3. WrongAt(d, n, j + 1)
      BY <1>3, <2>2, <2>5, <3>1, <3>2 DEF WrongAt
    <3> QED
      BY <3>3
  <2> QED
    BY <2>6, <2>7
<1> QED
  BY <1>5, <1>6, <1>7

(***************************************************************************)
(* The two sides: what is sent, what arrives and what is made of it.       *)
(***************************************************************************)
Sent(p) ==
  [i \in 1 .. 2 * Len(p) |->
     NibbleOf(Xor(p[(i + 1) \div 2], WhiteningByte((i + 1) \div 2)), IF i % 2 = 1 THEN 0 ELSE 1)]
    \o <<NibbleOf(PayloadCrc(p), 0), NibbleOf(PayloadCrc(p), 1),
         NibbleOf(PayloadCrc(p), 2), NibbleOf(PayloadCrc(p), 3)>>

Arrived(p, i, e1, e2) == [Sent(p) EXCEPT ![i] = Xor(@, e1), ![i + 1] = Xor(@, e2)]

Dewhitened(got, n) ==
  [k \in 1 .. n + 2 |-> Xor(Join(got[2 * k - 1], got[2 * k]), IF k <= n THEN WhiteningByte(k) ELSE {})]

LEMMA WhiteningByteType ==
  ASSUME NEW k
  PROVE  WhiteningByte(k) \in Byte
  BY DEF WhiteningByte, Byte

LEMMA CrcType ==
  ASSUME NEW p, Len(p) \in Nat
  PROVE  Crc16(p) \in Word
<1>1. PICK r : IsRun(r, p, Len(p)) /\ Crc16(p) = r[Len(p)]
  BY CrcRun
<1>2. Len(p) \in 0 .. Len(p)
  OBVIOUS
<1> QED
  BY <1>1, <1>2 DEF IsRun

\* The CRC of a payload, apart from its last two bytes, which are not shifted in.
LEMMA PayloadCrcParts ==
  ASSUME NEW p \in Seq(Byte), Len(p) >= 2
  PROVE  /\ PayloadCrc(p) = Xor(Crc16(SubSeq(p, 1, Len(p) - 2)), TwoBytes(p[Len(p)], p[Len(p) - 1]))
         /\ Len(SubSeq(p, 1, Len(p) - 2)) = Len(p) - 2
         /\ \A k \in 1 .. Len(p) - 2 : SubSeq(p, 1, Len(p) - 2)[k] = p[k]
         /\ \A k \in 1 .. Len(p) : p[k] \in Byte
         /\ PayloadCrc(p) \in Word
<1> DEFINE n == Len(p)
           s == SubSeq(p, 1, n - 2)
<1>1. n \in Nat /\ \A k \in 1 .. n : p[k] \in Byte
  BY LenProperties, ElementOfSeq
<1>2. Len(s) = n - 2 /\ \A k \in 1 .. n - 2 : s[k] = p[k]
  <2>1. n - 2 \in Int /\ 1 \in Int /\ \A k \in 1 .. n - 2 : p[k] \in Byte
    BY <1>1
  <2>2. /\ Len(s) = IF 1 <= n - 2 THEN (n - 2) - 1 + 1 ELSE 0
        /\ \A k \in 1 .. (n - 2) - 1 + 1 : s[k] = p[1 + k - 1]
    BY <2>1, SubSeqProperties
  <2> HIDE DEF s
  <2>3. Len(s) = n - 2
    <3>1. (1 <= n - 2 /\ (n - 2) - 1 + 1 = n - 2) \/ (~(1 <= n - 2) /\ n - 2 = 0)
      <4>1. n >= 2
        OBVIOUS
      <4> HIDE DEF n
      <4> QED
        BY <1>1, <4>1
    <3> HIDE DEF n
    <3> QED
      BY <2>2, <3>1
  <2>4. ASSUME NEW k \in 1 .. n - 2 PROVE s[k] = p[k]
    <3>1. k \in 1 .. (n - 2) - 1 + 1 /\ 1 + k - 1 = k
      BY <1>1
    <3> QED
      BY <2>2, <3>1
  <2> QED
    BY <2>3, <2>4
<1>3. PayloadCrc(p) = Xor(Crc16(s), TwoBytes(p[n], p[n - 1]))
  BY DEF PayloadCrc, TwoBytes
<1>4. Crc16(s) \in Word /\ TwoBytes(p[n], p[n - 1]) \in Word
  <2>1. n \in 1 .. n /\ n - 1 \in 1 .. n
    BY <1>1
  <2>2. Len(s) \in Nat
    BY <1>1, <1>2
  <2> QED
    BY <1>1, <2>1, <2>2, CrcType, TwoBytesMember
<1>5. PayloadCrc(p) \in Word
  BY <1>3, <1>4, XorWord
<1> QED
  BY <1>1, <1>2, <1>3, <1>5

LEMMA SentNibbles ==
  ASSUME NEW p \in Seq(Byte), Len(p) >= 2
  PROVE  /\ Sent(p) \in Seq(Nibble) /\ Len(Sent(p)) = 2 * Len(p) + 4
         /\ \A k \in 1 .. Len(p) :
              /\ Sent(p)[2 * k - 1] = NibbleOf(Xor(p[k], WhiteningByte(k)), 0)
              /\ Sent(p)[2 * k] = NibbleOf(Xor(p[k], WhiteningByte(k)), 1)
         /\ \A k \in 1 .. 4 : Sent(p)[2 * Len(p) + k] = NibbleOf(PayloadCrc(p), k - 1)
<1> DEFINE n == Len(p)
           c(k) == NibbleOf(PayloadCrc(p), k)
           front == [i \in 1 .. 2 * n |->
                       NibbleOf(Xor(p[(i + 1) \div 2], WhiteningByte((i + 1) \div 2)),
                                IF i % 2 = 1 THEN 0 ELSE 1)]
           back == <<c(0), c(1), c(2), c(3)>>
<1>1. n \in Nat
  BY LenProperties
<1>2. Sent(p) = front \o back
  BY DEF Sent
<1>3. front \in Seq(Nibble) /\ Len(front) = 2 * n
  <2>1. \A i \in 1 .. 2 * n : front[i] \in Nibble
    BY NibbleOfType
  <2>2. front \in [1 .. 2 * n -> Nibble] /\ 2 * n \in Nat
    BY <1>1, <2>1
  <2> HIDE DEF front
  <2> QED
    BY <2>2
<1>4. /\ back \in Seq(Nibble) /\ Len(back) = 4
      /\ back[1] = c(0) /\ back[2] = c(1) /\ back[3] = c(2) /\ back[4] = c(3)
  <2>1. c(0) \in Nibble /\ c(1) \in Nibble /\ c(2) \in Nibble /\ c(3) \in Nibble
    BY NibbleOfType
  <2> HIDE DEF c
  <2> QED
    BY <2>1
<1>5. ASSUME NEW k \in 1 .. n
      PROVE  /\ front[2 * k - 1] = NibbleOf(Xor(p[k], WhiteningByte(k)), 0)
             /\ front[2 * k] = NibbleOf(Xor(p[k], WhiteningByte(k)), 1)
  <2>1. /\ 2 * k - 1 \in 1 .. 2 * n /\ 2 * k \in 1 .. 2 * n
        /\ ((2 * k - 1) + 1) \div 2 = k /\ (2 * k + 1) \div 2 = k
        /\ (2 * k - 1) % 2 = 1 /\ (2 * k) % 2 = 0
    BY <1>1
  <2>2. \A i \in 1 .. 2 * n :
          front[i] = NibbleOf(Xor(p[(i + 1) \div 2], WhiteningByte((i + 1) \div 2)),
                              IF i % 2 = 1 THEN 0 ELSE 1)
    OBVIOUS
  <2>3. front[2 * k - 1] = NibbleOf(Xor(p[k], WhiteningByte(k)), 0)
    <3>1. front[2 * k - 1] =
            NibbleOf(Xor(p[((2 * k - 1) + 1) \div 2], WhiteningByte(((2 * k - 1) + 1) \div 2)),
                     IF (2 * k - 1) % 2 = 1 THEN 0 ELSE 1)
      BY <2>1, <2>2
    <3> HIDE DEF front
    <3> QED
      BY <2>1, <3>1
  <2>4. front[2 * k] = NibbleOf(Xor(p[k], WhiteningByte(k)), 1)
    <3>1. front[2 * k] =
            NibbleOf(Xor(p[(2 * k + 1) \div 2], WhiteningByte((2 * k + 1) \div 2)),
                     IF (2 * k) % 2 = 1 THEN 0 ELSE 1)
      BY <2>1, <2>2
    <3> HIDE DEF front
    <3> QED
      BY <2>1, <3>1
  <2> QED
    BY <2>3, <2>4
<1> HIDE DEF front, back, c
<1>6. /\ front \o back \in Seq(Nibble) /\ Len(front \o back) = 2 * n + 4
      /\ \A i \in 1 .. 2 * n + 4 :
           (front \o back)[i] = IF i <= 2 * n THEN front[i] ELSE back[i - 2 * n]
  <2> HIDE DEF n
  <2>1. /\ front \o back \in Seq(Nibble) /\ Len(front \o back) = Len(front) + Len(back)
        /\ \A i \in 1 .. Len(front) + Len(back) :
             (front \o back)[i] = IF i <= Len(front) THEN front[i] ELSE back[i - Len(front)]
    BY <1>3, <1>4, ConcatProperties
  <2> QED
    BY <1>3, <1>4, <2>1
<1> DEFINE all == front \o back
<1> HIDE DEF all
<1>7. ASSUME NEW k \in 1 .. n
      PROVE  all[2 * k - 1] = front[2 * k - 1] /\ all[2 * k] = front[2 * k]
  <2>1. /\ 2 * k - 1 \in 1 .. 2 * n + 4 /\ 2 * k \in 1 .. 2 * n + 4
        /\ 2 * k - 1 <= 2 * n /\ 2 * k <= 2 * n
    BY <1>1
  <2> QED
    BY <1>6, <2>1 DEF all
<1>8. ASSUME NEW k \in 1 .. 4 PROVE all[2 * n + k] = back[k]
  <2>1. 2 * n + k \in 1 .. 2 * n + 4 /\ ~(2 * n + k <= 2 * n) /\ (2 * n + k) - 2 * n = k
    BY <1>1
  <2> QED
    BY <1>6, <2>1 DEF all
<1>9. ASSUME NEW k \in 1 .. 4 PROVE back[k] = c(k - 1)
  <2>1. CASE k = 1
    BY <1>4, <2>1
  <2>2. CASE k = 2
    BY <1>4, <2>2
  <2>3. CASE k = 3
    BY <1>4, <2>3
  <2>4. CASE k = 4
    BY <1>4, <2>4
  <2> QED
    BY <2>1, <2>2, <2>3, <2>4
<1> QED
  BY <1>2, <1>5, <1>6, <1>7, <1>8, <1>9 DEF all, c

LEMMA ArrivedNibbles ==
  ASSUME NEW p \in Seq(Byte), Len(p) >= 2, NEW i \in 1 .. 2 * Len(p) + 3,
         NEW e1 \in Nibble, NEW e2 \in Nibble
  PROVE  /\ Len(Arrived(p, i, e1, e2)) = 2 * Len(p) + 4
         /\ \A t \in 1 .. 2 * Len(p) + 4 :
              Arrived(p, i, e1, e2)[t] = Xor(Sent(p)[t], ErrorOf(i, e1, e2, t))
<1> DEFINE s == Sent(p)
           a == Arrived(p, i, e1, e2)
           len == 2 * Len(p) + 4
<1>1. s \in Seq(Nibble) /\ Len(s) = len /\ Len(p) \in Nat
  BY SentNibbles, LenProperties
<1>2. a = [s EXCEPT ![i] = Xor(@, e1), ![i + 1] = Xor(@, e2)]
  BY DEF Arrived
<1> HIDE DEF a, s
<1>3. s \in [1 .. len -> Nibble]
  BY <1>1, LenProperties
<1>4. i \in 1 .. len /\ i + 1 \in 1 .. len /\ i # i + 1
  BY <1>1
<1>5. /\ DOMAIN a = 1 .. len /\ a[i] = Xor(s[i], e1) /\ a[i + 1] = Xor(s[i + 1], e2)
      /\ \A t \in 1 .. len : t # i /\ t # i + 1 => a[t] = s[t]
  BY <1>2, <1>3, <1>4
<1>6. Len(a) = len
  <2>1. \A t \in 1 .. len : a[t] \in {a[u] : u \in 1 .. len}
    OBVIOUS
  <2>2. a = [t \in 1 .. len |-> a[t]]
    BY <1>2, <1>3
  <2>3. a \in [1 .. len -> {a[u] : u \in 1 .. len}]
    BY <2>1, <2>2
  <2>4. len \in Nat
    BY <1>1
  <2> HIDE DEF len
  <2> QED
    BY <1>5, <2>3, <2>4
<1>7. ASSUME NEW t \in 1 .. len PROVE a[t] = Xor(s[t], ErrorOf(i, e1, e2, t))
  BY <1>4, <1>5, XorAlgebra DEF ErrorOf
<1> QED
  BY <1>6, <1>7 DEF a, s

LEMMA XorCancel ==
  ASSUME NEW a, NEW b, NEW c
  PROVE  Xor(Xor(Xor(a, b), c), b) = Xor(a, c)
  BY DEF Xor

\* Two CRCs that differ by x, from last bytes that differ by y: the first, changed by z on
\* the way, is the second if that makes up for both.
LEMMA XorBalance ==
  ASSUME NEW a, NEW b, NEW c, NEW d, NEW z
  PROVE  Xor(Xor(a, c), z) = Xor(b, d) <=> Xor(Xor(a, b), Xor(c, d)) = z
<1> DEFINE l == Xor(Xor(a, c), z)
           r == Xor(b, d)
           m == Xor(Xor(a, b), Xor(c, d))
<1>1. \A k : /\ k \in l <=> ~(~(k \in a <=> k \in c) <=> k \in z)
             /\ k \in r <=> ~(k \in b <=> k \in d)
             /\ k \in m <=> ~(~(k \in a <=> k \in b) <=> ~(k \in c <=> k \in d))
  BY XorMember
<1> HIDE DEF l, r, m
<1>2. ASSUME l = r PROVE m = z
  <2>1. \A k : k \in m <=> k \in z
    BY <1>1, <1>2
  <2> QED
    BY <2>1
<1>3. ASSUME m = z PROVE l = r
  <2>1. \A k : k \in l <=> k \in r
    BY <1>1, <1>3
  <2> QED
    BY <2>1
<1>4. l = r <=> m = z
  BY <1>2, <1>3
<1> QED
  BY <1>4 DEF l, r, m

\* What the Decoder makes of it: the bytes that were sent, but for the differences d, and
\* the comparison of the CRCs is one of these differences.
LEMMA Decoding ==
  ASSUME NEW p \in Seq(Byte), Len(p) >= 2, NEW i \in 1 .. 2 * Len(p) + 3,
         NEW e1 \in Nibble, NEW e2 \in Nibble,
         NEW out, out = Dewhitened(Arrived(p, i, e1, e2), Len(p))
  PROVE  \E d, r :
           LET n == Len(p)
               q == SubSeq(out, 1, n)
           IN  /\ ErrorBytes(d, n, i, e1, e2)
               /\ IsRun(r, d, n - 2)
               /\ Len(q) = n /\ \A k \in 1 .. n : q[k] = Xor(p[k], d[k])
               /\ TwoBytes(out[n + 1], out[n + 2]) = PayloadCrc(q)
                    <=> Xor(r[n - 2], TwoBytes(d[n], d[n - 1])) = TwoBytes(d[n + 1], d[n + 2])
<1> DEFINE n == Len(p)
           a == Arrived(p, i, e1, e2)
           E(t) == ErrorOf(i, e1, e2, t)
           d == [k \in 1 .. n + 2 |-> Join(E(2 * k - 1), E(2 * k))]
           crc == PayloadCrc(p)
           q == SubSeq(out, 1, n)
<1>1. n \in Nat /\ \A k \in 1 .. n : p[k] \in Byte
  BY LenProperties, ElementOfSeq
<1>2. \A t : E(t) \in Nibble
  BY JoinEmpty DEF ErrorOf
<1>3. \A t \in 1 .. 2 * n + 4 : a[t] = Xor(Sent(p)[t], E(t))
  BY ArrivedNibbles
<1> HIDE DEF a, E
<1>4. \A k \in 1 .. n + 2 : d[k] = Join(E(2 * k - 1), E(2 * k)) /\ d[k] \in Byte
  BY <1>2, JoinMember
<1>5. ErrorBytes(d, n, i, e1, e2)
  <2> HIDE DEF d
  <2> QED
    BY <1>4 DEF ErrorBytes, E
<1> HIDE DEF d
<1>6. \A k \in 1 .. n + 2 :
        out[k] = Xor(Join(a[2 * k - 1], a[2 * k]), IF k <= n THEN WhiteningByte(k) ELSE {})
  BY DEF Dewhitened, a
<1>7. ASSUME NEW k \in 1 .. n PROVE out[k] = Xor(p[k], d[k]) /\ out[k] \in Byte
  <2> DEFINE w == Xor(p[k], WhiteningByte(k))
  <2>1. w \in Byte
    BY <1>1, WhiteningByteType, XorByte
  <2>2. 2 * k - 1 \in 1 .. 2 * n + 4 /\ 2 * k \in 1 .. 2 * n + 4 /\ k \in 1 .. n + 2 /\ k <= n
    BY <1>1
  <2>3. a[2 * k - 1] = Xor(NibbleOf(w, 0), E(2 * k - 1)) /\ a[2 * k] = Xor(NibbleOf(w, 1), E(2 * k))
    BY <1>3, <2>2, SentNibbles
  <2> HIDE DEF w
  <2>4. Join(a[2 * k - 1], a[2 * k]) = Xor(Join(NibbleOf(w, 0), NibbleOf(w, 1)), d[k])
    BY <1>2, <1>4, <2>2, <2>3, NibbleOfType, JoinXor
  <2>5. Join(a[2 * k - 1], a[2 * k]) = Xor(w, d[k])
    BY <2>1, <2>4, JoinNibbles
  <2>6. out[k] = Xor(Xor(w, d[k]), WhiteningByte(k))
    BY <1>6, <2>2, <2>5
  <2>7. out[k] = Xor(p[k], d[k])
    BY <2>6, XorCancel DEF w
  <2> QED
    BY <1>1, <1>4, <2>2, <2>7, XorByte
<1>8. crc \in Word
  BY PayloadCrcParts
<1> DEFINE low == Join(NibbleOf(crc, 0), NibbleOf(crc, 1))
           high == Join(NibbleOf(crc, 2), NibbleOf(crc, 3))
<1>9. low \in Byte /\ high \in Byte /\ TwoBytes(low, high) = crc
  BY <1>8, NibbleOfType, JoinMember, WordNibbles
<1>10. out[n + 1] = Xor(low, d[n + 1]) /\ out[n + 2] = Xor(high, d[n + 2])
  <2>1. /\ Sent(p)[2 * n + 1] = NibbleOf(crc, 0) /\ Sent(p)[2 * n + 2] = NibbleOf(crc, 1)
        /\ Sent(p)[2 * n + 3] = NibbleOf(crc, 2) /\ Sent(p)[2 * n + 4] = NibbleOf(crc, 3)
    <3>1. \A k \in 1 .. 4 : Sent(p)[2 * n + k] = NibbleOf(crc, k - 1)
      BY SentNibbles
    <3>2. 1 \in 1 .. 4 /\ 2 \in 1 .. 4 /\ 3 \in 1 .. 4 /\ 4 \in 1 .. 4
      OBVIOUS
    <3>3. 1 - 1 = 0 /\ 2 - 1 = 1 /\ 3 - 1 = 2 /\ 4 - 1 = 3
      OBVIOUS
    <3> HIDE DEF crc
    <3> QED
      BY <3>1, <3>2, <3>3
  <2>2. /\ 2 * (n + 1) - 1 = 2 * n + 1 /\ 2 * (n + 1) = 2 * n + 2
        /\ 2 * (n + 2) - 1 = 2 * n + 3 /\ 2 * (n + 2) = 2 * n + 4
        /\ 2 * n + 1 \in 1 .. 2 * n + 4 /\ 2 * n + 2 \in 1 .. 2 * n + 4
        /\ 2 * n + 3 \in 1 .. 2 * n + 4 /\ 2 * n + 4 \in 1 .. 2 * n + 4
        /\ n + 1 \in 1 .. n + 2 /\ n + 2 \in 1 .. n + 2 /\ ~(n + 1 <= n) /\ ~(n + 2 <= n)
    BY <1>1
  <2> HIDE DEF crc
  <2>3. /\ a[2 * n + 1] = Xor(NibbleOf(crc, 0), E(2 * n + 1))
        /\ a[2 * n + 2] = Xor(NibbleOf(crc, 1), E(2 * n + 2))
        /\ a[2 * n + 3] = Xor(NibbleOf(crc, 2), E(2 * n + 3))
        /\ a[2 * n + 4] = Xor(NibbleOf(crc, 3), E(2 * n + 4))
    BY <1>3, <2>1, <2>2
  <2>4. /\ d[n + 1] = Join(E(2 * n + 1), E(2 * n + 2))
        /\ d[n + 2] = Join(E(2 * n + 3), E(2 * n + 4))
    <3>1. /\ d[n + 1] = Join(E(2 * (n + 1) - 1), E(2 * (n + 1)))
          /\ d[n + 2] = Join(E(2 * (n + 2) - 1), E(2 * (n + 2)))
      BY <1>4, <2>2
    <3> QED
      BY <2>2, <3>1
  <2>5. /\ Join(a[2 * n + 1], a[2 * n + 2]) = Xor(low, d[n + 1])
        /\ Join(a[2 * n + 3], a[2 * n + 4]) = Xor(high, d[n + 2])
    BY <1>2, <2>3, <2>4, NibbleOfType, JoinXor
  <2>6. /\ out[n + 1] = Xor(Join(a[2 * n + 1], a[2 * n + 2]), {})
        /\ out[n + 2] = Xor(Join(a[2 * n + 3], a[2 * n + 4]), {})
    <3>1. /\ out[n + 1] = Xor(Join(a[2 * (n + 1) - 1], a[2 * (n + 1)]), {})
          /\ out[n + 2] = Xor(Join(a[2 * (n + 2) - 1], a[2 * (n + 2)]), {})
      BY <1>6, <2>2
    <3> QED
      BY <2>2, <3>1
  <2> HIDE DEF low, high
  <2>7. /\ Xor(Xor(low, d[n + 1]), {}) = Xor(low, d[n + 1])
        /\ Xor(Xor(high, d[n + 2]), {}) = Xor(high, d[n + 2])
    BY XorAlgebra, Zenon
  <2> QED
    BY <2>5, <2>6, <2>7
<1> HIDE DEF low, high
<1>11. q \in Seq(Byte) /\ Len(q) = n /\ \A k \in 1 .. n : q[k] = out[k]
  <2>1. /\ q \in Seq(Byte) /\ Len(q) = IF 1 <= n THEN n - 1 + 1 ELSE 0
        /\ \A k \in 1 .. n - 1 + 1 : q[k] = out[1 + k - 1]
    BY <1>1, <1>7, SubSeqProperties
  <2> HIDE DEF q
  <2>2. Len(q) = n
    BY <1>1, <2>1
  <2>3. ASSUME NEW k \in 1 .. n PROVE q[k] = out[k]
    <3>1. k \in 1 .. n - 1 + 1 /\ 1 + k - 1 = k
      BY <1>1
    <3> QED
      BY <2>1, <3>1
  <2> QED
    BY <2>1, <2>2, <2>3
<1> HIDE DEF q
<1>12. \A k \in 1 .. n : q[k] = Xor(p[k], d[k]) /\ q[k] \in Byte
  BY <1>7, <1>11
<1> DEFINE ps == SubSeq(p, 1, n - 2)
           qs == SubSeq(q, 1, n - 2)
           dx == TwoBytes(d[n], d[n - 1])
           dz == TwoBytes(d[n + 1], d[n + 2])
<1>13. /\ crc = Xor(Crc16(ps), TwoBytes(p[n], p[n - 1]))
       /\ Len(ps) = n - 2 /\ \A k \in 1 .. n - 2 : ps[k] = p[k]
  BY PayloadCrcParts
<1>14. /\ PayloadCrc(q) = Xor(Crc16(qs), TwoBytes(q[n], q[n - 1]))
       /\ Len(qs) = n - 2 /\ \A k \in 1 .. n - 2 : qs[k] = q[k]
  <2>1. Len(q) >= 2
    BY <1>11
  <2> QED
    BY <1>11, <2>1, PayloadCrcParts
<1> HIDE DEF ps, qs, crc
<1>15. PICK r : IsRun(r, d, n - 2) /\ Xor(Crc16(ps), Crc16(qs)) = r[n - 2]
  <2>1. ASSUME NEW k \in 1 .. Len(ps) PROVE d[k] = Xor(ps[k], qs[k])
    <3>1. k \in 1 .. n - 2 /\ k \in 1 .. n
      BY <1>1, <1>13
    <3>2. Xor(ps[k], qs[k]) = Xor(p[k], Xor(p[k], d[k]))
      BY <1>12, <1>13, <1>14, <3>1
    <3>3. Xor(p[k], Xor(p[k], d[k])) = d[k]
      BY DEF Xor
    <3> QED
      BY <3>2, <3>3
  <2>2. Len(ps) \in Nat /\ Len(qs) = Len(ps)
    BY <1>1, <1>13, <1>14
  <2>3. \E r : IsRun(r, d, Len(ps)) /\ Xor(Crc16(ps), Crc16(qs)) = r[Len(ps)]
    BY <2>1, <2>2, CrcDifference
  <2> QED
    BY <1>13, <2>3
<1>16. /\ n \in 1 .. n /\ n - 1 \in 1 .. n /\ n \in 1 .. n + 2 /\ n - 1 \in 1 .. n + 2
       /\ n + 1 \in 1 .. n + 2 /\ n + 2 \in 1 .. n + 2
  BY <1>1
<1>17. Xor(TwoBytes(p[n], p[n - 1]), TwoBytes(q[n], q[n - 1])) = dx
  <2>1. /\ p[n] \in Byte /\ p[n - 1] \in Byte /\ q[n] \in Byte /\ q[n - 1] \in Byte
    BY <1>1, <1>12, <1>16
  <2>2. Xor(p[n], q[n]) = d[n] /\ Xor(p[n - 1], q[n - 1]) = d[n - 1]
    <3>1. q[n] = Xor(p[n], d[n]) /\ q[n - 1] = Xor(p[n - 1], d[n - 1])
      BY <1>12, <1>16
    <3>2. Xor(p[n], Xor(p[n], d[n])) = d[n] /\ Xor(p[n - 1], Xor(p[n - 1], d[n - 1])) = d[n - 1]
      BY DEF Xor
    <3> QED
      BY <3>1, <3>2
  <2> QED
    BY <2>1, <2>2, TwoBytesXor
<1>18. TwoBytes(out[n + 1], out[n + 2]) = Xor(crc, dz)
  <2>1. d[n + 1] \in Byte /\ d[n + 2] \in Byte
    BY <1>4, <1>16
  <2> QED
    BY <1>9, <1>10, <2>1, TwoBytesXor
<1>19. TwoBytes(out[n + 1], out[n + 2]) = PayloadCrc(q) <=> Xor(r[n - 2], dx) = dz
  <2> HIDE DEF dx, dz
  <2> QED
    BY <1>13, <1>14, <1>15, <1>17, <1>18, XorBalance
<1>20. Len(q) = n /\ \A k \in 1 .. n : q[k] = Xor(p[k], d[k])
  BY <1>11, <1>12
<1> QED
  BY <1>5, <1>15, <1>19, <1>20 DEF q

(***************************************************************************)
(* The specification.                                                      *)
(***************************************************************************)
PayloadInv ==
  /\ payload \in Seq(Byte) /\ Len(payload) \in Nat /\ Len(payload) >= 2
  /\ stage \in {"encode", "air", "decode", "decoded"}
  /\ stage = "air" => nibbles = Sent(payload)
  /\ stage = "decode" =>
       \E i \in 1 .. 2 * Len(payload) + 3, e1, e2 \in Nibble :
         errors = <<e1, e2>> /\ nibbles = Arrived(payload, i, e1, e2)
  /\ IntactPayloadPasses
  /\ WrongNibblesFail

LEMMA PayloadInit ==
  ASSUME PayloadBytes \subseteq Byte, PayloadLens \subseteq 2 .. 255, Init
  PROVE  PayloadInv
<1>1. stage = "encode"
  BY DEF Init
<1>2. PICK len \in PayloadLens : payload \in [1 .. len -> PayloadBytes]
  BY DEF Init
<1>3. len \in 2 .. 255
  OBVIOUS
<1>4. payload \in Seq(Byte) /\ Len(payload) = len
  <2>1. payload \in [1 .. len -> Byte] /\ len \in Nat
    BY <1>2, <1>3
  <2> QED
    BY <2>1
<1> QED
  BY <1>1, <1>3, <1>4 DEF PayloadInv, IntactPayloadPasses, WrongNibblesFail

LEMMA PayloadDecoded ==
  ASSUME PayloadInv, DecodePayload
  PROVE  IntactPayloadPasses' /\ WrongNibblesFail'
<1> DEFINE n == Len(payload)
<1>1. /\ stage = "decode" /\ payload \in Seq(Byte) /\ n \in Nat /\ n >= 2
      /\ UNCHANGED <<payload, nibbles, errors>>
  BY DEF PayloadInv, DecodePayload
<1>2. PICK i \in 1 .. 2 * n + 3, e1 \in Nibble, e2 \in Nibble :
        errors = <<e1, e2>> /\ nibbles = Arrived(payload, i, e1, e2)
  BY <1>1 DEF PayloadInv
<1>3. Len(nibbles) \div 2 - 2 = n
  <2>1. Len(nibbles) = 2 * n + 4
    BY <1>1, <1>2, ArrivedNibbles
  <2> QED
    BY <1>1, <2>1
<1> DEFINE out == dewhitened'
           q == SubSeq(out, 1, n)
<1>4. out = Dewhitened(Arrived(payload, i, e1, e2), n)
  <2>1. out = [k \in 1 .. n + 2 |-> Xor(Join(nibbles[2 * k - 1], nibbles[2 * k]),
                                        IF k <= n THEN WhiteningByte(k) ELSE {})]
    BY <1>3 DEF DecodePayload
  <2> QED
    BY <1>2, <2>1 DEF Dewhitened
<1>5. crc_valid' = (TwoBytes(out[n + 1], out[n + 2]) = PayloadCrc(q))
  BY <1>3 DEF DecodePayload, TwoBytes
<1> HIDE DEF out
<1>6. PICK d, r :
        /\ ErrorBytes(d, n, i, e1, e2)
        /\ IsRun(r, d, n - 2)
        /\ Len(q) = n /\ \A k \in 1 .. n : q[k] = Xor(payload[k], d[k])
        /\ TwoBytes(out[n + 1], out[n + 2]) = PayloadCrc(q)
             <=> Xor(r[n - 2], TwoBytes(d[n], d[n - 1])) = TwoBytes(d[n + 1], d[n + 2])
  BY <1>1, <1>4, Decoding
<1>7. ASSUME e1 = {}, e2 = {} PROVE crc_valid' /\ q = payload
  <2>1. \A k \in 1 .. n + 2 : d[k] = {}
    BY <1>1, <1>6, <1>7, NoError
  <2>2. r[n - 2] = {}
    <3>1. n - 2 \in Nat /\ n - 2 \in 0 .. n - 2 /\ \A k \in 1 .. n - 2 : k \in 1 .. n + 2
      BY <1>1
    <3>2. \A k \in 1 .. n - 2 : d[k] = {}
      BY <2>1, <3>1
    <3> QED
      BY <1>6, <3>1, <3>2, RunBefore
  <2>3. d[n] = {} /\ d[n - 1] = {} /\ d[n + 1] = {} /\ d[n + 2] = {}
    BY <1>1, <2>1
  <2>4. Xor(r[n - 2], TwoBytes(d[n], d[n - 1])) = TwoBytes(d[n + 1], d[n + 2])
    <3>1. Xor({}, TwoBytes({}, {})) = TwoBytes({}, {})
      BY DEF TwoBytes, Up, Xor
    <3> QED
      BY <2>2, <2>3, <3>1
  <2>5. \A k \in 1 .. n : q[k] = payload[k]
    <3>1. ASSUME NEW k \in 1 .. n PROVE q[k] = payload[k]
      <4>1. q[k] = Xor(payload[k], d[k]) /\ d[k] = {}
        <5>1. k \in 1 .. n + 2
          BY <1>1
        <5> HIDE DEF q
        <5> QED
          BY <1>6, <2>1, <5>1
      <4> QED
        BY <4>1, XorAlgebra
    <3> QED
      BY <3>1
  <2>6. q = payload
    <3>1. \A k \in 1 .. n : out[k] \in {out[j] : j \in 1 .. n}
      OBVIOUS
    <3>2. q \in Seq({out[j] : j \in 1 .. n})
      <4> DEFINE S == {out[j] : j \in 1 .. n}
      <4>1. \A k \in 1 .. n : out[k] \in S
        BY <3>1
      <4>2. 1 \in Int /\ n \in Int
        BY <1>1
      <4> HIDE DEF S
      <4>3. q \in Seq(S)
        BY <4>1, <4>2, SubSeqProperties
      <4> QED
        BY <4>3 DEF S
    <3>3. q = [k \in 1 .. n |-> q[k]] /\ payload = [k \in 1 .. n |-> payload[k]]
      <4> HIDE DEF q
      <4> QED
        BY <1>1, <1>6, <3>2, LenProperties
    <3> HIDE DEF q
    <3> QED
      BY <2>5, <3>3
  <2> QED
    BY <1>5, <1>6, <2>4, <2>6
<1>8. ASSUME e1 # {} \/ e2 # {} PROVE ~crc_valid'
  <2>1. PICK f : WrongAt(d, n, f)
    BY <1>1, <1>6, <1>8, SomeError
  <2>2. Xor(r[n - 2], TwoBytes(d[n], d[n - 1])) # TwoBytes(d[n + 1], d[n + 2])
    BY <1>1, <1>6, <2>1, CrcFinds
  <2> QED
    BY <1>5, <1>6, <2>2
<1>9. errors' = <<e1, e2>> /\ Len(payload') = n /\ payload' = payload
  BY <1>1, <1>2
<1>10. IntactPayloadPasses'
  <2>1. errors' = <<{}, {}>> => e1 = {} /\ e2 = {}
    BY <1>9
  <2> QED
    BY <1>7, <1>9, <2>1 DEF IntactPayloadPasses, out
<1>11. WrongNibblesFail'
  <2>1. errors' # <<{}, {}>> => e1 # {} \/ e2 # {}
    BY <1>9
  <2> QED
    BY <1>8, <2>1 DEF WrongNibblesFail
<1> QED
  BY <1>10, <1>11

LEMMA PayloadNext ==
  ASSUME NibbleErrors \subseteq Nibble, PayloadInv, [Next]_payloadVars
  PROVE  PayloadInv'
<1>1. CASE EncodePayload
  <2>1. stage' = "air" /\ UNCHANGED payload
    BY <1>1 DEF EncodePayload
  <2>2. nibbles' = Sent(payload)
    BY <1>1 DEF EncodePayload, Sent
  <2> QED
    BY <2>1, <2>2 DEF PayloadInv, IntactPayloadPasses, WrongNibblesFail
<1>2. CASE Transfer
  <2>1. stage = "air" /\ stage' = "decode" /\ UNCHANGED payload
    BY <1>2 DEF Transfer
  <2>2. nibbles = Sent(payload) /\ Len(nibbles) = 2 * Len(payload) + 4
    BY <2>1, SentNibbles DEF PayloadInv
  <2>3. PICK i \in 1 .. Len(nibbles) - 1, e1 \in NibbleErrors, e2 \in NibbleErrors :
          /\ errors' = <<e1, e2>>
          /\ nibbles' = [nibbles EXCEPT ![i] = Xor(@, e1), ![i + 1] = Xor(@, e2)]
    BY <1>2 DEF Transfer
  <2>4. i \in 1 .. 2 * Len(payload) + 3 /\ e1 \in Nibble /\ e2 \in Nibble
    BY <2>2 DEF PayloadInv
  <2>5. nibbles' = Arrived(payload, i, e1, e2)
    BY <2>2, <2>3 DEF Arrived
  <2> QED
    BY <2>1, <2>3, <2>4, <2>5 DEF PayloadInv, IntactPayloadPasses, WrongNibblesFail
<1>3. CASE DecodePayload
  <2>1. stage' = "decoded" /\ UNCHANGED payload
    BY <1>3 DEF DecodePayload
  <2> QED
    BY <1>3, <2>1, PayloadDecoded DEF PayloadInv
<1>4. CASE UNCHANGED payloadVars
  BY <1>4 DEF PayloadInv, payloadVars, IntactPayloadPasses, WrongNibblesFail
<1> QED
  BY <1>1, <1>2, <1>3, <1>4 DEF Next

\* decode() takes off what whitening() put on and computes the CRC that crc() appended:
\* a payload of any length and content that nothing happened to passes, unchanged.
THEOREM IntactPayloadIsAccepted ==
  ASSUME PayloadBytes \subseteq Byte, PayloadLens \subseteq 2 .. 255, NibbleErrors \subseteq Nibble
  PROVE  Spec => []IntactPayloadPasses
<1>1. Init => PayloadInv
  BY PayloadInit
<1>2. PayloadInv /\ [Next]_payloadVars => PayloadInv'
  BY PayloadNext
<1>3. PayloadInv => IntactPayloadPasses
  BY DEF PayloadInv
<1> QED
  BY <1>1, <1>2, <1>3, PTL DEF Spec

\* Whatever happens to two nibbles in a row, of the payload, of its last two bytes that
\* crc() treats apart, of the CRC or across the border between them: decode() refuses it.
THEOREM WrongNibblesAreFound ==
  ASSUME PayloadBytes \subseteq Byte, PayloadLens \subseteq 2 .. 255, NibbleErrors \subseteq Nibble
  PROVE  Spec => []WrongNibblesFail
<1>1. Init => PayloadInv
  BY PayloadInit
<1>2. PayloadInv /\ [Next]_payloadVars => PayloadInv'
  BY PayloadNext
<1>3. PayloadInv => WrongNibblesFail
  BY DEF PayloadInv
<1> QED
  BY <1>1, <1>2, <1>3, PTL DEF Spec

=============================================================================
