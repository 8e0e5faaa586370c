--------------------------- MODULE Codecs_proofs ---------------------------
(***************************************************************************)
(* Proofs about what the program computes without an environment.          *)
(***************************************************************************)
EXTENDS Codecs, FrameShape_proofs, SequenceTheorems, FiniteSetTheorems, TLAPS

PayloadFacts == INSTANCE PayloadCodec_proofs

(***************************************************************************)
(* Nibbles and their bits.                                                 *)
(***************************************************************************)
Weights == {8, 4, 2, 1}

LEMMA NibbleOfBits ==
  ASSUME NEW b8 \in {0, 1}, NEW b4 \in {0, 1}, NEW b2 \in {0, 1}, NEW b1 \in {0, 1},
         NEW x, x = 8 * b8 + 4 * b4 + 2 * b2 + b1
  PROVE  /\ x \in 0 .. 15
         /\ (x \div 8) % 2 = b8 /\ (x \div 4) % 2 = b4
         /\ (x \div 2) % 2 = b2 /\ (x \div 1) % 2 = b1
  OBVIOUS

LEMMA BitsOfNibble ==
  ASSUME NEW x \in 0 .. 15
  PROVE  /\ x = 8 * ((x \div 8) % 2) + 4 * ((x \div 4) % 2) + 2 * ((x \div 2) % 2) + ((x \div 1) % 2)
         /\ (x \div 8) % 2 \in {0, 1} /\ (x \div 4) % 2 \in {0, 1}
         /\ (x \div 2) % 2 \in {0, 1} /\ (x \div 1) % 2 \in {0, 1}
<1>1. x \div 1 = x
  OBVIOUS
<1>2. x = 8 * ((x \div 8) % 2) + 4 * ((x \div 4) % 2) + 2 * ((x \div 2) % 2) + (x % 2)
  OBVIOUS
<1>3. (x \div 8) % 2 \in {0, 1} /\ (x \div 4) % 2 \in {0, 1} /\ (x \div 2) % 2 \in {0, 1}
  OBVIOUS
<1>4. x % 2 \in {0, 1}
  OBVIOUS
<1>5. QED
  BY <1>1, <1>2, <1>3, <1>4

\* The syndromes.
LEMMA Syndromes ==
  ASSUME NEW a8 \in 0 .. 1, NEW a4 \in 0 .. 1, NEW a2 \in 0 .. 1, NEW a1 \in 0 .. 1,
         NEW b8 \in 0 .. 1, NEW b4 \in 0 .. 1, NEW b2 \in 0 .. 1, NEW b1 \in 0 .. 1,
         NEW c8 \in 0 .. 1, NEW c4 \in 0 .. 1, NEW c2 \in 0 .. 1, NEW c1 \in 0 .. 1,
         NEW d1 \in 0 .. 1,
         NEW e8 \in 0 .. 1, NEW e4 \in 0 .. 1, NEW e2 \in 0 .. 1, NEW e1 \in 0 .. 1,
         a8 + a4 + a2 + a1 + b8 + b4 + b2 + b1 + c8 + c4 + c2 + c1 + d1 + e8 + e4 + e2 + e1 <= 2,
         (a8 + a4 + a2 + a1 + d1) % 2 = 0,
         (a8 + b8 + b4 + b2 + c1 + e8) % 2 = 0,
         (a4 + b8 + b1 + c8 + c2 + e4) % 2 = 0,
         (a2 + b4 + b1 + c4 + c2 + c1 + e2) % 2 = 0,
         (a1 + b2 + c8 + c4 + c2 + c1 + e1) % 2 = 0
  PROVE  /\ a8 = 0 /\ a4 = 0 /\ a2 = 0 /\ a1 = 0
         /\ b8 = 0 /\ b4 = 0 /\ b2 = 0 /\ b1 = 0
         /\ c8 = 0 /\ c4 = 0 /\ c2 = 0 /\ c1 = 0
  OBVIOUS

(***************************************************************************)
(* The header.                                                             *)
(***************************************************************************)
Headers == [pay_len : 0 .. 255, cr : 1 .. 4, crc : BOOLEAN]

Data(h) == <<h.pay_len \div 16, h.pay_len % 16, 2 * h.cr + (IF h.crc THEN 1 ELSE 0)>>
Sent(h) == Data(h) \o <<Header!c4(Data(h)),
                        8 * Header!c3(Data(h)) + 4 * Header!c2(Data(h)) + 2 * Header!c1(Data(h))
                          + Header!c0(Data(h))>>

\* Nibbles that are those sent but for the bits that flipped.
Arrived(r, s, F) ==
  \A i \in 1 .. 5 :
    /\ r[i] \in 0 .. 15
    /\ \A w \in Weights :
         Header!Bit(r, i, w) = IF <<i, w>> \in F THEN 1 - Header!Bit(s, i, w) ELSE Header!Bit(s, i, w)

\* What the decoder finds of a checksum.
HeaderChk(r) == <<Header!Bit(r, 4, 1), Header!Bit(r, 5, 8), Header!Bit(r, 5, 4),
                  Header!Bit(r, 5, 2), Header!Bit(r, 5, 1)>>

HeaderInv ==
  /\ stage \in {"encode", "air", "decode", "decoded"}
  /\ header \in Headers
  /\ stage = "air" => nibbles = Sent(header)
  /\ stage \in {"decode", "decoded"} =>
       /\ flips \subseteq (1 .. 5) \X Weights
       /\ \E n \in 0 .. MaxFlips : Cardinality(flips) = n
       /\ Arrived(nibbles, Sent(header), flips)
  /\ stage = "decoded" =>
       info = [pay_len |-> 16 * nibbles[1] + nibbles[2], cr |-> nibbles[3] \div 2,
               crc |-> nibbles[3] % 2 = 1,
               err |-> \/ HeaderChk(nibbles) # Header!Checksum(nibbles)
                       \/ 16 * nibbles[1] + nibbles[2] = 0
                       \/ nibbles[3] \div 2 > 3]

\* The checksum reads the first three nibbles only.
LEMMA ChecksumOfData ==
  ASSUME NEW a, NEW b, a[1] = b[1], a[2] = b[2], a[3] = b[3]
  PROVE  /\ Header!c4(a) = Header!c4(b) /\ Header!c3(a) = Header!c3(b) /\ Header!c2(a) = Header!c2(b)
         /\ Header!c1(a) = Header!c1(b) /\ Header!c0(a) = Header!c0(b)
  BY DEF Header!c4, Header!c3, Header!c2, Header!c1, Header!c0, Header!Bit

\* Five nibbles are sent; the last two hold the checksum of the others.
LEMMA SentNibbles ==
  ASSUME NEW h \in Headers
  PROVE  LET s == Sent(h)
         IN  /\ s[1] = h.pay_len \div 16 /\ s[2] = h.pay_len % 16
             /\ s[3] = 2 * h.cr + (IF h.crc THEN 1 ELSE 0)
             /\ \A i \in 1 .. 5 : s[i] \in 0 .. 15
             /\ HeaderChk(s) = Header!Checksum(s)
<1> DEFINE d == Data(h)
           s == Sent(h)
<1>1. /\ d[1] = h.pay_len \div 16 /\ d[2] = h.pay_len % 16
      /\ d[3] = 2 * h.cr + (IF h.crc THEN 1 ELSE 0)
      /\ d \in Seq(Int) /\ Len(d) = 3
  BY DEF Data, Headers
<1>2. d[1] \in 0 .. 15 /\ d[2] \in 0 .. 15 /\ d[3] \in 0 .. 15
  <2>1. h.pay_len \in 0 .. 255 /\ h.cr \in 1 .. 4
    BY DEF Headers
  <2>2. h.pay_len \div 16 \in 0 .. 15 /\ h.pay_len % 16 \in 0 .. 15
    BY <2>1
  <2>3. 2 * h.cr + (IF h.crc THEN 1 ELSE 0) \in 0 .. 15
    BY <2>1
  <2> QED
    BY <1>1, <2>2, <2>3
<1> HIDE DEF d
<1>3. \A i \in 1 .. 3, w \in Weights : Header!Bit(d, i, w) \in {0, 1}
  <2>1. \A i \in 1 .. 3 : d[i] \in 0 .. 15
    BY <1>2
  <2>2. ASSUME NEW x \in 0 .. 15, NEW w \in Weights PROVE (x \div w) % 2 \in {0, 1}
    BY BitsOfNibble DEF Weights
  <2> QED
    BY <2>1, <2>2 DEF Header!Bit
<1>4. /\ Header!c4(d) \in {0, 1} /\ Header!c3(d) \in {0, 1} /\ Header!c2(d) \in {0, 1}
      /\ Header!c1(d) \in {0, 1} /\ Header!c0(d) \in {0, 1}
  <2>1. \A i \in 1 .. 3 : /\ Header!Bit(d, i, 8) \in {0, 1} /\ Header!Bit(d, i, 4) \in {0, 1}
                          /\ Header!Bit(d, i, 2) \in {0, 1} /\ Header!Bit(d, i, 1) \in {0, 1}
    BY <1>3 DEF Weights
  <2>2. Header!c4(d) \in {0, 1}
    BY <2>1 DEF Header!c4
  <2>3. Header!c3(d) \in {0, 1}
    BY <2>1 DEF Header!c3
  <2>4. Header!c2(d) \in {0, 1}
    BY <2>1 DEF Header!c2
  <2>5. Header!c1(d) \in {0, 1}
    BY <2>1 DEF Header!c1
  <2>6. Header!c0(d) \in {0, 1}
    BY <2>1 DEF Header!c0
  <2> QED
    BY <2>2, <2>3, <2>4, <2>5, <2>6
<1> DEFINE chk == 8 * Header!c3(d) + 4 * Header!c2(d) + 2 * Header!c1(d) + Header!c0(d)
<1>5. s = d \o <<Header!c4(d), chk>>
  BY DEF Sent, d, chk
<1>6. /\ chk \in 0 .. 15
      /\ (chk \div 8) % 2 = Header!c3(d) /\ (chk \div 4) % 2 = Header!c2(d)
      /\ (chk \div 2) % 2 = Header!c1(d) /\ (chk \div 1) % 2 = Header!c0(d)
  <2>1. PICK x : x = chk
    OBVIOUS
  <2> QED
    BY <1>4, <2>1, NibbleOfBits
<1> HIDE DEF chk
<1>7. s[1] = d[1] /\ s[2] = d[2] /\ s[3] = d[3] /\ s[4] = Header!c4(d) /\ s[5] = chk
  <2>1. Header!c4(d) \in Int /\ chk \in Int
    BY <1>4, <1>6
  <2> DEFINE e == <<Header!c4(d), chk>>
  <2>2. e \in Seq(Int) /\ Len(e) = 2 /\ e[1] = Header!c4(d) /\ e[2] = chk
    BY <2>1
  <2> HIDE DEF e
  <2>3. s = d \o e
    BY <1>5 DEF e
  <2>4. \A i \in 1 .. Len(d) + Len(e) : s[i] = IF i <= Len(d) THEN d[i] ELSE e[i - Len(d)]
    <3>1. d \in Seq(Int) /\ e \in Seq(Int)
      BY <1>1, <2>2
    <3> QED
      BY <2>3, <3>1, ConcatProperties
  <2>5. /\ Len(d) + Len(e) = 5 /\ 4 - Len(d) = 1 /\ 5 - Len(d) = 2
        /\ 3 <= Len(d) /\ ~(4 <= Len(d))
    BY <1>1, <2>2
  <2> QED
    BY <2>2, <2>4, <2>5
<1> HIDE DEF s
<1>8. \A i \in 1 .. 5 : s[i] \in 0 .. 15
  <2>1. s[4] \in 0 .. 15
    BY <1>4, <1>7
  <2> QED
    BY <1>2, <1>6, <1>7, <2>1
<1>9. HeaderChk(s) = Header!Checksum(s)
  <2>1. Header!Checksum(s) = <<Header!c4(d), Header!c3(d), Header!c2(d), Header!c1(d), Header!c0(d)>>
    BY <1>7, ChecksumOfData DEF Header!Checksum
  <2>2. (s[4] \div 1) % 2 = Header!c4(d)
    BY <1>4, <1>7
  <2> QED
    BY <1>6, <1>7, <2>1, <2>2 DEF HeaderChk, Header!Bit
<1> QED
  BY <1>1, <1>7, <1>8, <1>9 DEF s

LEMMA HeaderCardinality ==
  ASSUME NEW S
  PROVE  Header!Cardinality(S) = Cardinality(S)
  BY DEF Header!Cardinality, Cardinality

LEMMA HeaderInvStep ==
  /\ Header!Init => HeaderInv
  /\ HeaderInv /\ [Header!Next]_(Header!headerVars) => HeaderInv'
<1>1. Header!Init => HeaderInv
  BY HeaderAssumption DEF Header!Init, HeaderInv, Headers, Header!CodeRates
<1>2. ASSUME HeaderInv, Header!EncodeHeader PROVE HeaderInv'
  <2>1. nibbles' = Sent(header) /\ header' = header /\ stage' = "air"
    BY <1>2 DEF Header!EncodeHeader, Sent, Data, Header!Checksum
  <2> QED
    BY <1>2, <2>1 DEF HeaderInv
<1>3. ASSUME HeaderInv, Header!Transfer PROVE HeaderInv'
  <2>1. /\ stage = "air" /\ stage' = "decode" /\ header' = header
        /\ nibbles' = [i \in 1 .. 5 |-> Header!Flipped(i)]
    BY <1>3 DEF Header!Transfer
  <2>2. /\ flips' \subseteq (1 .. 5) \X Weights
        /\ \E n \in 0 .. MaxFlips : Cardinality(flips') = n
    <3>1. PICK n \in 0 .. MaxFlips : flips' \in Header!kSubset(n, (1 .. 5) \X {1, 2, 4, 8})
      BY <1>3 DEF Header!Transfer
    <3> QED
      BY <3>1, HeaderCardinality DEF Header!kSubset, Weights
  <2> DEFINE s == Sent(header)
  <2>3. nibbles = s /\ \A i \in 1 .. 5 : s[i] \in 0 .. 15
    BY <1>3, <2>1, SentNibbles DEF HeaderInv
  <2> HIDE DEF s
  <2>4. ASSUME NEW i \in 1 .. 5
        PROVE  /\ nibbles'[i] \in 0 .. 15
               /\ \A w \in Weights :
                    Header!Bit(nibbles', i, w) =
                      IF <<i, w>> \in flips' THEN 1 - Header!Bit(s, i, w) ELSE Header!Bit(s, i, w)
    <3> DEFINE b(w) == IF <<i, w>> \in flips' THEN 1 - Header!Bit(s, i, w) ELSE Header!Bit(s, i, w)
    <3>1. \A w \in Weights : Header!Bit(s, i, w) \in {0, 1}
      BY <2>3, BitsOfNibble DEF Header!Bit, Weights
    <3>2. b(8) \in {0, 1} /\ b(4) \in {0, 1} /\ b(2) \in {0, 1} /\ b(1) \in {0, 1}
      BY <3>1 DEF Weights
    <3>3. nibbles'[i] = 8 * b(8) + 4 * b(4) + 2 * b(2) + b(1)
      BY <2>1, <2>3 DEF Header!Flipped
    <3> HIDE DEF b
    <3>4. /\ nibbles'[i] \in 0 .. 15
          /\ (nibbles'[i] \div 8) % 2 = b(8) /\ (nibbles'[i] \div 4) % 2 = b(4)
          /\ (nibbles'[i] \div 2) % 2 = b(2) /\ (nibbles'[i] \div 1) % 2 = b(1)
      BY <3>2, <3>3, NibbleOfBits
    <3>5. \A w \in Weights : Header!Bit(nibbles', i, w) = b(w)
      BY <3>4 DEF Header!Bit, Weights
    <3> QED
      BY <3>4, <3>5 DEF b
  <2>5. Arrived(nibbles', Sent(header'), flips')
    BY <2>1, <2>4 DEF Arrived, s
  <2> QED
    BY <1>3, <2>1, <2>2, <2>5 DEF HeaderInv
<1>4. ASSUME HeaderInv, Header!DecodeHeader PROVE HeaderInv'
  <2>1. /\ stage = "decode" /\ stage' = "decoded"
        /\ UNCHANGED <<header, nibbles, flips>>
        /\ info' = [pay_len |-> 16 * nibbles[1] + nibbles[2], cr |-> nibbles[3] \div 2,
                    crc |-> nibbles[3] % 2 = 1,
                    err |-> \/ HeaderChk(nibbles) # Header!Checksum(nibbles)
                            \/ 16 * nibbles[1] + nibbles[2] = 0
                            \/ nibbles[3] \div 2 > 3]
    BY <1>4 DEF Header!DecodeHeader, HeaderChk
  <2> QED
    BY <1>4, <2>1 DEF HeaderInv
<1>5. ASSUME HeaderInv, UNCHANGED Header!headerVars PROVE HeaderInv'
  BY <1>5 DEF HeaderInv, Header!headerVars
<1> QED
  BY <1>1, <1>2, <1>3, <1>4, <1>5 DEF Header!Next

\* A header that nothing happens to is accepted, for every length of one byte but 0,
\* with code rates up to 4/7, and refused with 4/8.
LEMMA GoodHeader == HeaderInv => Header!GoodHeaderAccepted
<1>1. HeaderInv => Header!GoodHeaderAccepted
  <2> SUFFICES ASSUME HeaderInv, stage = "decoded", flips = {}
               PROVE  ~info.err <=> header.pay_len > 0 /\ header.cr < 4
    BY DEF Header!GoodHeaderAccepted
  <2> DEFINE s == Sent(header)
  <2>1. /\ s[1] = header.pay_len \div 16 /\ s[2] = header.pay_len % 16
        /\ s[3] = 2 * header.cr + (IF header.crc THEN 1 ELSE 0)
        /\ \A i \in 1 .. 5 : s[i] \in 0 .. 15
        /\ HeaderChk(s) = Header!Checksum(s)
    BY SentNibbles DEF HeaderInv
  <2>2. Arrived(nibbles, s, {})
    BY DEF HeaderInv
  <2> HIDE DEF s
  <2>3. \A i \in 1 .. 5 : nibbles[i] = s[i]
    <3> SUFFICES ASSUME NEW i \in 1 .. 5 PROVE nibbles[i] = s[i]
      OBVIOUS
    <3>1. nibbles[i] \in 0 .. 15 /\ s[i] \in 0 .. 15
      BY <2>1, <2>2 DEF Arrived
    <3>2. \A w \in Weights : (nibbles[i] \div w) % 2 = (s[i] \div w) % 2
      BY <2>2 DEF Arrived, Header!Bit
    <3>3. /\ (nibbles[i] \div 8) % 2 = (s[i] \div 8) % 2 /\ (nibbles[i] \div 4) % 2 = (s[i] \div 4) % 2
          /\ (nibbles[i] \div 2) % 2 = (s[i] \div 2) % 2 /\ (nibbles[i] \div 1) % 2 = (s[i] \div 1) % 2
      BY <3>2 DEF Weights
    <3> QED
      BY <3>1, <3>3, BitsOfNibble
  <2>4. HeaderChk(nibbles) = Header!Checksum(nibbles)
    <3>1. HeaderChk(nibbles) = HeaderChk(s)
      BY <2>3 DEF HeaderChk, Header!Bit
    <3>2. Header!Checksum(nibbles) = Header!Checksum(s)
      BY <2>3, ChecksumOfData DEF Header!Checksum
    <3> QED
      BY <2>1, <3>1, <3>2
  <2>5. header.pay_len \in 0 .. 255 /\ header.cr \in 1 .. 4
    BY DEF HeaderInv, Headers
  <2>6. 16 * nibbles[1] + nibbles[2] = header.pay_len
    BY <2>1, <2>3, <2>5
  <2>7. nibbles[3] \div 2 = header.cr
    BY <2>1, <2>3, <2>5
  <2> QED
    BY <2>4, <2>5, <2>6, <2>7 DEF HeaderInv
<1> QED
  BY <1>1

(***************************************************************************)
(* Up to two wrong bits.                                                   *)
(***************************************************************************)
Ind(P) == IF P THEN 1 ELSE 0

\* A set of at most two bits has no third.
LEMMA AtMostTwo ==
  ASSUME NEW F, IsFiniteSet(F), Cardinality(F) \in 0 .. 2
  PROVE  \E p, q : F \subseteq {p, q}
<1>1. CASE F = {}
  BY <1>1
<1>2. CASE F # {}
  <2>1. PICK p \in F : TRUE
    BY <1>2
  <2>2. IsFiniteSet(F \ {p}) /\ Cardinality(F \ {p}) = Cardinality(F) - 1
    BY FS_RemoveElement
  <2>3. CASE F \ {p} = {}
    BY <2>3
  <2>4. CASE F \ {p} # {}
    <3>1. PICK q \in F \ {p} : TRUE
      BY <2>4
    <3> DEFINE G == (F \ {p}) \ {q}
    <3>2. IsFiniteSet(G) /\ Cardinality(G) = Cardinality(F) - 2
      BY <2>2, <3>1, FS_RemoveElement
    <3>3. Cardinality(G) \in Nat
      BY <3>2, FS_CardinalityType
    <3>4. Cardinality(G) = 0
      BY <3>2, <3>3
    <3>5. G = {}
      BY <3>2, <3>4, FS_EmptySet
    <3> QED
      BY <3>5
  <2> QED
    BY <2>3, <2>4
<1> QED
  BY <1>1, <1>2

\* The bits of a set that the decoder looks at, counted.
In(F, i, w) == Ind(<<i, w>> \in F)
Count(F) ==
  In(F, 1, 8) + In(F, 1, 4) + In(F, 1, 2) + In(F, 1, 1)
    + In(F, 2, 8) + In(F, 2, 4) + In(F, 2, 2) + In(F, 2, 1)
    + In(F, 3, 8) + In(F, 3, 4) + In(F, 3, 2) + In(F, 3, 1)
    + In(F, 4, 1) + In(F, 5, 8) + In(F, 5, 4) + In(F, 5, 2) + In(F, 5, 1)

LEMMA CountOne ==
  ASSUME NEW p
  PROVE  Count({p}) <= 1
  BY DEF Count, In, Ind

LEMMA CountTwo ==
  ASSUME NEW F, NEW p, NEW q, F \subseteq {p, q}
  PROVE  Count(F) <= 2
<1>1. ASSUME NEW i, NEW w
      PROVE  /\ In(F, i, w) \in Int /\ In({p}, i, w) \in Int /\ In({q}, i, w) \in Int
             /\ In(F, i, w) <= In({p}, i, w) + In({q}, i, w)
  BY DEF In, Ind
<1>2. Count({p}) <= 1 /\ Count({q}) <= 1
  BY CountOne
<1> DEFINE Row(G, i) == In(G, i, 8) + In(G, i, 4) + In(G, i, 2) + In(G, i, 1)
<1>3. ASSUME NEW i
      PROVE  /\ Row(F, i) \in Int /\ Row({p}, i) \in Int /\ Row({q}, i) \in Int
             /\ Row(F, i) <= Row({p}, i) + Row({q}, i)
  <2>1. ASSUME NEW G PROVE /\ In(G, i, 8) \in Int /\ In(G, i, 4) \in Int
                           /\ In(G, i, 2) \in Int /\ In(G, i, 1) \in Int
    BY DEF In, Ind
  <2>2. /\ In(F, i, 8) <= In({p}, i, 8) + In({q}, i, 8)
        /\ In(F, i, 4) <= In({p}, i, 4) + In({q}, i, 4)
        /\ In(F, i, 2) <= In({p}, i, 2) + In({q}, i, 2)
        /\ In(F, i, 1) <= In({p}, i, 1) + In({q}, i, 1)
    BY <1>1
  <2> QED
    BY <2>1, <2>2
<1>4. ASSUME NEW G
      PROVE  Count(G) = Row(G, 1) + Row(G, 2) + Row(G, 3) + In(G, 4, 1) + Row(G, 5)
  <2>1. ASSUME NEW i, NEW w PROVE In(G, i, w) \in Int
    BY DEF In, Ind
  <2> QED
    BY <2>1 DEF Count
<1> HIDE DEF Row
<1>5. /\ Row(F, 1) <= Row({p}, 1) + Row({q}, 1) /\ Row(F, 2) <= Row({p}, 2) + Row({q}, 2)
      /\ Row(F, 3) <= Row({p}, 3) + Row({q}, 3) /\ Row(F, 5) <= Row({p}, 5) + Row({q}, 5)
      /\ In(F, 4, 1) <= In({p}, 4, 1) + In({q}, 4, 1)
  BY <1>1, <1>3
<1>6. ASSUME NEW G \in {F, {p}, {q}}
      PROVE  /\ Row(G, 1) \in Int /\ Row(G, 2) \in Int /\ Row(G, 3) \in Int
             /\ Row(G, 5) \in Int /\ In(G, 4, 1) \in Int
  BY <1>1, <1>3
<1>7. Count(F) <= Count({p}) + Count({q}) /\ Count({p}) \in Int /\ Count({q}) \in Int
  BY <1>4, <1>5, <1>6
<1> QED
  <2>1. Count(F) \in Int
    BY <1>4, <1>6
  <2> QED
    BY <1>2, <1>7, <2>1

\* A bit that flips changes the parity.
LEMMA FlipParity ==
  ASSUME NEW b \in {0, 1}, NEW P \in BOOLEAN
  PROVE  \E t \in Int : (IF P THEN 1 - b ELSE b) = b + Ind(P) - 2 * t
<1>1. CASE P
  <2>1. 1 - b = b + 1 - 2 * b
    OBVIOUS
  <2> QED
    BY <1>1, <2>1 DEF Ind
<1>2. CASE ~P
  <2>1. b = b + 0 - 2 * 0
    OBVIOUS
  <2> QED
    BY <1>2, <2>1 DEF Ind
<1> QED
  BY <1>1, <1>2

\* With at most two bits wrong, the receiver takes a header only when the length, the
\* code rate and the CRC flag it reads are those that were sent: all single and
\* double errors in the data are found by the checksum, for every length of one byte.
LEMMA WrongHeader == HeaderInv => Header!NoWrongHeader
<1>1. HeaderInv => Header!NoWrongHeader
  <2> SUFFICES ASSUME HeaderInv, stage = "decoded", ~info.err
               PROVE  Header!Decoded(info) = Header!Decoded(header)
    BY DEF Header!NoWrongHeader
  <2> DEFINE s == Sent(header)
             S(i, w) == Header!Bit(s, i, w)
             R(i, w) == Header!Bit(nibbles, i, w)
             D(i, w) == In(flips, i, w)
             T(i, w) == IF <<i, w>> \in flips THEN S(i, w) ELSE 0
  <2>1. /\ s[1] = header.pay_len \div 16 /\ s[2] = header.pay_len % 16
        /\ s[3] = 2 * header.cr + (IF header.crc THEN 1 ELSE 0)
        /\ \A i \in 1 .. 5 : s[i] \in 0 .. 15
        /\ HeaderChk(s) = Header!Checksum(s)
    BY SentNibbles DEF HeaderInv
  <2>2. Arrived(nibbles, s, flips)
    BY DEF HeaderInv
  <2>3. HeaderChk(nibbles) = Header!Checksum(nibbles)
    BY DEF HeaderInv
  <2>4. header.pay_len \in 0 .. 255 /\ header.cr \in 1 .. 4 /\ header.crc \in BOOLEAN
    BY DEF HeaderInv, Headers
  <2>5. Count(flips) <= 2
    <3>1. flips \subseteq (1 .. 5) \X Weights /\ Cardinality(flips) \in 0 .. 2
      BY HeaderAssumption DEF HeaderInv
    <3>2. IsFiniteSet(Weights) /\ IsFiniteSet(1 .. 5)
      <4>1. \A b \in Int : IsFiniteSet(1 .. b)
        <5>1. 1 \in Int
          OBVIOUS
        <5> QED
          BY <5>1, FS_Interval, Zenon
      <4>2. IsFiniteSet(1 .. 8) /\ IsFiniteSet(1 .. 5)
        <5>1. 8 \in Int /\ 5 \in Int
          OBVIOUS
        <5> QED
          BY <4>1, <5>1
      <4>3. Weights \subseteq 1 .. 8
        BY DEF Weights
      <4> QED
        BY <4>2, <4>3, FS_Subset, Zenon
    <3>3. IsFiniteSet(flips)
      BY <3>1, <3>2, FS_Product, FS_Subset
    <3> QED
      BY <3>1, <3>3, AtMostTwo, CountTwo
  <2> HIDE DEF s
  <2>6. ASSUME NEW i \in 1 .. 5, NEW w \in Weights
        PROVE  /\ S(i, w) \in {0, 1} /\ D(i, w) \in {0, 1} /\ T(i, w) \in {0, 1}
               /\ R(i, w) = S(i, w) + D(i, w) - 2 * T(i, w)
    <3>1. S(i, w) \in {0, 1}
      BY <2>1, BitsOfNibble DEF Header!Bit, Weights
    <3>2. R(i, w) = IF <<i, w>> \in flips THEN 1 - S(i, w) ELSE S(i, w)
      BY <2>2 DEF Arrived
    <3> HIDE DEF S, R
    <3>3. CASE <<i, w>> \in flips
      BY <3>1, <3>2, <3>3 DEF In, Ind
    <3>4. CASE <<i, w>> \notin flips
      BY <3>1, <3>2, <3>4 DEF In, Ind
    <3> QED
      BY <3>3, <3>4
  <2>7. /\ (R(1, 8) + R(1, 4) + R(1, 2) + R(1, 1)) % 2 = R(4, 1)
        /\ (R(1, 8) + R(2, 8) + R(2, 4) + R(2, 2) + R(3, 1)) % 2 = R(5, 8)
        /\ (R(1, 4) + R(2, 8) + R(2, 1) + R(3, 8) + R(3, 2)) % 2 = R(5, 4)
        /\ (R(1, 2) + R(2, 4) + R(2, 1) + R(3, 4) + R(3, 2) + R(3, 1)) % 2 = R(5, 2)
        /\ (R(1, 1) + R(2, 2) + R(3, 8) + R(3, 4) + R(3, 2) + R(3, 1)) % 2 = R(5, 1)
    BY <2>3 DEF HeaderChk, Header!Checksum, Header!c4, Header!c3, Header!c2, Header!c1, Header!c0
  <2>8. /\ (S(1, 8) + S(1, 4) + S(1, 2) + S(1, 1)) % 2 = S(4, 1)
        /\ (S(1, 8) + S(2, 8) + S(2, 4) + S(2, 2) + S(3, 1)) % 2 = S(5, 8)
        /\ (S(1, 4) + S(2, 8) + S(2, 1) + S(3, 8) + S(3, 2)) % 2 = S(5, 4)
        /\ (S(1, 2) + S(2, 4) + S(2, 1) + S(3, 4) + S(3, 2) + S(3, 1)) % 2 = S(5, 2)
        /\ (S(1, 1) + S(2, 2) + S(3, 8) + S(3, 4) + S(3, 2) + S(3, 1)) % 2 = S(5, 1)
    BY <2>1 DEF HeaderChk, Header!Checksum, Header!c4, Header!c3, Header!c2, Header!c1, Header!c0
  <2>9. ASSUME NEW i \in 1 .. 5
        PROVE  \A w \in {8, 4, 2, 1} :
                 /\ S(i, w) \in {0, 1} /\ D(i, w) \in {0, 1} /\ T(i, w) \in {0, 1}
                 /\ R(i, w) = S(i, w) + D(i, w) - 2 * T(i, w)
    BY <2>6 DEF Weights
  <2> HIDE DEF S, R, D, T
  <2>10. /\ (D(1, 8) + D(1, 4) + D(1, 2) + D(1, 1) + D(4, 1)) % 2 = 0
         /\ (D(1, 8) + D(2, 8) + D(2, 4) + D(2, 2) + D(3, 1) + D(5, 8)) % 2 = 0
         /\ (D(1, 4) + D(2, 8) + D(2, 1) + D(3, 8) + D(3, 2) + D(5, 4)) % 2 = 0
         /\ (D(1, 2) + D(2, 4) + D(2, 1) + D(3, 4) + D(3, 2) + D(3, 1) + D(5, 2)) % 2 = 0
         /\ (D(1, 1) + D(2, 2) + D(3, 8) + D(3, 4) + D(3, 2) + D(3, 1) + D(5, 1)) % 2 = 0
    <3>1. (D(1, 8) + D(1, 4) + D(1, 2) + D(1, 1) + D(4, 1)) % 2 = 0
      BY <2>7, <2>8, <2>9
    <3>2. (D(1, 8) + D(2, 8) + D(2, 4) + D(2, 2) + D(3, 1) + D(5, 8)) % 2 = 0
      BY <2>7, <2>8, <2>9
    <3>3. (D(1, 4) + D(2, 8) + D(2, 1) + D(3, 8) + D(3, 2) + D(5, 4)) % 2 = 0
      BY <2>7, <2>8, <2>9
    <3>4. (D(1, 2) + D(2, 4) + D(2, 1) + D(3, 4) + D(3, 2) + D(3, 1) + D(5, 2)) % 2 = 0
      BY <2>7, <2>8, <2>9
    <3>5. (D(1, 1) + D(2, 2) + D(3, 8) + D(3, 4) + D(3, 2) + D(3, 1) + D(5, 1)) % 2 = 0
      BY <2>7, <2>8, <2>9
    <3> QED
      BY <3>1, <3>2, <3>3, <3>4, <3>5
  <2>11. \A i \in 1 .. 3 : D(i, 8) = 0 /\ D(i, 4) = 0 /\ D(i, 2) = 0 /\ D(i, 1) = 0
    <3>1. \A i \in 1 .. 5, w \in {8, 4, 2, 1} : D(i, w) \in 0 .. 1
      BY <2>9
    <3>2. D(1, 8) + D(1, 4) + D(1, 2) + D(1, 1) + D(2, 8) + D(2, 4) + D(2, 2) + D(2, 1)
            + D(3, 8) + D(3, 4) + D(3, 2) + D(3, 1) + D(4, 1)
            + D(5, 8) + D(5, 4) + D(5, 2) + D(5, 1) <= 2
      BY <2>5 DEF Count, D
    <3>3. /\ D(1, 8) = 0 /\ D(1, 4) = 0 /\ D(1, 2) = 0 /\ D(1, 1) = 0
          /\ D(2, 8) = 0 /\ D(2, 4) = 0 /\ D(2, 2) = 0 /\ D(2, 1) = 0
          /\ D(3, 8) = 0 /\ D(3, 4) = 0 /\ D(3, 2) = 0 /\ D(3, 1) = 0
      BY <2>10, <3>1, <3>2, Syndromes
    <3> QED
      BY <3>3
  <2>12. \A i \in 1 .. 3 : nibbles[i] = s[i]
    <3> SUFFICES ASSUME NEW i \in 1 .. 3 PROVE nibbles[i] = s[i]
      OBVIOUS
    <3>1. nibbles[i] \in 0 .. 15 /\ s[i] \in 0 .. 15
      BY <2>1, <2>2 DEF Arrived
    <3>2. \A w \in {8, 4, 2, 1} : R(i, w) = S(i, w)
      <4>1. \A w \in {8, 4, 2, 1} : <<i, w>> \notin flips
        BY <2>11 DEF D, In, Ind
      <4>2. \A w \in {8, 4, 2, 1} : R(i, w) = IF <<i, w>> \in flips THEN 1 - S(i, w) ELSE S(i, w)
        BY <2>2 DEF Arrived, Weights, R, S
      <4> QED
        BY <4>1, <4>2
    <3>3. /\ (nibbles[i] \div 8) % 2 = (s[i] \div 8) % 2 /\ (nibbles[i] \div 4) % 2 = (s[i] \div 4) % 2
          /\ (nibbles[i] \div 2) % 2 = (s[i] \div 2) % 2 /\ (nibbles[i] \div 1) % 2 = (s[i] \div 1) % 2
      BY <3>2 DEF R, S, Header!Bit
    <3> QED
      BY <3>1, <3>3, BitsOfNibble
  <2>13. 16 * nibbles[1] + nibbles[2] = header.pay_len
    BY <2>1, <2>4, <2>12
  <2>14. nibbles[3] \div 2 = header.cr
    BY <2>1, <2>4, <2>12
  <2>15. (nibbles[3] % 2 = 1) = header.crc
    <3>1. nibbles[3] % 2 = IF header.crc THEN 1 ELSE 0
      BY <2>1, <2>4, <2>12
    <3> QED
      BY <2>4, <3>1
  <2> QED
    BY <2>13, <2>14, <2>15 DEF HeaderInv, Header!Decoded
<1> QED
  BY <1>1

(***************************************************************************)
(* The set-up of a node.                                                   *)
(***************************************************************************)
Preset(i) == Setup!ALL[i]

\* What was connected so far: a path for each of the first presets, in both directions.
SetupInv ==
  /\ region \in Setup!Regions /\ slot \in Nat
  /\ node \in {"building", "ready", "panicked"}
  /\ selected_tx \in 1 .. 8 /\ sel_preset = Setup!Presets[selected_tx]
  /\ Len(txs) \in 0 .. 8
  /\ txs = [i \in 1 .. Len(txs) |-> Setup!TxPath(Preset(i))]
  /\ rxs = [i \in 1 .. Len(txs) |-> Setup!Path(Preset(i))]
  /\ \A i \in 1 .. Len(txs) : slot \in Setup!Slots[region][Setup!BandwidthOf(Preset(i))]
  /\ node = "building" => Len(txs) < 8
  /\ node = "ready" => Len(txs) = 8
  /\ node = "panicked" =>
       \E i \in 1 .. 8 : slot \notin Setup!Slots[region][Setup!BandwidthOf(Preset(i))]

\* The order of the transmitters is that of the enum.
LEMMA PresetOrder ==
  /\ Len(Setup!ALL) = 8 /\ Setup!ALL = Setup!Presets /\ DOMAIN Setup!Presets = 1 .. 8
  /\ \A i \in 1 .. 8 : Setup!BandwidthOf(Preset(i)) \in Setup!Bandwidths
  /\ Setup!BandwidthOf(Preset(1)) = 500000
<1>1. Setup!ALL = Setup!Presets
  BY DEF Setup!ALL, Setup!Presets
<1>2. Len(Setup!ALL) = 8 /\ DOMAIN Setup!Presets = 1 .. 8
  BY DEF Setup!ALL, Setup!Presets
<1>3. \A p : Setup!BandwidthOf(p) \in Setup!Bandwidths
  BY DEF Setup!BandwidthOf, Setup!Bandwidths
<1>4. Setup!BandwidthOf(Preset(1)) = 500000
  BY DEF Setup!BandwidthOf, Preset, Setup!ALL
<1> QED
  BY <1>1, <1>2, <1>3, <1>4

\* The two tables of slots agree, and the widest channels have the fewest slots.
LEMMA SlotTables ==
  ASSUME NEW r \in Setup!Regions, NEW bw \in Setup!Bandwidths
  PROVE  /\ Setup!AvailSlots[r][bw] \in Nat
         /\ \A s \in Nat : s \in Setup!Slots[r][bw] <=> s < Setup!AvailSlots[r][bw]
         /\ Setup!AvailSlots[r][500000] <= Setup!AvailSlots[r][bw]
<1> USE DEF Setup!PerBandwidth, Setup!Bandwidths, Setup!AvailSlots, Setup!Slots
<1>1. CASE r = "EU433"
  BY <1>1
<1>2. CASE r = "EU868"
  BY <1>2
<1>3. CASE r = "RU"
  BY <1>3
<1> QED
  BY <1>1, <1>2, <1>3 DEF Setup!Regions

\* All paths have the one sample rate of the channel.
LEMMA SampleRate ==
  ASSUME NEW p
  PROVE  /\ Setup!Path(p).bw * Setup!Path(p).interpolation = 1000000
         /\ Setup!Path(p).preset = p
         /\ Setup!TxPath(p).path = Setup!Path(p)
<1>1. Setup!BandwidthOf(p) \in {125000, 250000, 500000}
  BY DEF Setup!BandwidthOf
<1>2. ASSUME NEW bw \in {125000, 250000, 500000} PROVE bw * Setup!Interpolation[bw] = 1000000
  BY DEF Setup!Interpolation, Setup!PerBandwidth, Setup!Bandwidths
<1> QED
  BY <1>1, <1>2 DEF Setup!Path, Setup!TxPath

\* HeaderDecoder accepts the code rates of all presets but one.
LEMMA RateOfPreset ==
  ASSUME NEW p
  PROVE  Setup!TxPath(p).cr \in Setup!AcceptedRates <=> p # "LongModerate"
BY DEF Setup!TxPath, Setup!CodeRateOf, Setup!AcceptedRates

LEMMA SetupInvStep ==
  /\ Setup!Init => SetupInv
  /\ SetupInv /\ [Setup!Next]_(Setup!setupVars) => SetupInv'
<1>1. ASSUME Setup!Init PROVE SetupInv
  <2>1. PICK i \in 1 .. 8 : sel_preset = Setup!Presets[i] /\ selected_tx = i
    BY <1>1, PresetOrder DEF Setup!Init
  <2>2. region \in Setup!Regions /\ slot \in Nat /\ node = "building" /\ txs = <<>> /\ rxs = <<>>
    BY <1>1 DEF Setup!Init
  <2>3. /\ Len(txs) = 0 /\ txs = [k \in 1 .. Len(txs) |-> Setup!TxPath(Preset(k))]
        /\ rxs = [k \in 1 .. Len(txs) |-> Setup!Path(Preset(k))]
    BY <2>2
  <2> QED
    BY <2>1, <2>2, <2>3 DEF SetupInv
<1>2. ASSUME SetupInv, Setup!ConnectPreset PROVE SetupInv'
  <2> DEFINE n == Len(txs)
             bw == Setup!BandwidthOf(Preset(n + 1))
  <2>1. /\ node = "building" /\ n \in 0 .. 7 /\ n + 1 \in 1 .. 8 /\ region \in Setup!Regions
        /\ slot \in Nat /\ txs = [i \in 1 .. n |-> Setup!TxPath(Preset(i))]
        /\ rxs = [i \in 1 .. n |-> Setup!Path(Preset(i))]
        /\ \A i \in 1 .. n : slot \in Setup!Slots[region][Setup!BandwidthOf(Preset(i))]
        /\ UNCHANGED <<region, slot, sel_preset, selected_tx>>
    BY <1>2 DEF SetupInv, Setup!ConnectPreset
  <2>2. bw \in Setup!Bandwidths
    BY <2>1, PresetOrder
  <2>3. CASE slot \in Setup!Slots[region][bw]
    <3>1. slot < Setup!AvailSlots[region][bw]
      BY <2>1, <2>2, <2>3, SlotTables
    <3>2. /\ txs' = Append(txs, Setup!TxPath(Preset(n + 1)))
          /\ rxs' = Append(rxs, Setup!Path(Preset(n + 1)))
          /\ node' = IF Len(txs') = Len(Setup!ALL) THEN "ready" ELSE "building"
      BY <1>2, <2>1, <2>3, <3>1 DEF Setup!ConnectPreset, Preset
    <3> DEFINE P(i) == Setup!Path(Preset(i))
               T(i) == Setup!TxPath(Preset(i))
    <3> HIDE DEF P, T
    <3>3. /\ txs' = [i \in 1 .. n + 1 |-> T(i)] /\ Len(txs') = n + 1
          /\ rxs' = [i \in 1 .. n + 1 |-> P(i)]
      <4>1. txs = [i \in 1 .. n |-> T(i)] /\ rxs = [i \in 1 .. n |-> P(i)]
        BY <2>1 DEF P, T
      <4>2. txs' = Append(txs, T(n + 1)) /\ rxs' = Append(rxs, P(n + 1))
        BY <3>2 DEF P, T
      <4>3. n \in Nat
        BY <2>1
      <4> HIDE DEF n
      <4> QED
        BY <4>1, <4>2, <4>3
    <3>4. \A i \in 1 .. n + 1 : slot \in Setup!Slots[region][Setup!BandwidthOf(Preset(i))]
      BY <2>1, <2>3
    <3>5. node' = IF n + 1 = 8 THEN "ready" ELSE "building"
      BY <3>2, <3>3, PresetOrder
    <3>6. /\ txs' = [i \in 1 .. n + 1 |-> (Setup!TxPath(Preset(i)))']
          /\ rxs' = [i \in 1 .. n + 1 |-> (Setup!Path(Preset(i)))']
      BY <2>1, <3>3 DEF Setup!Path, Setup!TxPath, Setup!Frequency, P, T
    <3>7. /\ txs' = [i \in 1 .. Len(txs') |-> (Setup!TxPath(Preset(i)))']
          /\ rxs' = [i \in 1 .. Len(txs') |-> (Setup!Path(Preset(i)))']
          /\ \A i \in 1 .. Len(txs') : slot \in Setup!Slots[region][Setup!BandwidthOf(Preset(i))]
      BY <3>3, <3>4, <3>6
    <3>8. /\ Len(txs') \in 0 .. 8 /\ node' \in {"building", "ready"}
          /\ node' = "building" => Len(txs') < 8
          /\ node' = "ready" => Len(txs') = 8
      BY <2>1, <3>3, <3>5
    <3>9. (\A i \in 1 .. Len(txs) : slot \in Setup!Slots[region][Setup!BandwidthOf(Preset(i))])'
      BY <2>1, <3>7
    <3> QED
      BY <1>2, <2>1, <3>7, <3>8, <3>9 DEF SetupInv
  <2>4. CASE slot \notin Setup!Slots[region][bw]
    <3>1. node' = "panicked" /\ UNCHANGED <<txs, rxs>>
      BY <1>2, <2>1, <2>4 DEF Setup!ConnectPreset, Preset
    <3>2. /\ txs' = [i \in 1 .. n |-> (Setup!TxPath(Preset(i)))']
          /\ rxs' = [i \in 1 .. n |-> (Setup!Path(Preset(i)))']
      BY <2>1, <3>1 DEF Setup!Path, Setup!TxPath, Setup!Frequency
    <3> QED
      BY <1>2, <2>1, <2>4, <3>1, <3>2 DEF SetupInv
  <2> QED
    BY <2>3, <2>4
<1>3. ASSUME SetupInv, UNCHANGED Setup!setupVars PROVE SetupInv'
  BY <1>3 DEF SetupInv, Setup!setupVars, Setup!Path, Setup!TxPath, Setup!Frequency
<1> QED
  BY <1>1, <1>2, <1>3 DEF Setup!Next

\* A node that was created has a transmitter and a receiver for each of the eight presets
\* and uses the transmitter of the one that was asked for; its like hear it with each
\* preset whose code rate HeaderDecoder accepts.
LEMMA TalkingNode == SetupInv => Setup!NodeCanTalk
<1>1. SetupInv => Setup!NodeCanTalk
  <2> SUFFICES ASSUME SetupInv, node = "ready"
               PROVE  /\ txs[selected_tx].path.preset = sel_preset
                      /\ Len(rxs) = Len(txs)
                      /\ \A i \in DOMAIN txs :
                           /\ rxs[i] = txs[i].path
                           /\ Setup!IsHeard(txs[i]) <=> txs[i].path.preset # "LongModerate"
                           /\ txs[i].path.bw * txs[i].path.interpolation = 1000000
    BY DEF Setup!NodeCanTalk
  <2>1. /\ txs = [i \in 1 .. 8 |-> Setup!TxPath(Preset(i))]
        /\ rxs = [i \in 1 .. 8 |-> Setup!Path(Preset(i))]
        /\ selected_tx \in 1 .. 8 /\ sel_preset = Preset(selected_tx)
    BY PresetOrder DEF SetupInv, Preset
  <2>2. ASSUME NEW i \in 1 .. 8
        PROVE  /\ rxs[i] = txs[i].path
               /\ Setup!IsHeard(txs[i]) <=> txs[i].path.preset # "LongModerate"
               /\ txs[i].path.bw * txs[i].path.interpolation = 1000000
               /\ txs[i].path.preset = Preset(i)
    <3>1. txs[i] = Setup!TxPath(Preset(i)) /\ rxs[i] = Setup!Path(Preset(i))
      BY <2>1
    <3>2. rxs[i] = txs[i].path /\ i \in DOMAIN rxs
      BY <2>1, <3>1, SampleRate
    <3>3. Setup!IsHeard(txs[i]) <=> txs[i].path.preset # "LongModerate"
      BY <3>1, <3>2, SampleRate, RateOfPreset DEF Setup!IsHeard
    <3> QED
      BY <3>1, <3>2, <3>3, SampleRate
  <2>3. Len(rxs) = Len(txs) /\ DOMAIN txs = 1 .. 8
    BY <2>1
  <2> QED
    BY <2>1, <2>2, <2>3
<1> QED
  BY <1>1

\* The slots of every bandwidth of a region lie side by side and fill the same band.
LEMMA FilledBand == SetupInv => Setup!SlotsFillBand
<1>1. SetupInv => Setup!SlotsFillBand
  <2> SUFFICES ASSUME region \in Setup!Regions PROVE Setup!SlotsFillBand
    BY DEF SetupInv
  <2> DEFINE low == CASE region = "EU433" -> 433000000 [] region = "EU868" -> 869400000
                      [] region = "RU" -> 868700000
             high == CASE region = "EU433" -> 434000000 [] region = "EU868" -> 869650000
                       [] region = "RU" -> 869200000
  <2>1. ASSUME NEW bw \in Setup!Bandwidths, Setup!AvailSlots[region][bw] > 0
        PROVE  Setup!Low(bw) = low /\ Setup!High(bw) = high
    <3>1. bw = 125000 \/ bw = 250000 \/ bw = 500000
      BY DEF Setup!Bandwidths
    <3>2. region = "EU433" \/ region = "EU868" \/ region = "RU"
      BY DEF Setup!Regions
    <3> DEFINE first == Setup!FirstChannel[region][bw]
               channels == Setup!AvailSlots[region][bw]
               half == bw \div 2
    <3> HIDE DEF half
    <3>3. /\ Setup!Low(bw) = (first + 0 * bw) - half
          /\ Setup!High(bw) = (first + (channels - 1) * bw) + half
      BY SMT DEF Setup!Low, Setup!High, Setup!Frequency, first, channels, half
    <3>4. CASE bw = 125000
      <4>1. /\ first = (IF region = "EU433" THEN 433062500 ELSE IF region = "EU868" THEN 869462500
                          ELSE 868762500)
            /\ channels = (IF region = "EU433" THEN 8 ELSE IF region = "EU868" THEN 2 ELSE 4)
        BY <3>2, <3>4, SMT DEF Setup!FirstChannel, Setup!AvailSlots, Setup!PerBandwidth, Setup!Bandwidths
      <4> HIDE DEF first, channels
      <4>2. half = 62500
        BY <3>4, SMT DEF half
      <4> QED
        BY <3>2, <3>4, <3>3, <4>1, <4>2, SMT
    <3>5. CASE bw = 250000
      <4>1. /\ first = (IF region = "EU433" THEN 433125000 ELSE IF region = "EU868" THEN 869525000
                          ELSE 868825000)
            /\ channels = (IF region = "EU433" THEN 4 ELSE IF region = "EU868" THEN 1 ELSE 2)
        BY <3>2, <3>5, SMT DEF Setup!FirstChannel, Setup!AvailSlots, Setup!PerBandwidth, Setup!Bandwidths
      <4> HIDE DEF first, channels
      <4>2. half = 125000
        BY <3>5, SMT DEF half
      <4> QED
        BY <3>2, <3>5, <3>3, <4>1, <4>2, SMT
    <3>6. CASE bw = 500000
      <4>1. /\ first = (IF region = "EU433" THEN 433250000 ELSE IF region = "EU868" THEN 0
                          ELSE 868950000)
            /\ channels = (IF region = "EU433" THEN 2 ELSE IF region = "EU868" THEN 0 ELSE 1)
        BY <3>2, <3>6, SMT DEF Setup!FirstChannel, Setup!AvailSlots, Setup!PerBandwidth, Setup!Bandwidths
      <4>2. channels > 0
        BY <2>1
      <4> HIDE DEF first, channels
      <4>3. half = 250000
        BY <3>6, SMT DEF half
      <4> QED
        BY <3>2, <3>6, <3>3, <4>1, <4>2, <4>3, SMT
    <3> HIDE DEF low, high
    <3> QED
      BY <3>1, <3>4, <3>5, <3>6, SMT
  <2> HIDE DEF low, high
  <2> QED
    BY <2>1 DEF Setup!SlotsFillBand
<1> QED
  BY <1>1

\* A node is created in the slots of 500 kHz and in no other: every preset is connected,
\* whichever was asked for.
LEMMA WideSlot == SetupInv => Setup!NeedsWideSlot
<1>1. SetupInv => Setup!NeedsWideSlot
  <2> SUFFICES ASSUME SetupInv PROVE Setup!NeedsWideSlot
    OBVIOUS
  <2>1. region \in Setup!Regions /\ slot \in Nat /\ 500000 \in Setup!Bandwidths
    BY DEF SetupInv, Setup!Bandwidths
  <2>2. ASSUME node = "panicked" PROVE slot >= Setup!AvailSlots[region][500000]
    <3>1. PICK i \in 1 .. 8 : slot \notin Setup!Slots[region][Setup!BandwidthOf(Preset(i))]
      BY <2>2 DEF SetupInv
    <3>2. PICK bw \in Setup!Bandwidths : slot \notin Setup!Slots[region][bw]
      BY <3>1, PresetOrder
    <3>3. /\ Setup!AvailSlots[region][bw] \in Nat /\ Setup!AvailSlots[region][500000] \in Nat
          /\ ~(slot < Setup!AvailSlots[region][bw])
          /\ Setup!AvailSlots[region][500000] <= Setup!AvailSlots[region][bw]
      BY <2>1, <3>2, SlotTables
    <3> QED
      BY <2>1, <3>3
  <2>3. ASSUME node = "ready" PROVE slot < Setup!AvailSlots[region][500000]
    <3>1. slot \in Setup!Slots[region][500000]
      BY <2>3, PresetOrder DEF SetupInv
    <3> QED
      BY <2>1, <3>1, SlotTables
  <2> QED
    BY <2>2, <2>3 DEF Setup!NeedsWideSlot
<1> QED
  BY <1>1

(***************************************************************************)
(* The Encoder's loop: how many symbols interleave() produces, compared with *)
(* what the receiver computes from the header.                             *)
(***************************************************************************)
First == SfApp(TRUE)          \* codewords of the first block
Rest == SfApp(FALSE)          \* ... and of all others

(***************************************************************************)
(* Arithmetic.                                                             *)
(***************************************************************************)
LEMMA BlockSizes ==
  /\ First \in 5 .. 10 /\ Rest \in 3 .. 12
  /\ Rest = SF - (IF Ldro THEN 2 ELSE 0)
  /\ First = SF - (IF SF >= 7 THEN 2 ELSE 0)
  /\ First > 5 => Rest > First - 5
  /\ InHeaderBlock <=> cnt < First
BY FrameAssumption DEF First, Rest, SfApp, InHeaderBlock

LEMMA Nibbles ==
  ASSUME NEW m \in Payloads
  PROVE  FrameNibbles(m) \in Nat /\ (~ImplHead => FrameNibbles(m) >= 5)
BY PayloadAssumption, FrameAssumption DEF FrameNibbles, HeaderLen

LEMMA OneMore == ASSUME NEW a \in Int, NEW b \in Int PROVE (a + 1) * b = a * b + b
OBVIOUS

\* What the receiver computes, in terms of the blocks of the transmitter.
LEMMA SymbNumbBlocks ==
  ASSUME NEW m \in Payloads
  PROVE  SymbNumb(m) = 8 + CeilDiv(FrameNibbles(m) - First + 5, Rest) * (4 + m.cr)
<1>1. m.pay_len \in Nat /\ m.cr \in Nat
  BY PayloadAssumption DEF CodeRates
<1>2. 2 * m.pay_len - (SF - 5) + (IF SF >= 7 THEN 2 ELSE 0)
        + (IF ImplHead THEN 0 ELSE 5) + (IF m.crc THEN 4 ELSE 0)
      = FrameNibbles(m) - First + 5
  BY <1>1, BlockSizes, FrameAssumption DEF FrameNibbles, HeaderLen
<1>3. QED
  BY <1>2, BlockSizes DEF SymbNumb, HeaderSymbols

(***************************************************************************)
(* The invariant of the loop: the number k of blocks after the first.      *)
(***************************************************************************)
OutBlocks(k) == out = 8 + k * (4 + msg.cr)

LoopInv ==
  /\ phase = "interleave" =>
       \/ cnt = 0 /\ out = 0 /\ frame = FrameNibbles(msg)
       \/ \E k \in Nat : /\ OutBlocks(k)
                         /\ cnt = First + k * Rest
                         /\ frame = FrameNibbles(msg) - cnt /\ frame > 0
  /\ phase = "done" =>
       \E k \in Nat : /\ OutBlocks(k)
                      /\ k # 0 => First + (k - 1) * Rest < FrameNibbles(msg)

EInv == TypeOK /\ LoopInv

LEMMA EncoderInit == Init => EInv
<1> SUFFICES ASSUME NEW m \in Payloads, Start(m) PROVE EInv
  BY DEF Init
<1>1. TypeOK
  BY Nibbles DEF Start, TypeOK
<1>2. LoopInv
  BY DEF Start, LoopInv
<1>3. QED
  BY <1>1, <1>2 DEF EInv

\* The first pass of the loop, and any later one.
LEMMA BlockStep == EInv /\ InterleaveBlock => EInv'
<1> SUFFICES ASSUME EInv, InterleaveBlock PROVE EInv'
  OBVIOUS
<1> DEFINE sf_app == SfApp(InHeaderBlock)
           L      == FrameNibbles(msg)
<1>1. /\ msg \in Payloads /\ msg' = msg /\ msg.cr \in Nat /\ L \in Nat
      /\ frame \in Nat /\ cnt \in Nat /\ out \in Nat
  BY PayloadAssumption, Nibbles DEF EInv, TypeOK, InterleaveBlock, CodeRates
<1>2. /\ phase = "interleave"
      /\ frame' = IF frame <= sf_app THEN 0 ELSE frame - sf_app
      /\ cnt' = cnt + sf_app
      /\ out' = out + CwLen(InHeaderBlock, msg.cr)
      /\ phase' = IF frame' = 0 THEN "done" ELSE "interleave"
  BY DEF InterleaveBlock
<1>3. First \in Nat /\ First >= 5 /\ Rest \in Nat /\ Rest >= 3
  BY BlockSizes
<1>4. CASE cnt = 0 /\ out = 0 /\ frame = L
  <2>1. InHeaderBlock
    BY <1>3, <1>4, BlockSizes
  <2>2. sf_app = First /\ CwLen(InHeaderBlock, msg.cr) = 8
    BY <2>1 DEF First, CwLen, HeaderSymbols
  <2>3. /\ frame' \in Nat /\ cnt' = First /\ out' = 8
        /\ frame' # 0 => frame' = L - First
    BY <1>1, <1>2, <1>3, <1>4, <2>2
  <2>4. TypeOK'
    BY <1>1, <1>2, <1>3, <2>3 DEF TypeOK
  <2>5. out' = 8 + 0 * (4 + msg'.cr) /\ cnt' = First + 0 * Rest
    BY <1>1, <1>3, <2>3
  <2>6. LoopInv'
    <3>1. CASE frame' = 0
      BY <1>2, <2>5, <3>1 DEF LoopInv, OutBlocks
    <3>2. CASE frame' # 0
      <4>1. phase' = "interleave" /\ OutBlocks(0)' /\ frame' = FrameNibbles(msg)' - cnt' /\ frame' > 0
        BY <1>1, <1>2, <2>3, <2>5, <3>2 DEF OutBlocks
      <4>2. QED
        BY <2>5, <4>1 DEF LoopInv
    <3>3. QED
      BY <3>1, <3>2
  <2>7. QED
    BY <2>4, <2>6 DEF EInv
<1>5. ASSUME NEW k \in Nat, OutBlocks(k), cnt = First + k * Rest, frame = L - cnt, frame > 0
      PROVE  EInv'
  <2>1. k * Rest \in Nat
    BY <1>3
  <2>2. InHeaderBlock = FALSE
    <3>1. ~(cnt < First)
      BY <1>3, <1>5, <2>1
    <3>2. QED
      BY <3>1, BlockSizes DEF InHeaderBlock
  <2>3. sf_app = Rest /\ CwLen(InHeaderBlock, msg.cr) = 4 + msg.cr
    BY <2>2 DEF Rest, CwLen
  <2>4. k + 1 \in Nat /\ k + 1 # 0 /\ (k + 1) - 1 = k
    OBVIOUS
  <2>5. (k + 1) * Rest = k * Rest + Rest /\ (k + 1) * (4 + msg.cr) = k * (4 + msg.cr) + (4 + msg.cr)
    <3>1. Rest \in Int /\ 4 + msg.cr \in Int /\ k \in Int
      BY <1>1, <1>3
    <3>2. QED
      BY <3>1, OneMore, Zenon
  <2>6. k * (4 + msg.cr) \in Nat
    BY <1>1
  <2>7. out' = 8 + (k + 1) * (4 + msg.cr) /\ cnt' = First + (k + 1) * Rest
    BY <1>1, <1>2, <1>3, <1>5, <2>1, <2>3, <2>5, <2>6 DEF OutBlocks
  <2>8. /\ frame' \in Nat /\ cnt' \in Nat /\ out' \in Nat
        /\ frame' # 0 => frame' = L - cnt'
        /\ First + k * Rest < L
    BY <1>1, <1>2, <1>3, <1>5, <2>1, <2>3, <2>5, <2>6, <2>7
  <2>9. TypeOK'
    BY <1>1, <1>2, <2>8 DEF TypeOK
  <2>10. OutBlocks(k + 1)'
    BY <1>1, <2>7 DEF OutBlocks
  <2>11. LoopInv'
    <3>1. CASE frame' = 0
      <4>1. phase' = "done" /\ First + ((k + 1) - 1) * Rest < FrameNibbles(msg)'
        BY <1>1, <1>2, <2>4, <2>8, <3>1
      <4>2. QED
        BY <2>4, <2>10, <4>1 DEF LoopInv
    <3>2. CASE frame' # 0
      <4>1. phase' = "interleave" /\ frame' = FrameNibbles(msg)' - cnt' /\ frame' > 0
        BY <1>1, <1>2, <2>8, <3>2
      <4>2. QED
        BY <2>4, <2>7, <2>10, <4>1 DEF LoopInv
    <3>3. QED
      BY <3>1, <3>2
  <2>12. QED
    BY <2>9, <2>11 DEF EInv
<1>6. QED
  BY <1>2, <1>4, <1>5 DEF EInv, LoopInv

LEMMA EncoderStep == EInv /\ [Next]_encoderVars => EInv'
<1> SUFFICES ASSUME EInv, [Next]_encoderVars PROVE EInv'
  OBVIOUS
<1>1. CASE InterleaveBlock
  BY <1>1, BlockStep
<1>2. CASE UNCHANGED encoderVars
  BY <1>2 DEF encoderVars, EInv, TypeOK, LoopInv, OutBlocks
<1>3. QED
  BY <1>1, <1>2 DEF Next

(***************************************************************************)
(* The results.                                                            *)
(***************************************************************************)
LEMMA EncoderInvariant == Spec => []EInv
<1>1. QED
  BY EncoderInit, EncoderStep, PTL DEF Spec

\* The receiver's formula counts at least the blocks of the transmitter's loop.
LEMMA ReceiverCountsEnough == EInv => NeverCutsFrame
<1> SUFFICES ASSUME EInv, phase = "done" PROVE SymbNumb(msg) >= out
  BY DEF NeverCutsFrame
<1> DEFINE L == FrameNibbles(msg)
           c == CeilDiv(L - First + 5, Rest)
<1>1. PICK k \in Nat : OutBlocks(k) /\ (k # 0 => First + (k - 1) * Rest < L)
  BY DEF EInv, LoopInv
<1>2. msg \in Payloads /\ L \in Nat /\ msg.cr \in Nat
  BY Nibbles, PayloadAssumption DEF EInv, TypeOK, CodeRates
<1>3. First \in 5 .. 10 /\ Rest \in 3 .. 12 /\ (First > 5 => Rest > First - 5)
  BY BlockSizes
<1>4. c \in Int /\ Rest * c >= L - First + 5
  <2>1. L - First + 5 \in Int /\ Rest \in Nat /\ Rest > 0
    BY <1>2, <1>3
  <2>2. QED
    BY <2>1, CeilDivUp
<1> HIDE DEF L, c
<1>5. k <= c
  <2>1. CASE k = 0
    <3>1. Rest * c > -Rest
      BY <1>2, <1>3, <1>4
    <3>2. c > -1
      BY <1>3, <1>4, <3>1
    <3>3. QED
      BY <1>4, <2>1, <3>2
  <2>2. CASE k # 0
    <3>1. k * Rest \in Int /\ (k - 1) * Rest = k * Rest - Rest
      BY <1>3
    <3>2. k * Rest < L - First + Rest
      BY <1>1, <1>2, <1>3, <2>2, <3>1
    <3>3. ASSUME k >= c + 1 PROVE FALSE
      <4>1. Rest * k >= Rest * (c + 1) /\ Rest * (c + 1) = Rest * c + Rest /\ Rest * k = k * Rest
        BY <1>3, <1>4, <3>3
      <4>2. Rest * c \in Int
        BY <1>3, <1>4
      <4>3. QED
        BY <1>2, <1>3, <1>4, <3>1, <3>2, <4>1, <4>2
    <3>4. QED
      BY <1>4, <3>3
  <2>3. QED
    BY <2>1, <2>2
<1>6. k * (4 + msg.cr) <= c * (4 + msg.cr) /\ c * (4 + msg.cr) \in Int /\ k * (4 + msg.cr) \in Int
  BY <1>2, <1>4, <1>5
<1>7. SymbNumb(msg) = 8 + c * (4 + msg.cr)
  BY <1>2, SymbNumbBlocks DEF L, c
<1>8. QED
  BY <1>1, <1>6, <1>7 DEF OutBlocks

\* A block is only filled from nibbles that exist: the lengths the loop of
\* interleave() counts down never become negative.
THEOREM EncoderTypeCorrect == Spec => []TypeOK
<1>1. EInv => TypeOK
  BY DEF EInv
<1>2. QED
  BY <1>1, EncoderInvariant, PTL

\* FrameSync never stops forwarding a frame before its last symbol: for every
\* payload, code rate, spreading factor, header mode and low data rate setting.
THEOREM FrameIsNeverCut == Spec => []NeverCutsFrame
<1>1. QED
  BY EncoderInvariant, ReceiverCountsEnough, PTL

LEMMA PayloadSymbolsExist == EInv => PayloadTagHasSymbol
<1> SUFFICES ASSUME EInv, ~ImplHead, msg.pay_len > 0 PROVE SymbNumb(msg) > 8
  BY DEF PayloadTagHasSymbol, HeaderSymbols
<1> DEFINE c == CeilDiv(FrameNibbles(msg) - First + 5, Rest)
<1>1. msg \in Payloads /\ msg.cr \in Nat /\ msg.pay_len \in Nat
  BY PayloadAssumption DEF EInv, TypeOK, CodeRates
<1>2. FrameNibbles(msg) \in Nat /\ FrameNibbles(msg) >= 7
  BY <1>1, Nibbles DEF FrameNibbles, HeaderLen
<1>3. First \in 5 .. 10 /\ Rest \in 3 .. 12
  BY BlockSizes
<1>4. c \in Int /\ Rest * c >= FrameNibbles(msg) - First + 5
  <2>1. FrameNibbles(msg) - First + 5 \in Int /\ Rest \in Nat /\ Rest > 0
    BY <1>2, <1>3
  <2>2. QED
    BY <2>1, CeilDivUp
<1>5. SymbNumb(msg) = 8 + c * (4 + msg.cr)
  BY <1>1, SymbNumbBlocks
<1> HIDE DEF c
<1>6. Rest * c > 0
  BY <1>2, <1>3, <1>4
<1>7. c > 0
  BY <1>3, <1>4, <1>6
<1>8. c * (4 + msg.cr) > 0 /\ c * (4 + msg.cr) \in Int
  BY <1>1, <1>4, <1>7
<1>9. QED
  BY <1>5, <1>8

\* With an explicit header the payload tag always finds a symbol of its frame.
THEOREM PayloadTagFindsSymbol == Spec => []PayloadTagHasSymbol
<1>1. QED
  BY EncoderInvariant, PayloadSymbolsExist, PTL

(***************************************************************************)
(* A block: recursion over the bits of a symbol.                           *)
(***************************************************************************)
\* What a function of the bits up to k looks like; step says how it goes on.
LEMMA RunExists ==
  ASSUME NEW n \in Nat, NEW step \in [Nat \X (1 .. n) -> Nat]
  PROVE  \E f \in [0 .. n -> Nat] : f[0] = 0 /\ \A k \in 1 .. n : f[k] = step[<<f[k - 1], k>>]
<1> DEFINE Good(f, m) == f[0] = 0 /\ \A k \in 1 .. m : f[k] = step[<<f[k - 1], k>>]
           Upto(m) == \E f \in [0 .. m -> Nat] : Good(f, m)
           missing == {m \in 0 .. n : ~Upto(m)}
<1>1. SUFFICES missing = {}
  <2>1. n \in 0 .. n
    OBVIOUS
  <2> QED
    BY <1>1, <2>1
<1>2. SUFFICES ASSUME missing # {} PROVE FALSE
  OBVIOUS
<1>3. PICK m \in missing : \A j \in missing : m <= j
  <2>1. missing \subseteq Nat
    OBVIOUS
  <2> HIDE DEF missing
  <2> QED
    BY <1>2, <2>1, PayloadFacts!SmallestExists
<1>4. m \in 0 .. n /\ ~Upto(m)
  BY <1>3
<1>5. m # 0
  <2>1. [k \in 0 .. 0 |-> 0] \in [0 .. 0 -> Nat] /\ Good([k \in 0 .. 0 |-> 0], 0)
    OBVIOUS
  <2>2. Upto(0)
    <3> HIDE DEF Good
    <3> QED
      BY <2>1
  <2> QED
    BY <1>4, <2>2
<1>6. Upto(m - 1)
  <2>1. m - 1 \in 0 .. n /\ m - 1 \notin missing
    <3> HIDE DEF missing
    <3> QED
      BY <1>3, <1>4, <1>5
  <2> QED
    BY <2>1
<1>7. PICK f \in [0 .. m - 1 -> Nat] : Good(f, m - 1)
  BY <1>6
<1> DEFINE g == [k \in 0 .. m |-> IF k = m THEN step[<<f[m - 1], m>>] ELSE f[k]]
<1>8. g \in [0 .. m -> Nat]
  <2>1. f[m - 1] \in Nat /\ m \in 1 .. n
    BY <1>4, <1>5, <1>7
  <2>2. step[<<f[m - 1], m>>] \in Nat
    BY <2>1
  <2>3. \A k \in 0 .. m : k # m => f[k] \in Nat
    BY <1>4, <1>7
  <2> QED
    BY <2>2, <2>3
<1>9. Good(g, m)
  <2>1. g[0] = 0
    BY <1>4, <1>5, <1>7
  <2>2. ASSUME NEW k \in 1 .. m PROVE g[k] = step[<<g[k - 1], k>>]
    <3>1. g[k - 1] = f[k - 1]
      BY <1>4
    <3>2. g[k] = step[<<f[k - 1], k>>]
      <4>1. CASE k = m
        BY <4>1
      <4>2. CASE k # m
        BY <1>4, <1>7, <4>2
      <4> QED
        BY <4>1, <4>2
    <3> QED
      BY <3>1, <3>2
  <2> QED
    BY <2>1, <2>2
<1> QED
  BY <1>4, <1>8, <1>9

\* Parity goes through the parities of the first bits.
IsParity(p, bits, n) ==
  /\ p \in [0 .. n -> Nat] /\ p[0] = 0
  /\ \A k \in 1 .. n : p[k] = (p[k - 1] + bits[k]) % 2

LEMMA ParityRun ==
  ASSUME NEW n \in Nat, NEW bits \in [1 .. n -> {0, 1}]
  PROVE  \E p : IsParity(p, bits, n) /\ Block!Parity(bits) = p[n]
<1> DEFINE step == [x \in Nat \X (1 .. n) |-> (x[1] + bits[x[2]]) % 2]
           Fun(p) == [k \in 0 .. Len(bits) |-> IF k = 0 THEN 0 ELSE (p[k - 1] + bits[k]) % 2]
           p == CHOOSE p : p = Fun(p)
<1>1. Len(bits) = n
  OBVIOUS
<1>2. step \in [Nat \X (1 .. n) -> Nat]
  OBVIOUS
<1>3. PICK f \in [0 .. n -> Nat] : f[0] = 0 /\ \A k \in 1 .. n : f[k] = step[<<f[k - 1], k>>]
  <2> HIDE DEF step
  <2> QED
    BY <1>2, RunExists
<1>a. ASSUME NEW k \in 1 .. n PROVE f[k] = (f[k - 1] + bits[k]) % 2
  <2>1. PICK x \in Nat : x = f[k - 1]
    BY <1>3
  <2>2. f[k] = step[<<x, k>>]
    BY <1>3, <2>1
  <2>3. step[<<x, k>>] = (x + bits[k]) % 2
    OBVIOUS
  <2> QED
    BY <2>1, <2>2, <2>3
<1>4. f = Fun(f)
  <2>1. ASSUME NEW k \in 0 .. n, k # 0 PROVE f[k] = (f[k - 1] + bits[k]) % 2
    BY <1>a, <2>1
  <2> HIDE DEF step
  <2> QED
    BY <1>1, <1>3, <2>1
<1>5. p = Fun(p)
  <2> HIDE DEF Fun
  <2> QED
    BY <1>4
<1>6. Block!Parity(bits) = p[Len(bits)]
  BY DEF Block!Parity
<1> HIDE DEF p
<1>7. p[0] = 0 /\ \A k \in 1 .. n : p[k] = (p[k - 1] + bits[k]) % 2
  BY <1>1, <1>5
<1>8. \A k \in 0 .. n : p[k] = f[k]
  <2> DEFINE bad == {k \in 0 .. n : p[k] # f[k]}
  <2>1. SUFFICES ASSUME bad # {} PROVE FALSE
    OBVIOUS
  <2>2. PICK k \in bad : \A j \in bad : k <= j
    <3>1. bad \subseteq Nat
      OBVIOUS
    <3> HIDE DEF bad
    <3> QED
      BY <2>1, <3>1, PayloadFacts!SmallestExists
  <2>3. k # 0 /\ k - 1 \in 0 .. n
    BY <1>3, <1>7, <2>2
  <2>4. p[k - 1] = f[k - 1]
    BY <2>2, <2>3
  <2>5. f[k] = (f[k - 1] + bits[k]) % 2
    BY <1>a, <2>3
  <2> HIDE DEF step
  <2> QED
    BY <1>7, <2>2, <2>3, <2>4, <2>5
<1>9. p \in [0 .. n -> Nat]
  BY <1>1, <1>3, <1>5, <1>8
<1> QED
  BY <1>1, <1>6, <1>7, <1>9 DEF IsParity

\* UndoGray goes through the numbers that the first bits make.
IsUndo(v, bits, n) ==
  /\ v \in [0 .. n -> Nat] /\ v[0] = 0
  /\ \A k \in 1 .. n : v[k] = 2 * v[k - 1] + ((v[k - 1] + bits[k]) % 2)

LEMMA UndoRun ==
  ASSUME NEW n \in Nat, NEW bits \in [1 .. n -> {0, 1}]
  PROVE  \E v : IsUndo(v, bits, n) /\ Block!UndoGray(bits) = v[n]
<1> DEFINE step == [x \in Nat \X (1 .. n) |-> 2 * x[1] + ((x[1] + bits[x[2]]) % 2)]
           Fun(v) == [k \in 0 .. Len(bits) |->
                        IF k = 0 THEN 0 ELSE 2 * v[k - 1] + ((v[k - 1] + bits[k]) % 2)]
           v == CHOOSE v : v = Fun(v)
<1>1. Len(bits) = n
  OBVIOUS
<1>2. step \in [Nat \X (1 .. n) -> Nat]
  OBVIOUS
<1>3. PICK f \in [0 .. n -> Nat] : f[0] = 0 /\ \A k \in 1 .. n : f[k] = step[<<f[k - 1], k>>]
  <2> HIDE DEF step
  <2> QED
    BY <1>2, RunExists
<1>4. ASSUME NEW k \in 1 .. n PROVE f[k] = 2 * f[k - 1] + ((f[k - 1] + bits[k]) % 2)
  <2>1. PICK x \in Nat : x = f[k - 1]
    BY <1>3
  <2>2. f[k] = step[<<x, k>>]
    BY <1>3, <2>1
  <2>3. step[<<x, k>>] = 2 * x + ((x + bits[k]) % 2)
    OBVIOUS
  <2> QED
    BY <2>1, <2>2, <2>3
<1>5. f = Fun(f)
  <2>1. ASSUME NEW k \in 0 .. n, k # 0 PROVE f[k] = 2 * f[k - 1] + ((f[k - 1] + bits[k]) % 2)
    BY <1>4, <2>1
  <2> HIDE DEF step
  <2> QED
    BY <1>1, <1>3, <2>1
<1>6. v = Fun(v)
  <2> HIDE DEF Fun
  <2> QED
    BY <1>5
<1>7. Block!UndoGray(bits) = v[Len(bits)]
  BY DEF Block!UndoGray
<1> HIDE DEF v
<1>8. v[0] = 0 /\ \A k \in 1 .. n : v[k] = 2 * v[k - 1] + ((v[k - 1] + bits[k]) % 2)
  BY <1>1, <1>6
<1>9. \A k \in 0 .. n : v[k] = f[k]
  <2> DEFINE bad == {k \in 0 .. n : v[k] # f[k]}
  <2>1. SUFFICES ASSUME bad # {} PROVE FALSE
    OBVIOUS
  <2>2. PICK k \in bad : \A j \in bad : k <= j
    <3>1. bad \subseteq Nat
      OBVIOUS
    <3> HIDE DEF bad
    <3> QED
      BY <2>1, <3>1, PayloadFacts!SmallestExists
  <2>3. k # 0 /\ k - 1 \in 0 .. n
    BY <1>3, <1>8, <2>2
  <2>4. v[k - 1] = f[k - 1]
    BY <2>2, <2>3
  <2>5. f[k] = 2 * f[k - 1] + ((f[k - 1] + bits[k]) % 2)
    BY <1>4, <2>3
  <2> HIDE DEF step
  <2> QED
    BY <1>8, <2>2, <2>3, <2>4, <2>5
<1>10. v \in [0 .. n -> Nat]
  BY <1>1, <1>3, <1>6, <1>9
<1> QED
  BY <1>1, <1>7, <1>8, <1>10 DEF IsUndo

\* The last bit of the number is the parity of the symbol.
LEMMA UndoParity ==
  ASSUME NEW n \in Nat, NEW bits \in [1 .. n -> {0, 1}],
         NEW p, NEW v, IsParity(p, bits, n), IsUndo(v, bits, n)
  PROVE  \A k \in 0 .. n : p[k] = v[k] % 2
<1> DEFINE bad == {k \in 0 .. n : p[k] # v[k] % 2}
<1>1. SUFFICES ASSUME bad # {} PROVE FALSE
  OBVIOUS
<1>2. PICK k \in bad : \A j \in bad : k <= j
  <2>1. bad \subseteq Nat
    OBVIOUS
  <2> HIDE DEF bad
  <2> QED
    BY <1>1, <2>1, PayloadFacts!SmallestExists
<1>3. k # 0 /\ k - 1 \in 0 .. n /\ k \in 1 .. n
  <2>1. p[0] = 0 /\ v[0] = 0 /\ 0 % 2 = 0
    BY DEF IsParity, IsUndo
  <2>2. k # 0
    BY <1>2, <2>1
  <2> QED
    BY <1>2, <2>2
<1>4. p[k - 1] = v[k - 1] % 2
  BY <1>2, <1>3
<1>5. PICK x \in Nat : x = v[k - 1]
  BY <1>3 DEF IsUndo
<1>6. p[k] = ((x % 2) + bits[k]) % 2 /\ v[k] = 2 * x + ((x + bits[k]) % 2)
  BY <1>3, <1>4, <1>5 DEF IsParity, IsUndo
<1>7. bits[k] = 0 \/ bits[k] = 1
  BY <1>3
<1>8. p[k] = v[k] % 2
  <2> HIDE DEF bad
  <2> QED
    BY <1>6, <1>7
<1> QED
  BY <1>2, <1>8

(***************************************************************************)
(* Powers of two, and numbers without their last bits.                     *)
(***************************************************************************)
LEMMA Powers ==
  /\ Block!Pow2(0) = 1
  /\ \A k \in 0 .. 12 : Block!Pow2(k) \in Nat \ {0}
  /\ \A k \in 1 .. 12 : Block!Pow2(k) = 2 * Block!Pow2(k - 1)
  /\ \A k \in 1 .. 12, x \in Nat : (x \div Block!Pow2(k - 1)) \div 2 = x \div Block!Pow2(k)
<1>1. /\ Block!Pow2(0) = 1 /\ Block!Pow2(1) = 2 /\ Block!Pow2(2) = 4 /\ Block!Pow2(3) = 8
      /\ Block!Pow2(4) = 16 /\ Block!Pow2(5) = 32 /\ Block!Pow2(6) = 64 /\ Block!Pow2(7) = 128
      /\ Block!Pow2(8) = 256 /\ Block!Pow2(9) = 512 /\ Block!Pow2(10) = 1024
      /\ Block!Pow2(11) = 2048 /\ Block!Pow2(12) = 4096
  BY DEF Block!Pow2, Block!PowersOfTwo
<1>2. \A k \in 0 .. 12 : Block!Pow2(k) \in Nat \ {0}
  BY <1>1
<1>3. \A k \in 1 .. 12 : Block!Pow2(k) = 2 * Block!Pow2(k - 1)
  BY <1>1
<1>4. ASSUME NEW k \in 1 .. 12, NEW x \in Nat
      PROVE  (x \div Block!Pow2(k - 1)) \div 2 = x \div Block!Pow2(k)
  <2>1. PICK a \in Nat \ {0} : a = Block!Pow2(k - 1)
    BY <1>2
  <2>2. Block!Pow2(k) = 2 * a
    BY <1>3, <2>1
  <2>3. \/ a = 1 \/ a = 2 \/ a = 4 \/ a = 8 \/ a = 16 \/ a = 32 \/ a = 64 \/ a = 128 \/ a = 256
        \/ a = 512 \/ a = 1024 \/ a = 2048
    BY <1>1, <2>1
  <2> QED
    BY <2>1, <2>2, <2>3
<1> QED
  BY <1>1, <1>2, <1>3, <1>4

\* a holds a number, the last element, and what is left of it without its last bits.
IsHalving(a, n) ==
  a \in [0 .. n -> Nat] /\ a[0] = 0 /\ \A k \in 1 .. n : a[k - 1] = a[k] \div 2

LEMMA HalvingsAgree ==
  ASSUME NEW n \in Nat, NEW a, NEW c, IsHalving(a, n), IsHalving(c, n),
         NEW m \in 0 .. n, a[m] = c[m]
  PROVE  \A k \in 0 .. m : a[k] = c[k]
<1> DEFINE bad == {j \in 0 .. m : a[m - j] # c[m - j]}
<1>1. SUFFICES ASSUME bad # {} PROVE FALSE
  <2>1. \A k \in 0 .. m : m - k \in 0 .. m /\ m - (m - k) = k
    OBVIOUS
  <2> QED
    BY <1>1, <2>1
<1>2. PICK j \in bad : \A i \in bad : j <= i
  <2>1. bad \subseteq Nat
    OBVIOUS
  <2> HIDE DEF bad
  <2> QED
    BY <1>1, <2>1, PayloadFacts!SmallestExists
<1>3. j # 0 /\ j - 1 \in 0 .. m /\ m - (j - 1) \in 1 .. n /\ (m - (j - 1)) - 1 = m - j
  BY <1>2
<1>4. a[m - (j - 1)] = c[m - (j - 1)]
  BY <1>2, <1>3
<1>5. a[m - j] = a[m - (j - 1)] \div 2 /\ c[m - j] = c[m - (j - 1)] \div 2
  <2>1. PICK q \in 1 .. n : q = m - (j - 1) /\ q - 1 = m - j
    BY <1>3
  <2> QED
    BY <2>1 DEF IsHalving
<1> QED
  BY <1>2, <1>4, <1>5

\* What GrayMapping makes of a number is the XOR of neighbouring bits.
Pairs(a, n) == [k \in 1 .. n |-> (a[k] + a[k - 1]) % 2]

LEMMA GrayHalving ==
  ASSUME NEW n \in 1 .. 12, n = Block!SfBits, NEW x \in Nat, x < Block!Pow2(n)
  PROVE  \E a : IsHalving(a, n) /\ a[n] = x /\ Block!Gray(x) = Pairs(a, n)
<1> DEFINE a == [k \in 0 .. n |-> x \div Block!Pow2(n - k)]
<1>1. ASSUME NEW k \in 0 .. n PROVE a[k] \in Nat
  <2>1. n - k \in 0 .. 12
    OBVIOUS
  <2>2. PICK d \in Nat \ {0} : d = Block!Pow2(n - k)
    BY <2>1, Powers
  <2>3. x \div d \in Nat
    OBVIOUS
  <2> QED
    BY <2>2, <2>3
<1>2. a[n] = x
  <2>1. n - n = 0 /\ x \div 1 = x
    OBVIOUS
  <2> QED
    BY <2>1, Powers
<1>3. ASSUME NEW k \in 1 .. n PROVE a[k - 1] = a[k] \div 2
  <2>1. n - k + 1 \in 1 .. 12 /\ (n - k + 1) - 1 = n - k /\ n - (k - 1) = n - k + 1
    OBVIOUS
  <2>2. (x \div Block!Pow2(n - k)) \div 2 = x \div Block!Pow2(n - k + 1)
    <3>1. PICK i \in 1 .. 12 : i = n - k + 1 /\ i - 1 = n - k
      BY <2>1
    <3> QED
      BY <3>1, Powers
  <2>3. a[k - 1] = x \div Block!Pow2(n - (k - 1)) /\ a[k] = x \div Block!Pow2(n - k)
    OBVIOUS
  <2> QED
    BY <2>1, <2>2, <2>3
<1>4. a[0] = 0
  <2>1. PICK d \in Nat \ {0} : d = Block!Pow2(n)
    <3>1. n \in 0 .. 12
      OBVIOUS
    <3> QED
      BY <3>1, Powers
  <2>2. x \div d = 0
    BY <2>1
  <2>3. a[0] = x \div Block!Pow2(n - 0) /\ n - 0 = n
    OBVIOUS
  <2> QED
    BY <2>1, <2>2, <2>3
<1>5. ASSUME NEW k \in 1 .. n PROVE Block!Gray(x)[k] = (a[k] + a[k - 1]) % 2
  <2>1. \A j \in 1 .. n : Block!Bits(x, n)[j] = a[j] % 2
    BY DEF Block!Bits
  <2>2. Block!Gray(x)[k] = IF k = 1 THEN Block!Bits(x, n)[1]
                                    ELSE (Block!Bits(x, n)[k] + Block!Bits(x, n)[k - 1]) % 2
    BY DEF Block!Gray
  <2>3. a[k] \in Nat /\ a[k - 1] \in Nat
    <3>1. k \in 0 .. n /\ k - 1 \in 0 .. n
      OBVIOUS
    <3> HIDE DEF a
    <3> QED
      BY <1>1, <3>1
  <2> HIDE DEF a
  <2>4. CASE k = 1
    BY <1>4, <2>1, <2>2, <2>3, <2>4
  <2>5. CASE k # 1
    <3>1. Block!Gray(x)[k] = ((a[k] % 2) + (a[k - 1] % 2)) % 2
      BY <2>1, <2>2, <2>5
    <3> QED
      BY <2>3, <3>1
  <2> QED
    BY <2>4, <2>5
<1>6. a \in [0 .. n -> Nat]
  BY <1>1
<1> HIDE DEF a
<1>7. Block!Gray(x) = Pairs(a, n)
  <2>1. Block!Gray(x) = [k \in 1 .. n |-> Block!Gray(x)[k]]
    BY DEF Block!Gray
  <2> QED
    BY <1>5, <2>1 DEF Pairs
<1> QED
  BY <1>2, <1>3, <1>4, <1>6, <1>7 DEF IsHalving

\* Numbers that are next to each other, the largest next to 0, have Gray codes that
\* differ in one bit.
Following(x, y, n) == y = IF x + 1 = Block!Pow2(n) THEN 0 ELSE x + 1
OneApart(g, h, n) == \E q \in 1 .. n : \A k \in 1 .. n : k # q => g[k] = h[k]

LEMMA NextInGray ==
  ASSUME NEW n \in 1 .. 12, NEW a, NEW c, IsHalving(a, n), IsHalving(c, n),
         a[n] < Block!Pow2(n), Following(a[n], c[n], n)
  PROVE  OneApart(Pairs(a, n), Pairs(c, n), n)
<1> DEFINE Same == {j \in 0 .. n : a[n - j] = c[n - j]}
           NextTo(k) == a[k] < Block!Pow2(k)
                        /\ Following(a[k], c[k], k)
<1>1. \A k \in 0 .. n : a[k] \in Nat /\ c[k] \in Nat
  BY DEF IsHalving
<1>2. n \in Same
  <2>1. n - n = 0 /\ n \in 0 .. n
    OBVIOUS
  <2> QED
    BY <2>1 DEF IsHalving
<1>3. PICK i \in Same : \A j \in Same : i <= j
  <2>1. Same \subseteq Nat /\ Same # {}
    BY <1>2
  <2> HIDE DEF Same
  <2> QED
    BY <2>1, PayloadFacts!SmallestExists
<1>4. PICK m \in 0 .. n : m = n - i
  BY <1>3
<1>5. a[m] = c[m] /\ \A k \in 0 .. n : k > m => a[k] # c[k]
  <2>1. a[m] = c[m]
    BY <1>3, <1>4
  <2>2. ASSUME NEW k \in 0 .. n, k > m, a[k] = c[k] PROVE FALSE
    <3>1. n - k \in 0 .. n /\ n - (n - k) = k /\ n - k < i
      BY <1>3, <1>4, <2>2
    <3>2. n - k \in Same /\ i \in 0 .. n
      BY <1>3, <2>2, <3>1
    <3> HIDE DEF Same
    <3> QED
      BY <1>3, <1>4, <3>1, <3>2
  <2> QED
    BY <2>1, <2>2
<1> HIDE DEF Same
<1>6. m < n
  <2> n \in 0 .. 12 /\ n - 1 \in 0 .. 12
    OBVIOUS
  <2>1. PICK d \in Nat \ {0} : d = Block!Pow2(n) /\ d = 2 * Block!Pow2(n - 1)
    BY Powers
  <2>2. Block!Pow2(n - 1) \in Nat
    BY Powers
  <2>3. a[n] # c[n]
    BY <1>1, <2>1, <2>2 DEF Following
  <2> QED
    BY <1>4, <1>5, <2>3
<1>7. \A k \in 0 .. m : a[k] = c[k]
  BY <1>5, HalvingsAgree
<1>8. \A k \in (m + 1) .. n : NextTo(k)
  <2> DEFINE bad == {j \in 0 .. (n - m - 1) : ~NextTo(n - j)}
  <2>1. SUFFICES ASSUME bad # {} PROVE FALSE
    <3>1. \A k \in (m + 1) .. n : n - k \in 0 .. (n - m - 1) /\ n - (n - k) = k
      OBVIOUS
    <3> HIDE DEF NextTo
    <3> QED
      BY <2>1, <3>1
  <2>2. PICK j \in bad : \A l \in bad : j <= l
    <3>1. bad \subseteq Nat
      BY <1>6
    <3> HIDE DEF bad
    <3> QED
      BY <2>1, <3>1, PayloadFacts!SmallestExists
  <2>3. j # 0
    <3>1. NextTo(n - 0)
      OBVIOUS
    <3> HIDE DEF NextTo
    <3> QED
      BY <2>2, <3>1
  <2>4. j \in 1 .. (n - m - 1) /\ j - 1 \notin bad
    <3>1. j \in 0 .. (n - m - 1)
      BY <2>2
    <3>2. j - 1 \notin bad
      <4> HIDE DEF bad
      <4> QED
        BY <2>2, <2>3, <3>1
    <3> QED
      BY <2>3, <3>1, <3>2
  <2>5. PICK k \in (m + 2) .. n : k = n - (j - 1) /\ n - j = k - 1
    BY <2>4, <1>6
  <2>6. NextTo(k)
    <3> HIDE DEF NextTo
    <3> QED
      BY <2>4, <2>5, <1>6
  <2>7. a[k - 1] = a[k] \div 2 /\ c[k - 1] = c[k] \div 2 /\ a[k - 1] # c[k - 1]
    <3>1. k \in 1 .. n /\ k - 1 \in 0 .. n /\ k - 1 > m
      BY <2>5
    <3> QED
      BY <1>5, <3>1 DEF IsHalving
  <2>8. PICK d \in Nat \ {0} : d = Block!Pow2(k - 1) /\ 2 * d = Block!Pow2(k)
    <3>1. k \in 1 .. 12 /\ k - 1 \in 0 .. 12
      BY <2>5
    <3> QED
      BY <3>1, Powers
  <2>9. PICK x \in Nat, y \in Nat : x = a[k] /\ y = c[k]
    BY <1>1, <2>5
  <2>10. NextTo(k - 1)
    <3>1. x < 2 * d /\ y = IF x + 1 = 2 * d THEN 0 ELSE x + 1
      BY <2>6, <2>8, <2>9 DEF Following
    <3>2. x \div 2 # y \div 2
      BY <2>7, <2>9
    <3>3. x \div 2 < d /\ y \div 2 = IF (x \div 2) + 1 = d THEN 0 ELSE (x \div 2) + 1
      BY <3>1, <3>2
    <3> QED
      BY <2>7, <2>8, <2>9, <3>3 DEF Following
  <2> HIDE DEF NextTo
  <2> QED
    BY <2>2, <2>5, <2>10
<1>9. \A k \in (m + 1) .. n : c[k] % 2 = (a[k] + 1) % 2
  <2> TAKE k \in (m + 1) .. n
  <2>1. NextTo(k)
    <3> HIDE DEF NextTo
    <3> QED
      BY <1>8
  <2>2. PICK d \in Nat \ {0} : 2 * d = Block!Pow2(k)
    <3>1. k \in 1 .. 12 /\ k - 1 \in 0 .. 12
      OBVIOUS
    <3> QED
      BY <3>1, Powers
  <2>3. PICK x \in Nat, y \in Nat : x = a[k] /\ y = c[k]
    BY <1>1
  <2> QED
    BY <2>1, <2>2, <2>3 DEF Following
<1>10. ASSUME NEW k \in 1 .. n, k # m + 1 PROVE (a[k] + a[k - 1]) % 2 = (c[k] + c[k - 1]) % 2
  <2>1. CASE k <= m
    <3>1. k \in 0 .. m /\ k - 1 \in 0 .. m
      BY <2>1
    <3> QED
      BY <1>7, <3>1
  <2>2. CASE k > m
    <3>1. k \in (m + 1) .. n /\ k - 1 \in (m + 1) .. n
      BY <1>10, <2>2
    <3>2. PICK x \in Nat, y \in Nat : x = a[k] /\ y = c[k]
      BY <1>1
    <3>3. PICK u \in Nat, w \in Nat : u = a[k - 1] /\ w = c[k - 1]
      BY <1>1, <3>1
    <3>4. y % 2 = (x + 1) % 2 /\ w % 2 = (u + 1) % 2
      BY <1>9, <3>1, <3>2, <3>3
    <3>5. (x + u) % 2 = (y + w) % 2
      BY <3>4
    <3> QED
      BY <3>2, <3>3, <3>5
  <2> QED
    BY <2>1, <2>2
<1>11. m + 1 \in 1 .. n
  BY <1>6
<1> QED
  BY <1>10, <1>11 DEF OneApart, Pairs

LEMMA GrayNext ==
  ASSUME NEW n \in 1 .. 12, n = Block!SfBits, NEW x \in Nat, NEW y \in Nat, x < Block!Pow2(n),
         Following(x, y, n)
  PROVE  OneApart(Block!Gray(x), Block!Gray(y), n)
<1>1. PICK d \in Nat \ {0} : d = Block!Pow2(n)
  <2>1. n \in 0 .. 12
    OBVIOUS
  <2> QED
    BY <2>1, Powers
<1>2. y < Block!Pow2(n)
  BY <1>1 DEF Following
<1>3. PICK a : IsHalving(a, n) /\ a[n] = x /\ Block!Gray(x) = Pairs(a, n)
  BY GrayHalving
<1>4. PICK c : IsHalving(c, n) /\ c[n] = y /\ Block!Gray(y) = Pairs(c, n)
  BY <1>2, GrayHalving
<1>5. a[n] < Block!Pow2(n) /\ Following(a[n], c[n], n)
  BY <1>3, <1>4
<1>6. OneApart(Pairs(a, n), Pairs(c, n), n)
  BY <1>3, <1>4, <1>5, NextInGray
<1> QED
  BY <1>3, <1>4, <1>6

LEMMA GrayType ==
  ASSUME NEW n \in 1 .. 12, n = Block!SfBits, NEW x \in Nat, x < Block!Pow2(n)
  PROVE  Block!Gray(x) \in [1 .. n -> {0, 1}]
<1>1. PICK a : IsHalving(a, n) /\ Block!Gray(x) = Pairs(a, n)
  BY GrayHalving
<1>2. ASSUME NEW k \in 1 .. n PROVE Block!Gray(x)[k] \in {0, 1}
  <2>1. PICK u \in Nat, w \in Nat : u = a[k] /\ w = a[k - 1]
    <3>1. k \in 0 .. n /\ k - 1 \in 0 .. n
      OBVIOUS
    <3> QED
      BY <1>1, <3>1 DEF IsHalving
  <2>2. (u + w) % 2 \in {0, 1}
    OBVIOUS
  <2> QED
    BY <1>1, <2>1, <2>2 DEF Pairs
<1>3. Block!Gray(x) = [k \in 1 .. n |-> Block!Gray(x)[k]]
  BY DEF Block!Gray
<1> QED
  BY <1>2, <1>3

(***************************************************************************)
(* From a row of bits to a symbol and back.                                *)
(***************************************************************************)
LEMMA BlockSfBits ==
  ASSUME is_header \in BOOLEAN
  PROVE  /\ Block!SfBits \in 3 .. 12
         /\ Block!Reduced => Block!SfBits + 2 = SF
         /\ ~Block!Reduced => Block!SfBits = SF
  BY FrameAssumption DEF Block!SfBits, Block!Reduced, Block!SfApp

\* A row with the bits that fill it up.
Filled(row) ==
  [j \in 1 .. SF |-> CASE j <= Block!SfBits -> row[j]
                       [] j = Block!SfBits + 1 -> Block!Parity(row)
                       [] j > Block!SfBits + 1 -> 0]

LEMMA RowSent ==
  ASSUME is_header \in BOOLEAN, NEW n, n = Block!SfBits, NEW row \in [1 .. n -> {0, 1}]
  PROVE  \E x \in Nat : /\ x < Block!Pow2(n) /\ Block!Gray(x) = row
                        /\ Block!UndoGray(Filled(row)) = IF Block!Reduced THEN 4 * x ELSE x
<1>1. n \in 3 .. 12 /\ (Block!Reduced => n + 2 = SF) /\ (~Block!Reduced => n = SF)
  BY BlockSfBits
<1>2. SF \in Nat /\ n <= SF
  BY <1>1, FrameAssumption
<1>3. PICK p : IsParity(p, row, n) /\ Block!Parity(row) = p[n]
  BY <1>1, ParityRun
<1>4. Block!Parity(row) \in {0, 1}
  <2>1. PICK x \in Nat, y \in {0, 1} : x = p[n - 1] /\ y = row[n]
    BY <1>1, <1>3 DEF IsParity
  <2>2. p[n] = (x + y) % 2
    BY <1>1, <1>3, <2>1 DEF IsParity
  <2> QED
    BY <1>3, <2>2
<1>5. /\ Filled(row) \in [1 .. SF -> {0, 1}]
      /\ \A j \in 1 .. n : Filled(row)[j] = row[j]
      /\ Block!Reduced => Filled(row)[n + 1] = Block!Parity(row) /\ Filled(row)[n + 2] = 0
  <2> DEFINE F(j) == CASE j <= n -> row[j] [] j = n + 1 -> Block!Parity(row) [] j > n + 1 -> 0
  <2>a. Filled(row) = [j \in 1 .. SF |-> F(j)]
    BY DEF Filled
  <2>b. \A j \in 1 .. SF : F(j) \in {0, 1}
    BY <1>1, <1>2, <1>4
  <2>1. ASSUME NEW j \in 1 .. SF
        PROVE  Filled(row)[j] = CASE j <= n -> row[j] [] j = n + 1 -> Block!Parity(row)
                                  [] j > n + 1 -> 0
    BY <2>a
  <2>2. Filled(row) \in [1 .. SF -> {0, 1}]
    <3> HIDE DEF F
    <3> QED
      BY <2>a, <2>b
  <2>4. \A j \in 1 .. n : Filled(row)[j] = row[j]
    BY <1>1, <1>2, <2>1
  <2>5. Block!Reduced => Filled(row)[n + 1] = Block!Parity(row) /\ Filled(row)[n + 2] = 0
    BY <1>1, <1>2, <2>1
  <2> QED
    BY <2>2, <2>4, <2>5
<1>6. PICK w : IsUndo(w, Filled(row), SF) /\ Block!UndoGray(Filled(row)) = w[SF]
  BY <1>2, <1>5, UndoRun
<1> DEFINE v == [k \in 0 .. n |-> w[k]]
<1>7. IsUndo(v, row, n)
  <2>1. \A k \in 0 .. n : v[k] \in Nat /\ v[k] = w[k]
    BY <1>1, <1>2, <1>6 DEF IsUndo
  <2>2. v[0] = 0
    BY <1>1, <1>6 DEF IsUndo
  <2>3. ASSUME NEW k \in 1 .. n PROVE v[k] = 2 * v[k - 1] + ((v[k - 1] + row[k]) % 2)
    <3>1. k \in 1 .. SF /\ k \in 0 .. n /\ k - 1 \in 0 .. n
      BY <1>1, <1>2
    <3>2. w[k] = 2 * w[k - 1] + ((w[k - 1] + Filled(row)[k]) % 2)
      BY <1>6, <3>1 DEF IsUndo
    <3> QED
      BY <1>5, <2>1, <3>1, <3>2
  <2>4. v \in [0 .. n -> Nat]
    BY <2>1
  <2> HIDE DEF v
  <2> QED
    BY <2>2, <2>3, <2>4 DEF IsUndo
<1>8. v[n] = w[n] /\ v[n] \in Nat
  BY <1>1, <1>7 DEF IsUndo
<1> HIDE DEF v
<1>a. \A k \in 1 .. n : v[k - 1] \in Nat /\ row[k] \in {0, 1}
  <2> TAKE k \in 1 .. n
  <2>1. k - 1 \in 0 .. n
    BY <1>1
  <2> QED
    BY <1>7, <2>1 DEF IsUndo
<1>9. \A k \in 0 .. n : v[k] < Block!Pow2(k)
  <2> DEFINE bad == {k \in 0 .. n : ~(v[k] < Block!Pow2(k))}
  <2>1. SUFFICES ASSUME bad # {} PROVE FALSE
    OBVIOUS
  <2>2. PICK k \in bad : \A j \in bad : k <= j
    <3>1. bad \subseteq Nat
      BY <1>1
    <3> HIDE DEF bad
    <3> QED
      BY <2>1, <3>1, PayloadFacts!SmallestExists
  <2>3. k # 0
    <3>1. v[0] < Block!Pow2(0)
      BY <1>7, Powers DEF IsUndo
    <3> QED
      BY <2>2, <3>1
  <2>4. k \in 1 .. n /\ k - 1 \in 0 .. n /\ k \in 1 .. 12 /\ k - 1 \in 0 .. 12
    BY <1>1, <2>2, <2>3
  <2>5. v[k - 1] < Block!Pow2(k - 1)
    BY <2>2, <2>4
  <2>6. PICK d \in Nat \ {0} : d = Block!Pow2(k - 1) /\ 2 * d = Block!Pow2(k)
    BY <2>4, Powers
  <2>7. PICK x \in Nat, y \in {0, 1} : x = v[k - 1] /\ y = row[k]
    BY <1>1, <1>7, <2>4 DEF IsUndo
  <2>8. v[k] = 2 * x + ((x + y) % 2)
    BY <1>7, <2>4, <2>7 DEF IsUndo
  <2>9. v[k] < Block!Pow2(k)
    <3>1. x < d
      BY <2>5, <2>6, <2>7
    <3> QED
      BY <2>6, <2>8, <3>1
  <2> QED
    BY <2>2, <2>9
<1>10. IsHalving(v, n)
  <2>1. ASSUME NEW k \in 1 .. n PROVE v[k - 1] = v[k] \div 2
    <3>1. PICK x \in Nat, y \in {0, 1} : x = v[k - 1] /\ y = row[k]
      BY <1>a
    <3>2. v[k] = 2 * x + ((x + y) % 2)
      BY <1>7, <3>1 DEF IsUndo
    <3>3. (2 * x + ((x + y) % 2)) \div 2 = x
      OBVIOUS
    <3> QED
      BY <3>1, <3>2, <3>3
  <2> QED
    BY <1>7, <2>1 DEF IsHalving, IsUndo
<1>11. Block!Gray(v[n]) = row
  <2>1. n \in 1 .. 12 /\ v[n] < Block!Pow2(n)
    BY <1>1, <1>9
  <2>2. PICK x \in Nat : x = v[n]
    BY <1>8
  <2>3. PICK a : IsHalving(a, n) /\ a[n] = x /\ Block!Gray(x) = Pairs(a, n)
    BY <2>1, <2>2, GrayHalving
  <2>4. \A k \in 0 .. n : a[k] = v[k]
    <3>1. n \in 0 .. n /\ n \in Nat
      BY <1>1
    <3> QED
      BY <1>10, <2>2, <2>3, <3>1, HalvingsAgree
  <2>5. ASSUME NEW k \in 1 .. n PROVE Block!Gray(x)[k] = row[k]
    <3>1. PICK z \in Nat, y \in {0, 1} : z = v[k - 1] /\ y = row[k]
      BY <1>a
    <3>2. v[k] = 2 * z + ((z + y) % 2)
      BY <1>7, <3>1 DEF IsUndo
    <3>3. Block!Gray(x)[k] = (2 * z + ((z + y) % 2) + z) % 2
      <4>1. k \in 0 .. n /\ k - 1 \in 0 .. n
        BY <1>1
      <4> QED
        BY <2>3, <2>4, <3>1, <3>2, <4>1 DEF Pairs
    <3>4. (2 * z + ((z + y) % 2) + z) % 2 = y
      OBVIOUS
    <3> QED
      BY <3>1, <3>3, <3>4
  <2>6. Block!Gray(x) \in [1 .. n -> {0, 1}]
    BY <2>1, <2>2, GrayType
  <2>7. Block!Gray(x) = row
    <3>1. PICK g \in [1 .. n -> {0, 1}] : g = Block!Gray(x)
      BY <2>6
    <3>2. g = [k \in 1 .. n |-> g[k]] /\ row = [k \in 1 .. n |-> row[k]]
      OBVIOUS
    <3>3. \A k \in 1 .. n : g[k] = row[k]
      BY <2>5, <3>1
    <3> QED
      BY <3>1, <3>2, <3>3
  <2> QED
    BY <2>2, <2>7
<1>12. w[SF] = IF Block!Reduced THEN 4 * v[n] ELSE v[n]
  <2>1. CASE ~Block!Reduced
    BY <1>1, <1>8, <2>1
  <2>2. CASE Block!Reduced
    <3>1. p[n] = v[n] % 2
      BY <1>1, <1>3, <1>7, UndoParity
    <3>2. PICK x \in Nat : x = v[n] /\ x = w[n]
      BY <1>8
    <3>3. w[n + 1] = 2 * x + ((x + (x % 2)) % 2)
      <4>1. n + 1 \in 1 .. SF /\ (n + 1) - 1 = n
        BY <1>1, <2>2, FrameAssumption
      <4>2. w[n + 1] = 2 * w[n] + ((w[n] + Filled(row)[n + 1]) % 2)
        BY <1>6, <4>1 DEF IsUndo
      <4> QED
        BY <1>3, <1>5, <2>2, <3>1, <3>2, <4>2
    <3>4. w[n + 1] = 2 * x
      BY <3>3
    <3>5. w[n + 2] = 2 * w[n + 1] + ((w[n + 1] + 0) % 2)
      <4>1. n + 2 \in 1 .. SF /\ (n + 2) - 1 = n + 1
        BY <1>1, <2>2, FrameAssumption
      <4>2. w[n + 2] = 2 * w[n + 1] + ((w[n + 1] + Filled(row)[n + 2]) % 2)
        BY <1>6, <4>1 DEF IsUndo
      <4> QED
        BY <1>5, <2>2, <4>2
    <3>6. w[n + 2] = 4 * x
      BY <3>4, <3>5
    <3> QED
      BY <1>1, <2>2, <3>2, <3>6
  <2> QED
    BY <2>1, <2>2
<1> QED
  <2>1. n \in 0 .. n
    BY <1>1
  <2> QED
    BY <1>6, <1>8, <1>9, <1>11, <1>12, <2>1

\* What GrayMapping gets of a bin: the bin that was sent, without the one that was added.
LEMMA BinShift ==
  ASSUME NEW y \in Nat, y < Block!Pow2(SF), NEW e \in Int
  PROVE  /\ (((((y + 1) % Block!Pow2(SF)) + e) % Block!Pow2(SF)) - 1) % Block!Pow2(SF)
              = (y + e) % Block!Pow2(SF)
         /\ (y + e) % Block!Pow2(SF) \in 0 .. (Block!Pow2(SF) - 1)
         /\ (y + 1) % Block!Pow2(SF) \in 0 .. (Block!Pow2(SF) - 1)
         /\ (((y + 1) % Block!Pow2(SF)) + e) % Block!Pow2(SF) \in 0 .. (Block!Pow2(SF) - 1)
         /\ e \in -1 .. 3 => (y + e) % Block!Pow2(SF) =
              IF y + e < 0 THEN Block!Pow2(SF) - 1
              ELSE IF y + e >= Block!Pow2(SF) THEN y + e - Block!Pow2(SF) ELSE y + e
<1>1. PICK m \in Nat : m = Block!Pow2(SF) /\ m \in {32, 64, 128, 256, 512, 1024, 2048, 4096}
  <2>1. /\ Block!Pow2(5) = 32 /\ Block!Pow2(6) = 64 /\ Block!Pow2(7) = 128 /\ Block!Pow2(8) = 256
        /\ Block!Pow2(9) = 512 /\ Block!Pow2(10) = 1024 /\ Block!Pow2(11) = 2048
        /\ Block!Pow2(12) = 4096
    BY DEF Block!Pow2, Block!PowersOfTwo
  <2> QED
    BY <2>1, FrameAssumption
<1>2. ASSUME NEW z \in Int PROVE z % m \in 0 .. (m - 1)
  BY <1>1
<1>3. (y + 1) % m = IF y + 1 = m THEN 0 ELSE y + 1
  BY <1>1
<1>4. (((((y + 1) % m) + e) % m) - 1) % m = (y + e) % m
  <2>1. PICK u \in Int : u = (y + 1) % m /\ (u = y + 1 \/ u = y + 1 - m)
    BY <1>1, <1>3
  <2>2. (((u + e) % m) - 1) % m = (y + e) % m
    <3>1. CASE m = 32
      BY <2>1, <3>1
    <3>2. CASE m = 64
      BY <2>1, <3>2
    <3>3. CASE m = 128
      BY <2>1, <3>3
    <3>4. CASE m = 256
      BY <2>1, <3>4
    <3>5. CASE m = 512
      BY <2>1, <3>5
    <3>6. CASE m = 1024
      BY <2>1, <3>6
    <3>7. CASE m = 2048
      BY <2>1, <3>7
    <3>8. CASE m = 4096
      BY <2>1, <3>8
    <3> QED
      BY <1>1, <3>1, <3>2, <3>3, <3>4, <3>5, <3>6, <3>7, <3>8
  <2> QED
    BY <2>1, <2>2
<1>5. e \in -1 .. 3 => (y + e) % m = IF y + e < 0 THEN m - 1
                                     ELSE IF y + e >= m THEN y + e - m ELSE y + e
  BY <1>1
<1>6. (y + 1) % m \in Int /\ ((y + 1) % m) + e \in Int /\ y + e \in Int /\ y + 1 \in Int
  BY <1>2
<1> QED
  BY <1>1, <1>2, <1>4, <1>5, <1>6

\* What a reduced rate leaves room for.
Harmless == IF Block!Reduced THEN 0 .. 3 ELSE {0}

Received(row, e) ==
  LET bin == (((Block!UndoGray(Filled(row)) + 1) % Block!Pow2(SF)) + e) % Block!Pow2(SF)
  IN  /\ (Block!UndoGray(Filled(row)) + 1) % Block!Pow2(SF) \in 0 .. (Block!Pow2(SF) - 1)
      /\ bin \in 0 .. (Block!Pow2(SF) - 1)
      /\ Block!DemodulatedBits(bin) \in [1 .. Block!SfBits -> {0, 1}]
      /\ e \in Harmless => Block!DemodulatedBits(bin) = row
      /\ e \in {-1, 1} => OneApart(row, Block!DemodulatedBits(bin), Block!SfBits)

LEMMA RowReceived ==
  ASSUME is_header \in BOOLEAN, NEW row \in [1 .. Block!SfBits -> {0, 1}], NEW e \in Int
  PROVE  Received(row, e)
<1>n. PICK n : n = Block!SfBits
  OBVIOUS
<1>row. row \in [1 .. n -> {0, 1}]
  BY <1>n
<1>s. PICK sent : sent = (Block!UndoGray(Filled(row)) + 1) % Block!Pow2(SF)
  OBVIOUS
<1>t. PICK bin : bin = (sent + e) % Block!Pow2(SF)
  OBVIOUS
<1>1. n \in 3 .. 12 /\ (Block!Reduced => n + 2 = SF) /\ (~Block!Reduced => n = SF)
  BY <1>n, BlockSfBits
<1>2. PICK x \in Nat : /\ x < Block!Pow2(n) /\ Block!Gray(x) = row
                       /\ Block!UndoGray(Filled(row)) = IF Block!Reduced THEN 4 * x ELSE x
  BY <1>n, <1>row, RowSent
<1>3. PICK d \in Nat \ {0} : d = Block!Pow2(n)
  <2>1. n \in 0 .. 12
    BY <1>1
  <2> QED
    BY <2>1, Powers
<1>4. PICK f \in {1, 4} : f = (IF Block!Reduced THEN 4 ELSE 1) /\ Block!Pow2(SF) = f * d
  <2>1. CASE ~Block!Reduced
    BY <1>1, <1>3, <2>1
  <2>2. CASE Block!Reduced
    <3>1. n + 1 \in 1 .. 12 /\ n + 2 \in 1 .. 12 /\ (n + 1) - 1 = n /\ (n + 2) - 1 = n + 1
      BY <1>1, <2>2, FrameAssumption
    <3>2. Block!Pow2(n + 1) = 2 * d /\ Block!Pow2(n + 2) = 2 * Block!Pow2(n + 1)
      BY <1>3, <3>1, Powers
    <3>3. Block!Pow2(SF) = 4 * d
      BY <1>1, <2>2, <3>2
    <3> QED
      BY <2>2, <3>3
  <2> QED
    BY <2>1, <2>2
<1>5. PICK m \in Nat : m = Block!Pow2(SF) /\ m = f * d
  BY <1>4
<1>6. PICK y \in Nat : y = f * x /\ y = Block!UndoGray(Filled(row)) /\ y < m
  <2>1. x < d
    BY <1>2, <1>3
  <2>2. f * x = Block!UndoGray(Filled(row))
    BY <1>2, <1>4
  <2>3. f * x < f * d /\ f * x \in Nat
    BY <2>1
  <2> QED
    BY <1>5, <2>2, <2>3
<1>7. PICK u \in 0 .. (m - 1) : /\ u = (y + e) % m /\ (bin - 1) % m = u
                                /\ {sent, bin} \subseteq 0 .. (m - 1)
                                /\ e \in -1 .. 3 => u = IF y + e < 0 THEN m - 1
                                     ELSE IF y + e >= m THEN y + e - m ELSE y + e
  <2>1. sent = (y + 1) % m /\ bin = (((y + 1) % m) + e) % m
    BY <1>5, <1>6, <1>s, <1>t
  <2>2. y < Block!Pow2(SF)
    BY <1>5, <1>6
  <2>3. (bin - 1) % m = (y + e) % m
    BY <1>5, <2>1, <2>2, BinShift
  <2>4. (y + e) % m \in 0 .. (m - 1) /\ sent \in 0 .. (m - 1) /\ bin \in 0 .. (m - 1)
    BY <1>5, <2>1, <2>2, BinShift
  <2>5. e \in -1 .. 3 => (y + e) % m = IF y + e < 0 THEN m - 1
                                      ELSE IF y + e >= m THEN y + e - m ELSE y + e
    BY <1>5, <2>2, BinShift
  <2> QED
    BY <2>3, <2>4, <2>5
<1>8. PICK z \in Nat : z = u \div f /\ z < d
  BY <1>4, <1>5, <1>7
<1>9. Block!DemodulatedBits(bin) = Block!Gray(z)
  BY <1>4, <1>5, <1>7, <1>8 DEF Block!DemodulatedBits
<1>10. n \in 1 .. 12
  BY <1>1
<1>11. Block!DemodulatedBits(bin) \in [1 .. n -> {0, 1}]
  BY <1>n, <1>3, <1>8, <1>9, <1>10, GrayType
<1>a. e \in -1 .. 3 => u = IF y + e < 0 THEN m - 1 ELSE IF y + e >= m THEN y + e - m ELSE y + e
  BY <1>7
<1>b. x < d /\ y = f * x /\ m = f * d
  BY <1>2, <1>3, <1>5, <1>6
<1>c. z = u \div f
  BY <1>8
<1>12. ASSUME e \in Harmless PROVE z = x
  <2>1. e \in 0 .. (f - 1)
    BY <1>4, <1>12 DEF Harmless
  <2>2. x < d
    BY <1>2, <1>3
  <2>3. u = f * x + e
    <3>1. CASE f = 1
      BY <1>a, <1>b, <2>1, <3>1
    <3>2. CASE f = 4
      BY <1>a, <1>b, <2>1, <3>2
    <3> QED
      BY <3>1, <3>2
  <2> QED
    BY <1>4, <1>8, <2>1, <2>3
<1>13. ASSUME e \in {-1, 1} PROVE OneApart(row, Block!DemodulatedBits(bin), n)
  <2>1. x < d
    BY <1>2, <1>3
  <2>2. z = x \/ Following(x, z, n) \/ Following(z, x, n)
    <3> DEFINE After(a, b) == b = IF a + 1 = d THEN 0 ELSE a + 1
    <3>1. ASSUME e = 1 PROVE z = x \/ After(x, z)
      <4>1. CASE f = 1
        BY <1>a, <1>b, <1>c, <3>1, <4>1
      <4>2. CASE f = 4
        <5>1. u = 4 * x + 1
          BY <1>a, <1>b, <3>1, <4>2
        <5> QED
          BY <1>c, <4>2, <5>1
      <4> QED
        BY <4>1, <4>2
    <3>2. ASSUME e = -1 PROVE After(z, x)  \/ z = x
      <4>1. CASE f = 1
        BY <1>a, <1>b, <1>c, <3>2, <4>1
      <4>2. CASE f = 4
        <5>1. u = IF x = 0 THEN 4 * d - 1 ELSE 4 * x - 1
          BY <1>a, <1>b, <3>2, <4>2
        <5> QED
          BY <1>b, <1>c, <4>2, <5>1
      <4> QED
        BY <4>1, <4>2
    <3> QED
      BY <1>3, <1>13, <3>1, <3>2 DEF Following
  <2>3. CASE z = x
    <3>1. 1 \in 1 .. n
      BY <1>1
    <3> QED
      BY <1>2, <1>9, <2>3, <3>1 DEF OneApart
  <2>4. CASE Following(x, z, n)
    BY <1>n, <1>2, <1>9, <1>10, <2>4, GrayNext
  <2>5. CASE Following(z, x, n)
    <3>1. z < Block!Pow2(n)
      BY <1>3, <1>8
    <3>2. OneApart(Block!Gray(z), Block!Gray(x), n)
      BY <1>n, <1>10, <2>5, <3>1, GrayNext
    <3> QED
      BY <1>2, <1>9, <3>2 DEF OneApart
  <2> QED
    BY <2>2, <2>3, <2>4, <2>5
<1> QED
  <2>1. sent \in 0 .. (Block!Pow2(SF) - 1) /\ bin \in 0 .. (Block!Pow2(SF) - 1)
    BY <1>5, <1>7
  <2>2. e \in Harmless => Block!DemodulatedBits(bin) = row
    BY <1>2, <1>9, <1>12
  <2>3. e \in {-1, 1} => OneApart(row, Block!DemodulatedBits(bin), n)
    BY <1>13
  <2> QED
    BY <1>n, <1>s, <1>t, <1>11, <2>1, <2>2, <2>3 DEF Received

(***************************************************************************)
(* The interleaver.                                                        *)
(***************************************************************************)
\* Which codeword a bit belongs to and which bit is of a codeword are the same question.
LEMMA WordOfWordOf ==
  ASSUME is_header \in BOOLEAN, NEW n, n = Block!SfBits, NEW i \in 1 .. 8, NEW j \in 1 .. n
  PROVE  /\ Block!WordOf(i, j) \in 1 .. n
         /\ Block!WordOf(i, Block!WordOf(i, j)) = j
<1>1. n \in 3 .. 12
  BY BlockSfBits
<1> DEFINE w(k) == ((i - k - 1) % n) + 1
<1>2. \A k \in 1 .. n : w(k) \in 1 .. n /\ w(w(k)) = k
  <2> TAKE k \in 1 .. n
  <2>1. w(k) \in 1 .. n
    BY <1>1
  <2>2. w(w(k)) = k
    <3>1. CASE n = 3
      BY <3>1
    <3>2. CASE n = 4
      BY <3>2
    <3>3. CASE n = 5
      BY <3>3
    <3>4. CASE n = 6
      BY <3>4
    <3>5. CASE n = 7
      BY <3>5
    <3>6. CASE n = 8
      BY <3>6
    <3>7. CASE n = 9
      BY <3>7
    <3>8. CASE n = 10
      BY <3>8
    <3>9. CASE n = 11
      BY <3>9
    <3>10. CASE n = 12
      BY <3>10
    <3> QED
      BY <1>1, <3>1, <3>2, <3>3, <3>4, <3>5, <3>6, <3>7, <3>8, <3>9, <3>10
  <2> QED
    BY <2>1, <2>2
<1>3. \A k : Block!WordOf(i, k) = w(k)
  BY DEF Block!WordOf
<1> HIDE DEF w
<1> QED
  BY <1>2, <1>3

(***************************************************************************)
(* Codewords.                                                              *)
(***************************************************************************)
Bit == {0, 1}

\* g is the codeword of the data bits a (the lowest) to d.
IsCodeword(g, a, b, c, d, rate) ==
  /\ g[1] = a /\ g[2] = b /\ g[3] = c /\ g[4] = d
  /\ g[5] = IF rate = 1 THEN (a + b + c + d) % 2 ELSE (a + b + c) % 2
  /\ rate >= 2 => g[6] = (b + c + d) % 2
  /\ rate >= 3 => g[7] = (a + b + d) % 2
  /\ rate = 4 => g[8] = (a + c + d) % 2

LEMMA WordBits ==
  ASSUME cr \in 1 .. 4, NEW x \in 0 .. 15
  PROVE  /\ Block!HammingWord(x) \in [1 .. (4 + cr) -> Bit]
         /\ \E a \in Bit, b \in Bit, c \in Bit, d \in Bit :
              x = 8 * d + 4 * c + 2 * b + a /\ IsCodeword(Block!HammingWord(x), a, b, c, d, cr)
<1> DEFINE D(i) == (x \div Block!Pow2(i - 1)) % 2
           g == Block!HammingWord(x)
           full == <<D(1), D(2), D(3), D(4), (D(1) + D(2) + D(3)) % 2, (D(2) + D(3) + D(4)) % 2,
                     (D(1) + D(2) + D(4)) % 2, (D(1) + D(3) + D(4)) % 2>>
<1>1. /\ Block!Pow2(0) = 1 /\ Block!Pow2(1) = 2 /\ Block!Pow2(2) = 4 /\ Block!Pow2(3) = 8
      /\ 1 - 1 = 0 /\ 2 - 1 = 1 /\ 3 - 1 = 2 /\ 4 - 1 = 3
  BY DEF Block!Pow2, Block!PowersOfTwo
<1>2. D(1) = (x \div 1) % 2 /\ D(2) = (x \div 2) % 2 /\ D(3) = (x \div 4) % 2 /\ D(4) = (x \div 8) % 2
  BY <1>1
<1>3. PICK a \in Bit, b \in Bit, c \in Bit, d \in Bit : a = D(1) /\ b = D(2) /\ c = D(3) /\ d = D(4)
  BY <1>2 DEF Bit
<1>4. x = 8 * d + 4 * c + 2 * b + a
  <2>1. x = 8 * ((x \div 8) % 2) + 4 * ((x \div 4) % 2) + 2 * ((x \div 2) % 2) + ((x \div 1) % 2)
    <3>1. \/ x = 0 \/ x = 1 \/ x = 2 \/ x = 3 \/ x = 4 \/ x = 5 \/ x = 6 \/ x = 7
          \/ x = 8 \/ x = 9 \/ x = 10 \/ x = 11 \/ x = 12 \/ x = 13 \/ x = 14 \/ x = 15
      OBVIOUS
    <3> QED
      BY <3>1
  <2> HIDE DEF D
  <2> QED
    BY <1>2, <1>3, <2>1
<1>5. g = [i \in 1 .. (4 + cr) |->
             IF cr = 1 /\ i = 5 THEN (D(1) + D(2) + D(3) + D(4)) % 2 ELSE full[i]]
  BY DEF Block!HammingWord
<1> HIDE DEF D, g
<1>6. ASSUME NEW i \in 1 .. (4 + cr)
      PROVE  g[i] = IF cr = 1 /\ i = 5 THEN (a + b + c + d) % 2
                    ELSE <<a, b, c, d, (a + b + c) % 2, (b + c + d) % 2, (a + b + d) % 2,
                           (a + c + d) % 2>>[i]
  BY <1>3, <1>5
<1> HIDE DEF full
<1>7. /\ g[1] = a /\ g[2] = b /\ g[3] = c /\ g[4] = d
      /\ g[5] = IF cr = 1 THEN (a + b + c + d) % 2 ELSE (a + b + c) % 2
      /\ cr >= 2 => g[6] = (b + c + d) % 2
      /\ cr >= 3 => g[7] = (a + b + d) % 2
      /\ cr = 4 => g[8] = (a + c + d) % 2
  <2>1. /\ {1, 2, 3, 4, 5} \subseteq 1 .. (4 + cr) /\ (cr >= 2 => 6 \in 1 .. (4 + cr))
        /\ (cr >= 3 => 7 \in 1 .. (4 + cr)) /\ (cr = 4 => 8 \in 1 .. (4 + cr))
    OBVIOUS
  <2>2. /\ g[1] = a /\ g[2] = b /\ g[3] = c /\ g[4] = d
    BY <1>6, <2>1
  <2>3. g[5] = IF cr = 1 THEN (a + b + c + d) % 2 ELSE (a + b + c) % 2
    BY <1>6, <2>1
  <2>4. /\ cr >= 2 => g[6] = (b + c + d) % 2
        /\ cr >= 3 => g[7] = (a + b + d) % 2
        /\ cr = 4 => g[8] = (a + c + d) % 2
    BY <1>6, <2>1
  <2> QED
    BY <2>2, <2>3, <2>4
<1>8. g \in [1 .. (4 + cr) -> Bit]
  <2>1. ASSUME NEW i \in 1 .. (4 + cr) PROVE g[i] \in Bit
    <3>1. \A z \in Nat : z % 2 \in Bit
      BY DEF Bit
    <3>2. {a + b + c + d, a + b + c, b + c + d, a + b + d, a + c + d} \subseteq Nat
      BY DEF Bit
    <3>3. i \in 1 .. 8
      OBVIOUS
    <3>4. g[5] \in Bit /\ (cr >= 2 => g[6] \in Bit) /\ (cr >= 3 => g[7] \in Bit)
            /\ (cr = 4 => g[8] \in Bit)
      BY <1>7, <3>1, <3>2
    <3> QED
      BY <1>7, <3>3, <3>4
  <2>2. g = [i \in 1 .. (4 + cr) |-> g[i]]
    BY <1>5
  <2> QED
    BY <2>1, <2>2
<1> QED
  BY <1>4, <1>7, <1>8 DEF IsCodeword, g

(***************************************************************************)
(* Hard decoding.                                                          *)
(***************************************************************************)
LEMMA HardType ==
  ASSUME cr \in 1 .. 4, NEW g \in [1 .. (4 + cr) -> Bit]
  PROVE  Block!HardNibble(g) \in 0 .. 15
<1>1. PICK w \in 0 .. 4 : w = LET syndrome == ((g[1] + g[2] + g[3] + g[5]) % 2)
                                                + 2 * ((g[2] + g[3] + g[4] + g[6]) % 2)
                                                + 4 * ((g[1] + g[2] + g[4] + g[7]) % 2)
                              IN  CASE syndrome = 5 -> 1 [] syndrome = 7 -> 2
                                    [] syndrome = 3 -> 3 [] syndrome = 6 -> 4 [] OTHER -> 0
  OBVIOUS
<1> DEFINE D(i) == IF cr = 3 /\ i = w THEN 1 - g[i] ELSE g[i]
<1>2. Block!HardNibble(g) = 8 * D(4) + 4 * D(3) + 2 * D(2) + D(1)
  BY <1>1 DEF Block!HardNibble
<1>3. \A i \in 1 .. 4 : D(i) \in Bit
  BY DEF Bit
<1> HIDE DEF D
<1>4. D(1) \in Bit /\ D(2) \in Bit /\ D(3) \in Bit /\ D(4) \in Bit
  BY <1>3
<1> QED
  BY <1>2, <1>4 DEF Bit

LEMMA HardExact ==
  ASSUME cr \in 1 .. 4, NEW a \in Bit, NEW b \in Bit, NEW c \in Bit, NEW d \in Bit,
         NEW g, IsCodeword(g, a, b, c, d, cr)
  PROVE  Block!HardNibble(g) = 8 * d + 4 * c + 2 * b + a
<1>1. g[1] = a /\ g[2] = b /\ g[3] = c /\ g[4] = d
  BY DEF IsCodeword
<1>2. CASE cr # 3
  BY <1>1, <1>2 DEF Block!HardNibble
<1>3. CASE cr = 3
  <2>1. g[5] = (a + b + c) % 2 /\ g[6] = (b + c + d) % 2 /\ g[7] = (a + b + d) % 2
    BY <1>3 DEF IsCodeword
  <2>2. /\ (g[1] + g[2] + g[3] + g[5]) % 2 = 0 /\ (g[2] + g[3] + g[4] + g[6]) % 2 = 0
        /\ (g[1] + g[2] + g[4] + g[7]) % 2 = 0
    BY <1>1, <2>1 DEF Bit
  <2> QED
    BY <1>1, <2>2 DEF Block!HardNibble
<1> QED
  BY <1>2, <1>3

\* Code rate 4/7: seven bits, any of which may be wrong.
LEMMA HardCorrects ==
  ASSUME cr = 3, NEW a \in Bit, NEW b \in Bit, NEW c \in Bit, NEW d \in Bit,
         NEW h, IsCodeword(h, a, b, c, d, 3), NEW g \in [1 .. 7 -> Bit], OneApart(h, g, 7)
  PROVE  Block!HardNibble(g) = 8 * d + 4 * c + 2 * b + a
<1>1. PICK q \in 1 .. 7 : \A k \in 1 .. 7 : k # q => h[k] = g[k]
  BY DEF OneApart
<1>2. /\ h[1] = a /\ h[2] = b /\ h[3] = c /\ h[4] = d
      /\ h[5] = (a + b + c) % 2 /\ h[6] = (b + c + d) % 2 /\ h[7] = (a + b + d) % 2
  BY DEF IsCodeword
<1>3. PICK g1 \in Bit, g2 \in Bit, g3 \in Bit, g4 \in Bit, g5 \in Bit, g6 \in Bit, g7 \in Bit :
        /\ g[1] = g1 /\ g[2] = g2 /\ g[3] = g3 /\ g[4] = g4 /\ g[5] = g5 /\ g[6] = g6 /\ g[7] = g7
  OBVIOUS
<1>4. PICK s1 \in Bit, s2 \in Bit, s3 \in Bit :
        /\ s1 = (g1 + g2 + g3 + g5) % 2 /\ s2 = (g2 + g3 + g4 + g6) % 2
        /\ s3 = (g1 + g2 + g4 + g7) % 2
  BY DEF Bit
<1> DEFINE wrong == CASE s1 + 2 * s2 + 4 * s3 = 5 -> 1 [] s1 + 2 * s2 + 4 * s3 = 7 -> 2
                      [] s1 + 2 * s2 + 4 * s3 = 3 -> 3 [] s1 + 2 * s2 + 4 * s3 = 6 -> 4
                      [] OTHER -> 0
           D(i, z) == IF i = wrong THEN 1 - z ELSE z
<1>5. Block!HardNibble(g) = 8 * D(4, g4) + 4 * D(3, g3) + 2 * D(2, g2) + D(1, g1)
  BY <1>3, <1>4 DEF Block!HardNibble
<1>6. D(1, g1) = a /\ D(2, g2) = b /\ D(3, g3) = c /\ D(4, g4) = d
  <2>1. CASE q = 1
    <3>1. /\ g2 = b /\ g3 = c /\ g4 = d /\ g5 = (a + b + c) % 2 /\ g6 = (b + c + d) % 2
          /\ g7 = (a + b + d) % 2
      BY <1>1, <1>2, <1>3, <2>1
    <3> QED
      BY <1>4, <3>1 DEF Bit
  <2>2. CASE q = 2
    <3>1. /\ g1 = a /\ g3 = c /\ g4 = d /\ g5 = (a + b + c) % 2 /\ g6 = (b + c + d) % 2
          /\ g7 = (a + b + d) % 2
      BY <1>1, <1>2, <1>3, <2>2
    <3> QED
      BY <1>4, <3>1 DEF Bit
  <2>3. CASE q = 3
    <3>1. /\ g1 = a /\ g2 = b /\ g4 = d /\ g5 = (a + b + c) % 2 /\ g6 = (b + c + d) % 2
          /\ g7 = (a + b + d) % 2
      BY <1>1, <1>2, <1>3, <2>3
    <3> QED
      BY <1>4, <3>1 DEF Bit
  <2>4. CASE q = 4
    <3>1. /\ g1 = a /\ g2 = b /\ g3 = c /\ g5 = (a + b + c) % 2 /\ g6 = (b + c + d) % 2
          /\ g7 = (a + b + d) % 2
      BY <1>1, <1>2, <1>3, <2>4
    <3> QED
      BY <1>4, <3>1 DEF Bit
  <2>5. CASE q = 5
    <3>1. /\ g1 = a /\ g2 = b /\ g3 = c /\ g4 = d /\ g6 = (b + c + d) % 2
          /\ g7 = (a + b + d) % 2
      BY <1>1, <1>2, <1>3, <2>5
    <3> QED
      BY <1>4, <3>1 DEF Bit
  <2>6. CASE q = 6
    <3>1. /\ g1 = a /\ g2 = b /\ g3 = c /\ g4 = d /\ g5 = (a + b + c) % 2
          /\ g7 = (a + b + d) % 2
      BY <1>1, <1>2, <1>3, <2>6
    <3> QED
      BY <1>4, <3>1 DEF Bit
  <2>7. CASE q = 7
    <3>1. /\ g1 = a /\ g2 = b /\ g3 = c /\ g4 = d /\ g5 = (a + b + c) % 2
          /\ g6 = (b + c + d) % 2
      BY <1>1, <1>2, <1>3, <2>7
    <3> QED
      BY <1>4, <3>1 DEF Bit
  <2> QED
    BY <2>1, <2>2, <2>3, <2>4, <2>5, <2>6, <2>7
<1> QED
  BY <1>5, <1>6

(***************************************************************************)
(* Soft decoding.                                                          *)
(***************************************************************************)
\* What two words of 4 + rate bits do not share.
Differ(g, h, j, rate) == IF j <= 4 + rate /\ g[j] # h[j] THEN 1 ELSE 0
Distance(g, h, rate) ==
  Differ(g, h, 1, rate) + Differ(g, h, 2, rate) + Differ(g, h, 3, rate) + Differ(g, h, 4, rate)
    + Differ(g, h, 5, rate) + Differ(g, h, 6, rate) + Differ(g, h, 7, rate) + Differ(g, h, 8, rate)

LEMMA DifferBit ==
  ASSUME NEW g, NEW h, NEW j, NEW rate
  PROVE  Differ(g, h, j, rate) \in Bit
  BY DEF Differ, Bit

LEMMA DistanceType ==
  ASSUME NEW g, NEW h, NEW rate
  PROVE  Distance(g, h, rate) \in 0 .. 8
<1> DEFINE D(j) == Differ(g, h, j, rate)
<1>1. /\ D(1) \in Bit /\ D(2) \in Bit /\ D(3) \in Bit /\ D(4) \in Bit
      /\ D(5) \in Bit /\ D(6) \in Bit /\ D(7) \in Bit /\ D(8) \in Bit
  BY DifferBit
<1>2. Distance(g, h, rate) = D(1) + D(2) + D(3) + D(4) + D(5) + D(6) + D(7) + D(8)
  BY DEF Distance
<1> HIDE DEF D
<1> QED
  BY <1>1, <1>2 DEF Bit

LEMMA Triangle ==
  ASSUME NEW g, NEW h, NEW k, NEW rate
  PROVE  Distance(g, h, rate) <= Distance(g, k, rate) + Distance(k, h, rate)
<1> DEFINE D(j) == Differ(g, h, j, rate)
           E(j) == Differ(g, k, j, rate)
           F(j) == Differ(k, h, j, rate)
<1>1. \A j : D(j) \in Bit /\ E(j) \in Bit /\ F(j) \in Bit
  BY DifferBit
<1>2. \A j : D(j) <= E(j) + F(j)
  BY DEF Differ
<1>3. /\ Distance(g, h, rate) = D(1) + D(2) + D(3) + D(4) + D(5) + D(6) + D(7) + D(8)
      /\ Distance(g, k, rate) = E(1) + E(2) + E(3) + E(4) + E(5) + E(6) + E(7) + E(8)
      /\ Distance(k, h, rate) = F(1) + F(2) + F(3) + F(4) + F(5) + F(6) + F(7) + F(8)
  BY DEF Distance
<1> HIDE DEF D, E, F
<1>a1. PICK d1 \in Bit, e1 \in Bit, f1 \in Bit : d1 = D(1) /\ e1 = E(1) /\ f1 = F(1) /\ d1 <= e1 + f1
  BY <1>1, <1>2
<1>a2. PICK d2 \in Bit, e2 \in Bit, f2 \in Bit : d2 = D(2) /\ e2 = E(2) /\ f2 = F(2) /\ d2 <= e2 + f2
  BY <1>1, <1>2
<1>a3. PICK d3 \in Bit, e3 \in Bit, f3 \in Bit : d3 = D(3) /\ e3 = E(3) /\ f3 = F(3) /\ d3 <= e3 + f3
  BY <1>1, <1>2
<1>a4. PICK d4 \in Bit, e4 \in Bit, f4 \in Bit : d4 = D(4) /\ e4 = E(4) /\ f4 = F(4) /\ d4 <= e4 + f4
  BY <1>1, <1>2
<1>a5. PICK d5 \in Bit, e5 \in Bit, f5 \in Bit : d5 = D(5) /\ e5 = E(5) /\ f5 = F(5) /\ d5 <= e5 + f5
  BY <1>1, <1>2
<1>a6. PICK d6 \in Bit, e6 \in Bit, f6 \in Bit : d6 = D(6) /\ e6 = E(6) /\ f6 = F(6) /\ d6 <= e6 + f6
  BY <1>1, <1>2
<1>a7. PICK d7 \in Bit, e7 \in Bit, f7 \in Bit : d7 = D(7) /\ e7 = E(7) /\ f7 = F(7) /\ d7 <= e7 + f7
  BY <1>1, <1>2
<1>a8. PICK d8 \in Bit, e8 \in Bit, f8 \in Bit : d8 = D(8) /\ e8 = E(8) /\ f8 = F(8) /\ d8 <= e8 + f8
  BY <1>1, <1>2
<1> QED
  BY <1>3, <1>a1, <1>a2, <1>a3, <1>a4, <1>a5, <1>a6, <1>a7, <1>a8 DEF Bit

LEMMA SmallDistance ==
  ASSUME NEW g, NEW h, NEW rate \in 1 .. 4
  PROVE  /\ (\A j \in 1 .. (4 + rate) : g[j] = h[j]) => Distance(g, h, rate) = 0
         /\ OneApart(g, h, 4 + rate) => Distance(g, h, rate) <= 1
<1> DEFINE D(j) == Differ(g, h, j, rate)
<1>1. Distance(g, h, rate) = D(1) + D(2) + D(3) + D(4) + D(5) + D(6) + D(7) + D(8)
  BY DEF Distance
<1>2. \A j \in 1 .. 8 : D(j) \in Bit
  BY DifferBit
<1>3. \A j \in 1 .. 8 : g[j] = h[j] \/ j \notin 1 .. (4 + rate) => D(j) = 0
  BY DEF Differ
<1> HIDE DEF D
<1>4. ASSUME \A j \in 1 .. (4 + rate) : g[j] = h[j] PROVE Distance(g, h, rate) = 0
  <2>1. \A j \in 1 .. 8 : D(j) = 0
    BY <1>3, <1>4
  <2> QED
    BY <1>1, <2>1
<1>5. ASSUME OneApart(g, h, 4 + rate) PROVE Distance(g, h, rate) <= 1
  <2>1. PICK q \in 1 .. (4 + rate) : \A j \in 1 .. (4 + rate) : j # q => g[j] = h[j]
    BY <1>5 DEF OneApart
  <2>2. \A j \in 1 .. 8 : j # q => D(j) = 0
    BY <1>3, <2>1
  <2>3. q \in 1 .. 8
    OBVIOUS
  <2>4. PICK z \in Bit : z = D(q)
    BY <1>2, <2>3
  <2> QED
    BY <1>1, <2>2, <2>3, <2>4 DEF Bit
<1> QED
  BY <1>4, <1>5

\* Codewords of different nibbles.
LEMMA CodeDistance ==
  ASSUME NEW rate \in 1 .. 4,
         NEW a \in Bit, NEW b \in Bit, NEW c \in Bit, NEW d \in Bit,
         NEW i \in Bit, NEW j \in Bit, NEW k \in Bit, NEW l \in Bit,
         NEW g, NEW h, IsCodeword(g, a, b, c, d, rate), IsCodeword(h, i, j, k, l, rate),
         a # i \/ b # j \/ c # k \/ d # l
  PROVE  Distance(g, h, rate) >= 1 /\ (rate >= 3 => Distance(g, h, rate) >= 3)
<1> DEFINE D(n) == Differ(g, h, n, rate)
           N(x, y) == IF x = y THEN 0 ELSE 1
<1>1. /\ D(1) = N(a, i) /\ D(2) = N(b, j) /\ D(3) = N(c, k) /\ D(4) = N(d, l)
      /\ rate >= 3 => /\ D(5) = N((a + b + c) % 2, (i + j + k) % 2)
                      /\ D(6) = N((b + c + d) % 2, (j + k + l) % 2)
                      /\ D(7) = N((a + b + d) % 2, (i + j + l) % 2)
  BY DEF Differ, IsCodeword
<1>2. /\ D(1) \in Bit /\ D(2) \in Bit /\ D(3) \in Bit /\ D(4) \in Bit
      /\ D(5) \in Bit /\ D(6) \in Bit /\ D(7) \in Bit /\ D(8) \in Bit
  BY DifferBit
<1>3. Distance(g, h, rate) = D(1) + D(2) + D(3) + D(4) + D(5) + D(6) + D(7) + D(8)
  BY DEF Distance
<1> HIDE DEF D
<1>4. Distance(g, h, rate) >= 1
  BY <1>1, <1>2, <1>3 DEF Bit
<1>5. ASSUME rate >= 3 PROVE Distance(g, h, rate) >= 3
  BY <1>1, <1>2, <1>3, <1>5 DEF Bit
<1> QED
  BY <1>4, <1>5

LEMMA Agreement ==
  ASSUME NEW rate \in 1 .. 4, NEW g \in [1 .. (4 + rate) -> Bit], NEW h
  PROVE  Cardinality({j \in DOMAIN g : h[j] = g[j]}) = 4 + rate - Distance(g, h, rate)
<1> DEFINE S(k) == {j \in 1 .. k : h[j] = g[j]}
           D(j) == Differ(g, h, j, rate)
<1>1. \A k \in 0 .. 8 : IsFiniteSet(S(k))
  <2> TAKE k \in 0 .. 8
  <2>1. IsFiniteSet(1 .. k)
    BY FS_Interval
  <2> QED
    BY <2>1, FS_Subset
<1>2. ASSUME NEW k \in 1 .. (4 + rate)
      PROVE  Cardinality(S(k)) = Cardinality(S(k - 1)) + (1 - D(k))
  <2>1. k - 1 \in 0 .. 8 /\ k \notin S(k - 1)
    OBVIOUS
  <2>2. IsFiniteSet(S(k - 1)) /\ Cardinality(S(k - 1)) \in Nat
    BY <1>1, <2>1, FS_CardinalityType
  <2>3. CASE g[k] = h[k]
    <3>1. S(k) = S(k - 1) \cup {k}
      BY <2>3
    <3>2. D(k) = 0
      BY <2>3 DEF Differ
    <3> HIDE DEF S, D
    <3>3. Cardinality(S(k)) = Cardinality(S(k - 1)) + 1
      BY <2>1, <2>2, <3>1, FS_AddElement
    <3> QED
      BY <2>2, <3>2, <3>3
  <2>4. CASE g[k] # h[k]
    <3>1. S(k) = S(k - 1)
      BY <2>4
    <3>2. D(k) = 1
      BY <2>4 DEF Differ
    <3> HIDE DEF S, D
    <3> QED
      BY <2>2, <3>1, <3>2
  <2> QED
    BY <2>3, <2>4
<1>3. Cardinality(S(0)) = 0
  <2>1. S(0) = {}
    OBVIOUS
  <2> QED
    BY <2>1, FS_EmptySet
<1>4. \A j \in 1 .. 8 : j > 4 + rate => D(j) = 0
  BY DEF Differ
<1>5. \A j \in 1 .. 8 : D(j) \in Bit
  BY DifferBit
<1>6. Distance(g, h, rate) = D(1) + D(2) + D(3) + D(4) + D(5) + D(6) + D(7) + D(8)
  BY DEF Distance
<1>7. {j \in DOMAIN g : h[j] = g[j]} = S(4 + rate)
  OBVIOUS
<1> HIDE DEF S, D
<1> DEFINE C(k) == Cardinality(S(k))
<1>8. \A k \in 1 .. (4 + rate) : C(k) = C(k - 1) + (1 - D(k))
  BY <1>2
<1>9. C(0) = 0
  BY <1>3
<1> HIDE DEF C
<1>12. PICK d1 \in Bit, d2 \in Bit, d3 \in Bit, d4 \in Bit, d5 \in Bit, d6 \in Bit,
             d7 \in Bit, d8 \in Bit :
         /\ d1 = D(1) /\ d2 = D(2) /\ d3 = D(3) /\ d4 = D(4) /\ d5 = D(5) /\ d6 = D(6)
         /\ d7 = D(7) /\ d8 = D(8)
  BY <1>5
<1>10. C(5) = 5 - (d1 + d2 + d3 + d4 + d5)
  <2>1. /\ 1 - 1 = 0 /\ 2 - 1 = 1 /\ 3 - 1 = 2 /\ 4 - 1 = 3 /\ 5 - 1 = 4
        /\ {1, 2, 3, 4, 5} \subseteq 1 .. (4 + rate)
    OBVIOUS
  <2>2. /\ C(1) = C(0) + (1 - D(1)) /\ C(2) = C(1) + (1 - D(2)) /\ C(3) = C(2) + (1 - D(3))
        /\ C(4) = C(3) + (1 - D(4)) /\ C(5) = C(4) + (1 - D(5))
    BY <1>8, <2>1
  <2>a. d1 \in Int /\ d2 \in Int /\ d3 \in Int /\ d4 \in Int /\ d5 \in Int
    BY DEF Bit
  <2>3. PICK c1 \in Int : c1 = C(1) /\ c1 = 1 - d1
    BY <1>9, <2>2, <1>12 DEF Bit
  <2>4. PICK c2 \in Int : c2 = C(2) /\ c2 = 2 - (d1 + d2)
    <3>1. C(2) = c1 + (1 - d2) /\ c1 = 1 - (d1)
      BY <2>2, <1>12, <2>3
    <3>2. PICK e \in Int : e = d1
      BY <2>a
    <3>3. c1 + (1 - d2) = 2 - (e + d2) /\ c1 + (1 - d2) \in Int
      BY <2>a, <3>1, <3>2
    <3>4. 2 - (e + d2) = 2 - (d1 + d2)
      BY <3>2
    <3> QED
      BY <3>1, <3>3, <3>4
  <2>5. PICK c3 \in Int : c3 = C(3) /\ c3 = 3 - (d1 + d2 + d3)
    <3>1. C(3) = c2 + (1 - d3) /\ c2 = 2 - (d1 + d2)
      BY <2>2, <1>12, <2>4
    <3>2. PICK e \in Int : e = d1 + d2
      BY <2>a
    <3>3. c2 + (1 - d3) = 3 - (e + d3) /\ c2 + (1 - d3) \in Int
      BY <2>a, <3>1, <3>2
    <3>4. 3 - (e + d3) = 3 - (d1 + d2 + d3)
      BY <3>2
    <3> QED
      BY <3>1, <3>3, <3>4
  <2>6. PICK c4 \in Int : c4 = C(4) /\ c4 = 4 - (d1 + d2 + d3 + d4)
    <3>1. C(4) = c3 + (1 - d4) /\ c3 = 3 - (d1 + d2 + d3)
      BY <2>2, <1>12, <2>5
    <3>2. PICK e \in Int : e = d1 + d2 + d3
      BY <2>a
    <3>3. c3 + (1 - d4) = 4 - (e + d4) /\ c3 + (1 - d4) \in Int
      BY <2>a, <3>1, <3>2
    <3>4. 4 - (e + d4) = 4 - (d1 + d2 + d3 + d4)
      BY <3>2
    <3> QED
      BY <3>1, <3>3, <3>4
  <2>7. PICK c5 \in Int : c5 = C(5) /\ c5 = 5 - (d1 + d2 + d3 + d4 + d5)
    <3>1. C(5) = c4 + (1 - d5) /\ c4 = 4 - (d1 + d2 + d3 + d4)
      BY <2>2, <1>12, <2>6
    <3>2. PICK e \in Int : e = d1 + d2 + d3 + d4
      BY <2>a
    <3>3. c4 + (1 - d5) = 5 - (e + d5) /\ c4 + (1 - d5) \in Int
      BY <2>a, <3>1, <3>2
    <3>4. 5 - (e + d5) = 5 - (d1 + d2 + d3 + d4 + d5)
      BY <3>2
    <3> QED
      BY <3>1, <3>3, <3>4
  <2> QED
    BY <2>7
<1>11. /\ rate >= 2 => C(6) = C(5) + (1 - D(6))
       /\ rate >= 3 => C(7) = C(6) + (1 - D(7))
       /\ rate >= 4 => C(8) = C(7) + (1 - D(8))
  <2>1. 6 - 1 = 5 /\ 7 - 1 = 6 /\ 8 - 1 = 7
    OBVIOUS
  <2>2. /\ rate >= 2 => 6 \in 1 .. (4 + rate)
        /\ rate >= 3 => 7 \in 1 .. (4 + rate)
        /\ rate >= 4 => 8 \in 1 .. (4 + rate)
    OBVIOUS
  <2> QED
    BY <1>8, <2>1, <2>2
<1>13. C(4 + rate) = 4 + rate - (d1 + d2 + d3 + d4 + d5 + d6 + d7 + d8)
  <2>1. /\ rate < 2 => d6 = 0
        /\ rate < 3 => d7 = 0
        /\ rate < 4 => d8 = 0
    BY <1>4, <1>12
  <2>2. CASE rate = 1
    BY <1>10, <1>12, <2>1, <2>2 DEF Bit
  <2>3. CASE rate = 2
    BY <1>10, <1>11, <1>12, <2>1, <2>3 DEF Bit
  <2>4. CASE rate = 3
    BY <1>10, <1>11, <1>12, <2>1, <2>4 DEF Bit
  <2>5. CASE rate = 4
    BY <1>10, <1>11, <1>12, <2>1, <2>5 DEF Bit
  <2> QED
    BY <2>2, <2>3, <2>4, <2>5
<1> QED
  BY <1>6, <1>7, <1>12, <1>13 DEF C

\* The bits of a byte, the most significant first.
LEMMA ByteBits ==
  ASSUME NEW x \in Nat
  PROVE  LET h == Block!Bits(x, 8)
         IN  /\ h[1] = (x \div 128) % 2 /\ h[2] = (x \div 64) % 2 /\ h[3] = (x \div 32) % 2
             /\ h[4] = (x \div 16) % 2 /\ h[5] = (x \div 8) % 2 /\ h[6] = (x \div 4) % 2
             /\ h[7] = (x \div 2) % 2 /\ h[8] = (x \div 1) % 2
<1>1. /\ Block!Pow2(0) = 1 /\ Block!Pow2(1) = 2 /\ Block!Pow2(2) = 4 /\ Block!Pow2(3) = 8
      /\ Block!Pow2(4) = 16 /\ Block!Pow2(5) = 32 /\ Block!Pow2(6) = 64 /\ Block!Pow2(7) = 128
  BY DEF Block!Pow2, Block!PowersOfTwo
<1>2. \A i \in 1 .. 8 : Block!Bits(x, 8)[i] = (x \div Block!Pow2(8 - i)) % 2
  BY DEF Block!Bits
<1>3. /\ 8 - 1 = 7 /\ 8 - 2 = 6 /\ 8 - 3 = 5 /\ 8 - 4 = 4 /\ 8 - 5 = 3 /\ 8 - 6 = 2
      /\ 8 - 7 = 1 /\ 8 - 8 = 0
  OBVIOUS
<1> QED
  BY <1>1, <1>2, <1>3

\* Entry n of the tables is the codeword of the nibble with the bits of n - 1 in reverse.
IsEntry(n, a, b, c, d) ==
  /\ n = 8 * a + 4 * b + 2 * c + d + 1
  /\ \A rate \in 2 .. 4 : IsCodeword(Block!Bits(Block!CW_LUT[n], 8), a, b, c, d, rate)
  /\ IsCodeword(Block!Bits(Block!CW_LUT_CR5[n], 8), a, b, c, d, 1)

LEMMA Entries ==
  ASSUME NEW n \in 1 .. 16
  PROVE  \E a \in Bit, b \in Bit, c \in Bit, d \in Bit : IsEntry(n, a, b, c, d)
<1>1. CASE n = 1
  <2>1. Block!CW_LUT[n] = 0 /\ Block!CW_LUT_CR5[n] = 0
    BY <1>1 DEF Block!CW_LUT, Block!CW_LUT_CR5
  <2>2. IsEntry(n, 0, 0, 0, 0)
    BY <1>1, <2>1, ByteBits DEF IsEntry, IsCodeword
  <2> QED
    BY <2>2 DEF Bit
<1>2. CASE n = 2
  <2>1. Block!CW_LUT[n] = 23 /\ Block!CW_LUT_CR5[n] = 24
    BY <1>2 DEF Block!CW_LUT, Block!CW_LUT_CR5
  <2>2. IsEntry(n, 0, 0, 0, 1)
    BY <1>2, <2>1, ByteBits DEF IsEntry, IsCodeword
  <2> QED
    BY <2>2 DEF Bit
<1>3. CASE n = 3
  <2>1. Block!CW_LUT[n] = 45 /\ Block!CW_LUT_CR5[n] = 40
    BY <1>3 DEF Block!CW_LUT, Block!CW_LUT_CR5
  <2>2. IsEntry(n, 0, 0, 1, 0)
    BY <1>3, <2>1, ByteBits DEF IsEntry, IsCodeword
  <2> QED
    BY <2>2 DEF Bit
<1>4. CASE n = 4
  <2>1. Block!CW_LUT[n] = 58 /\ Block!CW_LUT_CR5[n] = 48
    BY <1>4 DEF Block!CW_LUT, Block!CW_LUT_CR5
  <2>2. IsEntry(n, 0, 0, 1, 1)
    BY <1>4, <2>1, ByteBits DEF IsEntry, IsCodeword
  <2> QED
    BY <2>2 DEF Bit
<1>5. CASE n = 5
  <2>1. Block!CW_LUT[n] = 78 /\ Block!CW_LUT_CR5[n] = 72
    BY <1>5 DEF Block!CW_LUT, Block!CW_LUT_CR5
  <2>2. IsEntry(n, 0, 1, 0, 0)
    BY <1>5, <2>1, ByteBits DEF IsEntry, IsCodeword
  <2> QED
    BY <2>2 DEF Bit
<1>6. CASE n = 6
  <2>1. Block!CW_LUT[n] = 89 /\ Block!CW_LUT_CR5[n] = 80
    BY <1>6 DEF Block!CW_LUT, Block!CW_LUT_CR5
  <2>2. IsEntry(n, 0, 1, 0, 1)
    BY <1>6, <2>1, ByteBits DEF IsEntry, IsCodeword
  <2> QED
    BY <2>2 DEF Bit
<1>7. CASE n = 7
  <2>1. Block!CW_LUT[n] = 99 /\ Block!CW_LUT_CR5[n] = 96
    BY <1>7 DEF Block!CW_LUT, Block!CW_LUT_CR5
  <2>2. IsEntry(n, 0, 1, 1, 0)
    BY <1>7, <2>1, ByteBits DEF IsEntry, IsCodeword
  <2> QED
    BY <2>2 DEF Bit
<1>8. CASE n = 8
  <2>1. Block!CW_LUT[n] = 116 /\ Block!CW_LUT_CR5[n] = 120
    BY <1>8 DEF Block!CW_LUT, Block!CW_LUT_CR5
  <2>2. IsEntry(n, 0, 1, 1, 1)
    BY <1>8, <2>1, ByteBits DEF IsEntry, IsCodeword
  <2> QED
    BY <2>2 DEF Bit
<1>9. CASE n = 9
  <2>1. Block!CW_LUT[n] = 139 /\ Block!CW_LUT_CR5[n] = 136
    BY <1>9 DEF Block!CW_LUT, Block!CW_LUT_CR5
  <2>2. IsEntry(n, 1, 0, 0, 0)
    BY <1>9, <2>1, ByteBits DEF IsEntry, IsCodeword
  <2> QED
    BY <2>2 DEF Bit
<1>10. CASE n = 10
  <2>1. Block!CW_LUT[n] = 156 /\ Block!CW_LUT_CR5[n] = 144
    BY <1>10 DEF Block!CW_LUT, Block!CW_LUT_CR5
  <2>2. IsEntry(n, 1, 0, 0, 1)
    BY <1>10, <2>1, ByteBits DEF IsEntry, IsCodeword
  <2> QED
    BY <2>2 DEF Bit
<1>11. CASE n = 11
  <2>1. Block!CW_LUT[n] = 166 /\ Block!CW_LUT_CR5[n] = 160
    BY <1>11 DEF Block!CW_LUT, Block!CW_LUT_CR5
  <2>2. IsEntry(n, 1, 0, 1, 0)
    BY <1>11, <2>1, ByteBits DEF IsEntry, IsCodeword
  <2> QED
    BY <2>2 DEF Bit
<1>12. CASE n = 12
  <2>1. Block!CW_LUT[n] = 177 /\ Block!CW_LUT_CR5[n] = 184
    BY <1>12 DEF Block!CW_LUT, Block!CW_LUT_CR5
  <2>2. IsEntry(n, 1, 0, 1, 1)
    BY <1>12, <2>1, ByteBits DEF IsEntry, IsCodeword
  <2> QED
    BY <2>2 DEF Bit
<1>13. CASE n = 13
  <2>1. Block!CW_LUT[n] = 197 /\ Block!CW_LUT_CR5[n] = 192
    BY <1>13 DEF Block!CW_LUT, Block!CW_LUT_CR5
  <2>2. IsEntry(n, 1, 1, 0, 0)
    BY <1>13, <2>1, ByteBits DEF IsEntry, IsCodeword
  <2> QED
    BY <2>2 DEF Bit
<1>14. CASE n = 14
  <2>1. Block!CW_LUT[n] = 210 /\ Block!CW_LUT_CR5[n] = 216
    BY <1>14 DEF Block!CW_LUT, Block!CW_LUT_CR5
  <2>2. IsEntry(n, 1, 1, 0, 1)
    BY <1>14, <2>1, ByteBits DEF IsEntry, IsCodeword
  <2> QED
    BY <2>2 DEF Bit
<1>15. CASE n = 15
  <2>1. Block!CW_LUT[n] = 232 /\ Block!CW_LUT_CR5[n] = 232
    BY <1>15 DEF Block!CW_LUT, Block!CW_LUT_CR5
  <2>2. IsEntry(n, 1, 1, 1, 0)
    BY <1>15, <2>1, ByteBits DEF IsEntry, IsCodeword
  <2> QED
    BY <2>2 DEF Bit
<1>16. CASE n = 16
  <2>1. Block!CW_LUT[n] = 255 /\ Block!CW_LUT_CR5[n] = 240
    BY <1>16 DEF Block!CW_LUT, Block!CW_LUT_CR5
  <2>2. IsEntry(n, 1, 1, 1, 1)
    BY <1>16, <2>1, ByteBits DEF IsEntry, IsCodeword
  <2> QED
    BY <2>2 DEF Bit
<1> QED
  BY <1>1, <1>2, <1>3, <1>4, <1>5, <1>6, <1>7, <1>8, <1>9, <1>10, <1>11, <1>12, <1>13, <1>14, <1>15, <1>16

LEMMA BlockCardinality ==
  ASSUME NEW S
  PROVE  Block!Cardinality(S) = Cardinality(S)
  BY DEF Block!Cardinality, Cardinality

\* How SoftNibble looks for the best entry.
Entry(n) == Block!Bits(IF cr = 1 THEN Block!CW_LUT_CR5[n] ELSE Block!CW_LUT[n], 8)
Proba(g) == [n \in 1 .. 16 |-> 4 + cr - Distance(g, Entry(n), cr)]
LastBest(proba, n) == \A m \in 1 .. 16 : proba[m] < proba[n] \/ (proba[m] = proba[n] /\ m <= n)
Decoded(n) ==
  LET d == Block!Bits(Block!CW_LUT[n], 8) IN 8 * d[4] + 4 * d[3] + 2 * d[2] + d[1]

LEMMA SoftSearch ==
  ASSUME cr \in 1 .. 4, NEW g \in [1 .. (4 + cr) -> Bit]
  PROVE  Block!SoftNibble(g) = Decoded(CHOOSE n \in 1 .. 16 : LastBest(Proba(g), n))
<1> DEFINE lut == IF cr = 1 THEN Block!CW_LUT_CR5 ELSE Block!CW_LUT
           proba == [n \in 1 .. 16 |->
                       Block!Cardinality({j \in DOMAIN g : Block!Bits(lut[n], 8)[j] = g[j]})]
<1>1. \A n \in 1 .. 16 : Block!Bits(lut[n], 8) = Entry(n)
  BY DEF Entry
<1>2. ASSUME NEW n \in 1 .. 16
      PROVE  Block!Cardinality({j \in DOMAIN g : Block!Bits(lut[n], 8)[j] = g[j]})
               = 4 + cr - Distance(g, Entry(n), cr)
  <2> HIDE DEF lut
  <2>1. {j \in DOMAIN g : Block!Bits(lut[n], 8)[j] = g[j]} = {j \in DOMAIN g : Entry(n)[j] = g[j]}
    BY <1>1
  <2>2. PICK S : S = {j \in DOMAIN g : Entry(n)[j] = g[j]}
    OBVIOUS
  <2>3. Cardinality(S) = 4 + cr - Distance(g, Entry(n), cr)
    BY <2>2, Agreement
  <2> QED
    BY <2>1, <2>2, <2>3, BlockCardinality
<1>3. proba = Proba(g)
  BY <1>2 DEF Proba
<1>4. Block!SoftNibble(g) =
        LET best == CHOOSE n \in 1 .. 16 :
                      \A m \in 1 .. 16 : proba[m] < proba[n] \/ (proba[m] = proba[n] /\ m <= n)
            d == Block!Bits(Block!CW_LUT[best], 8)
        IN  8 * d[4] + 4 * d[3] + 2 * d[2] + d[1]
  BY Zenon DEF Block!SoftNibble
<1> HIDE DEF proba
<1> QED
  BY <1>3, <1>4 DEF Decoded, LastBest

LEMMA DecodedEntry ==
  ASSUME NEW n, NEW a \in Bit, NEW b \in Bit, NEW c \in Bit, NEW d \in Bit, IsEntry(n, a, b, c, d)
  PROVE  Decoded(n) = 8 * d + 4 * c + 2 * b + a
<1>1. IsCodeword(Block!Bits(Block!CW_LUT[n], 8), a, b, c, d, 2)
  BY DEF IsEntry
<1> QED
  BY <1>1 DEF Decoded, IsCodeword

LEMMA SoftType ==
  ASSUME cr \in 1 .. 4, NEW g \in [1 .. (4 + cr) -> Bit]
  PROVE  Block!SoftNibble(g) \in 0 .. 15
<1> DEFINE F(n) == 17 * Distance(g, Entry(n), cr) + (16 - n)
           Fs == {F(n) : n \in 1 .. 16}
<1>1. ASSUME NEW n \in 1 .. 16 PROVE F(n) \in Nat
  <2>1. PICK e \in 0 .. 8 : e = Distance(g, Entry(n), cr)
    BY DistanceType
  <2>2. 17 * e + (16 - n) \in Nat
    OBVIOUS
  <2> QED
    BY <2>1, <2>2
<1>2. PICK x \in Fs : \A y \in Fs : x <= y
  <2>1. Fs \subseteq Nat /\ Fs # {}
    <3>1. F(1) \in Fs
      OBVIOUS
    <3> HIDE DEF F
    <3> QED
      BY <1>1, <3>1
  <2> HIDE DEF Fs
  <2> QED
    BY <2>1, PayloadFacts!SmallestExists
<1>3. PICK n \in 1 .. 16 : \A m \in 1 .. 16 : F(n) <= F(m)
  <2> HIDE DEF F
  <2> QED
    BY <1>2
<1>4. LastBest(Proba(g), n)
  <2>1. ASSUME NEW m \in 1 .. 16
        PROVE  Proba(g)[m] < Proba(g)[n] \/ (Proba(g)[m] = Proba(g)[n] /\ m <= n)
    <3>1. PICK d \in 0 .. 8, e \in 0 .. 8 : d = Distance(g, Entry(n), cr) /\ e = Distance(g, Entry(m), cr)
      BY DistanceType
    <3>2. 17 * d + (16 - n) <= 17 * e + (16 - m)
      BY <1>3, <3>1
    <3>3. Proba(g)[n] = 4 + cr - d /\ Proba(g)[m] = 4 + cr - e
      BY <3>1 DEF Proba
    <3> QED
      BY <3>2, <3>3
  <2> QED
    BY <2>1 DEF LastBest
<1>5. PICK m \in 1 .. 16 : m = CHOOSE k \in 1 .. 16 : LastBest(Proba(g), k)
  BY <1>4
<1>6. PICK a \in Bit, b \in Bit, c \in Bit, d \in Bit : IsEntry(m, a, b, c, d)
  BY Entries
<1>7. Block!SoftNibble(g) = 8 * d + 4 * c + 2 * b + a
  BY <1>5, <1>6, SoftSearch, DecodedEntry
<1> QED
  BY <1>7 DEF Bit

\* The codeword g came from is nearer than any other.
LEMMA SoftCorrects ==
  ASSUME cr \in 1 .. 4, NEW a \in Bit, NEW b \in Bit, NEW c \in Bit, NEW d \in Bit,
         NEW h, IsCodeword(h, a, b, c, d, cr), NEW g \in [1 .. (4 + cr) -> Bit],
         \/ \A j \in 1 .. (4 + cr) : h[j] = g[j]
         \/ cr \in {3, 4} /\ OneApart(h, g, 4 + cr)
  PROVE  Block!SoftNibble(g) = 8 * d + 4 * c + 2 * b + a
<1>1. PICK x \in 1 .. 16 : x = 8 * a + 4 * b + 2 * c + d + 1
  BY DEF Bit
<1>2. PICK dh \in 0 .. 8 : dh = Distance(h, g, cr) /\ (dh = 0 \/ (cr \in {3, 4} /\ dh <= 1))
  BY DistanceType, SmallDistance
<1>3. IsEntry(x, a, b, c, d)
  <2>1. PICK i \in Bit, j \in Bit, k \in Bit, l \in Bit : IsEntry(x, i, j, k, l)
    BY Entries
  <2>2. i = a /\ j = b /\ k = c /\ l = d
    <3>1. 8 * i + 4 * j + 2 * k + l + 1 = 8 * a + 4 * b + 2 * c + d + 1
      BY <1>1, <2>1 DEF IsEntry
    <3> QED
      BY <3>1 DEF Bit
  <2> QED
    BY <2>1, <2>2
<1>4. ASSUME NEW n \in 1 .. 16, NEW i \in Bit, NEW j \in Bit, NEW k \in Bit, NEW l \in Bit,
             IsEntry(n, i, j, k, l)
      PROVE  IsCodeword(Entry(n), i, j, k, l, cr)
  <2>1. CASE cr = 1
    BY <1>4, <2>1 DEF IsEntry, Entry
  <2>2. CASE cr # 1
    <3>1. cr \in 2 .. 4
      BY <2>2
    <3> QED
      BY <1>4, <2>2, <3>1 DEF IsEntry, Entry
  <2> QED
    BY <2>1, <2>2
<1>5. Distance(g, Entry(x), cr) = dh
  <2>1. IsCodeword(Entry(x), a, b, c, d, cr)
    BY <1>3, <1>4
  <2>2. \A j \in 1 .. (4 + cr) : Entry(x)[j] = h[j]
    <3>1. /\ Entry(x)[1] = h[1] /\ Entry(x)[2] = h[2] /\ Entry(x)[3] = h[3] /\ Entry(x)[4] = h[4]
          /\ Entry(x)[5] = h[5] /\ (cr >= 2 => Entry(x)[6] = h[6])
          /\ (cr >= 3 => Entry(x)[7] = h[7]) /\ (cr = 4 => Entry(x)[8] = h[8])
      BY <2>1 DEF IsCodeword
    <3>2. \A j \in 1 .. (4 + cr) : j \in 1 .. 8 /\ (j = 6 => cr >= 2) /\ (j = 7 => cr >= 3)
                                   /\ (j = 8 => cr = 4)
      OBVIOUS
    <3> QED
      BY <3>1, <3>2
  <2>3. \A j : Differ(g, Entry(x), j, cr) = Differ(h, g, j, cr) \/ j \notin 1 .. 8
    BY <2>2 DEF Differ
  <2>4. Distance(g, Entry(x), cr) = Distance(h, g, cr)
    <3>1. \A j \in 1 .. 8 : Differ(g, Entry(x), j, cr) = Differ(h, g, j, cr)
      BY <2>3
    <3> QED
      BY <3>1 DEF Distance
  <2> QED
    BY <1>2, <2>4
<1>6. ASSUME NEW n \in 1 .. 16, n # x PROVE Distance(g, Entry(n), cr) > dh
  <2>1. PICK i \in Bit, j \in Bit, k \in Bit, l \in Bit : IsEntry(n, i, j, k, l)
    BY Entries
  <2>2. a # i \/ b # j \/ c # k \/ d # l
    BY <1>1, <1>6, <2>1 DEF IsEntry
  <2>3. IsCodeword(Entry(n), i, j, k, l, cr)
    BY <1>4, <2>1
  <2>4. PICK e \in 0 .. 8, f \in 0 .. 8 :
          e = Distance(h, Entry(n), cr) /\ f = Distance(g, Entry(n), cr)
    BY DistanceType
  <2>5. e >= 1 /\ (cr >= 3 => e >= 3)
    BY <2>2, <2>3, <2>4, CodeDistance
  <2>6. e <= dh + f
    BY <1>2, <2>4, Triangle
  <2> QED
    BY <1>2, <2>4, <2>5, <2>6
<1>7. \A n \in 1 .. 16 : LastBest(Proba(g), n) <=> n = x
  <2>1. ASSUME NEW n \in 1 .. 16
        PROVE  Proba(g)[n] \in Int /\ Proba(g)[x] \in Int /\ (n # x => Proba(g)[n] < Proba(g)[x])
    <3>1. PICK f \in 0 .. 8 : f = Distance(g, Entry(n), cr)
      BY DistanceType
    <3>2. Proba(g)[n] = 4 + cr - f /\ Proba(g)[x] = 4 + cr - dh
      BY <1>5, <3>1 DEF Proba
    <3>3. n # x => f > dh
      BY <1>6, <3>1
    <3> QED
      BY <3>2, <3>3
  <2>2. LastBest(Proba(g), x)
    <3>1. ASSUME NEW m \in 1 .. 16
          PROVE  Proba(g)[m] < Proba(g)[x] \/ (Proba(g)[m] = Proba(g)[x] /\ m <= x)
      <4>1. CASE m = x
        BY <4>1
      <4>2. CASE m # x
        BY <2>1, <4>2
      <4> QED
        BY <4>1, <4>2
    <3> QED
      BY <3>1 DEF LastBest
  <2>3. ASSUME NEW n \in 1 .. 16, LastBest(Proba(g), n), n # x PROVE FALSE
    <3>1. Proba(g)[x] < Proba(g)[n] \/ Proba(g)[x] = Proba(g)[n]
      BY <2>3 DEF LastBest
    <3>2. PICK u \in Int, v \in Int : u = Proba(g)[n] /\ v = Proba(g)[x] /\ u < v
      BY <2>1, <2>3
    <3> QED
      BY <3>1, <3>2
  <2> QED
    BY <2>2, <2>3
<1>8. x = CHOOSE n \in 1 .. 16 : LastBest(Proba(g), n)
  <2>1. (CHOOSE n \in 1 .. 16 : LastBest(Proba(g), n)) \in 1 .. 16
         /\ LastBest(Proba(g), CHOOSE n \in 1 .. 16 : LastBest(Proba(g), n))
    BY <1>7
  <2> QED
    BY <1>7, <2>1
<1>9. Decoded(x) = 8 * d + 4 * c + 2 * b + a
  BY <1>3, DecodedEntry
<1>10. Block!SoftNibble(g) = Decoded(CHOOSE n \in 1 .. 16 : LastBest(Proba(g), n))
  BY SoftSearch
<1> QED
  BY <1>8, <1>9, <1>10

(***************************************************************************)
(* The block on its way.                                                   *)
(***************************************************************************)
\* What the encoder makes of the nibbles: codewords, rows of bits, the same with the
\* bits that fill them up, symbols.
SentWords == [k \in 1 .. Block!SfBits |-> Block!HammingWord(nibbles[k])]
Arranged ==
  [i \in 1 .. (4 + cr) |-> [j \in 1 .. Block!SfBits |-> SentWords[Block!WordOf(i, j)][i]]]
SentRows == [i \in 1 .. (4 + cr) |-> Filled(Arranged[i])]
SentSymbols == [i \in 1 .. (4 + cr) |-> (Block!UndoGray(SentRows[i]) + 1) % Block!Pow2(SF)]

\* What is left of it after an error of e bins: len rows of n bits, one of them wrong,
\* and n words of len bits.
SameBut(g, h, q) == \A x \in DOMAIN g : x # q => h[x] = g[x]
RowsNear(R, S, n, len, harmless, e) ==
  /\ R \in [1 .. len -> [1 .. n -> Bit]]
  /\ e \in harmless => R = S
  /\ \E q \in 1 .. len : /\ SameBut(S, R, q)
                         /\ e \in {-1, 1} => OneApart(S[q], R[q], n)
SameWordsBut(W, S, n, len, x, y) ==
  \A k \in 1 .. n, i \in 1 .. len : k # x \/ i # y => W[k][i] = S[k][i]
WordsNear(W, S, n, len, harmless, e) ==
  /\ W \in [1 .. n -> [1 .. len -> Bit]]
  /\ e \in harmless => W = S
  /\ \A k \in 1 .. n : OneApart(S[k], W[k], len)
  /\ e \in {-1, 1} => \E x \in 1 .. n, y \in 1 .. len : SameWordsBut(W, S, n, len, x, y)

BlockShape ==
  /\ is_header \in BOOLEAN /\ cr \in 1 .. 4 /\ (is_header => cr = 4)
  /\ nibbles \in [1 .. Block!SfBits -> 0 .. 15] /\ bin_error \in Int

LEMMA SentTypes ==
  ASSUME BlockShape
  PROVE  /\ SentWords \in [1 .. Block!SfBits -> [1 .. (4 + cr) -> Bit]]
         /\ Arranged \in [1 .. (4 + cr) -> [1 .. Block!SfBits -> Bit]]
         /\ SentSymbols \in [1 .. (4 + cr) -> 0 .. (Block!Pow2(SF) - 1)]
<1> DEFINE n == Block!SfBits
           len == 4 + cr
<1> is_header \in BOOLEAN /\ cr \in 1 .. 4
  BY DEF BlockShape
<1>1. SentWords \in [1 .. n -> [1 .. len -> Bit]]
  <2>1. ASSUME NEW k \in 1 .. n PROVE Block!HammingWord(nibbles[k]) \in [1 .. len -> Bit]
    <3>1. nibbles[k] \in 0 .. 15
      BY DEF BlockShape
    <3> QED
      BY <3>1, WordBits
  <2> QED
    BY <2>1 DEF SentWords
<1>2. Arranged \in [1 .. len -> [1 .. n -> Bit]]
  <2>1. ASSUME NEW i \in 1 .. len, NEW j \in 1 .. n PROVE SentWords[Block!WordOf(i, j)][i] \in Bit
    <3>1. i \in 1 .. 8
      OBVIOUS
    <3>2. Block!WordOf(i, j) \in 1 .. n
      BY <3>1, WordOfWordOf
    <3> QED
      BY <1>1, <3>2
  <2> QED
    BY <2>1 DEF Arranged
<1>3. ASSUME NEW i \in 1 .. len PROVE SentSymbols[i] \in 0 .. (Block!Pow2(SF) - 1)
  <2>1. Arranged[i] \in [1 .. n -> {0, 1}]
    BY <1>2 DEF Bit
  <2>2. Received(Arranged[i], 0)
    BY <2>1, RowReceived
  <2> QED
    BY <2>2 DEF Received, SentSymbols, SentRows
<1>4. SentSymbols = [i \in 1 .. len |-> SentSymbols[i]]
  BY DEF SentSymbols
<1> QED
  BY <1>1, <1>2, <1>3, <1>4

\* One symbol is e bins off.
LEMMA SymbolsToRows ==
  ASSUME BlockShape, NEW e \in Int, NEW q \in 1 .. (4 + cr), NEW S,
         S = [SentSymbols EXCEPT ![q] = (@ + e) % Block!Pow2(SF)]
  PROVE  /\ S \in [1 .. (4 + cr) -> 0 .. (Block!Pow2(SF) - 1)]
         /\ RowsNear([i \in DOMAIN S |-> Block!DemodulatedBits(S[i])], Arranged,
                     Block!SfBits, 4 + cr, Harmless, e)
<1> DEFINE n == Block!SfBits
           len == 4 + cr
           R == [i \in DOMAIN S |-> Block!DemodulatedBits(S[i])]
<1> is_header \in BOOLEAN /\ cr \in 1 .. 4
  BY DEF BlockShape
<1>1. /\ SentSymbols \in [1 .. len -> 0 .. (Block!Pow2(SF) - 1)]
      /\ Arranged \in [1 .. len -> [1 .. n -> Bit]]
  BY SentTypes
<1>2. DOMAIN S = 1 .. len
  BY <1>1
<1>3. ASSUME NEW i \in 1 .. len
      PROVE  /\ Arranged[i] \in [1 .. n -> {0, 1}]
             /\ SentSymbols[i] = (Block!UndoGray(Filled(Arranged[i])) + 1) % Block!Pow2(SF)
  BY <1>1 DEF SentSymbols, SentRows, Bit
<1>a. ASSUME NEW i \in 1 .. len, NEW f \in Int, NEW bin,
             bin = (SentSymbols[i] + f) % Block!Pow2(SF)
      PROVE  /\ bin \in 0 .. (Block!Pow2(SF) - 1)
             /\ Block!DemodulatedBits(bin) \in [1 .. n -> {0, 1}]
             /\ f \in Harmless => Block!DemodulatedBits(bin) = Arranged[i]
             /\ f \in {-1, 1} => OneApart(Arranged[i], Block!DemodulatedBits(bin), n)
  <2>1. Received(Arranged[i], f)
    BY <1>3, RowReceived
  <2> QED
    BY <1>3, <1>a, <2>1 DEF Received
<1>4. ASSUME NEW i \in 1 .. len, i # q
      PROVE  /\ S[i] \in 0 .. (Block!Pow2(SF) - 1)
             /\ Block!DemodulatedBits(S[i]) = Arranged[i]
  <2>1. S[i] = SentSymbols[i]
    BY <1>1, <1>4
  <2>2. Block!Pow2(SF) \in Nat \ {0}
    <3>1. SF \in 0 .. 12
      BY FrameAssumption
    <3> QED
      BY <3>1, Powers
  <2>3. (SentSymbols[i] + 0) % Block!Pow2(SF) = SentSymbols[i]
    <3>1. PICK m \in Nat \ {0} : m = Block!Pow2(SF)
      BY <2>2
    <3>2. PICK z \in 0 .. (m - 1) : z = SentSymbols[i]
      BY <1>1, <3>1
    <3>3. (z + 0) % m = z
      OBVIOUS
    <3> QED
      BY <3>1, <3>2, <3>3
  <2>4. 0 \in Int /\ 0 \in Harmless
    BY DEF Harmless
  <2>5. Block!DemodulatedBits(SentSymbols[i]) = Arranged[i]
    BY <1>a, <2>3, <2>4
  <2> QED
    BY <1>1, <2>1, <2>5
<1>5. /\ S[q] \in 0 .. (Block!Pow2(SF) - 1)
      /\ Block!DemodulatedBits(S[q]) \in [1 .. n -> Bit]
      /\ e \in Harmless => Block!DemodulatedBits(S[q]) = Arranged[q]
      /\ e \in {-1, 1} => OneApart(Arranged[q], Block!DemodulatedBits(S[q]), n)
  <2>1. S[q] = (SentSymbols[q] + e) % Block!Pow2(SF)
    BY <1>1
  <2> QED
    BY <1>a, <2>1 DEF Bit
<1>6. \A i \in 1 .. len : R[i] = Block!DemodulatedBits(S[i])
  BY <1>2
<1>7. R \in [1 .. len -> [1 .. n -> Bit]]
  BY <1>1, <1>2, <1>4, <1>5
<1>8. S \in [1 .. len -> 0 .. (Block!Pow2(SF) - 1)]
  <2>1. \A i \in 1 .. len : S[i] \in 0 .. (Block!Pow2(SF) - 1)
    BY <1>4, <1>5
  <2>2. S = [i \in 1 .. len |-> S[i]]
    BY <1>1
  <2> QED
    BY <2>1, <2>2
<1> HIDE DEF R
<1>9. ASSUME e \in Harmless PROVE R = Arranged
  <2>1. \A i \in 1 .. len : R[i] = Arranged[i]
    BY <1>4, <1>5, <1>6, <1>9
  <2> QED
    BY <1>1, <1>7, <2>1
<1>10. SameBut(Arranged, R, q) /\ (e \in {-1, 1} => OneApart(Arranged[q], R[q], n))
  BY <1>1, <1>4, <1>5, <1>6 DEF SameBut
<1> QED
  BY <1>7, <1>8, <1>9, <1>10 DEF RowsNear, R

\* One wrong row is one wrong bit in each word.
LEMMA RowsToWords ==
  ASSUME BlockShape, NEW e \in Int, NEW R,
         RowsNear(R, Arranged, Block!SfBits, 4 + cr, Harmless, e)
  PROVE  WordsNear([k \in 1 .. Block!SfBits |->
                      [i \in DOMAIN R |->
                         R[i][CHOOSE j \in 1 .. Block!SfBits : Block!WordOf(i, j) = k]]],
                   SentWords, Block!SfBits, 4 + cr, Harmless, e)
<1> DEFINE n == Block!SfBits
           len == 4 + cr
           W == [k \in 1 .. n |->
                  [i \in DOMAIN R |-> R[i][CHOOSE j \in 1 .. n : Block!WordOf(i, j) = k]]]
<1> is_header \in BOOLEAN /\ cr \in 1 .. 4
  BY DEF BlockShape
<1>1. R \in [1 .. len -> [1 .. n -> Bit]] /\ DOMAIN R = 1 .. len
  BY DEF RowsNear
<1>2. /\ SentWords \in [1 .. n -> [1 .. len -> Bit]]
      /\ Arranged \in [1 .. len -> [1 .. n -> Bit]]
  BY SentTypes
<1>3. ASSUME NEW i \in 1 .. len, NEW k \in 1 .. n
      PROVE  /\ Block!WordOf(i, k) \in 1 .. n
             /\ W[k][i] = R[i][Block!WordOf(i, k)]
             /\ SentWords[k][i] = Arranged[i][Block!WordOf(i, k)]
  <2>1. i \in 1 .. 8
    OBVIOUS
  <2>2. \A j \in 1 .. n : Block!WordOf(i, j) \in 1 .. n /\ Block!WordOf(i, Block!WordOf(i, j)) = j
    BY <2>1, WordOfWordOf
  <2>3. (CHOOSE j \in 1 .. n : Block!WordOf(i, j) = k) = Block!WordOf(i, k)
    <3>1. PICK x : x = CHOOSE j \in 1 .. n : Block!WordOf(i, j) = k
      OBVIOUS
    <3>2. x \in 1 .. n /\ Block!WordOf(i, x) = k
      BY <2>2, <3>1
    <3> QED
      BY <2>2, <3>1, <3>2
  <2>4. W[k][i] = R[i][CHOOSE j \in 1 .. n : Block!WordOf(i, j) = k]
    BY <1>1
  <2>5. Arranged[i][Block!WordOf(i, k)] = SentWords[Block!WordOf(i, Block!WordOf(i, k))][i]
    BY <2>2 DEF Arranged
  <2> QED
    BY <2>2, <2>3, <2>4, <2>5
<1>4. W \in [1 .. n -> [1 .. len -> Bit]]
  <2>1. ASSUME NEW i \in 1 .. len, NEW k \in 1 .. n PROVE W[k][i] \in Bit
    <3> HIDE DEF W
    <3> QED
      BY <1>1, <1>3
  <2>2. \A k \in 1 .. n : W[k] = [i \in 1 .. len |-> W[k][i]]
    BY <1>1
  <2>3. W = [k \in 1 .. n |-> W[k]]
    OBVIOUS
  <2> HIDE DEF W
  <2>4. \A k \in 1 .. n : W[k] \in [1 .. len -> Bit]
    BY <2>1, <2>2
  <2> QED
    BY <2>3, <2>4
<1> HIDE DEF W
<1>5. ASSUME e \in Harmless PROVE W = SentWords
  <2>1. R = Arranged
    BY <1>5 DEF RowsNear
  <2>2. \A k \in 1 .. n, i \in 1 .. len : W[k][i] = SentWords[k][i]
    BY <1>3, <2>1
  <2>3. ASSUME NEW k \in 1 .. n PROVE W[k] = SentWords[k]
    <3>1. PICK g \in [1 .. len -> Bit], h \in [1 .. len -> Bit] : g = W[k] /\ h = SentWords[k]
      BY <1>2, <1>4
    <3>2. \A i \in 1 .. len : g[i] = h[i]
      BY <2>2, <3>1
    <3> QED
      BY <3>1, <3>2
  <2>4. PICK G \in [1 .. n -> [1 .. len -> Bit]], H \in [1 .. n -> [1 .. len -> Bit]] :
          G = W /\ H = SentWords
    BY <1>2, <1>4
  <2>5. \A k \in 1 .. n : G[k] = H[k]
    BY <2>3, <2>4
  <2>6. G = [k \in 1 .. n |-> G[k]] /\ H = [k \in 1 .. n |-> H[k]]
    OBVIOUS
  <2> QED
    BY <2>4, <2>5, <2>6
<1>6. PICK q \in 1 .. len : /\ SameBut(Arranged, R, q)
                            /\ e \in {-1, 1} => OneApart(Arranged[q], R[q], n)
  BY DEF RowsNear
<1>7. \A k \in 1 .. n, i \in 1 .. len : i # q => W[k][i] = SentWords[k][i]
  <2>1. \A i \in 1 .. len : i # q => R[i] = Arranged[i]
    BY <1>2, <1>6 DEF SameBut
  <2>2. ASSUME NEW k \in 1 .. n, NEW i \in 1 .. len, i # q PROVE W[k][i] = SentWords[k][i]
    <3>1. R[i] = Arranged[i]
      BY <2>1, <2>2
    <3> QED
      BY <1>3, <3>1
  <2> QED
    BY <2>2
<1>8. \A k \in 1 .. n : OneApart(SentWords[k], W[k], len)
  BY <1>7 DEF OneApart
<1>9. ASSUME e \in {-1, 1}
      PROVE  \E x \in 1 .. n, y \in 1 .. len : SameWordsBut(W, SentWords, n, len, x, y)
  <2>1. PICK p \in 1 .. n : \A j \in 1 .. n : j # p => Arranged[q][j] = R[q][j]
    BY <1>6, <1>9 DEF OneApart
  <2>2. q \in 1 .. 8
    OBVIOUS
  <2>3. Block!WordOf(q, p) \in 1 .. n
    BY <1>3
  <2>4. ASSUME NEW k \in 1 .. n, k # Block!WordOf(q, p) PROVE W[k][q] = SentWords[k][q]
    <3>1. Block!WordOf(q, k) # p
      BY <2>2, <2>4, WordOfWordOf
    <3> QED
      BY <1>3, <2>1, <3>1
  <2>5. SameWordsBut(W, SentWords, n, len, Block!WordOf(q, p), q)
    BY <1>7, <2>4 DEF SameWordsBut
  <2> QED
    BY <2>3, <2>5
<1> QED
  BY <1>4, <1>5, <1>8, <1>9 DEF WordsNear, W

LEMMA BlockFrame ==
  ASSUME is_header' = is_header, cr' = cr, nibbles' = nibbles
  PROVE  /\ Block!SfBits' = Block!SfBits /\ Harmless' = Harmless
         /\ SentWords' = SentWords /\ Arranged' = Arranged
         /\ SentRows' = SentRows /\ SentSymbols' = SentSymbols
<1>1. Block!SfBits' = Block!SfBits
  BY DEF Block!SfBits, Block!SfApp
<1>2. Harmless' = Harmless
  BY <1>1 DEF Harmless, Block!Reduced
<1>3. \A x : Block!HammingWord(x)' = Block!HammingWord(x)
  BY DEF Block!HammingWord
<1>4. SentWords' = SentWords
  BY <1>1, <1>3 DEF SentWords
<1>5. \A i, j : Block!WordOf(i, j)' = Block!WordOf(i, j)
  BY <1>1 DEF Block!WordOf
<1>6. Arranged' = Arranged
  BY <1>1, <1>4, <1>5 DEF Arranged
<1>7. \A row : Filled(row)' = Filled(row)
  BY <1>1 DEF Filled
<1>8. SentRows' = SentRows
  BY <1>6, <1>7 DEF SentRows
<1>9. SentSymbols' = SentSymbols
  BY <1>8 DEF SentSymbols
<1> QED
  BY <1>1, <1>2, <1>4, <1>6, <1>8, <1>9

Stages == {"hamming_encode", "interleave", "gray_demap", "air", "demodulate", "deinterleave",
           "decode", "decoded"}
OneSymbolOff ==
  \E q \in 1 .. (4 + cr) :
    symbols = [SentSymbols EXCEPT ![q] = (@ + bin_error) % Block!Pow2(SF)]
BlockInv ==
  /\ BlockShape
  /\ stage \in Stages
  /\ stage = "hamming_encode" => words = <<>>
  /\ stage \in {"interleave", "gray_demap", "air", "demodulate", "deinterleave"} =>
       words = SentWords
  /\ stage = "gray_demap" => rows = SentRows
  /\ stage \in {"hamming_encode", "interleave", "gray_demap"} => symbols = <<>>
  /\ stage = "air" => symbols = SentSymbols
  /\ stage \in {"air", "demodulate", "deinterleave", "decode", "decoded"} =>
       symbols \in [1 .. (4 + cr) -> 0 .. (Block!Pow2(SF) - 1)]
  /\ stage = "demodulate" => OneSymbolOff
  /\ stage = "deinterleave" =>
       RowsNear(rows, Arranged, Block!SfBits, 4 + cr, Harmless, bin_error)
  /\ stage \in {"decode", "decoded"} =>
       WordsNear(words, SentWords, Block!SfBits, 4 + cr, Harmless, bin_error)
  /\ stage # "decoded" => hard = <<>> /\ soft = <<>>
  /\ stage = "decoded" => /\ hard = [k \in 1 .. Block!SfBits |-> Block!HardNibble(words[k])]
                          /\ soft = [k \in 1 .. Block!SfBits |-> Block!SoftNibble(words[k])]

LEMMA BlockInvInit == Block!Init => BlockInv
<1> SUFFICES ASSUME Block!Init PROVE BlockInv
  OBVIOUS
<1>1. is_header \in BOOLEAN /\ cr \in 1 .. 4 /\ (is_header => cr = 4)
  BY DEF Block!Init, Block!CodeRates
<1>2. nibbles \in [1 .. Block!SfBits -> 0 .. 15]
  <2>1. nibbles \in Seq(0 .. 15) /\ Len(nibbles) = Block!SfBits
    BY BlockAssumption DEF Block!Init
  <2> QED
    BY <2>1
<1> QED
  BY <1>1, <1>2 DEF Block!Init, BlockInv, BlockShape, Stages

LEMMA BlockInvStep == BlockInv /\ [Block!Next]_(Block!codecVars) => BlockInv'
<1> SUFFICES ASSUME BlockInv, [Block!Next]_(Block!codecVars) PROVE BlockInv'
  OBVIOUS
<1>1. is_header' = is_header /\ cr' = cr /\ nibbles' = nibbles
  BY DEF Block!Next, Block!codecVars, Block!blockVars, Block!Pass, Block!HammingEncode,
     Block!InterleaveBits, Block!GrayDemap, Block!Transmit, Block!Demodulate,
     Block!DeinterleaveBits, Block!Decode
<1>2. /\ Block!SfBits' = Block!SfBits /\ Harmless' = Harmless
      /\ SentWords' = SentWords /\ Arranged' = Arranged
      /\ SentRows' = SentRows /\ SentSymbols' = SentSymbols
  BY <1>1, BlockFrame
<1>3. BlockShape /\ (bin_error' \in Int => BlockShape')
  BY <1>1, <1>2 DEF BlockInv, BlockShape
<1>4. Block!CwLen(is_header, cr) = 4 + cr
  BY <1>3 DEF BlockShape, Block!CwLen, Block!HeaderSymbols
<1>5. Block!SfBits \in 3 .. 12
  BY <1>3, BlockSfBits DEF BlockShape
<1>6. CASE Block!HammingEncode
  <2>1. words' = SentWords
    <3>1. DOMAIN nibbles = 1 .. Block!SfBits
      BY <1>3 DEF BlockShape
    <3> QED
      BY <1>6, <3>1 DEF Block!HammingEncode, SentWords
  <2> QED
    BY <1>2, <1>3, <1>6, <2>1 DEF Block!HammingEncode, Block!Pass, BlockInv, BlockShape, Stages
<1>7. CASE Block!InterleaveBits
  <2>1. words = SentWords
    BY <1>7 DEF Block!InterleaveBits, Block!Pass, BlockInv
  <2>2. rows' = SentRows
    <3>1. ASSUME NEW i \in 1 .. (4 + cr)
          PROVE  Arranged[i] = [j \in 1 .. Block!SfBits |-> words[Block!WordOf(i, j)][i]]
      BY <2>1 DEF Arranged
    <3>2. rows' = [i \in 1 .. (4 + cr) |->
                     Filled([j \in 1 .. Block!SfBits |-> words[Block!WordOf(i, j)][i]])]
      BY <1>4, <1>7 DEF Block!InterleaveBits, Filled
    <3> QED
      BY <3>1, <3>2 DEF SentRows
  <2> QED
    BY <1>2, <1>3, <1>7, <2>1, <2>2 DEF Block!InterleaveBits, Block!Pass, BlockInv, BlockShape, Stages
<1>8. CASE Block!GrayDemap
  <2>1. rows = SentRows
    BY <1>8 DEF Block!GrayDemap, Block!Pass, BlockInv
  <2>2. symbols' = SentSymbols
    <3>1. DOMAIN SentRows = 1 .. (4 + cr)
      BY DEF SentRows
    <3> QED
      BY <1>8, <2>1, <3>1 DEF Block!GrayDemap, SentSymbols
  <2>3. SentSymbols \in [1 .. (4 + cr) -> 0 .. (Block!Pow2(SF) - 1)]
    BY <1>3, SentTypes
  <2> QED
    BY <1>1, <1>2, <1>3, <1>8, <2>2, <2>3
    DEF Block!GrayDemap, Block!Pass, BlockInv, BlockShape, Stages
<1>9. CASE Block!Transmit
  <2>1. symbols = SentSymbols
    BY <1>9 DEF Block!Transmit, Block!Pass, BlockInv
  <2>2. SentSymbols \in [1 .. (4 + cr) -> 0 .. (Block!Pow2(SF) - 1)]
    BY <1>3, SentTypes
  <2>3. PICK q \in 1 .. (4 + cr), e \in Int :
          /\ symbols' = [SentSymbols EXCEPT ![q] = (@ + e) % Block!Pow2(SF)]
          /\ bin_error' = e
    BY <1>9, <2>1, <2>2, BlockAssumption DEF Block!Transmit
  <2>4. symbols' \in [1 .. (4 + cr) -> 0 .. (Block!Pow2(SF) - 1)]
    BY <1>3, <2>3, SymbolsToRows
  <2>5. OneSymbolOff'
    BY <1>1, <1>2, <2>3 DEF OneSymbolOff
  <2>6. /\ stage' = "demodulate" /\ words' = SentWords' /\ hard' = <<>> /\ soft' = <<>>
    BY <1>2, <1>9 DEF Block!Transmit, Block!Pass, BlockInv
  <2>7. BlockShape'
    BY <1>3, <2>3
  <2> QED
    BY <1>1, <2>4, <2>5, <2>6, <2>7 DEF BlockInv, Stages
<1>10. CASE Block!Demodulate
  <2>1. PICK q \in 1 .. (4 + cr) :
          symbols = [SentSymbols EXCEPT ![q] = (@ + bin_error) % Block!Pow2(SF)]
    BY <1>10 DEF Block!Demodulate, Block!Pass, BlockInv, OneSymbolOff
  <2>2. rows' = [i \in DOMAIN symbols |-> Block!DemodulatedBits(symbols[i])]
    BY <1>10 DEF Block!Demodulate
  <2>3. bin_error \in Int
    BY <1>3 DEF BlockShape
  <2>4. RowsNear(rows', Arranged, Block!SfBits, 4 + cr, Harmless, bin_error)
    <3>1. PICK S : S = symbols
      OBVIOUS
    <3> QED
      BY <1>3, <2>1, <2>2, <2>3, <3>1, SymbolsToRows
  <2>5. bin_error' = bin_error /\ stage' = "deinterleave"
    BY <1>10 DEF Block!Demodulate, Block!Pass
  <2>6. RowsNear(rows, Arranged, Block!SfBits, 4 + cr, Harmless, bin_error)'
    BY <1>1, <1>2, <2>4, <2>5
  <2>7. /\ words' = SentWords' /\ hard' = <<>> /\ soft' = <<>>
        /\ symbols' \in [1 .. (4 + cr') -> 0 .. (Block!Pow2(SF) - 1)]
    BY <1>1, <1>2, <1>10 DEF Block!Demodulate, Block!Pass, BlockInv
  <2>8. BlockShape'
    BY <1>3, <2>3, <2>5
  <2> QED
    BY <2>5, <2>6, <2>7, <2>8 DEF BlockInv, Stages
<1>11. CASE Block!DeinterleaveBits
  <2>1. RowsNear(rows, Arranged, Block!SfBits, 4 + cr, Harmless, bin_error)
    BY <1>11 DEF Block!DeinterleaveBits, Block!Pass, BlockInv
  <2>2. words' = [k \in 1 .. Block!SfBits |->
                    [i \in DOMAIN rows |->
                       rows[i][CHOOSE j \in 1 .. Block!SfBits : Block!WordOf(i, j) = k]]]
    BY <1>11 DEF Block!DeinterleaveBits
  <2>3. bin_error \in Int
    BY <1>3 DEF BlockShape
  <2>4. WordsNear(words', SentWords, Block!SfBits, 4 + cr, Harmless, bin_error)
    BY <1>3, <2>1, <2>2, <2>3, RowsToWords
  <2>5. bin_error' = bin_error /\ stage' = "decode"
    BY <1>11 DEF Block!DeinterleaveBits, Block!Pass
  <2>6. WordsNear(words, SentWords, Block!SfBits, 4 + cr, Harmless, bin_error)'
    BY <1>1, <1>2, <2>4, <2>5
  <2>7. /\ hard' = <<>> /\ soft' = <<>>
        /\ symbols' \in [1 .. (4 + cr') -> 0 .. (Block!Pow2(SF) - 1)]
    BY <1>1, <1>2, <1>11 DEF Block!DeinterleaveBits, Block!Pass, BlockInv
  <2>8. BlockShape'
    BY <1>3, <2>3, <2>5
  <2> QED
    BY <2>5, <2>6, <2>7, <2>8 DEF BlockInv, Stages
<1>12. CASE Block!Decode
  <2>1. WordsNear(words, SentWords, Block!SfBits, 4 + cr, Harmless, bin_error)
    BY <1>12 DEF Block!Decode, Block!Pass, BlockInv
  <2>2. DOMAIN words = 1 .. Block!SfBits
    BY <2>1 DEF WordsNear
  <2>3. /\ words' = words /\ bin_error' = bin_error /\ stage' = "decoded"
        /\ symbols' \in [1 .. (4 + cr') -> 0 .. (Block!Pow2(SF) - 1)]
    BY <1>1, <1>2, <1>12 DEF Block!Decode, Block!Pass, BlockInv
  <2>4. /\ \A g : Block!HardNibble(g)' = Block!HardNibble(g)
        /\ \A g : Block!SoftNibble(g)' = Block!SoftNibble(g)
    BY <1>1 DEF Block!HardNibble, Block!SoftNibble
  <2>5. /\ hard' = [k \in 1 .. Block!SfBits |-> Block!HardNibble(words[k])]
        /\ soft' = [k \in 1 .. Block!SfBits |-> Block!SoftNibble(words[k])]
    BY <1>12, <2>2 DEF Block!Decode
  <2>6. /\ hard' = [k \in 1 .. Block!SfBits' |-> Block!HardNibble(words[k])']
        /\ soft' = [k \in 1 .. Block!SfBits' |-> Block!SoftNibble(words[k])']
    BY <1>2, <2>3, <2>4, <2>5
  <2>7. WordsNear(words, SentWords, Block!SfBits, 4 + cr, Harmless, bin_error)'
    BY <1>1, <1>2, <2>1, <2>3
  <2>8. BlockShape'
    BY <1>3, <2>3 DEF BlockShape
  <2> QED
    BY <2>3, <2>6, <2>7, <2>8 DEF BlockInv, Stages
<1>13. CASE UNCHANGED Block!codecVars
  <2>1. /\ stage' = stage /\ words' = words /\ rows' = rows /\ symbols' = symbols
        /\ bin_error' = bin_error /\ hard' = hard /\ soft' = soft
    BY <1>13 DEF Block!codecVars
  <2>2. OneSymbolOff' = OneSymbolOff
    BY <1>1, <1>2, <2>1 DEF OneSymbolOff
  <2>3. /\ \A g : Block!HardNibble(g)' = Block!HardNibble(g)
        /\ \A g : Block!SoftNibble(g)' = Block!SoftNibble(g)
    BY <1>1 DEF Block!HardNibble, Block!SoftNibble
  <2>4. BlockShape'
    BY <1>3, <2>1 DEF BlockShape
  <2> QED
    BY <1>1, <1>2, <2>1, <2>2, <2>3, <2>4 DEF BlockInv, Stages
<1> QED
  BY <1>6, <1>7, <1>8, <1>9, <1>10, <1>11, <1>12, <1>13 DEF Block!Next

LEMMA BlockTypes == BlockInv => Block!TypeOK
<1> SUFFICES ASSUME BlockInv PROVE Block!TypeOK
  OBVIOUS
<1> DEFINE n == Block!SfBits
           len == 4 + cr
<1>1. BlockShape /\ cr \in 1 .. 4 /\ Block!CwLen(is_header, cr) = len
  BY DEF BlockInv, BlockShape, Block!CwLen, Block!HeaderSymbols
<1>2. SentWords \in [1 .. n -> [1 .. len -> Bit]]
  BY <1>1, SentTypes
<1>3. stage \in {"decode", "decoded"} => words \in [1 .. n -> [1 .. len -> Bit]]
  BY DEF BlockInv, WordsNear
<1>4. words = <<>> \/ words \in [1 .. n -> [1 .. len -> Bit]]
  BY <1>2, <1>3 DEF BlockInv, Stages
<1>5. \A k \in DOMAIN words : Len(words[k]) = len
  <2>1. CASE words = <<>>
    BY <2>1
  <2>2. CASE words \in [1 .. n -> [1 .. len -> Bit]]
    <3>1. ASSUME NEW g \in [1 .. len -> Bit] PROVE Len(g) = len
      BY <1>1
    <3> QED
      BY <2>2, <3>1
  <2> QED
    BY <1>4, <2>1, <2>2
<1>6. {hard, soft} \subseteq {<<>>} \cup [1 .. n -> 0 .. 15]
  <2>1. ASSUME stage = "decoded" PROVE hard \in [1 .. n -> 0 .. 15] /\ soft \in [1 .. n -> 0 .. 15]
    <3>1. /\ hard = [k \in 1 .. n |-> Block!HardNibble(words[k])]
          /\ soft = [k \in 1 .. n |-> Block!SoftNibble(words[k])]
      BY <2>1 DEF BlockInv
    <3>2. \A k \in 1 .. n : words[k] \in [1 .. len -> Bit]
      BY <1>3, <2>1
    <3>3. \A k \in 1 .. n : Block!HardNibble(words[k]) \in 0 .. 15 /\ Block!SoftNibble(words[k]) \in 0 .. 15
      BY <1>1, <3>2, HardType, SoftType
    <3> QED
      BY <3>1, <3>3
  <2> QED
    BY <2>1 DEF BlockInv
<1>7. \A i \in DOMAIN symbols : symbols[i] \in 0 .. (Block!Pow2(SF) - 1)
  <2>1. symbols = <<>> \/ symbols \in [1 .. len -> 0 .. (Block!Pow2(SF) - 1)]
    BY DEF BlockInv, Stages
  <2>2. \A i \in DOMAIN << >> : FALSE
    OBVIOUS
  <2> QED
    BY <2>1, <2>2
<1> QED
  BY <1>1, <1>5, <1>6, <1>7 DEF Block!TypeOK

LEMMA BlocksArrive == BlockInv => Block!HardBlocksSurvive /\ Block!SoftBlocksSurvive
<1> SUFFICES ASSUME BlockInv PROVE Block!HardBlocksSurvive /\ Block!SoftBlocksSurvive
  OBVIOUS
<1> DEFINE n == Block!SfBits
           len == 4 + cr
<1>1. BlockShape /\ cr \in 1 .. 4 /\ nibbles \in [1 .. n -> 0 .. 15]
  BY DEF BlockInv, BlockShape
<1>2. SentWords \in [1 .. n -> [1 .. len -> Bit]]
  BY <1>1, SentTypes
<1>3. ASSUME stage = "decoded", NEW k \in 1 .. n
      PROVE  /\ bin_error \in Harmless \/ cr = 3 => Block!HardNibble(words[k]) = nibbles[k]
             /\ bin_error \in Harmless \/ cr \in {3, 4} => Block!SoftNibble(words[k]) = nibbles[k]
  <2>1. WordsNear(words, SentWords, n, len, Harmless, bin_error)
    BY <1>3 DEF BlockInv
  <2>2. PICK g \in [1 .. len -> Bit] : g = words[k]
    BY <2>1 DEF WordsNear
  <2>3. PICK h \in [1 .. len -> Bit] : h = Block!HammingWord(nibbles[k]) /\ h = SentWords[k]
    BY <1>2 DEF SentWords
  <2>4. PICK a \in Bit, b \in Bit, c \in Bit, d \in Bit :
          nibbles[k] = 8 * d + 4 * c + 2 * b + a /\ IsCodeword(h, a, b, c, d, cr)
    <3>1. PICK v \in 0 .. 15 : v = nibbles[k]
      BY <1>1
    <3>2. \E a \in Bit, b \in Bit, c \in Bit, d \in Bit :
            v = 8 * d + 4 * c + 2 * b + a /\ IsCodeword(Block!HammingWord(v), a, b, c, d, cr)
      BY <1>1, WordBits
    <3> QED
      BY <2>3, <3>1, <3>2
  <2>5. OneApart(h, g, len) /\ (bin_error \in Harmless => g = h)
    BY <2>1, <2>2, <2>3 DEF WordsNear
  <2>6. ASSUME bin_error \in Harmless
        PROVE  Block!HardNibble(g) = nibbles[k] /\ Block!SoftNibble(g) = nibbles[k]
    <3>1. g = h /\ \A j \in 1 .. len : h[j] = g[j]
      BY <2>5, <2>6
    <3>2. Block!HardNibble(g) = nibbles[k]
      BY <1>1, <2>4, <3>1, HardExact
    <3>3. Block!SoftNibble(g) = nibbles[k]
      BY <1>1, <2>4, <3>1, SoftCorrects
    <3> QED
      BY <3>2, <3>3
  <2>7. ASSUME cr = 3 PROVE Block!HardNibble(g) = nibbles[k]
    <3>1. len = 7 /\ g \in [1 .. 7 -> Bit] /\ OneApart(h, g, 7)
      BY <2>5, <2>7
    <3>2. PICK u \in [1 .. 7 -> Bit] : u = g /\ OneApart(h, u, 7)
      BY <3>1
    <3>3. IsCodeword(h, a, b, c, d, 3)
      BY <2>4, <2>7
    <3>4. Block!HardNibble(u) = 8 * d + 4 * c + 2 * b + a
      BY <2>7, <3>2, <3>3, HardCorrects
    <3> QED
      BY <2>4, <3>2, <3>4
  <2>8. ASSUME cr \in {3, 4} PROVE Block!SoftNibble(g) = nibbles[k]
    BY <1>1, <2>4, <2>5, <2>8, SoftCorrects
  <2> QED
    BY <2>2, <2>6, <2>7, <2>8
<1>4. ASSUME stage = "decoded"
      PROVE  /\ hard = [k \in 1 .. n |-> Block!HardNibble(words[k])]
             /\ soft = [k \in 1 .. n |-> Block!SoftNibble(words[k])]
  BY <1>4 DEF BlockInv
<1>5. nibbles = [k \in 1 .. n |-> nibbles[k]]
  BY <1>1
<1>6. Block!HardBlocksSurvive
  BY <1>3, <1>4, <1>5 DEF Block!HardBlocksSurvive, Block!HardCopes, Harmless
<1>7. Block!SoftBlocksSurvive
  BY <1>3, <1>4, <1>5 DEF Block!SoftBlocksSurvive, Block!SoftCopes, Harmless
<1> QED
  BY <1>6, <1>7

LEMMA NextBinIsOneBit == BlockInv => Block!NextBinHitsOneWord
<1> SUFFICES ASSUME BlockInv, stage = "decode", bin_error \in {-1, 1},
                    NEW x \in (1 .. Block!SfBits) \X (1 .. Block!CwLen(is_header, cr)),
                    NEW y \in (1 .. Block!SfBits) \X (1 .. Block!CwLen(is_header, cr)),
                    words[x[1]][x[2]] # Block!HammingWord(nibbles[x[1]])[x[2]],
                    words[y[1]][y[2]] # Block!HammingWord(nibbles[y[1]])[y[2]]
             PROVE  x = y
  BY DEF Block!NextBinHitsOneWord
<1>1. Block!CwLen(is_header, cr) = 4 + cr
  BY DEF BlockInv, BlockShape, Block!CwLen, Block!HeaderSymbols
<1>2. PICK p \in 1 .. Block!SfBits, q \in 1 .. (4 + cr) :
        SameWordsBut(words, SentWords, Block!SfBits, 4 + cr, p, q)
  BY DEF BlockInv, WordsNear
<1>3. \A k \in 1 .. Block!SfBits : SentWords[k] = Block!HammingWord(nibbles[k])
  BY DEF SentWords
<1>4. x[1] = p /\ x[2] = q /\ y[1] = p /\ y[2] = q
  BY <1>1, <1>2, <1>3 DEF SameWordsBut
<1>5. x = <<x[1], x[2]>> /\ y = <<y[1], y[2]>>
  OBVIOUS
<1> QED
  BY <1>4, <1>5

(***************************************************************************)
(* All parts.  A behaviour is one of one part.                             *)
(***************************************************************************)
CodecsInv ==
  /\ part = "header" => HeaderInv
  /\ part = "payload" => PayloadFacts!PayloadInv
  /\ part = "node" => SetupInv
  /\ part = "block" => BlockInv

\* Both instances of PayloadCodec are the same.
LEMMA PayloadTwice ==
  /\ Payload!EncodePayload = PayloadFacts!EncodePayload
  /\ Payload!Transfer = PayloadFacts!Transfer
  /\ Payload!DecodePayload = PayloadFacts!DecodePayload
<1>1. \A a, b : Payload!Xor(a, b) = PayloadFacts!Xor(a, b)
  BY Zenon DEF Payload!Xor, PayloadFacts!Xor
<1>2. \A i : Payload!WhiteningByte(i) = PayloadFacts!WhiteningByte(i)
  BY Zenon DEF Payload!WhiteningByte, PayloadFacts!WhiteningByte,
     Payload!WHITENING_SEQ, PayloadFacts!WHITENING_SEQ
<1>3. \A a, n : Payload!Up(a, n) = PayloadFacts!Up(a, n)
  BY Zenon DEF Payload!Up, PayloadFacts!Up
<1>4. \A a, n : Payload!NibbleOf(a, n) = PayloadFacts!NibbleOf(a, n)
  BY Zenon DEF Payload!NibbleOf, PayloadFacts!NibbleOf
<1>5. \A a, b : Payload!Join(a, b) = PayloadFacts!Join(a, b)
  BY <1>3 DEF Payload!Join, PayloadFacts!Join
<1>6. \A a, b, k : Payload!ShiftBit(a, b, k) = PayloadFacts!ShiftBit(a, b, k)
  BY <1>1, <1>3 DEF Payload!ShiftBit, PayloadFacts!ShiftBit
<1>7. \A a, b : Payload!ShiftByte(a, b) = PayloadFacts!ShiftByte(a, b)
  BY <1>6 DEF Payload!ShiftByte, PayloadFacts!ShiftByte
<1>8. \A a : Payload!Crc16(a) = PayloadFacts!Crc16(a)
  BY <1>7 DEF Payload!Crc16, PayloadFacts!Crc16
<1>9. \A a : Payload!PayloadCrc(a) = PayloadFacts!PayloadCrc(a)
  BY <1>1, <1>3, <1>8 DEF Payload!PayloadCrc, PayloadFacts!PayloadCrc
<1>10. Payload!EncodePayload = PayloadFacts!EncodePayload
  BY <1>1, <1>2, <1>4, <1>9 DEF Payload!EncodePayload, PayloadFacts!EncodePayload
<1>11. Payload!Transfer = PayloadFacts!Transfer
  BY <1>1 DEF Payload!Transfer, PayloadFacts!Transfer
<1>12. Payload!DecodePayload = PayloadFacts!DecodePayload
  BY <1>1, <1>2, <1>3, <1>5, <1>9 DEF Payload!DecodePayload, PayloadFacts!DecodePayload
<1> QED
  BY <1>10, <1>11, <1>12

LEMMA CodecsStep ==
  /\ CodecsInit => CodecsInv
  /\ CodecsInv /\ [CodecsNext]_codecsVars => CodecsInv'
<1>1. ASSUME CodecsInit PROVE CodecsInv
  <2>1. ASSUME part = "header" PROVE HeaderInv
    BY <1>1, <2>1, HeaderInvStep DEF CodecsInit
  <2>2. ASSUME part = "payload" PROVE PayloadFacts!PayloadInv
    <3>1. PayloadFacts!Init
      BY <1>1, <2>2 DEF CodecsInit, Payload!Init, PayloadFacts!Init
    <3> QED
      BY <3>1, BytesAssumption, PayloadFacts!PayloadInit DEF PayloadFacts!Byte, PayloadFacts!Nibble
  <2>3. ASSUME part = "node" PROVE SetupInv
    BY <1>1, <2>3, SetupInvStep DEF CodecsInit
  <2>4. ASSUME part = "block" PROVE BlockInv
    BY <1>1, <2>4, BlockInvInit DEF CodecsInit
  <2> QED
    BY <2>1, <2>2, <2>3, <2>4 DEF CodecsInv
<1>2. ASSUME CodecsInv, [CodecsNext]_codecsVars PROVE CodecsInv'
  <2>1. part' = part
    BY <1>2 DEF CodecsNext, codecsVars
  <2>2. ASSUME part = "header" PROVE HeaderInv'
    <3>1. [Header!Next]_(Header!headerVars)
      BY <1>2, <2>2 DEF CodecsNext, codecsVars, headerOnly, Header!headerVars
    <3> QED
      BY <1>2, <2>2, <3>1, HeaderInvStep DEF CodecsInv
  <2>3. ASSUME part = "payload" PROVE PayloadFacts!PayloadInv'
    <3>1. [PayloadFacts!Next]_(PayloadFacts!payloadVars)
      <4>1. CASE UNCHANGED codecsVars
        BY <4>1 DEF codecsVars, payloadOnly, PayloadFacts!payloadVars
      <4>2. CASE CodecsNext
        <5>1. Payload!Next
          BY <2>3, <4>2 DEF CodecsNext
        <5>2. Payload!Next = PayloadFacts!Next
          BY PayloadTwice DEF Payload!Next, PayloadFacts!Next
        <5> QED
          BY <5>1, <5>2
      <4> QED
        BY <1>2, <4>1, <4>2
    <3> QED
      BY <1>2, <2>3, <3>1, BytesAssumption, PayloadFacts!PayloadNext
      DEF CodecsInv, PayloadFacts!Byte, PayloadFacts!Nibble
  <2>4. ASSUME part = "node" PROVE SetupInv'
    <3>1. [Setup!Next]_(Setup!setupVars)
      BY <1>2, <2>4 DEF CodecsNext, codecsVars, setupOnly, Setup!setupVars
    <3> QED
      BY <1>2, <2>4, <3>1, SetupInvStep DEF CodecsInv
  <2>5. ASSUME part = "block" PROVE BlockInv'
    <3>1. [Block!Next]_(Block!codecVars)
      BY <1>2, <2>5 DEF CodecsNext, codecsVars, blockOnly, Block!codecVars, Block!blockVars
    <3> QED
      BY <1>2, <2>5, <3>1, BlockInvStep DEF CodecsInv
  <2> QED
    BY <2>1, <2>2, <2>3, <2>4, <2>5 DEF CodecsInv
<1> QED
  BY <1>1, <1>2

LEMMA CodecsInvariant == CodecsSpec => []CodecsInv
  BY CodecsStep, PTL DEF CodecsSpec

\* A header that nothing happens to is accepted, for every length of one byte but 0,
\* with code rates up to 4/7, and refused with 4/8.
THEOREM GoodHeaderIsAccepted == CodecsSpec => []GoodHeaderAccepted
<1>1. CodecsInv => GoodHeaderAccepted
  BY GoodHeader DEF CodecsInv, GoodHeaderAccepted
<1> QED
  BY <1>1, CodecsInvariant, PTL

\* With at most two bits wrong, the receiver takes a header only when the length, the
\* code rate and the CRC flag it reads are those that were sent: all single and
\* double errors in the data are found by the checksum, for every length of one byte.
THEOREM WrongHeaderIsRefused == CodecsSpec => []NoWrongHeader
<1>1. CodecsInv => NoWrongHeader
  BY WrongHeader DEF CodecsInv, NoWrongHeader
<1> QED
  BY <1>1, CodecsInvariant, PTL

\* decode() takes off what whitening() put on and computes the CRC that crc() appended:
\* a payload of any length and content that nothing happened to passes, unchanged.
THEOREM IntactPayloadIsAccepted == CodecsSpec => []IntactPayloadPasses
<1>1. CodecsInv => IntactPayloadPasses
  BY DEF CodecsInv, IntactPayloadPasses, Payload!IntactPayloadPasses,
         PayloadFacts!PayloadInv, PayloadFacts!IntactPayloadPasses
<1> QED
  BY <1>1, CodecsInvariant, PTL

\* Whatever happens to two nibbles in a row, of the payload, of its last two bytes that
\* crc() treats apart, of the CRC or across the border between them: decode() refuses it.
THEOREM WrongNibblesAreFound == CodecsSpec => []WrongNibblesFail
<1>1. CodecsInv => WrongNibblesFail
  BY DEF CodecsInv, WrongNibblesFail, Payload!WrongNibblesFail,
         PayloadFacts!PayloadInv, PayloadFacts!WrongNibblesFail
<1> QED
  BY <1>1, CodecsInvariant, PTL

\* A node that was created has a transmitter for each of the eight presets and a receiver
\* with the same settings, uses the transmitter of the preset that was asked for, and is
\* heard by its like with each preset except LongModerate, whose code rate HeaderDecoder
\* refuses.
THEOREM ReadyNodeCanTalk == CodecsSpec => []NodeCanTalk
<1>1. CodecsInv => NodeCanTalk
  BY TalkingNode DEF CodecsInv, NodeCanTalk
<1> QED
  BY <1>1, CodecsInvariant, PTL

\* The slots of every bandwidth of a region lie side by side and fill the same band.
THEOREM SlotsFillTheBand == CodecsSpec => []SlotsFillBand
<1>1. CodecsInv => SlotsFillBand
  BY FilledBand DEF CodecsInv, SlotsFillBand
<1> QED
  BY <1>1, CodecsInvariant, PTL

\* A node is created in the slots of 500 kHz and in no other: every preset is connected,
\* whichever was asked for.
THEOREM NodeNeedsWideSlot == CodecsSpec => []NeedsWideSlot
<1>1. CodecsInv => NeedsWideSlot
  BY WideSlot DEF CodecsInv, NeedsWideSlot
<1> QED
  BY <1>1, CodecsInvariant, PTL

\* Codewords have the length that the code rate asks for, every symbol is a bin, and
\* whatever the air did to a block both decoders make nibbles of it.
THEOREM BlocksHaveTypes == CodecsSpec => []BlockTypeOK
<1>1. CodecsInv => BlockTypeOK
  BY BlockTypes DEF CodecsInv, BlockTypeOK
<1> QED
  BY <1>1, CodecsInvariant, PTL

\* Whatever block of nibbles is sent, at every spreading factor and code rate: hard
\* decoding gets it back when nothing happened to it or what happened is within the
\* room a reduced rate leaves, and with code rate 4/7 whatever happened to one symbol.
THEOREM HardBlocksArrive == CodecsSpec => []HardBlocksSurvive
<1>1. CodecsInv => HardBlocksSurvive
  BY BlocksArrive DEF CodecsInv, HardBlocksSurvive
<1> QED
  BY <1>1, CodecsInvariant, PTL

\* The same for soft decoding, which corrects one wrong symbol with 4/7 and with 4/8.
THEOREM SoftBlocksArrive == CodecsSpec => []SoftBlocksSurvive
<1>1. CodecsInv => SoftBlocksSurvive
  BY BlocksArrive DEF CodecsInv, SoftBlocksSurvive
<1> QED
  BY <1>1, CodecsInvariant, PTL

\* A symbol that arrives in the bin next to its own, at either end of the spectrum too,
\* costs one bit of one codeword: at every spreading factor, whatever was sent.
THEOREM NextBinCostsOneBit == CodecsSpec => []NextBinHitsOneWord
<1>1. CodecsInv => NextBinHitsOneWord
  BY NextBinIsOneBit DEF CodecsInv, NextBinHitsOneWord
<1> QED
  BY <1>1, CodecsInvariant, PTL

=============================================================================
