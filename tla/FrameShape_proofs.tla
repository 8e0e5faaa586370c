------------------------- MODULE FrameShape_proofs -------------------------
(***************************************************************************)
(* Facts about the length of a frame.                                      *)
(***************************************************************************)
EXTENDS FrameShape, TLAPS

\* CeilDiv rounds up.
LEMMA CeilDivUp ==
  ASSUME NEW a \in Int, NEW b \in Nat, b > 0
  PROVE  CeilDiv(a, b) \in Int /\ b * CeilDiv(a, b) >= a /\ b * CeilDiv(a, b) < a + b
<1> DEFINE q == (-a) \div b
           r == (-a) % b
<1>1. q \in Int /\ r \in 0 .. (b - 1) /\ -a = b * q + r
  OBVIOUS
<1>2. CeilDiv(a, b) = -q
  BY DEF CeilDiv
<1> HIDE DEF q, r
<1>3. b * (-q) = -(b * q) /\ b * q \in Int
  BY <1>1
<1>4. QED
  BY <1>1, <1>2, <1>3

\* The symbol count of a header is never negative, whatever the header says:
\* the assertion "frame_info_handler computed negative symbol number" holds,
\* although the numerator can be negative.
THEOREM SymbNumbNat ==
  ASSUME NEW m, m.pay_len \in Nat, m.cr \in Nat, m.crc \in BOOLEAN
  PROVE  SymbNumb(m) \in Nat
<1> DEFINE a == 2 * m.pay_len - (SF - 5) + (IF SF >= 7 THEN 2 ELSE 0)
                  + (IF ImplHead THEN 0 ELSE 5) + (IF m.crc THEN 4 ELSE 0)
           b == SF - (IF Ldro THEN 2 ELSE 0)
           c == CeilDiv(a, b)
<1>1. a \in Int /\ b \in Nat /\ b > 0 /\ a > -b
  BY FrameAssumption
<1> HIDE DEF a, b
<1>2. c \in Int /\ b * c >= a
  BY <1>1, CeilDivUp
<1> HIDE DEF c
<1>3. c >= 0
  <2>1. ASSUME c <= -1 PROVE FALSE
    <3>1. b * c <= b * (-1) /\ b * (-1) = -b
      BY <1>1, <1>2, <2>1
    <3>2. b * c \in Int
      BY <1>1, <1>2
    <3>3. QED
      BY <1>1, <1>2, <3>1, <3>2
  <2>2. QED
    BY <1>2, <2>1
<1>4. SymbNumb(m) = 8 + c * (4 + m.cr)
  BY DEF SymbNumb, HeaderSymbols, a, b, c
<1>5. c * (4 + m.cr) \in Nat
  BY <1>2, <1>3
<1>6. QED
  BY <1>4, <1>5

=============================================================================
