-------------------------- MODULE FrameSync_proofs --------------------------
(***************************************************************************)
(* Proofs about FrameSync, for every spreading factor, oversampling        *)
(* factor, preamble length and caching policy.                             *)
(***************************************************************************)
EXTENDS FrameSync, FrameShape_proofs, SequenceTheorems, TLAPS

(***************************************************************************)
(* Arithmetic facts.                                                       *)
(***************************************************************************)
LEMMA ShapeFacts ==
  /\ N \in Nat /\ N >= 32 /\ OS \in Nat /\ OS >= 1
  /\ NUpReq \in Nat /\ NUpReq >= 2
  /\ SPS \in Nat /\ SPS >= 32
  /\ UpSymbToUse \in Nat /\ UpSymbToUse = NUpReq - 1
<1>1. N \in Nat /\ N >= 32 /\ OS \in Nat /\ OS >= 1
  BY ShapeAssumption
<1>2. NUpReq \in Nat /\ NUpReq >= 2 /\ UpSymbToUse \in Nat /\ UpSymbToUse = NUpReq - 1
  BY ShapeAssumption DEF NUpReq, UpSymbToUse
<1>3. N * OS >= N
  BY <1>1
<1>4. SPS \in Nat /\ SPS >= 32
  BY <1>1, <1>3 DEF SPS
<1>5. QED
  BY <1>1, <1>2, <1>4

\* Multiplying by the oversampling factor keeps an order.
LEMMA Scaled ==
  ASSUME NEW a \in Int, NEW b \in Int, a <= b
  PROVE  OS * a \in Int /\ OS * a <= OS * b
BY ShapeAssumption

\* N is a multiple of eight, so the quarters and halves of the code are exact.
LEMMA Quarters ==
  /\ N \div 4 \in Nat /\ N \div 2 = 2 * (N \div 4) /\ N = 4 * (N \div 4)
  /\ SPS = 4 * (OS * (N \div 4)) /\ SPS \div 4 = OS * (N \div 4)
  /\ OS * (N \div 4) \in Nat /\ OS * (N \div 4) >= 8 * OS
<1>1. N \div 4 \in Nat /\ N \div 2 = 2 * (N \div 4) /\ N = 4 * (N \div 4) /\ N \div 4 >= 8
  BY ShapeAssumption
<1>2. OS * (N \div 4) \in Nat /\ OS * (N \div 4) >= OS * 8
  BY <1>1, ShapeAssumption, Scaled
<1>3. N * OS = 4 * (OS * (N \div 4))
  <2>1. N * OS = (4 * (N \div 4)) * OS
    BY <1>1
  <2>2. QED
    BY <2>1, <1>1, ShapeAssumption
<1>4. SPS = 4 * (OS * (N \div 4))
  BY <1>3 DEF SPS
<1>5. SPS \div 4 = OS * (N \div 4)
  BY <1>4, <1>2
<1>6. QED
  BY <1>1, <1>2, <1>4, <1>5, ShapeAssumption

\* The integer CFO is at most a quarter of the bandwidth either way.
LEMMA CfoRange ==
  ASSUME NEW d \in 0 .. (N - 1)
  PROVE  /\ CfoInt(d) \in Int
         /\ -(N \div 4) <= CfoInt(d) /\ CfoInt(d) <= (N \div 4) - 1
         /\ OS * CfoInt(d) \in Int
         /\ -(OS * (N \div 4)) <= OS * CfoInt(d)
         /\ OS * CfoInt(d) <= OS * (N \div 4) - OS
<1>1. CfoInt(d) \in Int /\ -(N \div 4) <= CfoInt(d) /\ CfoInt(d) <= (N \div 4) - 1
  BY ShapeAssumption DEF CfoInt
<1>2. OS * (-(N \div 4)) <= OS * CfoInt(d) /\ OS * CfoInt(d) <= OS * ((N \div 4) - 1)
  BY <1>1, Quarters, Scaled
<1>3. OS * (-(N \div 4)) = -(OS * (N \div 4)) /\ OS * ((N \div 4) - 1) = OS * (N \div 4) - OS
  BY Quarters, ShapeAssumption
<1>4. QED
  BY <1>1, <1>2, <1>3, ShapeAssumption

(***************************************************************************)
(* Lengths and positions of the preamble buffers.                          *)
(***************************************************************************)
\* No slice taken while synchronising leaves its buffer: the types of k_hat,
\* additional_upchirps and down_val are all that is needed.
LEMMA TypedSlices == TypeOK => SlicesInBounds
<1> SUFFICES ASSUME TypeOK PROVE SlicesInBounds
  OBVIOUS
<1> DEFINE Q == OS * (N \div 4)
<1>1. Q \in Nat /\ SPS = 4 * Q /\ Q >= 8 * OS
  BY Quarters
<1> HIDE DEF Q
<1>2. k_hat \in 0 .. (N - 1) /\ additional_upchirps \in 0 .. 3
  BY DEF TypeOK
<1>3. (N - k_hat) + UpSymbToUse * N <= PreambleRawLen
  <2>1. PreambleRawLen = UpSymbToUse * N + 4 * N
    BY ShapeAssumption DEF PreambleRawLen, UpSymbToUse
  <2>2. UpSymbToUse * N \in Int
    BY ShapeFacts
  <2>3. QED
    BY <2>1, <2>2, <1>2, ShapeFacts
<1>4. /\ SPS * (NUpReq + additional_upchirps) \in Int
      /\ PreambleRawUpLen \in Int
      /\ SPS * (NUpReq + additional_upchirps) + 3 * SPS <= PreambleRawUpLen
  <2>1. PreambleRawUpLen = SPS * (PreambleLen + 3)
    BY ShapeAssumption, ShapeFacts DEF PreambleRawUpLen
  <2>2. SPS * (NUpReq + additional_upchirps) + 3 * SPS = SPS * (NUpReq + additional_upchirps + 3)
    BY <1>2, ShapeFacts
  <2>3. NUpReq + additional_upchirps + 3 <= PreambleLen + 3
    BY <1>2, ShapeAssumption DEF NUpReq
  <2>4. QED
    BY <2>1, <2>2, <2>3, <1>2, ShapeFacts, ShapeAssumption
<1>5. ASSUME down_val # None, NEW sto_index \in 0 .. (OS - 1)
      PROVE  /\ NetIdStart(down_val, sto_index) >= 0
             /\ NetIdStart(down_val, sto_index) + 2 * SPS <= NetIdSampLen
  <2>1. down_val \in 0 .. (N - 1)
    BY <1>5 DEF TypeOK, OptBin
  <2>2. OS * (N \div 4 + CfoInt(down_val)) = Q + OS * CfoInt(down_val)
    BY <2>1, CfoRange, Quarters, ShapeAssumption DEF Q
  <2>3. NetIdStart(down_val, sto_index) = sto_index + Q + OS * CfoInt(down_val)
    BY <2>2, <2>1, CfoRange, <1>1, ShapeAssumption DEF NetIdStart
  <2>4. -Q <= OS * CfoInt(down_val) /\ OS * CfoInt(down_val) <= Q - OS
    BY <2>1, CfoRange DEF Q
  <2>5. NetIdSampLen = 10 * Q
    BY <1>1 DEF NetIdSampLen
  <2>6. OS * CfoInt(down_val) \in Int
    BY <2>1, CfoRange
  <2>7. QED
    BY <2>3, <2>4, <2>5, <2>6, <1>1, ShapeAssumption
<1>6. ASSUME NEW sto \in -OS .. OS
      PROVE  /\ RawUpStart(sto) >= 0
             /\ RawUpStart(sto) + SPS * (NUpReq + additional_upchirps) <= PreambleRawUpLen
  <2>1. OS * 1 <= OS * (N - k_hat) /\ OS * (N - k_hat) <= OS * N
    BY <1>2, ShapeFacts, Scaled
  <2>2. OS <= OS * (N - k_hat) /\ OS * (N - k_hat) <= SPS /\ OS * (N - k_hat) \in Int
    BY <2>1, <1>2, ShapeAssumption DEF SPS
  <2>3. OS <= SPS
    BY <1>1, ShapeAssumption
  <2>4. /\ sto \in Int /\ -OS <= sto /\ sto <= OS
        /\ RawUpStart(sto) = OS * (N - k_hat) - sto
    BY ShapeFacts DEF RawUpStart
  <2>5. RawUpStart(sto) >= 0 /\ RawUpStart(sto) <= 2 * SPS /\ RawUpStart(sto) \in Int
    BY <2>2, <2>3, <2>4, ShapeFacts
  <2>6. QED
    BY <2>5, <1>4, ShapeFacts
<1>7. SPS * (NUpReq + additional_upchirps) + SPS <= PreambleRawUpLen
  BY <1>4, ShapeFacts
<1>8. QED
  BY <1>3, <1>5, <1>6, <1>7 DEF SlicesInBounds

(***************************************************************************)
(* The inductive invariant: the types, the range of symbol_cnt in every    *)
(* outer state, and the bound on what a call consumes.                     *)
(***************************************************************************)
IInv == TypeOK /\ CounterFitsState /\ StepFitsInput

LEMMA OffsetRange ==
  ASSUME NEW v \in 0 .. (N - 1)
  PROVE  NetIdOff(v) \in -3 .. 4 /\ (OffRaw(v) # 4 => NetIdOff(v) \in -3 .. 3)
BY ShapeAssumption DEF NetIdOff, OffRaw

\* A masked net id has an entry in the tables of cached ones, whatever SF is.
LEMMA AlignedRange ==
  ASSUME NEW v \in 0 .. (N - 1), NEW ref \in 0 .. (N - 1)
  PROVE  Aligned(v, ref) \in 0 .. (N - 1) /\ Aligned(v, ref) \in 0 .. 255
<1>1. ASSUME NEW x \in 0 .. (N - 1) PROVE Mask(x) \in 0 .. (N - 1) /\ Mask(x) \in 0 .. 255
  BY <1>1, ShapeAssumption DEF Mask
<1>2. (v + 8) % N \in 0 .. (N - 1)
  BY ShapeAssumption
<1>3. QED
  BY <1>1, <1>2 DEF Aligned

LEMMA HeaderSymbNumb ==
  ASSUME NEW m \in HeaderMsgType PROVE SymbNumb(m) \in Nat
<1>1. m.pay_len \in Nat /\ m.cr \in Nat /\ m.crc \in BOOLEAN
  BY DEF HeaderMsgType
<1>2. QED
  BY <1>1, SymbNumbNat

LEMMA PoppedQueue ==
  ASSUME NEW q \in Seq(HeaderMsgType), Len(q) <= ChannelCapacity
  PROVE  LET r == IF q = <<>> THEN <<>> ELSE Tail(q)
         IN  r \in Seq(HeaderMsgType) /\ Len(r) <= ChannelCapacity
<1>1. CASE q = <<>>
  BY <1>1
<1>2. CASE q # <<>>
  <2>1. Tail(q) \in Seq(HeaderMsgType) /\ Len(Tail(q)) = Len(q) - 1
    BY <1>2, HeadTailProperties
  <2>2. Len(q) \in Nat
    OBVIOUS
  <2>3. QED
    BY <1>2, <2>1, <2>2 DEF ChannelCapacity
<1>3. QED
  BY <1>1, <1>2

LEMMA PayloadTagType ==
  ASSUME NEW m \in HeaderMsgType PROVE PayloadTag(m) \in TagType
BY DEF HeaderMsgType, TagType, PayloadTag

LEMMA HeaderTagType ==
  ASSUME NEW f \in Nat PROVE HeaderTag(f) \in TagType
BY DEF TagType, HeaderTag

\* What a call that produces nothing leaves in io.
LEMMA IoStep ==
  ASSUME NEW n \in Nat, NEW c \in Int, c <= n, c >= 2 - 4 * OS, Io(n, c)
  PROVE  io' \in IoType /\ StepFitsInput'
<1>1. <<>> \in Seq(TagType)
  OBVIOUS
<1>2. QED
  BY <1>1, ShapeAssumption DEF Io, IoType, StepFitsInput

\* ... and one that produces a symbol.
LEMMA IoSymbolStep ==
  ASSUME NEW n \in Nat, NEW c \in Int, c <= n, c >= 2 - 4 * OS,
         NEW tags \in Seq(TagType), IoSymbol(n, c, tags)
  PROVE  io' \in IoType /\ StepFitsInput' /\ pend' = <<>>
BY ShapeAssumption DEF IoSymbol, IoType, StepFitsInput

LEMMA ResetStep ==
  ASSUME TypeOK, NEW keep \in BOOLEAN, NEW b \in OptBin, Reset(keep, b)
  PROVE  /\ m_state' = "Detect" /\ symbol_cnt' \in Nat /\ symbol_cnt' < NUpReq
         /\ bin_idx' \in OptBin
         /\ preamb_up_vals' \in [0 .. (NUpReq - 1) -> 0 .. (N - 1)]
         /\ k_hat' \in 0 .. (N - 1)
         /\ tagq' \in Seq(HeaderMsgType) /\ Len(tagq') <= ChannelCapacity
         /\ ready_to_detect' \in BOOLEAN
<1>1. m_state' = "Detect" /\ symbol_cnt' \in {0, 1}
  BY DEF Reset, NetId1, NetId2
<1>2. bin_idx' \in OptBin /\ k_hat' \in 0 .. (N - 1) /\ ready_to_detect' \in BOOLEAN
  BY ShapeAssumption DEF Reset, OptBin
<1>3. preamb_up_vals' \in [0 .. (NUpReq - 1) -> 0 .. (N - 1)]
  BY ShapeFacts DEF Reset, OptBin, TypeOK
<1>4. tagq' \in Seq(HeaderMsgType) /\ Len(tagq') <= ChannelCapacity
  BY PoppedQueue DEF Reset, Pop, TypeOK
<1>5. QED
  BY <1>1, <1>2, <1>3, <1>4, ShapeFacts

\* What detect() consumes to align itself with a symbol is at most a symbol.
LEMMA AlignmentRange ==
  ASSUME NEW k \in 0 .. (N - 1)
  PROVE  OS * (N - k) \in Int /\ 0 <= OS * (N - k) /\ OS * (N - k) <= SPS
<1>1. N - k \in Int /\ 0 <= N - k /\ N - k <= N
  BY ShapeFacts
<1>2. OS * 0 <= OS * (N - k) /\ OS * (N - k) <= OS * N /\ OS * (N - k) \in Int
  BY <1>1, ShapeFacts, Scaled
<1>3. OS * 0 = 0 /\ OS * N = SPS
  BY ShapeFacts DEF SPS
<1>4. QED
  BY <1>2, <1>3

(***************************************************************************)
(* detect()                                                                *)
(***************************************************************************)
LEMMA DetectStep ==
  ASSUME IInv, NEW n \in Nat, NEW s \in Nat, NextIterationPossible(n, s), Detect(n)
  PROVE  IInv'
<1>1. n >= SPS /\ m_state = "Detect" /\ SPS \in Nat
  BY ShapeFacts DEF NextIterationPossible, Detect
<1>2. /\ down_val' \in OptBin /\ net_id' \in (0 .. (N - 1)) \X (0 .. (N - 1))
      /\ known' \subseteq NetIds
      /\ ready_to_detect' \in BOOLEAN /\ m_received_head' \in BOOLEAN
      /\ m_symb_numb' \in Nat /\ frame_cnt' \in Nat
      /\ tagq' \in Seq(HeaderMsgType) /\ Len(tagq') <= ChannelCapacity
      /\ pend' \in Seq(TagType) /\ panicked' \in BOOLEAN
  BY DEF Detect, IInv, TypeOK
<1>3. CASE DetectSilence(n)
  <2>1. io' \in IoType /\ StepFitsInput'
    BY <1>1, <1>3, IoStep, ShapeFacts DEF DetectSilence
  <2>2. /\ m_state' = "Detect" /\ symbol_cnt' = 0 /\ bin_idx' \in OptBin
        /\ UNCHANGED <<preamb_up_vals, k_hat, additional_upchirps>>
    BY <1>1, <1>3 DEF DetectSilence, NetId1, OptBin
  <2>3. TypeOK'
    BY <1>2, <2>1, <2>2 DEF IInv, TypeOK
  <2>4. CounterFitsState'
    BY <2>2, ShapeFacts DEF CounterFitsState
  <2>5. QED
    BY <2>1, <2>3, <2>4 DEF IInv
<1>4. ASSUME NEW b \in UpBins, DetectSymbol(n, b) PROVE IInv'
  <2> DEFINE at   == IF NearBin(b, bin_idx) THEN symbol_cnt ELSE 0
             vals == [preamb_up_vals EXCEPT ![at] = b]
  <2>1. b \in 0 .. (N - 1) /\ b \in OptBin
    BY InputAssumption DEF OptBin
  <2>2. at \in 0 .. (NUpReq - 1)
    BY <1>1, ShapeFacts DEF IInv, TypeOK, CounterFitsState
  <2>3. vals \in [0 .. (NUpReq - 1) -> 0 .. (N - 1)]
    BY <2>1, <2>2 DEF IInv, TypeOK
  <2>4. bin_idx' = b /\ preamb_up_vals' = vals
    BY <1>4 DEF DetectSymbol
  <2>5. CASE at + 1 = NUpReq
    <3>1. /\ m_state' = "Sync" /\ symbol_cnt' = 0 /\ additional_upchirps' = 0
          /\ k_hat' \in MostFrequent(vals) /\ Io(n, OS * (N - k_hat'))
      BY <1>4, <2>5 DEF DetectSymbol, NetId1
    <3>2. k_hat' \in 0 .. (N - 1)
      BY <3>1, <2>3 DEF MostFrequent
    <3>3. PICK k \in 0 .. (N - 1) : k = k_hat'
      BY <3>2
    <3>4. OS * (N - k) \in Int /\ 0 <= OS * (N - k) /\ OS * (N - k) <= SPS
      BY AlignmentRange
    <3>5. OS * (N - k) <= n /\ OS * (N - k) >= 2 - 4 * OS
      BY <3>4, <1>1, ShapeFacts
    <3>6. io' \in IoType /\ StepFitsInput'
      BY <3>1, <3>3, <3>4, <3>5, IoStep
    <3>7. TypeOK'
      BY <1>2, <2>1, <2>3, <2>4, <3>1, <3>2, <3>6 DEF TypeOK
    <3>8. CounterFitsState'
      BY <3>1 DEF CounterFitsState, QuarterDown
    <3>9. QED
      BY <3>6, <3>7, <3>8 DEF IInv
  <2>6. CASE at + 1 # NUpReq
    <3>1. /\ m_state' = "Detect" /\ symbol_cnt' = at + 1 /\ Io(n, SPS)
          /\ UNCHANGED <<additional_upchirps, k_hat>>
      BY <1>1, <1>4, <2>6 DEF DetectSymbol
    <3>2. io' \in IoType /\ StepFitsInput'
      BY <3>1, <1>1, IoStep, ShapeFacts
    <3>3. symbol_cnt' \in Nat /\ symbol_cnt' < NUpReq
      BY <3>1, <2>2, <2>6, ShapeFacts
    <3>4. TypeOK'
      BY <1>2, <2>1, <2>3, <2>4, <3>1, <3>2, <3>3 DEF IInv, TypeOK
    <3>5. CounterFitsState'
      BY <3>1, <3>3 DEF CounterFitsState
    <3>6. QED
      BY <3>2, <3>4, <3>5 DEF IInv
  <2>7. QED
    BY <2>5, <2>6
<1>5. QED
  BY <1>3, <1>4 DEF Detect

(***************************************************************************)
(* sync()                                                                  *)
(***************************************************************************)
LEMMA SyncSymbolStep ==
  ASSUME IInv, NEW n \in Nat, NEW s \in Nat, NextIterationPossible(n, s), SyncSymbol(n)
  PROVE  IInv'
<1>1. n >= SPS /\ m_state' = "Sync" /\ SPS \in Nat
  BY ShapeFacts DEF NextIterationPossible, SyncSymbol
<1>2. PICK b \in UpBins \cup {None} :
        /\ bin_idx' = b
        /\ SyncNetId1(n, b) \/ SyncNetId2(n) \/ SyncDownchirp1(n) \/ SyncDownchirp2(n)
  BY DEF SyncSymbol
<1>3. bin_idx' \in OptBin
  BY <1>2, InputAssumption DEF OptBin
<1>4. /\ preamb_up_vals' \in [0 .. (NUpReq - 1) -> 0 .. (N - 1)] /\ k_hat' \in 0 .. (N - 1)
      /\ net_id' \in (0 .. (N - 1)) \X (0 .. (N - 1))
      /\ known' \subseteq NetIds
      /\ ready_to_detect' \in BOOLEAN /\ m_received_head' \in BOOLEAN
      /\ m_symb_numb' \in Nat /\ frame_cnt' \in Nat
      /\ tagq' \in Seq(HeaderMsgType) /\ Len(tagq') <= ChannelCapacity
      /\ pend' \in Seq(TagType) /\ panicked' \in BOOLEAN
  BY DEF SyncSymbol, IInv, TypeOK
<1>5. additional_upchirps' \in 0 .. 3
  BY <1>2 DEF SyncNetId1, SyncNetId2, SyncDownchirp1, SyncDownchirp2, IInv, TypeOK
<1>6. down_val' \in OptBin
  BY <1>2, InputAssumption
     DEF SyncNetId1, SyncNetId2, SyncDownchirp1, SyncDownchirp2, IInv, TypeOK, OptBin
<1>7. symbol_cnt' \in Nat /\ symbol_cnt' <= QuarterDown
  BY <1>2 DEF SyncNetId1, SyncNetId2, SyncDownchirp1, SyncDownchirp2,
              NetId1, NetId2, Downchirp1, Downchirp2, QuarterDown
<1>8. Io(n, SPS) \/ Io(n, SPS - AdditionalSamples)
  BY <1>2 DEF SyncNetId1, SyncNetId2, SyncDownchirp1, SyncDownchirp2
<1>9. io' \in IoType /\ StepFitsInput'
  <2>1. /\ SPS <= n /\ SPS >= 2 - 4 * OS
        /\ SPS - AdditionalSamples \in Int /\ SPS - AdditionalSamples <= n
        /\ SPS - AdditionalSamples >= 2 - 4 * OS
    BY <1>1, ShapeFacts DEF AdditionalSamples
  <2>2. QED
    BY <1>8, <2>1, IoStep, ShapeFacts
<1>10. TypeOK'
  BY <1>1, <1>3, <1>4, <1>5, <1>6, <1>7, <1>9 DEF TypeOK
<1>11. CounterFitsState'
  BY <1>1, <1>7 DEF CounterFitsState
<1>12. QED
  BY <1>9, <1>10, <1>11 DEF IInv

(***************************************************************************)
(* sync_quarter_down()                                                     *)
(***************************************************************************)
\* The part of the guard every decision needs.
LEMMA QuarterDownInput ==
  ASSUME NEW n \in Nat, NEW s \in Nat, NextIterationPossible(n, s),
         m_state = "Sync", symbol_cnt = QuarterDown
  PROVE  /\ n >= SPS + 4
         /\ n >= 3 * (OS * (N \div 4)) + 4 * OS + 2 + (IF SF < 7 THEN 2 * SPS ELSE 0)
<1> DEFINE Q     == OS * (N \div 4)
           extra == IF SF < 7 THEN 2 * SPS ELSE 0
<1>1. Q \in Nat /\ SPS = 4 * Q /\ SPS \div 4 = Q
  BY Quarters
<1>2. extra \in Nat
  BY ShapeFacts
<1>3. OS * (N \div 2 + AdditionalSamples) = 2 * Q + 4 * OS
  BY Quarters, ShapeAssumption DEF AdditionalSamples
<1>4. n >= LargerOf(SPS \div 4 + OS * (N \div 2 + AdditionalSamples) + 2,
                    SPS + AdditionalSamples) + extra
  BY DEF NextIterationPossible, QuarterDownNeed, NetId1, NetId2, Downchirp1, Downchirp2, QuarterDown
<1> HIDE DEF Q, extra
<1>5. n >= LargerOf(Q + (2 * Q + 4 * OS) + 2, SPS + 4) + extra
  BY <1>1, <1>3, <1>4 DEF AdditionalSamples
<1>6. n >= SPS + 4 /\ n >= 3 * Q + 4 * OS + 2 + extra
  BY <1>1, <1>2, <1>5, ShapeFacts DEF LargerOf
<1>7. QED
  BY <1>6 DEF Q, extra

\* What is consumed with an accepted frame, whatever the offsets.
LEMMA QuarterDownRange ==
  ASSUME NEW n \in Nat, NEW s \in Nat, NextIterationPossible(n, s),
         m_state = "Sync", symbol_cnt = QuarterDown, down_val \in 0 .. (N - 1),
         NEW off \in -3 .. 3, NEW shift \in {OS * off, -(OS * off)},
         NEW w1 \in {-1, 0, 1}, NEW w2 \in {-1, 0, 1}
  PROVE  /\ QuarterDownConsume(shift, w1, w2) \in Int
         /\ QuarterDownConsume(shift, w1, w2) <= n
         /\ QuarterDownConsume(shift, w1, w2) >= 2 - 4 * OS
<1> DEFINE Q     == OS * (N \div 4)
           C     == OS * CfoInt(down_val)
           extra == IF SF < 7 THEN 2 * SPS ELSE 0
<1>1. Q \in Nat /\ SPS \div 4 = Q /\ Q >= 8 * OS
  BY Quarters
<1>2. extra \in Nat
  BY ShapeFacts
<1>3. C \in Int /\ -Q <= C /\ C <= Q - OS
  BY CfoRange
<1>4. n >= 3 * Q + 4 * OS + 2 + extra
  BY QuarterDownInput
<1>5. shift \in Int /\ -(3 * OS) <= shift /\ shift <= 3 * OS
  BY ShapeAssumption
<1>6. QuarterDownConsume(shift, w1, w2) = 4 + w1 + shift + SPS \div 4 + C - OS + w2 + extra
  BY DEF QuarterDownConsume, AdditionalSamples
<1> HIDE DEF Q, C, extra
<1>7. QuarterDownConsume(shift, w1, w2) = 4 + (w1 + w2) + shift + Q + C - OS + extra
  BY <1>1, <1>2, <1>3, <1>5, <1>6, ShapeFacts
<1>8. w1 + w2 \in -2 .. 2
  OBVIOUS
<1>9. QED
  BY <1>1, <1>2, <1>3, <1>4, <1>5, <1>7, <1>8, ShapeFacts

\* A panic changes nothing that the invariant is about.
LEMMA PanicStep ==
  ASSUME IInv, Panic, io' \in IoType, StepFitsInput'
  PROVE  IInv'
<1>1. TypeOK /\ CounterFitsState /\ panicked' \in BOOLEAN
  BY DEF IInv, Panic
<1>2. TypeOK'
  BY <1>1 DEF Panic, TypeOK
<1>3. CounterFitsState'
  BY <1>1 DEF Panic, CounterFitsState
<1>4. QED
  BY <1>2, <1>3 DEF IInv

LEMMA WorkPanics ==
  ASSUME IInv, NEW n \in Nat, Panic, Io(n, 0)
  PROVE  IInv'
<1>1. 0 <= n /\ 0 >= 2 - 4 * OS
  BY ShapeFacts
<1>2. io' \in IoType /\ StepFitsInput'
  BY <1>1, IoStep
<1>3. QED
  BY <1>2, PanicStep

LEMMA HandlerPanics ==
  ASSUME IInv, Panic, UNCHANGED io
  PROVE  IInv'
<1>1. io' \in IoType /\ StepFitsInput'
  BY DEF IInv, TypeOK, StepFitsInput
<1>2. QED
  BY <1>1, PanicStep

LEMMA AbandonStep ==
  ASSUME IInv, NEW n \in Nat, NEW keep \in BOOLEAN, NEW b \in OptBin,
         NEW c \in Int, c <= n, c >= 2 - 4 * OS,
         NEW id \in (0 .. (N - 1)) \X (0 .. (N - 1)), Abandon(n, keep, b, c, id),
         UNCHANGED <<additional_upchirps, down_val, m_symb_numb>>
  PROVE  IInv'
<1>1. TypeOK
  BY DEF IInv
<1>2. Reset(keep, b) /\ Io(n, c) /\ net_id' = id
      /\ UNCHANGED <<known, m_received_head, frame_cnt, pend, panicked>>
  BY DEF Abandon
<1>3. /\ m_state' = "Detect" /\ symbol_cnt' \in Nat /\ symbol_cnt' < NUpReq
      /\ bin_idx' \in OptBin
      /\ preamb_up_vals' \in [0 .. (NUpReq - 1) -> 0 .. (N - 1)]
      /\ k_hat' \in 0 .. (N - 1)
      /\ tagq' \in Seq(HeaderMsgType) /\ Len(tagq') <= ChannelCapacity
      /\ ready_to_detect' \in BOOLEAN
  BY <1>1, <1>2, ResetStep
<1>4. io' \in IoType /\ StepFitsInput'
  BY <1>2, IoStep
<1>5. TypeOK'
  BY <1>1, <1>2, <1>3, <1>4 DEF TypeOK
<1>6. CounterFitsState'
  BY <1>3 DEF CounterFitsState
<1>7. QED
  BY <1>4, <1>5, <1>6 DEF IInv

LEMMA AcceptStep ==
  ASSUME IInv, NEW cnt \in {NetId1, NetId2}, NEW b \in OptBin,
         NEW id \in (0 .. (N - 1)) \X (0 .. (N - 1)), Accept(cnt, b, id),
         known' = known \/ (id \in NetIds /\ known' = known \cup {id}),
         pend' \in Seq(TagType), io' \in IoType, StepFitsInput',
         UNCHANGED <<additional_upchirps, down_val, m_symb_numb>>
  PROVE  IInv'
<1>1. TypeOK
  BY DEF IInv
<1>2. /\ m_state' = "SfoCompensation" /\ symbol_cnt' = cnt /\ bin_idx' = b /\ net_id' = id
      /\ m_received_head' = FALSE /\ frame_cnt' = frame_cnt + 1
      /\ UNCHANGED <<preamb_up_vals, k_hat, ready_to_detect, tagq, panicked>>
  BY DEF Accept
<1>3. symbol_cnt' \in Nat /\ frame_cnt' \in Nat
  BY <1>1, <1>2 DEF NetId1, NetId2, TypeOK
<1>4. known' \subseteq NetIds
  BY <1>1 DEF TypeOK
<1>5. TypeOK'
  BY <1>1, <1>2, <1>3, <1>4 DEF TypeOK
<1>6. CounterFitsState'
  BY <1>2 DEF CounterFitsState
<1>7. QED
  BY <1>5, <1>6 DEF IInv

LEMMA PendWithHeaderTag ==
  ASSUME IInv, frame_cnt' = frame_cnt + 1
  PROVE  Append(pend, HeaderTag(frame_cnt')) \in Seq(TagType)
<1>1. pend \in Seq(TagType) /\ frame_cnt' \in Nat
  BY DEF IInv, TypeOK
<1>2. HeaderTag(frame_cnt') \in TagType
  BY <1>1, HeaderTagType
<1>3. QED
  BY <1>1, <1>2

LEMMA ClassifyNetIdStep ==
  ASSUME IInv, NEW n \in Nat, NEW s \in Nat, NextIterationPossible(n, s),
         m_state = "Sync", symbol_cnt = QuarterDown, down_val # None,
         NEW b \in OptBin,
         NEW w1 \in {-1, 0, 1}, NEW w2 \in {-1, 0, 1}, NEW r \in -OS .. OS,
         NEW v0 \in IdBins, NEW v1 \in IdBins, NEW v2 \in IdBins \cup {None},
         ClassifyNetId(n, s, b, w1, w2, r, v0, v1, v2),
         UNCHANGED <<additional_upchirps, down_val, m_symb_numb>>
  PROVE  IInv'
<1> DEFINE off    == NetIdOff(v0)
           id     == <<Aligned(v0, v0), Aligned(v1, v0)>>
           resync == AdditionalSamples + w1
<1>1. v0 \in 0 .. (N - 1) /\ v1 \in 0 .. (N - 1) /\ down_val \in 0 .. (N - 1)
  BY InputAssumption DEF IInv, TypeOK, OptBin
<1>2. /\ Aligned(v0, v0) \in 0 .. (N - 1) /\ Aligned(v1, v0) \in 0 .. (N - 1)
      /\ Aligned(v0, v0) \in 0 .. 255 /\ Aligned(v1, v0) \in 0 .. 255
  BY <1>1, AlignedRange
<1>3. id \in (0 .. (N - 1)) \X (0 .. (N - 1)) /\ id[1] \in 0 .. (N - 1) /\ id \in NetIds
  BY <1>2 DEF NetIds
<1>4. /\ 0 <= n /\ 0 >= 2 - 4 * OS
      /\ resync \in Int /\ resync <= n /\ resync >= 2 - 4 * OS
  BY QuarterDownInput, ShapeFacts DEF AdditionalSamples
<1>5. ASSUME NEW c \in {0, resync}, NEW pair \in (0 .. (N - 1)) \X (0 .. (N - 1)),
             Abandon(n, TRUE, b, c, pair)
      PROVE  IInv'
  <2>1. c \in Int /\ c <= n /\ c >= 2 - 4 * OS
    BY <1>4
  <2>2. QED
    BY <2>1, <1>5, AbandonStep
<1>6. CASE OffRaw(v0) = 4
  <2>1. Abandon(n, TRUE, b, 0, <<v0, v1>>)
    BY <1>6 DEF ClassifyNetId
  <2>2. <<v0, v1>> \in (0 .. (N - 1)) \X (0 .. (N - 1))
    BY <1>1
  <2>3. QED
    BY <2>1, <2>2, <1>5
<1>7. CASE OffRaw(v0) # 4 /\ Abandon(n, TRUE, b, 0, id)
  BY <1>3, <1>7, <1>5
<1>8. CASE Abandon(n, TRUE, b, resync, <<id[1], id[1]>>)
  <2>1. <<id[1], id[1]>> \in (0 .. (N - 1)) \X (0 .. (N - 1))
    BY <1>3
  <2>2. QED
    BY <2>1, <1>8, <1>5
<1>9. CASE OffRaw(v0) # 4 /\ AcceptMatching(n, b, id, off, w1, w2)
  <2>1. off \in -3 .. 3
    BY <1>1, <1>9, OffsetRange
  <2> DEFINE c == QuarterDownConsume(-(OS * off), w1, w2)
  <2>2. c \in Int /\ c <= n /\ c >= 2 - 4 * OS
    BY <1>1, <2>1, QuarterDownRange
  <2> HIDE DEF c
  <2>3. Io(n, c) /\ Accept(NetId1, b, id) /\ pend' = Append(pend, HeaderTag(frame_cnt'))
    BY <1>9 DEF AcceptMatching, c
  <2>4. io' \in IoType /\ StepFitsInput'
    BY <2>2, <2>3, IoStep
  <2>5. pend' \in Seq(TagType)
    BY <2>3, PendWithHeaderTag DEF Accept
  <2>6. known' = known \/ (id \in NetIds /\ known' = known \cup {id})
    BY <1>3, <1>9 DEF AcceptMatching, CacheNetId
  <2>7. QED
    BY <1>3, <2>3, <2>4, <2>5, <2>6, AcceptStep
<1>10. CASE OffRaw(v0) # 4 /\ v2 # None /\ AcceptOneSymbolOff(n, b, id, off, w1, w2, v2)
  <2>1. off \in -3 .. 3
    BY <1>1, <1>10, OffsetRange
  <2> DEFINE c    == QuarterDownConsume(OS * off, w1, w2)
             tags == Append(pend, HeaderTag(frame_cnt'))
  <2>2. c \in Int /\ c <= n /\ c >= 2 - 4 * OS
    BY <1>1, <2>1, QuarterDownRange
  <2> HIDE DEF c
  <2>3. IoSymbol(n, c, tags) /\ Accept(NetId2, b, <<v2, id[1]>>) /\ known' = known
    BY <1>10 DEF AcceptOneSymbolOff, c
  <2>4. tags \in Seq(TagType)
    BY <2>3, PendWithHeaderTag DEF Accept
  <2> HIDE DEF tags
  <2>5. io' \in IoType /\ StepFitsInput' /\ pend' = <<>>
    BY <2>2, <2>3, <2>4, IoSymbolStep
  <2>6. <<v2, id[1]>> \in (0 .. (N - 1)) \X (0 .. (N - 1))
    BY <1>3, <1>10, InputAssumption
  <2>7. pend' \in Seq(TagType)
    BY <2>5
  <2>8. QED
    BY <2>3, <2>5, <2>6, <2>7, AcceptStep
<1>11. \/ OffRaw(v0) = 4
       \/ OffRaw(v0) # 4 /\ Abandon(n, TRUE, b, 0, id)
       \/ OffRaw(v0) # 4 /\ AcceptMatching(n, b, id, off, w1, w2)
       \/ Abandon(n, TRUE, b, resync, <<id[1], id[1]>>)
       \/ Panic /\ Io(n, 0)
       \/ OffRaw(v0) # 4 /\ v2 # None /\ AcceptOneSymbolOff(n, b, id, off, w1, w2, v2)
  BY DEF ClassifyNetId
<1>12. CASE Panic /\ Io(n, 0)
  BY <1>4, <1>12, WorkPanics
<1>13. QED
  BY <1>6, <1>7, <1>8, <1>9, <1>10, <1>11, <1>12

LEMMA SyncQuarterDownStep ==
  ASSUME IInv, NEW n \in Nat, NEW s \in Nat, NextIterationPossible(n, s), SyncQuarterDown(n, s)
  PROVE  IInv'
<1> DEFINE unchanged == UNCHANGED <<additional_upchirps, down_val, m_symb_numb>>
<1>1. m_state = "Sync" /\ symbol_cnt = QuarterDown /\ unchanged
  BY DEF SyncQuarterDown
<1>2. n >= SPS + 4 /\ SPS \in Nat /\ SPS >= 32
  BY <1>1, QuarterDownInput, ShapeFacts
<1>3. net_id \in (0 .. (N - 1)) \X (0 .. (N - 1))
  BY DEF IInv, TypeOK
<1>4. ASSUME NEW b \in OptBin, Abandon(n, FALSE, b, SPS, net_id) PROVE IInv'
  <2>1. SPS \in Int /\ SPS <= n /\ SPS >= 2 - 4 * OS
    BY <1>2, ShapeFacts
  <2>2. QED
    BY <1>1, <1>3, <1>4, <2>1, AbandonStep
<1>5. ASSUME NEW b \in OptBin, NEW w1 \in {-1, 0, 1}, NEW id \in (0 .. (N - 1)) \X (0 .. (N - 1)),
             Abandon(n, TRUE, b, AdditionalSamples + w1, id)
      PROVE  IInv'
  <2>1. /\ AdditionalSamples + w1 \in Int /\ AdditionalSamples + w1 <= n
        /\ AdditionalSamples + w1 >= 2 - 4 * OS
    BY <1>2, ShapeFacts DEF AdditionalSamples
  <2>2. QED
    BY <1>1, <1>5, <2>1, AbandonStep
<1>6. PICK b \in OptBin :
        IF down_val = None
          THEN Abandon(n, FALSE, b, SPS, net_id)
          ELSE \E sfo \in {-1, 1} : \E w1, w2 \in {0, sfo} :
                 /\ sfo * CfoInt(down_val) >= 0
                 /\ \/ Abandon(n, TRUE, b, AdditionalSamples + w1, net_id)
                    \/ \E v0 \in IdBins :
                         Abandon(n, TRUE, b, AdditionalSamples + w1, <<v0, net_id[2]>>)
                    \/ \E v0, v1 \in IdBins, v2 \in IdBins \cup {None}, r \in -OS .. OS :
                         ClassifyNetId(n, s, b, w1, w2, r, v0, v1, v2)
  BY InputAssumption DEF SyncQuarterDown, OptBin
<1>7. CASE down_val = None
  BY <1>4, <1>6, <1>7
<1>8. CASE down_val # None
  <2>1. PICK w1 \in {-1, 0, 1}, w2 \in {-1, 0, 1} :
          \/ Abandon(n, TRUE, b, AdditionalSamples + w1, net_id)
          \/ \E v0 \in IdBins :
               Abandon(n, TRUE, b, AdditionalSamples + w1, <<v0, net_id[2]>>)
          \/ \E v0, v1 \in IdBins, v2 \in IdBins \cup {None}, r \in -OS .. OS :
               ClassifyNetId(n, s, b, w1, w2, r, v0, v1, v2)
    <3>1. PICK sfo \in {-1, 1} : \E w1, w2 \in {0, sfo} :
             \/ Abandon(n, TRUE, b, AdditionalSamples + w1, net_id)
             \/ \E v0 \in IdBins :
                  Abandon(n, TRUE, b, AdditionalSamples + w1, <<v0, net_id[2]>>)
             \/ \E v0, v1 \in IdBins, v2 \in IdBins \cup {None}, r \in -OS .. OS :
                  ClassifyNetId(n, s, b, w1, w2, r, v0, v1, v2)
      BY <1>6, <1>8
    <3>2. {0, sfo} \subseteq {-1, 0, 1}
      BY <3>1
    <3>3. QED
      BY <3>1, <3>2
  <2>2. CASE Abandon(n, TRUE, b, AdditionalSamples + w1, net_id)
    BY <1>3, <1>5, <2>2
  <2>3. ASSUME NEW v0 \in IdBins, Abandon(n, TRUE, b, AdditionalSamples + w1, <<v0, net_id[2]>>)
        PROVE  IInv'
    <3>1. <<v0, net_id[2]>> \in (0 .. (N - 1)) \X (0 .. (N - 1))
      BY <1>3, InputAssumption
    <3>2. QED
      BY <1>5, <2>3, <3>1
  <2>4. ASSUME NEW v0 \in IdBins, NEW v1 \in IdBins, NEW v2 \in IdBins \cup {None},
               NEW r \in -OS .. OS,
               ClassifyNetId(n, s, b, w1, w2, r, v0, v1, v2)
        PROVE  IInv'
    BY <1>1, <1>8, <2>1, <2>4, ClassifyNetIdStep
  <2>5. QED
    BY <2>1, <2>2, <2>3, <2>4
<1>9. QED
  BY <1>7, <1>8

(***************************************************************************)
(* compensate_sfo()                                                        *)
(***************************************************************************)
LEMMA CompensateSfoStep ==
  ASSUME IInv, NEW n \in Nat, NEW s \in Nat, NextIterationPossible(n, s), CompensateSfo(n)
  PROVE  IInv'
<1> DEFINE new  == IF tagq = <<>> THEN <<>> ELSE <<PayloadTag(Head(tagq))>>
           rest == Pop(tagq)
<1>1. /\ m_state = "SfoCompensation" /\ n > SPS /\ SPS \in Nat /\ SPS >= 32
      /\ tagq \in Seq(HeaderMsgType) /\ Len(tagq) <= ChannelCapacity
      /\ pend \in Seq(TagType) /\ symbol_cnt \in Nat
  BY ShapeFacts DEF NextIterationPossible, CompensateSfo, IInv, TypeOK
<1>2. new \in Seq(TagType)
  <2>1. CASE tagq = <<>>
    BY <2>1
  <2>2. CASE tagq # <<>>
    <3>1. Head(tagq) \in HeaderMsgType
      BY <1>1, <2>2, HeadTailProperties
    <3>2. PayloadTag(Head(tagq)) \in TagType
      BY <3>1, PayloadTagType
    <3>3. QED
      BY <2>2, <3>2
  <2>3. QED
    BY <2>1, <2>2
<1>3. rest \in Seq(HeaderMsgType) /\ Len(rest) <= ChannelCapacity
  BY <1>1, PoppedQueue DEF Pop
<1> HIDE DEF new, rest
<1>4. pend \o new \in Seq(TagType)
  BY <1>1, <1>2
<1>5. /\ additional_upchirps' \in 0 .. 3 /\ down_val' \in OptBin
      /\ net_id' \in (0 .. (N - 1)) \X (0 .. (N - 1))
      /\ known' \subseteq NetIds
      /\ m_received_head' \in BOOLEAN /\ m_symb_numb' \in Nat /\ frame_cnt' \in Nat
      /\ panicked' \in BOOLEAN
  BY DEF CompensateSfo, IInv, TypeOK
<1>6. CASE symbol_cnt < HeaderSymbols \/ (symbol_cnt < m_symb_numb /\ m_received_head)
  <2>1. /\ \E w \in {-1, 0, 1} : IoSymbol(n, SPS - w, pend \o new)
        /\ symbol_cnt' = symbol_cnt + 1 /\ tagq' = rest
        /\ UNCHANGED <<m_state, bin_idx, preamb_up_vals, k_hat, ready_to_detect>>
    BY <1>6 DEF CompensateSfo, new, rest
  <2>2. PICK w \in {-1, 0, 1} : IoSymbol(n, SPS - w, pend \o new)
    BY <2>1
  <2>3. SPS - w \in Int /\ SPS - w <= n /\ SPS - w >= 2 - 4 * OS
    BY <1>1, ShapeFacts
  <2>4. io' \in IoType /\ StepFitsInput' /\ pend' = <<>>
    BY <1>4, <2>2, <2>3, IoSymbolStep
  <2>5. pend' \in Seq(TagType) /\ symbol_cnt' \in Nat
    BY <1>1, <2>1, <2>4
  <2>6. TypeOK'
    BY <1>3, <1>5, <2>1, <2>4, <2>5 DEF IInv, TypeOK
  <2>7. CounterFitsState'
    BY <1>1, <2>1 DEF CounterFitsState
  <2>8. QED
    BY <2>4, <2>6, <2>7 DEF IInv
<1>7. CASE ~(symbol_cnt < HeaderSymbols \/ (symbol_cnt < m_symb_numb /\ m_received_head))
  <2>1. /\ Io(n, SPS) /\ pend' = pend \o new /\ m_state' = "Detect" /\ symbol_cnt' = NetId1
        /\ bin_idx' = None /\ k_hat' = 0 /\ preamb_up_vals' = preamb_up_vals
        /\ tagq' = Pop(rest) /\ ready_to_detect' = TRUE
    BY <1>7 DEF CompensateSfo, new, rest
  <2>2. tagq' \in Seq(HeaderMsgType) /\ Len(tagq') <= ChannelCapacity
    BY <1>3, <2>1, PoppedQueue DEF Pop
  <2>3. SPS \in Int /\ SPS <= n /\ SPS >= 2 - 4 * OS
    BY <1>1, ShapeFacts
  <2>4. io' \in IoType /\ StepFitsInput'
    BY <2>1, <2>3, IoStep
  <2>5. bin_idx' \in OptBin /\ k_hat' \in 0 .. (N - 1) /\ symbol_cnt' = 0
    BY <2>1, ShapeFacts DEF OptBin, NetId1
  <2>6. /\ m_state' = "Detect" /\ pend' \in Seq(TagType) /\ ready_to_detect' \in BOOLEAN
        /\ preamb_up_vals' \in [0 .. (NUpReq - 1) -> 0 .. (N - 1)]
    BY <1>4, <2>1, Zenon DEF IInv, TypeOK
  <2>7. TypeOK'
    BY <1>5, <2>2, <2>4, <2>5, <2>6 DEF TypeOK
  <2>8. CounterFitsState'
    BY <2>1, <2>5, ShapeFacts DEF CounterFitsState
  <2>9. QED
    BY <2>4, <2>7, <2>8 DEF IInv
<1>8. QED
  BY <1>6, <1>7

(***************************************************************************)
(* The message handlers, at any moment and with any message.               *)
(***************************************************************************)
\* A reset from a handler.
LEMMA HandlerReset ==
  ASSUME IInv, Reset(FALSE, bin_idx),
         UNCHANGED <<additional_upchirps, down_val, net_id, known, m_received_head,
                     m_symb_numb, frame_cnt, pend, io, panicked>>
  PROVE  IInv'
<1>1. TypeOK /\ StepFitsInput /\ bin_idx \in OptBin
  BY DEF IInv, TypeOK
<1>2. /\ m_state' = "Detect" /\ symbol_cnt' \in Nat /\ symbol_cnt' < NUpReq
      /\ bin_idx' \in OptBin
      /\ preamb_up_vals' \in [0 .. (NUpReq - 1) -> 0 .. (N - 1)]
      /\ k_hat' \in 0 .. (N - 1)
      /\ tagq' \in Seq(HeaderMsgType) /\ Len(tagq') <= ChannelCapacity
      /\ ready_to_detect' \in BOOLEAN
  BY <1>1, ResetStep
<1>3. TypeOK'
  BY <1>1, <1>2 DEF TypeOK
<1>4. CounterFitsState' /\ StepFitsInput'
  BY <1>1, <1>2 DEF CounterFitsState, StepFitsInput
<1>5. QED
  BY <1>3, <1>4 DEF IInv

LEMMA PayloadCrcHandled ==
  ASSUME IInv, NEW v \in BOOLEAN, PayloadCrcResult(v)
  PROVE  IInv'
<1>1. TypeOK /\ CounterFitsState /\ StepFitsInput /\ UNCHANGED io
  BY DEF IInv, PayloadCrcResult
<1>2. CASE Policy = "PayloadCrcOk" /\ v /\ net_id \notin NetIds
  BY <1>1, <1>2, HandlerPanics DEF PayloadCrcResult
<1>3. CASE ~(Policy = "PayloadCrcOk" /\ v /\ net_id \notin NetIds)
  <2>1. TakePayloadCrc(v)
    BY <1>3 DEF PayloadCrcResult
  <2>2. /\ known' = known \/ (net_id \in NetIds /\ known' = known \cup {net_id})
        /\ ready_to_detect' \in BOOLEAN
        /\ UNCHANGED <<m_state, symbol_cnt, bin_idx, preamb_up_vals, k_hat,
                       additional_upchirps, down_val, net_id, m_received_head,
                       m_symb_numb, frame_cnt, tagq, pend, panicked>>
    BY <1>1, <1>3, <2>1 DEF TakePayloadCrc, CacheNetId, TypeOK
  <2>3. known' \subseteq NetIds
    BY <1>1, <2>2 DEF TypeOK
  <2>4. TypeOK'
    BY <1>1, <2>2, <2>3 DEF TypeOK
  <2>5. CounterFitsState' /\ StepFitsInput'
    BY <1>1, <2>2 DEF CounterFitsState, StepFitsInput
  <2>6. QED
    BY <2>4, <2>5 DEF IInv
<1>4. QED
  BY <1>2, <1>3

LEMMA FrameInfoHandled ==
  ASSUME IInv, NEW m \in HeaderMsgType, FrameInfo(m)
  PROVE  IInv'
<1>1. TypeOK /\ CounterFitsState /\ StepFitsInput
  BY DEF IInv
<1>2. CASE FrameInfoBad(m)
  BY <1>2, HandlerReset DEF FrameInfo, FrameInfoBad
<1>3. CASE FrameInfoGood(m)
  <2>1. /\ known' = known \/ (net_id \in NetIds /\ known' = known \cup {net_id})
        /\ ready_to_detect' \in BOOLEAN
        /\ m_symb_numb' = SymbNumb(m) /\ m_received_head' = TRUE
        /\ Len(tagq) < ChannelCapacity /\ tagq' = Append(tagq, m)
        /\ UNCHANGED <<m_state, symbol_cnt, bin_idx, preamb_up_vals, k_hat,
                       additional_upchirps, down_val, net_id, frame_cnt, pend, io,
                       panicked>>
    <3>1. Len(tagq) \in Nat
      BY <1>1 DEF TypeOK
    <3>2. Len(tagq) < ChannelCapacity /\ (Policy = "HeaderCrcOk" => net_id \in NetIds)
      BY <1>3, <3>1 DEF FrameInfoGood, CannotTakeHeader, ChannelCapacity
    <3>3. known' = known \/ (net_id \in NetIds /\ known' = known \cup {net_id})
      BY <1>3, <3>2 DEF FrameInfoGood, CacheNetId
    <3>4. ready_to_detect' \in BOOLEAN
      BY <1>1, <1>3, Zenon DEF FrameInfoGood, TypeOK
    <3>5. QED
      BY <1>3, <3>2, <3>3, <3>4 DEF FrameInfo, FrameInfoGood
  <2>2. known' \subseteq NetIds
    BY <1>1, <2>1 DEF TypeOK
  <2>3. m_symb_numb' \in Nat
    BY <1>1, <2>1, HeaderSymbNumb
  <2>4. tagq' \in Seq(HeaderMsgType) /\ Len(tagq') <= ChannelCapacity
    <3>1. tagq \in Seq(HeaderMsgType) /\ Len(tagq) \in Nat
      BY <1>1 DEF TypeOK
    <3>2. Append(tagq, m) \in Seq(HeaderMsgType) /\ Len(Append(tagq, m)) = Len(tagq) + 1
      BY <1>1, <3>1, AppendProperties
    <3>3. QED
      BY <2>1, <3>1, <3>2 DEF ChannelCapacity
  <2>5. TypeOK'
    BY <1>1, <2>1, <2>2, <2>3, <2>4 DEF TypeOK
  <2>6. CounterFitsState' /\ StepFitsInput'
    BY <1>1, <2>1 DEF CounterFitsState, StepFitsInput
  <2>7. QED
    BY <2>5, <2>6 DEF IInv
<1>4. CASE FrameInfoPanics(m)
  BY <1>4, HandlerPanics DEF FrameInfo, FrameInfoPanics
<1>5. QED
  BY <1>2, <1>3, <1>4 DEF FrameInfo

(***************************************************************************)
(* The invariant.                                                          *)
(***************************************************************************)
LEMMA InitHolds == Init => IInv
<1> SUFFICES ASSUME Init PROVE IInv
  OBVIOUS
<1>1. TypeOK
  <2>1. known \subseteq NetIds
    BY InputAssumption DEF Init, NetIds
  <2>2. /\ symbol_cnt \in Nat /\ bin_idx \in OptBin /\ down_val \in OptBin
        /\ preamb_up_vals \in [0 .. (NUpReq - 1) -> 0 .. (N - 1)]
        /\ k_hat \in 0 .. (N - 1) /\ net_id \in (0 .. (N - 1)) \X (0 .. (N - 1))
    BY ShapeFacts DEF Init, NetId1, OptBin
  <2>3. tagq \in Seq(HeaderMsgType) /\ Len(tagq) <= ChannelCapacity /\ pend \in Seq(TagType)
    BY DEF Init, ChannelCapacity
  <2>4. io \in IoType
    <3>1. <<>> \in Seq(TagType)
      OBVIOUS
    <3>2. QED
      BY <3>1 DEF Init, IoType
  <2>5. /\ m_state = "Detect" /\ additional_upchirps \in 0 .. 3
        /\ m_symb_numb \in Nat /\ frame_cnt \in Nat
    BY DEF Init
  <2>6. ready_to_detect \in BOOLEAN /\ m_received_head \in BOOLEAN /\ panicked \in BOOLEAN
    BY Zenon DEF Init
  <2>7. QED
    BY <2>1, <2>2, <2>3, <2>4, <2>5, <2>6 DEF TypeOK
<1>2. CounterFitsState
  BY ShapeFacts DEF Init, CounterFitsState, NetId1
<1>3. StepFitsInput
  BY ShapeFacts DEF Init, StepFitsInput
<1>4. QED
  BY <1>1, <1>2, <1>3 DEF IInv

LEMMA WorkStep == IInv /\ Work => IInv'
<1> SUFFICES ASSUME IInv, Work PROVE IInv'
  OBVIOUS
<1>1. PICK n \in Nat, s \in Nat :
        /\ NextIterationPossible(n, s)
        /\ Detect(n) \/ SyncSymbol(n) \/ SyncQuarterDown(n, s) \/ CompensateSfo(n)
  BY InputAssumption DEF Work
<1>2. CASE Detect(n)
  BY <1>1, <1>2, DetectStep
<1>3. CASE SyncSymbol(n)
  BY <1>1, <1>3, SyncSymbolStep
<1>4. CASE SyncQuarterDown(n, s)
  BY <1>1, <1>4, SyncQuarterDownStep
<1>5. CASE CompensateSfo(n)
  BY <1>1, <1>5, CompensateSfoStep
<1>6. QED
  BY <1>1, <1>2, <1>3, <1>4, <1>5

LEMMA NextStep == IInv /\ [Next]_vars => IInv'
<1> SUFFICES ASSUME IInv, [Next]_vars PROVE IInv'
  OBVIOUS
<1>1. CASE Work
  BY <1>1, WorkStep
<1>2. CASE Retune
  BY <1>2, HandlerReset DEF Retune
<1>3. ASSUME NEW v \in BOOLEAN, PayloadCrcResult(v) PROVE IInv'
  BY <1>3, PayloadCrcHandled
<1>4. ASSUME NEW m \in HeaderMsgs, FrameInfo(m) PROVE IInv'
  BY <1>4, FrameInfoHandled, InputAssumption
<1>5. CASE UNCHANGED vars
  BY <1>5 DEF vars, IInv, TypeOK, CounterFitsState, StepFitsInput
<1>6. QED
  BY <1>1, <1>2, <1>3, <1>4, <1>5 DEF Next

\* Every reachable state satisfies the inductive invariant.
THEOREM Invariance == Spec => []IInv
<1>1. QED
  BY InitHolds, NextStep, PTL DEF Spec

(***************************************************************************)
(* The results.                                                            *)
(***************************************************************************)
\* The variables of the block keep their types, whatever messages its handlers
\* get in between: indices stay bins, a net id is only cached where the tables of
\* 256 entries have one (otherwise the task panics, which the model shows as
\* such), and the tag channel never holds more than its capacity.
THEOREM TypeCorrect == Spec => []TypeOK
<1>1. IInv => TypeOK
  BY DEF IInv
<1>2. QED
  BY <1>1, Invariance, PTL

\* The shared counter symbol_cnt is always in the range of the outer state: no
\* index into the preamble buffers is out of range and next_iteration_possible
\* never meets a value that is no SyncState.
THEOREM CounterFits == Spec => []CounterFitsState
<1>1. IInv => CounterFitsState
  BY DEF IInv
<1>2. QED
  BY <1>1, Invariance, PTL

\* The slices of the preamble buffers are in bounds for every alignment, CFO and
\* number of extra upchirps.
THEOREM SlicesStayInBounds == Spec => []SlicesInBounds
<1>1. IInv => SlicesInBounds
  BY TypedSlices DEF IInv
<1>2. QED
  BY <1>1, Invariance, PTL

\* No call of work() takes more samples than next_iteration_possible() made sure
\* of, and none moves back by more than 4 * OS - 2 samples.
THEOREM StepsFit == Spec => []StepFitsInput
<1>1. IInv => StepFitsInput
  BY DEF IInv
<1>2. QED
  BY <1>1, Invariance, PTL

=============================================================================
