------------------------- MODULE RxPipeline_proofs -------------------------
(***************************************************************************)
(* Proofs about the pipeline of bounded buffers: for buffers of any size   *)
(* the chain holds one payload and one header at most, and every nibble is *)
(* decoded with the rate of its own frame; no block writes beyond buffers  *)
(* that hold the longest payload and a header.                             *)
(***************************************************************************)
EXTENDS RxPipeline, FrameShape_proofs, SequenceTheorems, WellFoundedInduction

(***************************************************************************)
(* The line of symbols from FrameSync to the Deinterleaver.                *)
(***************************************************************************)
SymbolId == Nat \X BOOLEAN
TagType  == [is_header : BOOLEAN, cr : Nat, frame : Nat]
SymType  == [frame : SymbolId, tags : Seq(TagType)]
ItemType == [frame : SymbolId, tag : Seq(TagType)]
CodeType == [origin : SUBSET SymbolId, tag : Seq(TagType)]
NibType  == [origin : SUBSET SymbolId, tag : Seq(TagType), rate : Nat]

AsItems(symbols) ==
  [i \in 1 .. Len(symbols) |-> [frame |-> symbols[i].frame, tag |-> symbols[i].tags]]
LineOf(front, middle, block, tag, symbols) ==
  front \o middle \o FD!TaggedBlock(block, tag) \o AsItems(symbols)
Line == LineOf(grays, words, fd_out, fd_frame_info, sync_out)

IsHdr(x) == x.tag # <<>> /\ x.tag[1].is_header
IsPay(x) == x.tag # <<>> /\ ~x.tag[1].is_header

\* The payload of the last frame whose header is known, its tag in front if it has not
\* passed, and behind it the header of the current frame, as much as was written.
Shape(l) ==
  /\ \A k \in 1 .. Len(l) : IsPay(l[k]) => k = 1 /\ l[k].tag[1].cr = rates[Len(rates)]
  /\ \A k \in 1 .. Len(l) : IsHdr(l[k]) => Len(l) - k + 1 = symbol_cnt /\ ~received_head
  /\ \A k \in 1 .. Len(l) :
       \/ l[k].frame = <<frame_cnt, TRUE>> /\ \E j \in 1 .. k : IsHdr(l[j])
       \/ /\ l[k].frame = <<Len(rates), FALSE>> /\ Len(rates) > 0
          /\ \A j \in 1 .. k : ~IsHdr(l[j])

\* How many there are.
Payload == IF symb_numb > HeaderSymbols THEN symb_numb - HeaderSymbols ELSE 0
Fits(l) ==
  IF received_head THEN Len(l) + HeaderSymbols <= symbol_cnt
  ELSE Len(l) <= Payload + symbol_cnt

\* The header is in the line for as long as it is not complete.
Begun(l) ==
  ~received_head /\ symbol_cnt \in 1 .. HeaderSymbols - 1 => \E k \in 1 .. Len(l) : IsHdr(l[k])

LineInv(l) == Shape(l) /\ Fits(l) /\ Begun(l)

CountInv ==
  /\ frame_cnt = Len(rates) + (IF received_head THEN 0 ELSE 1)
  /\ ~received_head => symbol_cnt <= HeaderSymbols
  /\ received_head => /\ symbol_cnt >= HeaderSymbols
                      /\ symbol_cnt > HeaderSymbols => symbol_cnt < symb_numb

(***************************************************************************)
(* Where the header of the current frame is: in FftDemod's block or behind *)
(* it until it is complete, then anywhere in front of it; when the         *)
(* Deinterleaver has taken it, nothing is left in the line, and the answer *)
(* comes when the HeaderDecoder has taken it.                              *)
(***************************************************************************)
DemodInv ==
  /\ fd_out = <<>> => fd_frame_info = <<>>
  /\ fd_frame_info # <<>> /\ fd_frame_info[1].is_header =>
       fd_is_header /\ Len(fd_out) < HeaderSymbols
  /\ \A k \in 1 .. Len(grays) + Len(words) : IsHdr(Line[k]) => symbol_cnt = HeaderSymbols

Taken == (\E i \in 1 .. Len(codes) : IsHdr(codes[i])) \/ (\E i \in 1 .. Len(nibs) : IsHdr(nibs[i]))
TakenInv ==
  /\ Taken \/ fi_q # <<>> => Len(Line) = 0 /\ ~received_head /\ symbol_cnt = HeaderSymbols
  /\ Len(fi_q) <= 1
  /\ fi_q # <<>> => ~Taken
  /\ \A i, j \in 1 .. Len(codes) : IsHdr(codes[i]) /\ IsHdr(codes[j]) => i = j
  /\ \A i, j \in 1 .. Len(nibs) : IsHdr(nibs[i]) /\ IsHdr(nibs[j]) => i = j
  /\ \A i \in 1 .. Len(codes), j \in 1 .. Len(nibs) : ~(IsHdr(codes[i]) /\ IsHdr(nibs[j]))

(***************************************************************************)
(* What code words are decoded with.                                       *)
(***************************************************************************)
\* The code word is of a header; or of a payload with this rate.
OfHeader(origin) == \E f \in 1 .. frame_cnt : origin = {<<f, TRUE>>}
OfPayload(cr, origin) == \E f \in 1 .. Len(rates) : origin = {<<f, FALSE>>} /\ cr = rates[f]

\* These settings are those of the frame that the code word is of.
ReadAs(is_header, cr, origin) == IF is_header THEN OfHeader(origin) ELSE OfPayload(cr, origin)

\* A tag has the settings of its code word, which are those of all up to the next tag.
TagsTrue ==
  \A i \in 1 .. Len(codes) :
    codes[i].tag # <<>> => ReadAs(codes[i].tag[1].is_header, codes[i].tag[1].cr, codes[i].origin)
SettingsTrue ==
  codes # <<>> /\ codes[1].tag = <<>> => ReadAs(hm_is_header, hm_cr, codes[1].origin)
OriginsAlike ==
  \A i, j \in 1 .. Len(codes) :
    j < i /\ (\A k \in j + 1 .. i : codes[k].tag = <<>>) => codes[i].origin = codes[j].origin
CodesInv == TagsTrue /\ SettingsTrue /\ OriginsAlike

\* The next code words will have no tag, because that of their frame has passed.
TagPassed(l) ==
  IF Len(l) = 0 THEN received_head /\ symbol_cnt > HeaderSymbols ELSE l[1].tag = <<>>
Continues ==
  IF codes = <<>> THEN ReadAs(hm_is_header, hm_cr, {<<Len(rates), FALSE>>})
  ELSE codes[Len(codes)].origin = {<<Len(rates), FALSE>>}
TailInv == TagPassed(Line) => Continues

NibsInv ==
  \A i \in 1 .. Len(nibs) :
    \/ OfHeader(nibs[i].origin) /\ nibs[i].rate = 4
    \/ OfPayload(nibs[i].rate, nibs[i].origin)

(***************************************************************************)
(* The invariant.                                                          *)
(***************************************************************************)
SyncTypeOK ==
  /\ frame_cnt \in Nat \ {0} /\ symbol_cnt \in Nat /\ symb_numb \in Nat
  /\ received_head \in BOOLEAN /\ rates \in Seq(Nat)
LineTypeOK ==
  /\ sync_out \in Seq(SymType) /\ words \in Seq(ItemType) /\ grays \in Seq(ItemType)
  /\ fd_out \in Seq(SymbolId) /\ fd_frame_info \in Seq(TagType)
  /\ fd_is_header \in BOOLEAN /\ fd_cr \in Nat
CodeTypeOK ==
  /\ di_is_header \in BOOLEAN /\ di_cr \in Nat
  /\ hm_is_header \in BOOLEAN /\ hm_cr \in Nat
  /\ codes \in Seq(CodeType) /\ nibs \in Seq(NibType) /\ Len(nibs) <= NibsCap
  /\ hd_left \in Nat /\ fi_q \in Seq(HeaderMsgType)
PipeTypeOK == SyncTypeOK /\ LineTypeOK /\ CodeTypeOK

\* The longest payload, known or about to be, has room.
RoomInv ==
  RoomForFrames =>
    /\ symb_numb <= WordsCap /\ symb_numb - HeaderSymbols <= GraysCap
    /\ fi_q # <<>> /\ ~fi_q[1].err =>
         SymbNumb(fi_q[1]) <= WordsCap /\ SymbNumb(fi_q[1]) - HeaderSymbols <= GraysCap
    /\ Len(grays) <= GraysCap

PInv == /\ PipeTypeOK /\ CountInv /\ LineInv(Line) /\ DemodInv /\ TakenInv
        /\ CodesInv /\ TailInv /\ NibsInv /\ RoomInv

(***************************************************************************)
(* Streams.                                                                *)
(***************************************************************************)
LEMMA Joined ==
  ASSUME NEW S, NEW s \in Seq(S), NEW t \in Seq(S)
  PROVE  /\ s \o t \in Seq(S) /\ Len(s \o t) = Len(s) + Len(t) /\ Len(s) \in Nat /\ Len(t) \in Nat
         /\ \A i \in 1 .. Len(s) : (s \o t)[i] = s[i]
         /\ \A i \in 1 .. Len(t) : (s \o t)[Len(s) + i] = t[i]
<1>1. s \o t \in Seq(S) /\ Len(s \o t) = Len(s) + Len(t) /\ Len(s) \in Nat /\ Len(t) \in Nat
  BY ConcatProperties, LenProperties
<1>2. \A i \in 1 .. Len(s) + Len(t) :
        (s \o t)[i] = IF i <= Len(s) THEN s[i] ELSE t[i - Len(s)]
  BY ConcatProperties
<1>3. QED
  BY <1>1, <1>2

\* What is left of a stream without its first n elements.
LEMMA FrontDropped ==
  ASSUME NEW T, NEW q \in Seq(T), NEW n \in 0 .. Len(q)
  PROVE  /\ SubSeq(q, n + 1, Len(q)) \in Seq(T) /\ Len(SubSeq(q, n + 1, Len(q))) = Len(q) - n
         /\ \A i \in 1 .. Len(q) - n : SubSeq(q, n + 1, Len(q))[i] = q[i + n]
<1>1. Len(q) \in Nat /\ n \in Nat
  OBVIOUS
<1>2. \A i \in n + 1 .. Len(q) : q[i] \in T
  BY <1>1
<1>3. /\ SubSeq(q, n + 1, Len(q)) \in Seq(T)
      /\ Len(SubSeq(q, n + 1, Len(q))) = IF n + 1 <= Len(q) THEN Len(q) - (n + 1) + 1 ELSE 0
      /\ \A i \in 1 .. Len(q) - (n + 1) + 1 : SubSeq(q, n + 1, Len(q))[i] = q[n + 1 + i - 1]
  BY <1>1, <1>2, SubSeqProperties
<1>4. QED
  BY <1>1, <1>3

\* Its first n elements.
LEMMA FrontTaken ==
  ASSUME NEW T, NEW q \in Seq(T), NEW n \in 0 .. Len(q)
  PROVE  /\ SubSeq(q, 1, n) \in Seq(T) /\ Len(SubSeq(q, 1, n)) = n
         /\ \A i \in 1 .. n : SubSeq(q, 1, n)[i] = q[i]
<1>1. Len(q) \in Nat /\ n \in Nat /\ n <= Len(q)
  OBVIOUS
<1>2. \A i \in 1 .. n : q[i] \in T
  BY <1>1
<1>3. /\ SubSeq(q, 1, n) \in Seq(T)
      /\ Len(SubSeq(q, 1, n)) = IF 1 <= n THEN n - 1 + 1 ELSE 0
      /\ \A i \in 1 .. n - 1 + 1 : SubSeq(q, 1, n)[i] = q[1 + i - 1]
  BY <1>1, <1>2, SubSeqProperties
<1>4. QED
  BY <1>1, <1>3

LEMMA FunctionIsSeq ==
  ASSUME NEW S, NEW n \in Nat, NEW f \in [1 .. n -> S] PROVE f \in Seq(S) /\ Len(f) = n
OBVIOUS

\* What FftDemod's block and the symbols before it are as words.
BlockItem(x, tag, i) == [frame |-> x, tag |-> IF i = 1 THEN tag ELSE <<>>]
SymbolItem(x) == [frame |-> x.frame, tag |-> x.tags]

LEMMA TaggedBlockItems ==
  ASSUME NEW block \in Seq(SymbolId), NEW tag \in Seq(TagType)
  PROVE  /\ FD!TaggedBlock(block, tag) \in Seq(ItemType)
         /\ Len(FD!TaggedBlock(block, tag)) = Len(block)
         /\ \A i \in 1 .. Len(block) :
              FD!TaggedBlock(block, tag)[i] = BlockItem(block[i], tag, i)
<1> DEFINE out == [i \in 1 .. Len(block) |->
                     [frame |-> block[i], tag |-> IF i = 1 THEN tag ELSE <<>>]]
<1>1. out = FD!TaggedBlock(block, tag)
  BY Zenon DEF FD!TaggedBlock
<1>2. \A i \in 1 .. Len(block) :
        [frame |-> block[i], tag |-> IF i = 1 THEN tag ELSE <<>>] \in ItemType
  BY ElementOfSeq DEF ItemType
<1>3. Len(block) \in Nat
  OBVIOUS
<1>4. out \in [1 .. Len(block) -> ItemType]
  BY <1>2
<1>5. out \in Seq(ItemType) /\ Len(out) = Len(block)
  <2> HIDE DEF out
  <2>1. QED
    BY <1>3, <1>4, FunctionIsSeq
<1>6. QED
  BY <1>1, <1>5 DEF BlockItem

LEMMA AsItemsItems ==
  ASSUME NEW symbols \in Seq(SymType)
  PROVE  /\ AsItems(symbols) \in Seq(ItemType) /\ Len(AsItems(symbols)) = Len(symbols)
         /\ \A i \in 1 .. Len(symbols) :
              AsItems(symbols)[i] = SymbolItem(symbols[i])
<1> DEFINE out == [i \in 1 .. Len(symbols) |->
                     [frame |-> symbols[i].frame, tag |-> symbols[i].tags]]
<1>1. out = AsItems(symbols)
  BY Zenon DEF AsItems
<1>2. \A i \in 1 .. Len(symbols) : symbols[i] \in SymType
  BY ElementOfSeq
<1>3. \A i \in 1 .. Len(symbols) :
        [frame |-> symbols[i].frame, tag |-> symbols[i].tags] \in ItemType
  BY <1>2 DEF ItemType, SymType
<1>4. Len(symbols) \in Nat
  OBVIOUS
<1>5. out \in [1 .. Len(symbols) -> ItemType]
  BY <1>3
<1>6. out \in Seq(ItemType) /\ Len(out) = Len(symbols)
  <2> HIDE DEF out
  <2>1. QED
    BY <1>4, <1>5, FunctionIsSeq
<1>7. QED
  BY <1>1, <1>6 DEF SymbolItem

\* The line, place by place.
Parts(l, front, middle, block, tag, symbols) ==
  /\ l \in Seq(ItemType)
  /\ Len(front) \in Nat /\ Len(middle) \in Nat /\ Len(block) \in Nat /\ Len(symbols) \in Nat
  /\ Len(l) = Len(front) + Len(middle) + Len(block) + Len(symbols)
  /\ \A i \in 1 .. Len(front) : l[i] = front[i]
  /\ \A i \in 1 .. Len(middle) : l[Len(front) + i] = middle[i]
  /\ \A i \in 1 .. Len(block) :
       l[Len(front) + Len(middle) + i] = BlockItem(block[i], tag, i)
  /\ \A i \in 1 .. Len(symbols) :
       l[Len(front) + Len(middle) + Len(block) + i] = SymbolItem(symbols[i])

LEMMA LineParts ==
  ASSUME NEW front \in Seq(ItemType), NEW middle \in Seq(ItemType), NEW block \in Seq(SymbolId),
         NEW tag \in Seq(TagType), NEW symbols \in Seq(SymType),
         NEW l, l = LineOf(front, middle, block, tag, symbols)
  PROVE  Parts(l, front, middle, block, tag, symbols)
<1> DEFINE b == FD!TaggedBlock(block, tag)
           s == AsItems(symbols)
           fm == front \o middle
           fmb == fm \o b
<1>1. /\ b \in Seq(ItemType) /\ Len(b) = Len(block) /\ s \in Seq(ItemType) /\ Len(s) = Len(symbols)
      /\ \A i \in 1 .. Len(block) : b[i] = BlockItem(block[i], tag, i)
      /\ \A i \in 1 .. Len(symbols) : s[i] = SymbolItem(symbols[i])
  BY TaggedBlockItems, AsItemsItems
<1>2. l = fmb \o s
  BY Zenon DEF LineOf
<1> HIDE DEF b, s
<1>3. /\ fm \in Seq(ItemType) /\ Len(fm) = Len(front) + Len(middle)
      /\ Len(front) \in Nat /\ Len(middle) \in Nat
      /\ \A i \in 1 .. Len(front) : fm[i] = front[i]
      /\ \A i \in 1 .. Len(middle) : fm[Len(front) + i] = middle[i]
  BY Joined
<1> HIDE DEF fm
<1>4. /\ fmb \in Seq(ItemType) /\ Len(fmb) = Len(fm) + Len(b) /\ Len(b) \in Nat
      /\ \A i \in 1 .. Len(fm) : fmb[i] = fm[i]
      /\ \A i \in 1 .. Len(b) : fmb[Len(fm) + i] = b[i]
  <2>1. b \in Seq(ItemType) /\ fm \in Seq(ItemType)
    BY <1>1, <1>3
  <2>2. QED
    BY <2>1, Joined
<1> HIDE DEF fmb
<1>5. /\ fmb \o s \in Seq(ItemType) /\ Len(fmb \o s) = Len(fmb) + Len(s) /\ Len(s) \in Nat
      /\ \A i \in 1 .. Len(fmb) : (fmb \o s)[i] = fmb[i]
      /\ \A i \in 1 .. Len(s) : (fmb \o s)[Len(fmb) + i] = s[i]
  <2>1. s \in Seq(ItemType) /\ fmb \in Seq(ItemType)
    BY <1>1, <1>4
  <2>2. QED
    BY <2>1, Joined
<1>6. /\ l \in Seq(ItemType) /\ Len(l) = Len(front) + Len(middle) + Len(block) + Len(symbols)
      /\ Len(block) \in Nat /\ Len(symbols) \in Nat
  BY <1>1, <1>2, <1>3, <1>4, <1>5
<1>7. \A i \in 1 .. Len(front) : l[i] = front[i]
  BY <1>2, <1>3, <1>4, <1>5
<1>8. \A i \in 1 .. Len(middle) : l[Len(front) + i] = middle[i]
  <2>1. \A i \in 1 .. Len(middle) : /\ Len(front) + i \in 1 .. Len(fm)
                                    /\ Len(front) + i \in 1 .. Len(fmb)
    BY <1>3, <1>4
  <2>2. QED
    BY <1>2, <1>3, <1>4, <1>5, <2>1
<1>9. \A i \in 1 .. Len(block) : l[Len(front) + Len(middle) + i] = b[i]
  <2>1. \A i \in 1 .. Len(block) : i \in 1 .. Len(b) /\ Len(fm) + i \in 1 .. Len(fmb)
    BY <1>1, <1>3, <1>4
  <2>2. \A i \in 1 .. Len(block) : l[Len(fm) + i] = b[i]
    BY <1>2, <1>4, <1>5, <2>1
  <2>3. QED
    BY <1>3, <2>2
<1>10. \A i \in 1 .. Len(symbols) : l[Len(front) + Len(middle) + Len(block) + i] = s[i]
  <2>1. Len(fmb) = Len(front) + Len(middle) + Len(block)
    BY <1>1, <1>3, <1>4
  <2>2. QED
    BY <1>1, <1>2, <1>5, <2>1
<1>11. QED
  BY <1>1, <1>3, <1>6, <1>7, <1>8, <1>9, <1>10 DEF Parts

\* Every place of the line is in one of its parts.
InPart(i, front, middle, block, symbols) ==
  \/ i \in 1 .. Len(front)
  \/ \E j \in 1 .. Len(middle) : i = Len(front) + j
  \/ \E j \in 1 .. Len(block) : i = Len(front) + Len(middle) + j
  \/ \E j \in 1 .. Len(symbols) : i = Len(front) + Len(middle) + Len(block) + j

LEMMA Places ==
  ASSUME NEW l, NEW front, NEW middle, NEW block, NEW tag, NEW symbols,
         Parts(l, front, middle, block, tag, symbols), NEW i \in 1 .. Len(l)
  PROVE  InPart(i, front, middle, block, symbols)
<1> DEFINE a == Len(front)
           b == Len(middle)
           c == Len(block)
           d == Len(symbols)
<1>1. a \in Nat /\ b \in Nat /\ c \in Nat /\ d \in Nat /\ i \in 1 .. a + b + c + d
  BY DEF Parts
<1> HIDE DEF a, b, c, d
<1>2. \/ i \in 1 .. a
      \/ i - a \in 1 .. b /\ i = a + (i - a)
      \/ i - a - b \in 1 .. c /\ i = a + b + (i - a - b)
      \/ i - a - b - c \in 1 .. d /\ i = a + b + c + (i - a - b - c)
  BY <1>1
<1>3. \/ i \in 1 .. a
      \/ \E j \in 1 .. b : i = a + j
      \/ \E j \in 1 .. c : i = a + b + j
      \/ \E j \in 1 .. d : i = a + b + c + j
  BY <1>2, Zenon
<1>4. QED
  BY <1>3 DEF a, b, c, d, InPart

LEMMA LineNow ==
  ASSUME LineTypeOK PROVE Parts(Line, grays, words, fd_out, fd_frame_info, sync_out)
BY LineParts DEF LineTypeOK, Line

LEMMA LineNext ==
  ASSUME LineTypeOK' PROVE Parts(Line', grays', words', fd_out', fd_frame_info', sync_out')
<1>1. Line' = LineOf(grays', words', fd_out', fd_frame_info', sync_out')
  BY DEF Line
<1>2. /\ grays' \in Seq(ItemType) /\ words' \in Seq(ItemType) /\ fd_out' \in Seq(SymbolId)
      /\ fd_frame_info' \in Seq(TagType) /\ sync_out' \in Seq(SymType)
  BY DEF LineTypeOK
<1>3. QED
  BY <1>1, <1>2, LineParts

(***************************************************************************)
(* Lines.                                                                  *)
(***************************************************************************)
\* m is l without the d items behind the first p.
Cut(l, m, p, d) ==
  /\ Len(m) + d = Len(l)
  /\ \A i \in 1 .. p : m[i] = l[i]
  /\ \A i \in p + 1 .. Len(m) : m[i] = l[i + d]

\* Items that leave the line in front of the header take nothing from the rest.
LEMMA CutKeeps ==
  ASSUME SyncTypeOK, NEW l, NEW m, Len(l) \in Nat, Len(m) \in Nat,
         NEW p \in 0 .. Len(m), NEW d \in Nat, Cut(l, m, p, d),
         d = 0 \/ \A i \in 1 .. p + d : ~IsHdr(l[i]),
         LineInv(l)
  PROVE  LineInv(m)
<1> DEFINE at(k) == IF k <= p THEN k ELSE k + d
<1>1. \A k \in 1 .. Len(m) : at(k) \in 1 .. Len(l) /\ m[k] = l[at(k)]
  BY DEF Cut
<1>2. \A k \in 1 .. Len(m) : IsHdr(l[at(k)]) => at(k) = k + d
  BY <1>1
<1>3. \A k \in 1 .. Len(m) : IsPay(m[k]) => k = 1 /\ m[k].tag[1].cr = rates[Len(rates)]
  <2> SUFFICES ASSUME NEW k \in 1 .. Len(m), IsPay(m[k])
               PROVE  k = 1 /\ m[k].tag[1].cr = rates[Len(rates)]
    OBVIOUS
  <2>1. at(k) = 1 /\ m[k].tag[1].cr = rates[Len(rates)]
    BY <1>1 DEF LineInv, Shape
  <2>2. k <= at(k)
    OBVIOUS
  <2>3. QED
    BY <2>1, <2>2
<1>4. \A k \in 1 .. Len(m) : IsHdr(m[k]) => Len(m) - k + 1 = symbol_cnt /\ ~received_head
  <2> SUFFICES ASSUME NEW k \in 1 .. Len(m), IsHdr(m[k])
               PROVE  Len(m) - k + 1 = symbol_cnt /\ ~received_head
    OBVIOUS
  <2>1. IsHdr(l[at(k)]) /\ at(k) = k + d /\ at(k) \in 1 .. Len(l)
    BY <1>1, <1>2
  <2>2. Len(l) - at(k) + 1 = symbol_cnt /\ ~received_head
    BY <2>1 DEF LineInv, Shape
  <2>3. Len(m) + d = Len(l)
    BY DEF Cut
  <2> HIDE DEF at
  <2>4. QED
    BY <2>1, <2>2, <2>3
<1>5. ASSUME NEW k \in 1 .. Len(m)
      PROVE  \/ m[k].frame = <<frame_cnt, TRUE>> /\ \E j \in 1 .. k : IsHdr(m[j])
             \/ /\ m[k].frame = <<Len(rates), FALSE>> /\ Len(rates) > 0
                /\ \A j \in 1 .. k : ~IsHdr(m[j])
  <2>1. at(k) \in 1 .. Len(l) /\ m[k] = l[at(k)]
    BY <1>1
  <2>2. CASE l[at(k)].frame = <<frame_cnt, TRUE>> /\ \E j \in 1 .. at(k) : IsHdr(l[j])
    <3>1. PICK j \in 1 .. at(k) : IsHdr(l[j])
      BY <2>2
    <3>2. \E i \in 1 .. k : at(i) = j
      <4>1. CASE d = 0
        <5>1. at(j) = j /\ j \in 1 .. k
          BY <4>1
        <5>2. QED
          BY <5>1
      <4>2. CASE d # 0
        <5>1. j > p + d
          BY <3>1, <4>2
        <5>2. j - d \in 1 .. k /\ at(j - d) = j
          BY <5>1
        <5>3. QED
          BY <5>2
      <4>3. QED
        BY <4>1, <4>2
    <3>3. PICK i \in 1 .. k : at(i) = j
      BY <3>2
    <3>4. m[i] = l[j]
      BY <1>1, <3>3
    <3>5. QED
      BY <2>1, <2>2, <3>1, <3>4
  <2>3. CASE /\ l[at(k)].frame = <<Len(rates), FALSE>> /\ Len(rates) > 0
             /\ \A j \in 1 .. at(k) : ~IsHdr(l[j])
    <3>1. \A j \in 1 .. k : at(j) \in 1 .. at(k) /\ m[j] = l[at(j)]
      BY <1>1
    <3>2. QED
      BY <2>1, <2>3, <3>1
  <2>4. QED
    BY <2>1, <2>2, <2>3 DEF LineInv, Shape
<1>6. Shape(m)
  BY <1>3, <1>4, <1>5 DEF Shape
<1>7. Fits(m)
  <2>1. Len(m) <= Len(l) /\ symbol_cnt \in Nat /\ Payload \in Nat
    BY DEF Cut, SyncTypeOK, Payload, HeaderSymbols
  <2>2. QED
    BY <2>1 DEF LineInv, Fits, HeaderSymbols
<1>8. Begun(m)
  <2> SUFFICES ASSUME ~received_head, symbol_cnt \in 1 .. HeaderSymbols - 1
               PROVE  \E k \in 1 .. Len(m) : IsHdr(m[k])
    BY DEF Begun
  <2>1. PICK j \in 1 .. Len(l) : IsHdr(l[j])
    BY DEF LineInv, Begun
  <2>2. CASE d = 0
    <3>1. j \in 1 .. Len(m) /\ m[j] = l[j]
      BY <1>1, <2>2 DEF Cut
    <3>2. QED
      BY <2>1, <3>1
  <2>3. CASE d # 0
    <3>1. j > p + d
      BY <2>1, <2>3
    <3>2. Len(m) + d = Len(l)
      BY DEF Cut
    <3>3. j - d \in p + 1 .. Len(m) /\ j - d \in 1 .. Len(m) /\ (j - d) + d = j
      BY <3>1, <3>2
    <3>4. m[j - d] = l[j]
      BY <3>3 DEF Cut
    <3>5. QED
      BY <2>1, <3>3, <3>4
  <2>4. QED
    BY <2>2, <2>3
<1>9. QED
  BY <1>6, <1>7, <1>8 DEF LineInv

\* While FrameSync does nothing, what holds of the new line holds in the next state.
LEMMA LineStays ==
  ASSUME UNCHANGED syncState, NEW m, m = Line', LineInv(m)
  PROVE  LineInv(Line)'
<1>1. /\ frame_cnt' = frame_cnt /\ symbol_cnt' = symbol_cnt /\ symb_numb' = symb_numb
      /\ received_head' = received_head /\ rates' = rates
  BY DEF syncState
<1>2. QED
  BY <1>1 DEF LineInv, Shape, Fits, Begun, Payload

LEMMA SyncStays ==
  ASSUME SyncTypeOK, CountInv, UNCHANGED syncState PROVE SyncTypeOK' /\ CountInv'
BY DEF SyncTypeOK, CountInv, syncState

\* The same line in the next state.
LEMMA LineUnmoved ==
  ASSUME UNCHANGED syncState, Line' = Line, LineInv(Line)
  PROVE  LineInv(Line)' /\ (TagPassed(Line)' <=> TagPassed(Line))
<1>1. LineInv(Line)'
  BY LineStays
<1>2. QED
  BY <1>1 DEF TagPassed, syncState

LEMMA CodesStay ==
  ASSUME CodesInv, NibsInv, UNCHANGED <<syncState, codes, nibs, hammingState>>
  PROVE  /\ CodesInv' /\ NibsInv' /\ (Taken' <=> Taken) /\ (Continues' <=> Continues)
<1>1. /\ frame_cnt' = frame_cnt /\ rates' = rates /\ codes' = codes /\ nibs' = nibs
      /\ hm_is_header' = hm_is_header /\ hm_cr' = hm_cr
  BY DEF syncState, hammingState
<1>2. CodesInv'
  <2>1. TagsTrue'
    BY <1>1, Zenon DEF CodesInv, TagsTrue, ReadAs, OfHeader, OfPayload
  <2>2. SettingsTrue'
    BY <1>1, Zenon DEF CodesInv, SettingsTrue, ReadAs, OfHeader, OfPayload
  <2>3. OriginsAlike'
    BY <1>1 DEF CodesInv, OriginsAlike
  <2>4. QED
    BY <2>1, <2>2, <2>3 DEF CodesInv
<1>3. NibsInv'
  BY <1>1 DEF NibsInv, OfHeader, OfPayload
<1>4. (Taken' <=> Taken) /\ (Continues' <=> Continues)
  BY <1>1, Zenon DEF Taken, Continues, ReadAs, OfHeader, OfPayload
<1>5. QED
  BY <1>2, <1>3, <1>4

\* A rate that was known stays known.
LEMMA RatesKept ==
  ASSUME SyncTypeOK, CodesInv, NibsInv, UNCHANGED <<codes, nibs, hammingState>>,
         frame_cnt' \in Nat, frame_cnt <= frame_cnt', Len(rates') \in Nat,
         Len(rates) <= Len(rates'), \A f \in 1 .. Len(rates) : rates'[f] = rates[f]
  PROVE  /\ CodesInv' /\ NibsInv' /\ (Taken' <=> Taken)
         /\ rates' = rates /\ Continues => Continues'
<1> DEFINE H(o) == \E f \in 1 .. frame_cnt' : o = {<<f, TRUE>>}
           P(c, o) == \E f \in 1 .. Len(rates') : o = {<<f, FALSE>>} /\ c = rates'[f]
<1>1. /\ codes' = codes /\ nibs' = nibs /\ hm_is_header' = hm_is_header /\ hm_cr' = hm_cr
  BY DEF hammingState
<1>2. \A c, o : (OfHeader(o) => H(o)) /\ (OfPayload(c, o) => P(c, o))
  <2>1. frame_cnt \in Nat /\ Len(rates) \in Nat
    BY DEF SyncTypeOK
  <2>2. 1 .. frame_cnt \subseteq 1 .. frame_cnt' /\ 1 .. Len(rates) \subseteq 1 .. Len(rates')
    BY <2>1
  <2>3. QED
    BY <2>2 DEF OfHeader, OfPayload
<1>3. \A c, o : (H(o) <=> OfHeader(o)') /\ (P(c, o) <=> OfPayload(c, o)')
  BY DEF OfHeader, OfPayload
<1> HIDE DEF H, P
<1>4. CodesInv'
  <2>1. TagsTrue'
    BY <1>1, <1>2, <1>3, Zenon DEF CodesInv, TagsTrue, ReadAs
  <2>2. SettingsTrue'
    BY <1>1, <1>2, <1>3, Zenon DEF CodesInv, SettingsTrue, ReadAs
  <2>3. OriginsAlike'
    BY <1>1 DEF CodesInv, OriginsAlike
  <2>4. QED
    BY <2>1, <2>2, <2>3 DEF CodesInv
<1>5. NibsInv'
  BY <1>1, <1>2, <1>3, Zenon DEF NibsInv
<1>6. Taken' <=> Taken
  BY <1>1 DEF Taken
<1>7. rates' = rates /\ Continues => Continues'
  BY <1>1, <1>2, <1>3, Zenon DEF Continues, ReadAs
<1>8. QED
  BY <1>4, <1>5, <1>6, <1>7

(***************************************************************************)
(* The initial state.                                                      *)
(***************************************************************************)
LEMMA InitPInv ==
  ASSUME PipeInit PROVE PInv
<1>1. /\ frame_cnt = 1 /\ symbol_cnt = 0 /\ symb_numb = 0 /\ received_head = FALSE
      /\ rates = <<>> /\ sync_out = <<>> /\ words = <<>> /\ grays = <<>> /\ codes = <<>>
      /\ nibs = <<>> /\ fd_is_header = FALSE /\ fd_cr = 0 /\ fd_out = <<>> /\ fd_frame_info = <<>>
      /\ di_is_header = FALSE /\ di_cr = 0 /\ hm_is_header = FALSE /\ hm_cr = 1
      /\ hd_left = 0 /\ fi_q = <<>>
  BY DEF PipeInit, FD!DemodInit, DI!DeinterInit, HD!HeaderInit
<1>2. {WordsCap, GraysCap, NibsCap} \subseteq Nat
  BY PipelineAssumption
<1>3. PipeTypeOK
  <2>1. SyncTypeOK
    <3>1. rates \in Seq(Nat)
      BY <1>1, EmptySeq
    <3>2. received_head \in BOOLEAN
      BY <1>1
    <3>3. frame_cnt \in Nat \ {0} /\ symbol_cnt \in Nat /\ symb_numb \in Nat
      BY <1>1
    <3>4. QED
      BY <3>1, <3>2, <3>3 DEF SyncTypeOK
  <2>2. LineTypeOK
    BY <1>1, EmptySeq DEF LineTypeOK
  <2>3. CodeTypeOK
    <3>1. codes \in Seq(CodeType) /\ nibs \in Seq(NibType) /\ fi_q \in Seq(HeaderMsgType)
      BY <1>1, EmptySeq
    <3>2. Len(nibs) <= NibsCap
      BY <1>1, <1>2, EmptySeq
    <3>3. QED
      BY <1>1, <3>1, <3>2 DEF CodeTypeOK
  <2>4. QED
    BY <2>1, <2>2, <2>3 DEF PipeTypeOK
<1>4. Len(Line) = 0
  <2>1. Parts(Line, grays, words, fd_out, fd_frame_info, sync_out)
    BY <1>3, LineNow DEF PipeTypeOK
  <2>2. QED
    BY <1>1, <2>1 DEF Parts
<1>5. CountInv
  BY <1>1 DEF CountInv, HeaderSymbols
<1>6. LineInv(Line)
  <2>1. Shape(Line)
    BY <1>4 DEF Shape
  <2>2. Fits(Line) /\ Begun(Line)
    BY <1>1, <1>4 DEF Fits, Begun, Payload, HeaderSymbols
  <2>3. QED
    BY <2>1, <2>2 DEF LineInv
<1>7. DemodInv /\ TakenInv /\ CodesInv /\ NibsInv
  BY <1>1 DEF DemodInv, TakenInv, Taken, CodesInv, TagsTrue, SettingsTrue, OriginsAlike, NibsInv
<1>8. TailInv
  BY <1>1, <1>4 DEF TailInv, TagPassed
<1>9. RoomInv
  BY <1>1, <1>2 DEF RoomInv, HeaderSymbols
<1>10. QED
  BY <1>3, <1>5, <1>6, <1>7, <1>8, <1>9 DEF PInv

(***************************************************************************)
(* FrameSync.                                                              *)
(***************************************************************************)
\* Which symbol of the frame it is that can be written, and its tag.
Phases ==
  \/ symbol_cnt = 0 /\ ~received_head
     /\ TagOfSymbol = <<[is_header |-> TRUE, cr |-> 0, frame |-> frame_cnt]>>
  \/ symbol_cnt \in 1 .. HeaderSymbols - 1 /\ ~received_head /\ TagOfSymbol = <<>>
  \/ symbol_cnt = HeaderSymbols /\ received_head
     /\ TagOfSymbol = <<[is_header |-> FALSE, cr |-> rates[Len(rates)], frame |-> frame_cnt]>>
  \/ symbol_cnt > HeaderSymbols /\ received_head /\ TagOfSymbol = <<>>

LEMMA PhaseOfSymbol ==
  ASSUME SyncTypeOK, CountInv, MayWrite
  PROVE  Phases /\ TagOfSymbol \in Seq(TagType)
<1>1. symbol_cnt \in Nat /\ frame_cnt \in Nat \ {0} /\ HeaderSymbols = 8
  BY DEF SyncTypeOK, HeaderSymbols
<1>2. symbol_cnt >= HeaderSymbols => received_head
  BY <1>1 DEF MayWrite
<1>3. symbol_cnt < HeaderSymbols => ~received_head
  BY <1>1 DEF CountInv
<1>4. received_head => Len(rates) >= 1 /\ Last(rates) = rates[Len(rates)] /\ rates[Len(rates)] \in Nat
  <2> SUFFICES ASSUME received_head
               PROVE  Len(rates) >= 1 /\ Last(rates) = rates[Len(rates)] /\ rates[Len(rates)] \in Nat
    OBVIOUS
  <2>1. Len(rates) >= 1 /\ rates \in Seq(Nat)
    BY <1>1 DEF CountInv, SyncTypeOK
  <2>2. QED
    BY <2>1 DEF Last
<1>5. CASE symbol_cnt = 0
  <2> DEFINE t == [is_header |-> TRUE, cr |-> 0, frame |-> frame_cnt]
  <2>1. TagOfSymbol = <<t>>
    <3>1. symbol_cnt # HeaderSymbols
      BY <1>1, <1>5
    <3>2. QED
      BY <1>5, <3>1, Zenon DEF TagOfSymbol
  <2>2. t \in TagType
    BY <1>1 DEF TagType
  <2>3. <<t>> \in Seq(TagType)
    <3> HIDE DEF t
    <3>1. QED
      BY <2>2
  <2>4. QED
    BY <1>1, <1>3, <1>5, <2>1, <2>3 DEF Phases
<1>6. CASE symbol_cnt = HeaderSymbols
  <2> DEFINE t == [is_header |-> FALSE, cr |-> rates[Len(rates)], frame |-> frame_cnt]
  <2>1. TagOfSymbol = <<t>>
    <3>1. symbol_cnt # 0 /\ Last(rates) = rates[Len(rates)]
      BY <1>1, <1>2, <1>4, <1>6
    <3>2. QED
      BY <1>6, <3>1, Zenon DEF TagOfSymbol
  <2>2. t \in TagType
    BY <1>1, <1>2, <1>4, <1>6 DEF TagType
  <2>3. <<t>> \in Seq(TagType)
    <3> HIDE DEF t
    <3>1. QED
      BY <2>2
  <2>4. QED
    BY <1>1, <1>2, <1>6, <2>1, <2>3 DEF Phases
<1>7. CASE symbol_cnt # 0 /\ symbol_cnt # HeaderSymbols
  <2>1. TagOfSymbol = <<>>
    BY <1>7 DEF TagOfSymbol
  <2>2. TagOfSymbol \in Seq(TagType)
    BY <2>1, EmptySeq
  <2>3. Phases
    BY <1>1, <1>2, <1>3, <1>7, <2>1 DEF Phases
  <2>4. QED
    BY <2>2, <2>3
<1>8. QED
  BY <1>5, <1>6, <1>7

\* Writing a symbol puts it behind the line.
Item == [frame |-> <<frame_cnt, symbol_cnt < HeaderSymbols>>, tag |-> TagOfSymbol]

LEMMA WriteAppends ==
  ASSUME PInv, WriteSymbol
  PROVE  /\ LineTypeOK' /\ Len(Line) \in Nat /\ Len(Line') = Len(Line) + 1
         /\ \A i \in 1 .. Len(Line) : Line'[i] = Line[i]
         /\ Line'[Len(Line) + 1] = Item
<1> DEFINE s == [frame |-> <<frame_cnt, symbol_cnt < HeaderSymbols>>, tags |-> TagOfSymbol]
<1>1. /\ sync_out' = Append(sync_out, s) /\ words' = words /\ grays' = grays /\ fd_out' = fd_out
      /\ fd_frame_info' = fd_frame_info /\ fd_is_header' = fd_is_header /\ fd_cr' = fd_cr
  BY DEF WriteSymbol, demodState
<1>2. SyncTypeOK /\ LineTypeOK /\ CountInv
  BY DEF PInv, PipeTypeOK
<1>3. TagOfSymbol \in Seq(TagType)
  BY <1>2, PhaseOfSymbol DEF WriteSymbol
<1>4. s \in SymType /\ s.frame = Item.frame /\ s.tags = TagOfSymbol
  <2> DEFINE first == symbol_cnt < HeaderSymbols
             id == <<frame_cnt, first>>
  <2>1. first \in BOOLEAN /\ frame_cnt \in Nat
    BY <1>2 DEF SyncTypeOK
  <2>2. id \in SymbolId
    <3> HIDE DEF first
    <3>1. QED
      BY <2>1 DEF SymbolId
  <2> HIDE DEF id
  <2>3. s = [frame |-> id, tags |-> TagOfSymbol] /\ Item = [frame |-> id, tag |-> TagOfSymbol]
    BY Zenon DEF id, s, Item
  <2>4. QED
    BY <1>3, <2>2, <2>3 DEF SymType
<1> HIDE DEF s
<1>5. /\ sync_out' \in Seq(SymType) /\ Len(sync_out') = Len(sync_out) + 1
      /\ \A i \in 1 .. Len(sync_out) : sync_out'[i] = sync_out[i]
      /\ sync_out'[Len(sync_out) + 1] = s
  <2>1. sync_out \in Seq(SymType)
    BY <1>2 DEF LineTypeOK
  <2>2. QED
    BY <1>1, <1>4, <2>1, AppendProperties
<1>6. LineTypeOK'
  BY <1>1, <1>2, <1>5 DEF LineTypeOK
<1>7. Parts(Line, grays, words, fd_out, fd_frame_info, sync_out)
  BY <1>2, LineNow
<1>8. Parts(Line', grays, words, fd_out, fd_frame_info, sync_out')
  BY <1>1, <1>6, LineNext
<1>9. Len(Line) \in Nat /\ Len(Line') = Len(Line) + 1
  BY <1>5, <1>7, <1>8 DEF Parts
<1>10. ASSUME NEW i \in 1 .. Len(Line) PROVE Line'[i] = Line[i]
  <2>1. CASE i \in 1 .. Len(grays)
    BY <2>1, <1>7, <1>8 DEF Parts
  <2>2. CASE \E j \in 1 .. Len(words) : i = Len(grays) + j
    BY <2>2, <1>7, <1>8 DEF Parts
  <2>3. CASE \E j \in 1 .. Len(fd_out) : i = Len(grays) + Len(words) + j
    BY <2>3, <1>7, <1>8 DEF Parts
  <2>4. CASE \E j \in 1 .. Len(sync_out) : i = Len(grays) + Len(words) + Len(fd_out) + j
    <3>1. PICK j \in 1 .. Len(sync_out) : i = Len(grays) + Len(words) + Len(fd_out) + j
      BY <2>4
    <3>2. j \in 1 .. Len(sync_out') /\ sync_out'[j] = sync_out[j]
      BY <1>5, <1>7 DEF Parts
    <3>3. QED
      BY <3>1, <3>2, <1>7, <1>8 DEF Parts
  <2>5. InPart(i, grays, words, fd_out, sync_out)
    BY <1>7, Places
  <2>6. QED
    BY <2>1, <2>2, <2>3, <2>4, <2>5 DEF InPart
<1>11. Line'[Len(Line) + 1] = Item
  <2>1. /\ Len(sync_out) + 1 \in 1 .. Len(sync_out')
        /\ Len(Line) + 1 = Len(grays) + Len(words) + Len(fd_out) + (Len(sync_out) + 1)
    BY <1>5, <1>7 DEF Parts
  <2>2. Line'[Len(Line) + 1] = SymbolItem(s)
    BY <1>5, <1>8, <2>1 DEF Parts
  <2>3. QED
    BY <1>4, <2>2 DEF Item, SymbolItem
<1>12. QED
  BY <1>6, <1>9, <1>10, <1>11

\* What the counters are after a symbol.
LEMMA WriteCounts ==
  ASSUME PInv, WriteSymbol
  PROVE  /\ SyncTypeOK' /\ CountInv' /\ frame_cnt <= frame_cnt'
         /\ rates' = rates /\ symb_numb' = symb_numb
         /\ ~received_head => ~received_head' /\ symbol_cnt' = symbol_cnt + 1 /\ frame_cnt' = frame_cnt
         /\ received_head =>
              \/ received_head' /\ symbol_cnt' = symbol_cnt + 1 /\ frame_cnt' = frame_cnt
              \/ /\ ~received_head' /\ symbol_cnt' = 0 /\ frame_cnt' = frame_cnt + 1
                 /\ symbol_cnt + 1 = symb_numb
<1>1. SyncTypeOK /\ CountInv /\ MayWrite
  BY DEF PInv, PipeTypeOK, WriteSymbol
<1>2. rates' = rates /\ symb_numb' = symb_numb
  BY DEF WriteSymbol
<1>3. CASE ~(symbol_cnt + 1 = symb_numb /\ received_head)
  <2>1. symbol_cnt' = symbol_cnt + 1 /\ frame_cnt' = frame_cnt /\ received_head' = received_head
    BY <1>3 DEF WriteSymbol
  <2>2. SyncTypeOK' /\ CountInv'
    BY <1>1, <1>2, <1>3, <2>1 DEF SyncTypeOK, CountInv, MayWrite, HeaderSymbols
  <2>3. QED
    BY <1>1, <1>2, <2>1, <2>2 DEF SyncTypeOK
<1>4. CASE symbol_cnt + 1 = symb_numb /\ received_head
  <2>1. symbol_cnt' = 0 /\ frame_cnt' = frame_cnt + 1 /\ received_head' = FALSE
    BY <1>4 DEF WriteSymbol, NextFrame
  <2>2. SyncTypeOK' /\ CountInv'
    <3>1. frame_cnt \in Nat /\ frame_cnt = Len(rates)
      BY <1>1, <1>4 DEF SyncTypeOK, CountInv
    <3>2. SyncTypeOK'
      <4>1. received_head' \in BOOLEAN
        BY <2>1
      <4>2. frame_cnt' \in Nat \ {0} /\ symbol_cnt' \in Nat
        BY <2>1, <3>1
      <4>3. QED
        BY <1>1, <1>2, <4>1, <4>2 DEF SyncTypeOK
    <3>3. CountInv'
      BY <1>2, <2>1, <3>1 DEF CountInv, HeaderSymbols
    <3>4. QED
      BY <3>2, <3>3
  <2>3. QED
    BY <1>1, <1>2, <1>4, <2>1, <2>2 DEF SyncTypeOK
<1>5. QED
  BY <1>3, <1>4

LEMMA WriteLine ==
  ASSUME PInv, WriteSymbol PROVE LineInv(Line)'
<1> DEFINE l == Line
           m == Line'
           n == Len(Line)
<1>1. /\ n \in Nat /\ Len(m) = n + 1 /\ m[n + 1] = Item
      /\ \A i \in 1 .. n : m[i] = l[i]
      /\ \A k \in 1 .. Len(m) : k \in 1 .. n \/ k = n + 1
  BY WriteAppends
<1>2. SyncTypeOK /\ CountInv /\ Phases /\ LineInv(l) /\ HeaderSymbols = 8
  BY PhaseOfSymbol DEF PInv, PipeTypeOK, WriteSymbol, HeaderSymbols
<1>3. Item.frame = <<frame_cnt, symbol_cnt < HeaderSymbols>> /\ Item.tag = TagOfSymbol
  BY DEF Item
<1>4. /\ rates' = rates /\ symb_numb' = symb_numb
      /\ ~received_head => ~received_head' /\ symbol_cnt' = symbol_cnt + 1 /\ frame_cnt' = frame_cnt
      /\ received_head =>
           \/ received_head' /\ symbol_cnt' = symbol_cnt + 1 /\ frame_cnt' = frame_cnt
           \/ /\ ~received_head' /\ symbol_cnt' = 0 /\ frame_cnt' = frame_cnt + 1
              /\ symbol_cnt + 1 = symb_numb
  BY WriteCounts
<1>5. /\ symbol_cnt \in Nat /\ frame_cnt \in Nat /\ Len(rates) \in Nat /\ symb_numb \in Nat
  BY <1>2 DEF SyncTypeOK
<1>6. /\ \A k \in 1 .. n : IsPay(l[k]) => k = 1 /\ l[k].tag[1].cr = rates[Len(rates)]
      /\ \A k \in 1 .. n : IsHdr(l[k]) => n - k + 1 = symbol_cnt /\ ~received_head
      /\ \A k \in 1 .. n :
           \/ l[k].frame = <<frame_cnt, TRUE>> /\ \E j \in 1 .. k : IsHdr(l[j])
           \/ /\ l[k].frame = <<Len(rates), FALSE>> /\ Len(rates) > 0
              /\ \A j \in 1 .. k : ~IsHdr(l[j])
  BY <1>2 DEF LineInv, Shape
<1>7. Fits(l) /\ Begun(l)
  BY <1>2 DEF LineInv
<1> HIDE DEF l, m, n
<1>8. CASE ~received_head
  <2>1. /\ symbol_cnt \in 0 .. 7 /\ symbol_cnt' = symbol_cnt + 1 /\ ~received_head'
        /\ frame_cnt' = frame_cnt /\ Item.frame = <<frame_cnt, TRUE>>
    <3>1. symbol_cnt \in 0 .. 7
      BY <1>2, <1>5, <1>8 DEF Phases
    <3>2. (symbol_cnt < HeaderSymbols) = TRUE
      BY <1>2, <3>1
    <3>3. QED
      BY <1>3, <1>4, <1>8, <3>1, <3>2
  <2>2. ~IsPay(Item) /\ (IsHdr(Item) <=> symbol_cnt = 0)
    BY <1>2, <1>3, <1>8 DEF Phases, IsPay, IsHdr
  <2>3. symbol_cnt = 0 => \A k \in 1 .. n : ~IsHdr(l[k])
    BY <1>1, <1>6
  <2>4. symbol_cnt # 0 => \E k \in 1 .. n : IsHdr(l[k])
    BY <1>2, <1>7, <1>8, <2>1 DEF Begun, n, l
  <2>5. \E k \in 1 .. n + 1 : IsHdr(m[k])
    <3>1. CASE symbol_cnt = 0
      BY <1>1, <2>2, <3>1
    <3>2. CASE symbol_cnt # 0
      BY <1>1, <2>4, <3>2
    <3>3. QED
      BY <3>1, <3>2
  <2>6. \A k \in 1 .. n + 1 : IsPay(m[k]) => k = 1 /\ m[k].tag[1].cr = rates[Len(rates)]
    BY <1>1, <1>6, <2>2
  <2>7. \A k \in 1 .. n + 1 : IsHdr(m[k]) => (n + 1) - k + 1 = symbol_cnt'
    BY <1>1, <1>5, <1>6, <2>1, <2>2
  <2>8. ASSUME NEW k \in 1 .. n + 1
        PROVE  \/ m[k].frame = <<frame_cnt, TRUE>> /\ \E j \in 1 .. k : IsHdr(m[j])
               \/ /\ m[k].frame = <<Len(rates), FALSE>> /\ Len(rates) > 0
                  /\ \A j \in 1 .. k : ~IsHdr(m[j])
    <3>1. CASE k \in 1 .. n
      <4>1. \A j \in 1 .. k : m[j] = l[j]
        BY <1>1, <3>1
      <4>2. m[k] = l[k] /\ 1 .. k \subseteq 1 .. n
        BY <1>1, <3>1
      <4>3. CASE l[k].frame = <<frame_cnt, TRUE>> /\ \E j \in 1 .. k : IsHdr(l[j])
        BY <4>1, <4>2, <4>3
      <4>4. CASE /\ l[k].frame = <<Len(rates), FALSE>> /\ Len(rates) > 0
                 /\ \A j \in 1 .. k : ~IsHdr(l[j])
        BY <4>1, <4>2, <4>4
      <4>5. QED
        BY <1>6, <3>1, <4>3, <4>4
    <3>2. CASE k = n + 1
      BY <1>1, <2>1, <2>5, <3>2
    <3>3. QED
      BY <1>1, <3>1, <3>2
  <2>9. Shape(Line)'
    BY <1>1, <1>4, <2>1, <2>6, <2>7, <2>8 DEF Shape, m
  <2>10. Fits(Line)'
    BY <1>1, <1>2, <1>4, <1>5, <1>7, <1>8, <2>1 DEF Fits, Payload, l, m, n
  <2>11. Begun(Line)'
    BY <1>1, <2>5 DEF Begun, m
  <2>12. QED
    BY <2>9, <2>10, <2>11 DEF LineInv
<1>9. CASE received_head
  <2>1. /\ symbol_cnt >= 8 /\ frame_cnt = Len(rates) /\ Len(rates) > 0
        /\ Item.frame = <<Len(rates), FALSE>>
    <3>1. symbol_cnt >= 8 /\ frame_cnt = Len(rates) /\ Len(rates) > 0
      BY <1>2, <1>9 DEF CountInv, SyncTypeOK
    <3>2. (symbol_cnt < HeaderSymbols) = FALSE
      BY <1>2, <1>5, <3>1
    <3>3. QED
      BY <1>3, <3>1, <3>2
  <2>2. n + 8 <= symbol_cnt
    BY <1>2, <1>7, <1>9 DEF Fits, l, n
  <2>3. ~IsHdr(Item) /\ (IsPay(Item) => n = 0 /\ Item.tag[1].cr = rates[Len(rates)])
    <3>1. CASE symbol_cnt = HeaderSymbols
      BY <1>1, <1>2, <1>3, <1>9, <2>2, <3>1 DEF Phases, IsHdr, IsPay
    <3>2. CASE symbol_cnt # HeaderSymbols
      BY <1>2, <1>3, <1>9, <2>1, <3>2 DEF Phases, IsHdr, IsPay
    <3>3. QED
      BY <3>1, <3>2
  <2>4. \A k \in 1 .. n : ~IsHdr(l[k])
    BY <1>6, <1>9
  <2>5. \A k \in 1 .. n + 1 : ~IsHdr(m[k])
    BY <1>1, <2>3, <2>4
  <2>6. \A k \in 1 .. n + 1 : IsPay(m[k]) => k = 1 /\ m[k].tag[1].cr = rates[Len(rates)]
    BY <1>1, <1>6, <2>3
  <2>7. \A k \in 1 .. n + 1 : m[k].frame = <<Len(rates), FALSE>>
    <3>1. \A k \in 1 .. n : 1 .. k \subseteq 1 .. n
      BY <1>1
    <3>2. \A k \in 1 .. n : l[k].frame = <<Len(rates), FALSE>>
      BY <1>6, <2>4, <3>1
    <3>3. QED
      BY <1>1, <2>1, <3>2
  <2>8. Shape(Line)'
    <3>1. \A k \in 1 .. n + 1 : \A j \in 1 .. k : ~IsHdr(m[j])
      BY <1>1, <2>5
    <3>2. QED
      BY <1>1, <1>4, <2>1, <2>5, <2>6, <2>7, <3>1 DEF Shape, m
  <2>9. Fits(Line)'
    BY <1>1, <1>2, <1>4, <1>5, <1>9, <2>1, <2>2 DEF Fits, Payload, m
  <2>10. Begun(Line)'
    BY <1>2, <1>4, <1>9, <2>1 DEF Begun
  <2>11. QED
    BY <2>8, <2>9, <2>10 DEF LineInv
<1>10. QED
  BY <1>8, <1>9

LEMMA WriteKeeps ==
  ASSUME PInv, WriteSymbol PROVE PInv'
<1> DEFINE n == Len(Line)
<1>1. /\ n \in Nat /\ Len(Line') = n + 1 /\ Line'[n + 1] = Item
      /\ \A i \in 1 .. n : Line'[i] = Line[i]
      /\ LineTypeOK'
  BY WriteAppends
<1>2. /\ SyncTypeOK /\ CodeTypeOK /\ CountInv /\ Phases /\ HeaderSymbols = 8
      /\ LineInv(Line) /\ DemodInv /\ TakenInv /\ CodesInv /\ TailInv /\ NibsInv /\ RoomInv
  BY PhaseOfSymbol DEF PInv, PipeTypeOK, WriteSymbol, HeaderSymbols
<1>3. /\ words' = words /\ grays' = grays /\ codes' = codes /\ nibs' = nibs /\ fd_out' = fd_out
      /\ fd_frame_info' = fd_frame_info /\ fd_is_header' = fd_is_header
      /\ di_is_header' = di_is_header /\ di_cr' = di_cr /\ hm_is_header' = hm_is_header
      /\ hm_cr' = hm_cr /\ hd_left' = hd_left /\ fi_q' = fi_q
  BY DEF WriteSymbol, demodState, deinterState, hammingState, headerState, messages
<1>4. /\ SyncTypeOK' /\ CountInv' /\ rates' = rates /\ symb_numb' = symb_numb
      /\ frame_cnt <= frame_cnt' /\ (~received_head => symbol_cnt' = symbol_cnt + 1)
  BY WriteCounts
<1>5. LineInv(Line)'
  BY WriteLine
<1>6. PipeTypeOK'
  BY <1>1, <1>2, <1>3, <1>4 DEF PipeTypeOK, CodeTypeOK
<1>7. CodesInv' /\ NibsInv' /\ (Taken' <=> Taken) /\ (Continues => Continues')
  <2>1. /\ frame_cnt' \in Nat /\ Len(rates') \in Nat /\ Len(rates) <= Len(rates')
        /\ \A f \in 1 .. Len(rates) : rates'[f] = rates[f]
    BY <1>4 DEF SyncTypeOK
  <2>2. UNCHANGED <<codes, nibs, hammingState>>
    BY <1>3 DEF hammingState
  <2>3. QED
    BY <1>2, <1>4, <2>1, <2>2, RatesKept
<1>8. ~Taken /\ fi_q = <<>>
  BY <1>2 DEF TakenInv, Phases
<1>9. TakenInv'
  BY <1>2, <1>3, <1>7, <1>8 DEF TakenInv, Taken
<1>10. DemodInv'
  <2>1. \A k \in 1 .. Len(grays) + Len(words) : k \in 1 .. n /\ Line'[k] = Line[k]
    <3>1. Parts(Line, grays, words, fd_out, fd_frame_info, sync_out)
      BY LineNow DEF PInv, PipeTypeOK
    <3>2. QED
      BY <1>1, <3>1 DEF Parts
  <2>2. \A k \in 1 .. Len(grays) + Len(words) : ~IsHdr(Line[k])
    <3> SUFFICES ASSUME NEW k \in 1 .. Len(grays) + Len(words), IsHdr(Line[k]) PROVE FALSE
      OBVIOUS
    <3>1. symbol_cnt = HeaderSymbols /\ ~received_head
      BY <1>2, <2>1 DEF DemodInv, LineInv, Shape
    <3>2. QED
      BY <1>2, <3>1 DEF Phases
  <2>3. QED
    BY <1>2, <1>3, <2>1, <2>2 DEF DemodInv
<1>11. TailInv'
  <2> SUFFICES ASSUME TagPassed(Line)' PROVE Continues
    BY <1>7 DEF TailInv
  <2>1. Line'[1].tag = <<>>
    BY <1>1 DEF TagPassed
  <2>2. CASE n = 0
    <3>1. TagOfSymbol = <<>>
      BY <1>1, <2>1, <2>2 DEF Item
    <3>2. symbol_cnt \in 1 .. 7 => received_head
      BY <1>2, <2>2 DEF LineInv, Begun
    <3>3. received_head /\ symbol_cnt > HeaderSymbols
      BY <1>2, <3>1, <3>2 DEF Phases
    <3>4. QED
      BY <1>2, <2>2, <3>3 DEF TailInv, TagPassed
  <2>3. CASE n # 0
    <3>1. Line'[1] = Line[1]
      BY <1>1, <2>3
    <3>2. QED
      BY <1>2, <2>1, <2>3, <3>1 DEF TailInv, TagPassed
  <2>4. QED
    BY <2>2, <2>3
<1>12. RoomInv'
  BY <1>2, <1>3, <1>4 DEF RoomInv
<1>13. QED
  BY <1>4, <1>5, <1>6, <1>7, <1>9, <1>10, <1>11, <1>12 DEF PInv

LEMMA AnswerKeeps ==
  ASSUME PInv, TakeAnswer PROVE PInv'
<1> DEFINE msg == fi_q[1]
<1>1. /\ SyncTypeOK /\ LineTypeOK /\ CodeTypeOK /\ CountInv /\ HeaderSymbols = 8
      /\ LineInv(Line) /\ DemodInv /\ TakenInv /\ CodesInv /\ NibsInv /\ RoomInv
  BY DEF PInv, PipeTypeOK, HeaderSymbols
<1>2. /\ sync_out' = sync_out /\ words' = words /\ grays' = grays /\ codes' = codes /\ nibs' = nibs
      /\ fd_out' = fd_out /\ fd_frame_info' = fd_frame_info /\ fd_is_header' = fd_is_header
      /\ fd_cr' = fd_cr /\ di_is_header' = di_is_header /\ di_cr' = di_cr
      /\ hm_is_header' = hm_is_header /\ hm_cr' = hm_cr /\ hd_left' = hd_left
  BY DEF TakeAnswer, demodState, deinterState, hammingState, headerState
<1>3. fi_q # <<>> /\ fi_q \in Seq(HeaderMsgType) /\ Len(fi_q) = 1 /\ msg \in HeaderMsgType
  <2>1. fi_q # <<>> /\ fi_q \in Seq(HeaderMsgType)
    BY <1>1 DEF TakeAnswer, CodeTypeOK
  <2>2. Len(fi_q) = 1
    <3>1. Len(fi_q) \in Nat \ {0}
      BY <2>1, EmptySeq
    <3>2. Len(fi_q) <= 1
      BY <1>1 DEF TakenInv
    <3>3. QED
      BY <3>1, <3>2
  <2>3. QED
    BY <2>1, <2>2
<1>4. fi_q' = <<>> /\ Head(fi_q) = msg
  BY <1>3 DEF TakeAnswer
<1>5. Len(Line) = 0 /\ ~received_head /\ symbol_cnt = 8 /\ ~Taken
  BY <1>1, <1>3 DEF TakenInv
<1>6. /\ msg.cr \in Nat /\ msg.pay_len \in Nat /\ msg.crc \in BOOLEAN /\ SymbNumb(msg) \in Nat
  <2>1. msg.cr \in Nat /\ msg.pay_len \in Nat /\ msg.crc \in BOOLEAN
    BY <1>3 DEF HeaderMsgType
  <2>2. QED
    BY <2>1, SymbNumbNat
<1>7. /\ rates' \in Seq(Nat) /\ Len(rates) \in Nat /\ Len(rates') = Len(rates) + 1
      /\ \A f \in 1 .. Len(rates) : rates'[f] = rates[f]
  <2>1. rates' = Append(rates, msg.cr) /\ rates \in Seq(Nat)
    BY <1>1, <1>4 DEF TakeAnswer, SyncTypeOK
  <2>2. msg.cr \in Nat
    BY <1>6
  <2> HIDE DEF msg
  <2>3. QED
    BY <2>1, <2>2, AppendProperties
<1>8. frame_cnt \in Nat \ {0} /\ frame_cnt = Len(rates) + 1 /\ symb_numb \in Nat
  BY <1>1, <1>5 DEF CountInv, SyncTypeOK
<1>9. \/ /\ msg.err /\ frame_cnt' = frame_cnt + 1 /\ symbol_cnt' = 0 /\ received_head' = FALSE
         /\ symb_numb' = symb_numb
      \/ /\ ~msg.err /\ frame_cnt' = frame_cnt /\ symbol_cnt' = 8 /\ received_head' = TRUE
         /\ symb_numb' = SymbNumb(msg)
  BY <1>4, <1>5 DEF TakeAnswer, NextFrame
<1> HIDE DEF msg
<1>10. SyncTypeOK' /\ frame_cnt <= frame_cnt'
  <2>1. received_head' \in BOOLEAN
    BY <1>9
  <2>2. frame_cnt' \in Nat \ {0} /\ symbol_cnt' \in Nat /\ symb_numb' \in Nat /\ frame_cnt <= frame_cnt'
    BY <1>6, <1>8, <1>9
  <2>3. QED
    BY <1>7, <2>1, <2>2 DEF SyncTypeOK
<1>11. LineTypeOK' /\ Line' = Line
  BY <1>1, <1>2 DEF LineTypeOK, Line
<1>12. CodeTypeOK'
  <2>1. fi_q' \in Seq(HeaderMsgType)
    BY <1>4, EmptySeq
  <2>2. QED
    BY <1>1, <1>2, <2>1 DEF CodeTypeOK
<1>13. CountInv'
  BY <1>1, <1>7, <1>8, <1>9 DEF CountInv
<1>14. LineInv(Line)'
  <2>1. Shape(Line)'
    <3>1. \A k \in 1 .. Len(Line') : FALSE
      BY <1>5, <1>11
    <3>2. QED
      BY <3>1, Zenon DEF Shape
  <2>2. Fits(Line)'
    <3>1. symb_numb' \in Nat /\ Len(Line') = 0
      BY <1>5, <1>10, <1>11 DEF SyncTypeOK
    <3>2. QED
      BY <1>9, <3>1 DEF Fits, Payload, HeaderSymbols
  <2>3. Begun(Line)'
    BY <1>1, <1>9 DEF Begun
  <2>4. QED
    BY <2>1, <2>2, <2>3 DEF LineInv
<1>15. DemodInv'
  <2>1. Len(grays) + Len(words) = 0
    <3>1. Parts(Line, grays, words, fd_out, fd_frame_info, sync_out)
      BY <1>1, LineNow
    <3>2. /\ Len(grays) \in Nat /\ Len(words) \in Nat /\ Len(fd_out) \in Nat /\ Len(sync_out) \in Nat
          /\ Len(Line) = Len(grays) + Len(words) + Len(fd_out) + Len(sync_out)
      BY <3>1, Zenon DEF Parts
    <3>3. QED
      BY <1>5, <3>2
  <2>2. \A k \in 1 .. Len(grays') + Len(words') : FALSE
    BY <1>2, <2>1
  <2>3. QED
    BY <1>1, <1>2, <2>2 DEF DemodInv
<1>16. CodesInv' /\ NibsInv' /\ (Taken' <=> Taken)
  <2>1. frame_cnt' \in Nat /\ Len(rates') \in Nat /\ Len(rates) <= Len(rates')
    BY <1>7, <1>10 DEF SyncTypeOK
  <2>2. UNCHANGED <<codes, nibs, hammingState>>
    BY <1>2 DEF hammingState
  <2>3. QED
    BY <1>1, <1>7, <1>10, <2>1, <2>2, RatesKept
<1>17. TakenInv'
  <2>1. Len(fi_q') = 0
    BY <1>4, EmptySeq
  <2>2. ~Taken' /\ fi_q' = <<>>
    BY <1>4, <1>5, <1>16
  <2>3. QED
    BY <1>1, <1>2, <2>1, <2>2 DEF TakenInv
<1>18. TailInv'
  BY <1>1, <1>5, <1>9, <1>11 DEF TailInv, TagPassed
<1>19. RoomInv'
  BY <1>1, <1>2, <1>3, <1>4, <1>9 DEF RoomInv, msg
<1>20. QED
  BY <1>10, <1>11, <1>12, <1>13, <1>14, <1>15, <1>16, <1>17, <1>18, <1>19 DEF PInv, PipeTypeOK

(***************************************************************************)
(* Up to the next tag.                                                     *)
(***************************************************************************)
LEMMA SmallestExists ==
  ASSUME NEW S, S \subseteq Nat, S # {}
  PROVE  \E i \in S : \A j \in S : i <= j
<1>1. PICK x \in S : \A y \in S : ~ (<<y, x>> \in OpToRel(<, Nat))
  BY NatLessThanWellFounded, WFMin, Zenon
<1>2. \A y \in S : ~(y < x)
  BY <1>1 DEF OpToRel
<1>3. QED
  BY <1>2

LEMMA NextTag ==
  ASSUME NEW stream, Len(stream) \in Nat, Len(stream) > 0
  PROVE  /\ DI!UpToNextTag(stream) \in 1 .. Len(stream)
         /\ \A i \in 2 .. DI!UpToNextTag(stream) : stream[i].tag = <<>>
         /\ DI!UpToNextTag(stream) < Len(stream) =>
              stream[DI!UpToNextTag(stream) + 1].tag # <<>>
         /\ DI!TagsAt(stream) \ {0} # {} => DI!UpToNextTag(stream) < Len(stream)
<1> DEFINE later == DI!TagsAt(stream) \ {0}
           n == DI!UpToNextTag(stream)
<1>1. /\ later \subseteq 1 .. Len(stream) - 1
      /\ \A i \in 1 .. Len(stream) - 1 : i \in later <=> stream[i + 1].tag # <<>>
  BY DEF DI!TagsAt
<1>2. CASE later = {}
  <2>1. n = Len(stream)
    BY <1>2 DEF DI!UpToNextTag
  <2>2. \A i \in 2 .. n : i - 1 \in 1 .. Len(stream) - 1 /\ (i - 1) + 1 = i
    BY <2>1
  <2> HIDE DEF later, n
  <2>3. \A i \in 2 .. n : stream[i].tag = <<>>
    <3> SUFFICES ASSUME NEW i \in 2 .. n PROVE stream[i].tag = <<>>
      OBVIOUS
    <3>1. i - 1 \in 1 .. Len(stream) - 1 /\ (i - 1) + 1 = i /\ i - 1 \notin later
      BY <1>2, <2>2
    <3>2. stream[(i - 1) + 1].tag = <<>>
      BY <1>1, <3>1
    <3>3. QED
      BY <3>1, <3>2
  <2>4. QED
    BY <1>2, <2>1, <2>3 DEF n, later
<1>3. CASE later # {}
  <2>1. \E i \in later : \A j \in later : i <= j
    <3>1. later \subseteq Nat
      BY <1>1
    <3> HIDE DEF later
    <3>2. QED
      BY <3>1, <1>3, SmallestExists
  <2>2. DI!Lowest(later) \in later /\ \A j \in later : DI!Lowest(later) <= j
    BY <2>1 DEF DI!Lowest
  <2>3. n = DI!Lowest(later)
    BY <1>3 DEF DI!UpToNextTag
  <2>4. n \in later /\ n \in 1 .. Len(stream) - 1 /\ \A j \in later : n <= j
    BY <1>1, <2>2, <2>3
  <2> HIDE DEF later, n
  <2>5. \A i \in 2 .. n : stream[i].tag = <<>>
    <3> SUFFICES ASSUME NEW i \in 2 .. n, stream[i].tag # <<>> PROVE FALSE
      OBVIOUS
    <3>1. i - 1 \in 1 .. Len(stream) - 1 /\ (i - 1) + 1 = i /\ i - 1 < n
      BY <2>4
    <3>2. i - 1 \in later
      BY <1>1, <3>1
    <3>3. QED
      BY <2>4, <3>1, <3>2
  <2>6. stream[n + 1].tag # <<>>
    BY <1>1, <2>4
  <2>7. n \in 1 .. Len(stream) /\ n < Len(stream)
    BY <2>4
  <2>8. QED
    BY <2>5, <2>6, <2>7 DEF n
<1>4. QED
  BY <1>2, <1>3

\* The HeaderDecoder looks for it in the same way.
LEMMA SameNextTag == HD!NibsToNextTag = DI!UpToNextTag(nibs)
BY Zenon DEF HD!NibsToNextTag, HD!TaggedNibs, HD!LowestOf,
             DI!UpToNextTag, DI!TagsAt, DI!Lowest

(***************************************************************************)
(* GrayMapping.                                                            *)
(***************************************************************************)
\* The items it maps move within the line.
LEMMA GrayMoves ==
  ASSUME LineTypeOK, GrayMappingCall, Mapped \in 0 .. Len(words)
  PROVE  /\ LineTypeOK' /\ Line' = Line
         /\ Len(grays') = Len(grays) + Mapped /\ Len(words') = Len(words) - Mapped
<1> DEFINE n == Mapped
           taken == SubSeq(words, 1, n)
<1>1. grays' = grays \o taken /\ words' = SubSeq(words, n + 1, Len(words))
  BY DEF GrayMappingCall
<1>2. /\ sync_out' = sync_out /\ fd_out' = fd_out /\ fd_frame_info' = fd_frame_info
      /\ fd_is_header' = fd_is_header /\ fd_cr' = fd_cr
  BY DEF GrayMappingCall, demodState
<1>3. words \in Seq(ItemType) /\ grays \in Seq(ItemType) /\ Len(words) \in Nat /\ n \in 0 .. Len(words)
  BY DEF LineTypeOK
<1> HIDE DEF n
<1>4. /\ taken \in Seq(ItemType) /\ Len(taken) = n
      /\ \A i \in 1 .. n : taken[i] = words[i]
  BY <1>3, FrontTaken
<1>5. /\ words' \in Seq(ItemType) /\ Len(words') = Len(words) - n
      /\ \A i \in 1 .. Len(words) - n : words'[i] = words[i + n]
  BY <1>1, <1>3, FrontDropped
<1> HIDE DEF taken
<1>6. /\ grays' \in Seq(ItemType) /\ Len(grays') = Len(grays) + n /\ Len(grays) \in Nat
      /\ \A i \in 1 .. Len(grays) : grays'[i] = grays[i]
      /\ \A i \in 1 .. n : grays'[Len(grays) + i] = words[i]
  <2>1. /\ grays \o taken \in Seq(ItemType) /\ Len(grays \o taken) = Len(grays) + Len(taken)
        /\ Len(grays) \in Nat
        /\ \A i \in 1 .. Len(grays) : (grays \o taken)[i] = grays[i]
        /\ \A i \in 1 .. Len(taken) : (grays \o taken)[Len(grays) + i] = taken[i]
    <3>1. grays \in Seq(ItemType) /\ taken \in Seq(ItemType)
      BY <1>3, <1>4
    <3>2. QED
      BY <3>1, Joined
  <2>2. QED
    BY <1>1, <1>4, <2>1
<1>7. LineTypeOK'
  BY <1>2, <1>5, <1>6 DEF LineTypeOK
<1>8. Parts(Line, grays, words, fd_out, fd_frame_info, sync_out)
  BY LineNow
<1>9. Parts(Line', grays', words', fd_out, fd_frame_info, sync_out)
  BY <1>2, <1>7, LineNext
<1>10. Line \in Seq(ItemType) /\ Line' \in Seq(ItemType) /\ Len(Line') = Len(Line)
  BY <1>3, <1>5, <1>6, <1>8, <1>9 DEF Parts
<1>11. Len(grays') + Len(words') = Len(grays) + Len(words)
  BY <1>3, <1>5, <1>6
<1>12. ASSUME NEW i \in 1 .. Len(Line) PROVE Line'[i] = Line[i]
  <2>1. CASE i \in 1 .. Len(grays)
    BY <1>3, <1>6, <1>8, <1>9, <2>1 DEF Parts
  <2>2. CASE \E j \in 1 .. Len(words) : i = Len(grays) + j
    <3>1. PICK j \in 1 .. Len(words) : i = Len(grays) + j
      BY <2>2
    <3>2. Line[i] = words[j]
      BY <1>8, <3>1 DEF Parts
    <3>3. CASE j <= n
      <4>1. j \in 1 .. n /\ i \in 1 .. Len(grays')
        BY <1>3, <1>6, <3>1, <3>3
      <4>2. Line'[i] = grays'[i] /\ grays'[i] = words[j]
        BY <1>6, <1>9, <3>1, <4>1 DEF Parts
      <4>3. QED
        BY <3>2, <4>2
    <3>4. CASE j > n
      <4>1. /\ j - n \in 1 .. Len(words') /\ j - n \in 1 .. Len(words) - n
            /\ i = Len(grays') + (j - n) /\ (j - n) + n = j
        BY <1>3, <1>5, <1>6, <3>1, <3>4
      <4>2. Line'[i] = words'[j - n]
        BY <1>9, <4>1 DEF Parts
      <4>3. words'[j - n] = words[j]
        BY <1>5, <4>1
      <4>4. QED
        BY <3>2, <4>2, <4>3
    <3>5. QED
      BY <1>3, <3>3, <3>4
  <2>3. CASE \E j \in 1 .. Len(fd_out) : i = Len(grays) + Len(words) + j
    <3>1. PICK j \in 1 .. Len(fd_out) : i = Len(grays) + Len(words) + j
      BY <2>3
    <3>2. Line[i] = BlockItem(fd_out[j], fd_frame_info, j)
      BY <1>8, <3>1 DEF Parts
    <3>3. Line'[Len(grays') + Len(words') + j] = BlockItem(fd_out[j], fd_frame_info, j)
      BY <1>9, <3>1 DEF Parts
    <3>4. QED
      BY <1>11, <3>1, <3>2, <3>3
  <2>4. CASE \E j \in 1 .. Len(sync_out) : i = Len(grays) + Len(words) + Len(fd_out) + j
    <3>1. PICK j \in 1 .. Len(sync_out) : i = Len(grays) + Len(words) + Len(fd_out) + j
      BY <2>4
    <3>2. Line[i] = SymbolItem(sync_out[j])
      BY <1>8, <3>1 DEF Parts
    <3>3. Line'[Len(grays') + Len(words') + Len(fd_out) + j] = SymbolItem(sync_out[j])
      BY <1>9, <3>1 DEF Parts
    <3>4. QED
      BY <1>11, <3>1, <3>2, <3>3
  <2>5. InPart(i, grays, words, fd_out, sync_out)
    BY <1>8, Places
  <2>6. QED
    BY <2>1, <2>2, <2>3, <2>4, <2>5 DEF InPart
<1>13. Line' = Line
  BY <1>10, <1>12, SeqEqual
<1>14. QED
  BY <1>5, <1>6, <1>7, <1>13 DEF n

LEMMA GrayKeeps ==
  ASSUME PInv, GrayMappingCall PROVE PInv'
<1>1. /\ SyncTypeOK /\ LineTypeOK /\ CodeTypeOK /\ CountInv /\ HeaderSymbols = 8
      /\ LineInv(Line) /\ DemodInv /\ TakenInv /\ CodesInv /\ TailInv /\ NibsInv /\ RoomInv
  BY DEF PInv, PipeTypeOK, HeaderSymbols
<1>2. /\ codes' = codes /\ nibs' = nibs /\ fd_out' = fd_out /\ fd_frame_info' = fd_frame_info
      /\ fd_is_header' = fd_is_header /\ di_is_header' = di_is_header /\ di_cr' = di_cr
      /\ hm_is_header' = hm_is_header /\ hm_cr' = hm_cr /\ hd_left' = hd_left /\ fi_q' = fi_q
      /\ UNCHANGED <<syncState, codes, nibs, hammingState>>
  BY DEF GrayMappingCall, demodState, deinterState, hammingState, headerState, messages
<1>3. Parts(Line, grays, words, fd_out, fd_frame_info, sync_out)
  BY <1>1, LineNow
<1>4. Len(grays) \in Nat /\ Len(words) \in Nat /\ Len(Line) \in Nat /\ GraysCap \in Nat
  <2>1. {GraysCap} \subseteq Nat
    BY PipelineAssumption
  <2>2. QED
    BY <1>3, <2>1 DEF Parts
<1>5. /\ Mapped \in 0 .. Len(words)
      /\ Mapped > 0 =>
           \/ Len(grays) + Mapped <= GraysCap
           \/ Mapped < Len(words) /\ words[Mapped + 1].tag # <<>>
  <2>1. CASE words = <<>> \/ Len(grays) >= GraysCap
    <3>1. Mapped = 0
      BY <2>1 DEF Mapped
    <3>2. QED
      BY <1>4, <3>1
  <2>2. CASE ~(words = <<>> \/ Len(grays) >= GraysCap)
    <3>1. Len(words) > 0
      BY <1>1, <2>2, EmptySeq DEF LineTypeOK
    <3>2. CASE DI!TagsAt(words) \ {0} # {}
      <4>1. Mapped = DI!UpToNextTag(words)
        BY <2>2, <3>2 DEF Mapped
      <4>2. QED
        BY <1>4, <3>1, <3>2, <4>1, NextTag
    <3>3. CASE DI!TagsAt(words) \ {0} = {}
      <4>1. Mapped = SmallerOf(Len(words), GraysCap - Len(grays))
        BY <2>2, <3>3 DEF Mapped
      <4>2. QED
        BY <1>4, <2>2, <4>1 DEF SmallerOf
    <3>4. QED
      BY <3>2, <3>3
  <2>3. QED
    BY <2>1, <2>2
<1>6. /\ LineTypeOK' /\ Line' = Line
      /\ Len(grays') = Len(grays) + Mapped /\ Len(words') = Len(words) - Mapped
  BY <1>1, <1>5, GrayMoves
<1>7. SyncTypeOK' /\ CountInv'
  BY <1>1, <1>2, SyncStays
<1>8. LineInv(Line)' /\ (TagPassed(Line)' <=> TagPassed(Line))
  BY <1>1, <1>2, <1>6, LineUnmoved
<1>9. CodesInv' /\ NibsInv' /\ (Taken' <=> Taken) /\ (Continues' <=> Continues)
  BY <1>1, <1>2, CodesStay
<1>10. symbol_cnt' = symbol_cnt /\ symb_numb' = symb_numb /\ received_head' = received_head
  BY <1>2 DEF syncState
<1>11. DemodInv'
  <2>1. Len(grays') + Len(words') = Len(grays) + Len(words)
    BY <1>4, <1>5, <1>6
  <2>2. QED
    BY <1>1, <1>2, <1>6, <1>10, <2>1 DEF DemodInv
<1>12. TakenInv'
  BY <1>1, <1>2, <1>6, <1>9, <1>10 DEF TakenInv
<1>13. TailInv'
  BY <1>1, <1>8, <1>9 DEF TailInv
<1>14. RoomForFrames => Len(grays') <= GraysCap
  <2> SUFFICES ASSUME RoomForFrames PROVE Len(grays') <= GraysCap
    OBVIOUS
  <2>1. CASE Mapped = 0 \/ Len(grays) + Mapped <= GraysCap
    BY <1>1, <1>4, <1>6, <2>1 DEF RoomInv
  <2>2. CASE Mapped > 0 /\ Mapped < Len(words) /\ words[Mapped + 1].tag # <<>>
    <3> DEFINE k == Len(grays) + (Mapped + 1)
    <3>1. /\ k \in 1 .. Len(grays) + Len(words) /\ k \in 1 .. Len(Line) /\ k # 1
          /\ Line[k] = words[Mapped + 1]
      <4>1. Mapped + 1 \in 1 .. Len(words)
        BY <1>4, <1>5, <2>2
      <4>2. k \in 1 .. Len(grays) + Len(words) /\ k # 1
        BY <1>4, <1>5, <2>2
      <4> HIDE DEF k
      <4>3. Len(Line) >= Len(grays) + Len(words)
        BY <1>3, <1>4 DEF Parts
      <4>4. Line[k] = words[Mapped + 1]
        BY <1>3, <4>1 DEF Parts, k
      <4>5. QED
        BY <1>4, <4>2, <4>3, <4>4
    <3>2. IsHdr(Line[k])
      BY <1>1, <2>2, <3>1 DEF LineInv, Shape, IsHdr, IsPay
    <3>3. Len(Line) - k + 1 = symbol_cnt /\ ~received_head /\ symbol_cnt = 8
      BY <1>1, <3>1, <3>2 DEF LineInv, Shape, DemodInv
    <3>4. Len(Line) <= Payload + 8
      BY <1>1, <3>3 DEF LineInv, Fits
    <3>5. Payload <= GraysCap /\ Payload \in Nat
      BY <1>1, <1>4 DEF RoomInv, Payload, SyncTypeOK
    <3>6. QED
      BY <1>4, <1>5, <1>6, <3>3, <3>4, <3>5
  <2>3. QED
    BY <1>5, <2>1, <2>2
<1>15. RoomInv'
  BY <1>1, <1>2, <1>10, <1>14 DEF RoomInv
<1>16. PipeTypeOK'
  BY <1>1, <1>2, <1>6, <1>7 DEF PipeTypeOK, CodeTypeOK
<1>17. QED
  BY <1>7, <1>8, <1>9, <1>11, <1>12, <1>13, <1>15, <1>16 DEF PInv

(***************************************************************************)
(* FftDemod.                                                               *)
(***************************************************************************)
\* A symbol goes to the end of the block, which stays or goes out, in its place of
\* the line.
DemodMoved(is_header, cr, collected, tag, block) ==
  /\ LineTypeOK' /\ fd_is_header' = is_header
  /\ block \in Seq(SymbolId) /\ Len(block) = Len(collected) + 1
  /\ \A i \in 1 .. Len(collected) : block[i] = collected[i]
  /\ block[Len(collected) + 1] = sync_out[1].frame
  /\ Len(sync_out) >= 1 /\ Len(Tail(sync_out)) = Len(sync_out) - 1
  /\ \A i \in 2 .. Len(sync_out) : Tail(sync_out)[i - 1] = sync_out[i]
  /\ Parts(Line', grays, words, block, tag, Tail(sync_out))
  /\ IF Len(block) = FD!DemodBlockSize(is_header, cr)
       THEN /\ fd_out' = <<>> /\ fd_frame_info' = <<>>
            /\ Len(words') = Len(words) + Len(block)
       ELSE fd_out' = block /\ fd_frame_info' = tag /\ words' = words

LEMMA DemodMoves ==
  ASSUME LineTypeOK, sync_out # <<>>, grays' = grays,
         NEW is_header \in BOOLEAN, NEW cr \in Nat,
         NEW collected \in Seq(SymbolId), NEW tag \in Seq(TagType), NEW block,
         block = Append(collected, sync_out[1].frame),
         FD!DemodSymbol(is_header, cr, collected, tag)
  PROVE  DemodMoved(is_header, cr, collected, tag, block)
<1> DEFINE rest == Tail(sync_out)
           out == FD!TaggedBlock(block, tag)
<1>1. /\ sync_out \in Seq(SymType) /\ words \in Seq(ItemType) /\ grays \in Seq(ItemType)
      /\ Len(sync_out) \in Nat \ {0}
  BY EmptySeq DEF LineTypeOK
<1>2. /\ rest \in Seq(SymType) /\ Len(rest) = Len(sync_out) - 1
      /\ \A i \in 1 .. Len(rest) : rest[i] = sync_out[i + 1]
      /\ Head(sync_out) = sync_out[1] /\ sync_out[1] \in SymType
  BY <1>1, HeadTailProperties
<1>3. \A i \in 2 .. Len(sync_out) : rest[i - 1] = sync_out[i]
  <2> SUFFICES ASSUME NEW i \in 2 .. Len(sync_out) PROVE rest[i - 1] = sync_out[i]
    OBVIOUS
  <2>1. i - 1 \in 1 .. Len(rest) /\ (i - 1) + 1 = i
    BY <1>1, <1>2
  <2> HIDE DEF rest
  <2>2. rest[i - 1] = sync_out[(i - 1) + 1]
    BY <1>2, <2>1
  <2>3. QED
    BY <2>1, <2>2
<1>4. /\ block \in Seq(SymbolId) /\ Len(block) = Len(collected) + 1
      /\ \A i \in 1 .. Len(collected) : block[i] = collected[i]
      /\ block[Len(collected) + 1] = sync_out[1].frame
  <2>1. sync_out[1].frame \in SymbolId
    BY <1>2 DEF SymType
  <2>2. QED
    BY <2>1, AppendProperties
<1>5. out \in Seq(ItemType) /\ Len(out) = Len(block)
      /\ \A i \in 1 .. Len(block) : out[i] = BlockItem(block[i], tag, i)
  BY <1>4, TaggedBlockItems
<1> HIDE DEF rest, out
<1>6. sync_out' = rest /\ fd_is_header' = is_header /\ fd_cr' = cr
  BY DEF FD!DemodSymbol, rest
<1>7. IF Len(block) = FD!DemodBlockSize(is_header, cr)
        THEN fd_out' = <<>> /\ fd_frame_info' = <<>> /\ words' = words \o out
        ELSE fd_out' = block /\ fd_frame_info' = tag /\ words' = words
  BY <1>2, Zenon DEF FD!DemodSymbol, out
<1>8. CASE Len(block) = FD!DemodBlockSize(is_header, cr)
  <2>1. fd_out' = <<>> /\ fd_frame_info' = <<>> /\ words' = words \o out
    BY <1>7, <1>8
  <2>2. /\ words \o out \in Seq(ItemType) /\ Len(words \o out) = Len(words) + Len(out)
        /\ Len(words) \in Nat /\ Len(out) \in Nat
        /\ \A i \in 1 .. Len(words) : (words \o out)[i] = words[i]
        /\ \A i \in 1 .. Len(out) : (words \o out)[Len(words) + i] = out[i]
    <3>1. words \in Seq(ItemType) /\ out \in Seq(ItemType)
      BY <1>1, <1>5
    <3>2. QED
      BY <3>1, Joined
  <2>3. LineTypeOK'
    <3>1. words' \in Seq(ItemType)
      BY <2>1, <2>2
    <3>2. fd_out' \in Seq(SymbolId) /\ fd_frame_info' \in Seq(TagType)
      BY <2>1, EmptySeq
    <3>3. QED
      BY <1>1, <1>2, <1>6, <3>1, <3>2 DEF LineTypeOK
  <2>4. Parts(Line', grays, words', fd_out', fd_frame_info', rest)
    BY <1>6, <2>3, LineNext
  <2>5. Len(words') = Len(words) + Len(block) /\ Len(fd_out') = 0
    BY <1>5, <2>1, <2>2, EmptySeq
  <2>6. /\ \A i \in 1 .. Len(words) : words'[i] = words[i]
        /\ \A i \in 1 .. Len(block) : words'[Len(words) + i] = BlockItem(block[i], tag, i)
    BY <1>5, <2>1, <2>2
  <2>7. Len(grays) \in Nat /\ Len(words) \in Nat /\ Len(block) \in Nat /\ Len(rest) \in Nat
    BY <1>1, <1>2, <1>4
  <2>8. /\ Line' \in Seq(ItemType)
        /\ Len(Line') = Len(grays) + Len(words) + Len(block) + Len(rest)
        /\ \A i \in 1 .. Len(grays) : Line'[i] = grays[i]
    BY <2>4, <2>5, <2>7 DEF Parts
  <2>9. \A i \in 1 .. Len(words) : Line'[Len(grays) + i] = words[i]
    <3> SUFFICES ASSUME NEW i \in 1 .. Len(words) PROVE Line'[Len(grays) + i] = words[i]
      OBVIOUS
    <3>1. i \in 1 .. Len(words')
      BY <2>5, <2>7
    <3>2. QED
      BY <2>4, <2>6, <3>1 DEF Parts
  <2>10. \A i \in 1 .. Len(block) : Line'[Len(grays) + Len(words) + i] = BlockItem(block[i], tag, i)
    <3> SUFFICES ASSUME NEW i \in 1 .. Len(block)
                 PROVE  Line'[Len(grays) + Len(words) + i] = BlockItem(block[i], tag, i)
      OBVIOUS
    <3>1. Len(words) + i \in 1 .. Len(words')
          /\ Len(grays) + (Len(words) + i) = Len(grays) + Len(words) + i
      BY <2>5, <2>7
    <3>2. Line'[Len(grays) + (Len(words) + i)] = words'[Len(words) + i]
      BY <2>4, <3>1 DEF Parts
    <3>3. QED
      BY <2>6, <3>1, <3>2
  <2>11. \A i \in 1 .. Len(rest) :
           Line'[Len(grays) + Len(words) + Len(block) + i] = SymbolItem(rest[i])
    <3> SUFFICES ASSUME NEW i \in 1 .. Len(rest)
                 PROVE  Line'[Len(grays) + Len(words) + Len(block) + i] = SymbolItem(rest[i])
      OBVIOUS
    <3>1. Line'[Len(grays) + Len(words') + Len(fd_out') + i] = SymbolItem(rest[i])
      BY <2>4 DEF Parts
    <3>2. Len(grays) + Len(words') + Len(fd_out') + i = Len(grays) + Len(words) + Len(block) + i
      BY <2>5, <2>7
    <3>3. QED
      BY <3>1, <3>2
  <2>12. Parts(Line', grays, words, block, tag, rest)
    BY <2>7, <2>8, <2>9, <2>10, <2>11 DEF Parts
  <2>13. QED
    BY <1>1, <1>2, <1>3, <1>4, <1>6, <1>8, <2>1, <2>3, <2>5, <2>12 DEF rest, DemodMoved
<1>9. CASE Len(block) # FD!DemodBlockSize(is_header, cr)
  <2>1. fd_out' = block /\ fd_frame_info' = tag /\ words' = words
    BY <1>7, <1>9
  <2>2. LineTypeOK'
    BY <1>1, <1>2, <1>4, <1>6, <2>1 DEF LineTypeOK
  <2>3. Parts(Line', grays, words, block, tag, rest)
    BY <1>6, <2>1, <2>2, LineNext
  <2>4. QED
    BY <1>1, <1>2, <1>3, <1>4, <1>6, <1>9, <2>1, <2>2, <2>3 DEF rest, DemodMoved
<1>10. QED
  BY <1>8, <1>9

\* What the line loses: the symbols of the block that are not collected any more.
LEMMA DemodCuts ==
  ASSUME LineTypeOK, NEW collected, NEW tag, NEW block, NEW d \in Nat, Len(collected) \in Nat,
         Len(block) = Len(collected) + 1,
         \A i \in 1 .. Len(collected) : block[i] = collected[i],
         block[Len(collected) + 1] = sync_out[1].frame,
         Len(sync_out) >= 1, Len(Tail(sync_out)) = Len(sync_out) - 1,
         \A i \in 2 .. Len(sync_out) : Tail(sync_out)[i - 1] = sync_out[i],
         Parts(Line', grays, words, block, tag, Tail(sync_out)),
         Len(fd_out) = Len(collected) + d,
         \A i \in 1 .. Len(collected) :
           BlockItem(collected[i], tag, i) = BlockItem(fd_out[i], fd_frame_info, i),
         BlockItem(sync_out[1].frame, tag, Len(collected) + 1) = SymbolItem(sync_out[1])
  PROVE  Cut(Line, Line', Len(grays) + Len(words) + Len(collected), d)
<1> DEFINE a == Len(grays) + Len(words)
           b == Len(collected)
           rest == Tail(sync_out)
           s == Len(sync_out)
           n == Len(fd_out)
<1>1. Parts(Line, grays, words, fd_out, fd_frame_info, sync_out)
  BY LineNow
<1>2. /\ a \in Nat /\ b \in Nat /\ s \in Nat /\ s >= 1 /\ n = b + d
      /\ Len(Line) = a + n + s /\ Len(Line') = a + (b + 1) + (s - 1)
      /\ Len(grays) \in Nat /\ Len(words) \in Nat
  <2>1. /\ Len(Line) = Len(grays) + Len(words) + n + s
        /\ Len(grays) \in Nat /\ Len(words) \in Nat /\ n \in Nat /\ s \in Nat
    BY <1>1 DEF Parts
  <2>2. Len(Line') = Len(grays) + Len(words) + Len(block) + Len(rest)
    BY DEF Parts
  <2>3. Len(block) = b + 1 /\ Len(rest) = s - 1 /\ s >= 1 /\ b \in Nat /\ n = b + d
    OBVIOUS
  <2> HIDE DEF b, rest, s, n
  <2>4. a \in Nat /\ Len(grays) \in Nat /\ Len(words) \in Nat
    BY <2>1
  <2>5. Len(Line) = a + n + s /\ Len(Line') = a + Len(block) + Len(rest)
    BY <2>1, <2>2
  <2> HIDE DEF a
  <2>6. Len(Line') = a + (b + 1) + (s - 1)
    BY <2>3, <2>5
  <2>7. QED
    BY <2>1, <2>3, <2>4, <2>5, <2>6
<1>3. \A i \in 1 .. a : Line'[i] = Line[i]
  <2> SUFFICES ASSUME NEW i \in 1 .. a PROVE Line'[i] = Line[i]
    OBVIOUS
  <2>1. CASE i <= Len(grays)
    <3>1. i \in 1 .. Len(grays)
      BY <1>2, <2>1
    <3>2. QED
      BY <1>1, <3>1 DEF Parts
  <2>2. CASE i > Len(grays)
    <3>1. i - Len(grays) \in 1 .. Len(words) /\ Len(grays) + (i - Len(grays)) = i
      BY <1>2, <2>2
    <3>2. Line[Len(grays) + (i - Len(grays))] = Line'[Len(grays) + (i - Len(grays))]
      BY <1>1, <3>1 DEF Parts
    <3>3. QED
      BY <3>1, <3>2
  <2>3. QED
    BY <1>2, <2>1, <2>2
<1>4. /\ \A i \in 1 .. n : Line[a + i] = BlockItem(fd_out[i], fd_frame_info, i)
      /\ \A i \in 1 .. s : Line[a + n + i] = SymbolItem(sync_out[i])
  BY <1>1 DEF Parts
<1>5. /\ \A i \in 1 .. b + 1 : Line'[a + i] = BlockItem(block[i], tag, i)
      /\ \A i \in 1 .. s - 1 : Line'[a + (b + 1) + i] = SymbolItem(rest[i])
  BY DEF Parts
<1> HIDE DEF a, b, rest, s, n
<1>6. \A i \in a + 1 .. a + b : Line'[i] = Line[i]
  <2> SUFFICES ASSUME NEW i \in a + 1 .. a + b PROVE Line'[i] = Line[i]
    OBVIOUS
  <2>1. i - a \in 1 .. b /\ i - a \in 1 .. b + 1 /\ i - a \in 1 .. n /\ a + (i - a) = i
    BY <1>2
  <2>2. Line'[a + (i - a)] = BlockItem(block[i - a], tag, i - a)
    BY <1>5, <2>1
  <2>3. Line[a + (i - a)] = BlockItem(fd_out[i - a], fd_frame_info, i - a)
    BY <1>4, <2>1
  <2>4. BlockItem(block[i - a], tag, i - a) = BlockItem(fd_out[i - a], fd_frame_info, i - a)
    BY <2>1 DEF b
  <2>5. QED
    BY <2>1, <2>2, <2>3, <2>4
<1>7. Line'[a + b + 1] = Line[a + b + 1 + d]
  <2>1. b + 1 \in 1 .. b + 1 /\ 1 \in 1 .. s /\ a + (b + 1) = a + b + 1 /\ a + n + 1 = a + b + 1 + d
    BY <1>2
  <2>2. Line'[a + (b + 1)] = BlockItem(sync_out[1].frame, tag, b + 1)
    BY <1>5, <2>1 DEF b
  <2>3. Line[a + n + 1] = SymbolItem(sync_out[1])
    BY <1>4, <2>1
  <2>4. QED
    BY <2>1, <2>2, <2>3 DEF b
<1>8. \A i \in a + b + 2 .. Len(Line') : Line'[i] = Line[i + d]
  <2> SUFFICES ASSUME NEW i \in a + b + 2 .. Len(Line') PROVE Line'[i] = Line[i + d]
    OBVIOUS
  <2> DEFINE j == i - a - b
  <2>1. /\ j \in 2 .. s /\ j \in 1 .. s /\ j - 1 \in 1 .. s - 1
        /\ a + (b + 1) + (j - 1) = i /\ a + n + j = i + d
    BY <1>2
  <2> HIDE DEF j
  <2>2. Line'[a + (b + 1) + (j - 1)] = SymbolItem(rest[j - 1])
    BY <1>5, <2>1
  <2>3. Line[a + n + j] = SymbolItem(sync_out[j])
    BY <1>4, <2>1
  <2>4. rest[j - 1] = sync_out[j]
    BY <2>1 DEF s, rest
  <2>5. QED
    BY <2>1, <2>2, <2>3, <2>4
<1>9. Len(Line') + d = Len(Line)
  BY <1>2
<1>10. \A i \in 1 .. a + b : Line'[i] = Line[i]
  <2>1. \A i \in 1 .. a + b : i \in 1 .. a \/ i \in a + 1 .. a + b
    BY <1>2
  <2>2. QED
    BY <1>3, <1>6, <2>1
<1>11. \A i \in a + b + 1 .. Len(Line') : Line'[i] = Line[i + d]
  <2>1. \A i \in a + b + 1 .. Len(Line') : i = a + b + 1 \/ i \in a + b + 2 .. Len(Line')
    BY <1>2
  <2>2. QED
    BY <1>7, <1>8, <2>1
<1>12. Cut(Line, Line', a + b, d)
  BY <1>9, <1>10, <1>11 DEF Cut
<1>13. QED
  BY <1>12 DEF a, b

LEMMA CutNothing ==
  ASSUME NEW l \in Seq(ItemType), NEW m \in Seq(ItemType), NEW p \in Nat, Cut(l, m, p, 0)
  PROVE  m = l
<1>1. Len(m) = Len(l) /\ Len(l) \in Nat /\ Len(m) \in Nat
  BY DEF Cut
<1>2. ASSUME NEW i \in 1 .. Len(m) PROVE m[i] = l[i]
  <2>1. CASE i <= p
    BY <2>1 DEF Cut
  <2>2. CASE i > p
    <3>1. i \in p + 1 .. Len(m) /\ i + 0 = i
      BY <1>1, <2>2
    <3>2. m[i] = l[i + 0]
      BY <3>1 DEF Cut
    <3>3. QED
      BY <3>1, <3>2
  <2>3. QED
    BY <2>1, <2>2
<1>3. QED
  BY <1>1, <1>2, SeqEqual

\* What a call does to the line and to what FftDemod keeps.
DemodGood == /\ LineTypeOK' /\ LineInv(Line)' /\ DemodInv'
             /\ TagPassed(Line)' => TagPassed(Line)

LEMMA UntaggedKeeps ==
  ASSUME PInv, UNCHANGED syncState, grays' = grays, sync_out # <<>>, FD!DemodUntagged
  PROVE  DemodGood
<1> DEFINE s == sync_out[1]
           block == Append(fd_out, s.frame)
           a == Len(grays) + Len(words)
           n == Len(fd_out)
<1>1. /\ SyncTypeOK /\ LineTypeOK /\ CountInv /\ HeaderSymbols = 8 /\ LineInv(Line) /\ DemodInv
  BY DEF PInv, PipeTypeOK, HeaderSymbols
<1>2. /\ sync_out \in Seq(SymType) /\ fd_out \in Seq(SymbolId) /\ fd_frame_info \in Seq(TagType)
      /\ fd_is_header \in BOOLEAN /\ fd_cr \in Nat
  BY <1>1 DEF LineTypeOK
<1>3. s.tags = <<>>
  <2>1. Head(sync_out) = s
    BY <1>2
  <2>2. QED
    BY <2>1 DEF FD!DemodUntagged
<1>4. FD!DemodSymbol(fd_is_header, fd_cr, fd_out, fd_frame_info)
  BY DEF FD!DemodUntagged
<1>5. /\ LineTypeOK' /\ fd_is_header' = fd_is_header
      /\ block \in Seq(SymbolId) /\ Len(block) = n + 1
      /\ \A i \in 1 .. n : block[i] = fd_out[i]
      /\ block[n + 1] = s.frame
      /\ Len(sync_out) >= 1 /\ Len(Tail(sync_out)) = Len(sync_out) - 1
      /\ \A i \in 2 .. Len(sync_out) : Tail(sync_out)[i - 1] = sync_out[i]
      /\ Parts(Line', grays, words, block, fd_frame_info, Tail(sync_out))
      /\ IF Len(block) = FD!DemodBlockSize(fd_is_header, fd_cr)
           THEN /\ fd_out' = <<>> /\ fd_frame_info' = <<>>
                /\ Len(words') = Len(words) + Len(block)
           ELSE fd_out' = block /\ fd_frame_info' = fd_frame_info /\ words' = words
  <2>1. block = Append(fd_out, sync_out[1].frame)
    OBVIOUS
  <2> HIDE DEF block, s
  <2>2. DemodMoved(fd_is_header, fd_cr, fd_out, fd_frame_info, block)
    BY <1>1, <1>2, <1>4, <2>1, DemodMoves
  <2>3. QED
    BY <2>2 DEF DemodMoved, s
<1> HIDE DEF block
<1>6. Parts(Line, grays, words, fd_out, fd_frame_info, sync_out)
  BY <1>1, LineNow
<1>7. n \in Nat /\ a \in Nat /\ Len(Line) \in Nat
  BY <1>6 DEF Parts
<1>8. BlockItem(s.frame, fd_frame_info, n + 1) = SymbolItem(s)
  <2>1. n + 1 = 1 => fd_frame_info = <<>>
    <3>1. n = 0 => fd_out = <<>>
      BY <1>2, EmptySeq
    <3>2. QED
      BY <1>1, <1>7, <3>1 DEF DemodInv
  <2>2. QED
    BY <1>3, <2>1 DEF BlockItem, SymbolItem
<1>9. Cut(Line, Line', Len(grays) + Len(words) + Len(fd_out), 0)
  <2>1. 0 \in Nat /\ Len(fd_out) = Len(fd_out) + 0
    BY <1>7
  <2>2. QED
    BY <1>1, <1>5, <1>7, <1>8, <2>1, DemodCuts
<1>10. Line' = Line
  <2>1. Line \in Seq(ItemType) /\ Line' \in Seq(ItemType)
    BY <1>5, <1>6 DEF Parts
  <2>2. Len(grays) + Len(words) + Len(fd_out) \in Nat
    BY <1>7
  <2>3. QED
    BY <1>9, <2>1, <2>2, CutNothing
<1>11. LineInv(Line)' /\ (TagPassed(Line)' => TagPassed(Line))
  BY <1>1, <1>10, LineUnmoved
<1>12. symbol_cnt' = symbol_cnt
  BY DEF syncState
<1>13. CASE Len(block) = FD!DemodBlockSize(fd_is_header, fd_cr)
  <2>1. fd_out' = <<>> /\ fd_frame_info' = <<>> /\ Len(words') = Len(words) + (n + 1)
    BY <1>5, <1>13
  <2>2. ASSUME NEW k \in 1 .. Len(grays) + Len(words'), IsHdr(Line[k]) PROVE symbol_cnt = 8
    <3>1. CASE k <= a
      <4>1. k \in 1 .. Len(grays) + Len(words)
        BY <1>7, <3>1
      <4>2. QED
        BY <1>1, <2>2, <4>1 DEF DemodInv
    <3>2. CASE k > a
      <4>1. k - a \in 1 .. n + 1 /\ k - a \in 1 .. Len(block) /\ a + (k - a) = k
        BY <1>5, <1>6, <1>7, <2>1, <3>2 DEF Parts
      <4>2. Line[a + (k - a)] = BlockItem(block[k - a], fd_frame_info, k - a)
        BY <1>5, <1>10, <4>1 DEF Parts
      <4>3. Line[k] = BlockItem(block[k - a], fd_frame_info, k - a)
        BY <4>1, <4>2
      <4>4. k - a = 1 /\ fd_frame_info # <<>> /\ fd_frame_info[1].is_header
        BY <2>2, <4>3 DEF BlockItem, IsHdr
      <4>5. fd_is_header = TRUE
        BY <1>1, <4>4 DEF DemodInv
      <4>6. n + 1 = 8
        BY <1>5, <1>13, <4>5 DEF FD!DemodBlockSize
      <4>7. k \in 1 .. Len(Line) /\ Len(Line) - k + 1 >= 8
        <5>1. Len(Line) = a + n + Len(sync_out)
          BY <1>6 DEF Parts
        <5>2. k = a + 1 /\ Len(sync_out) \in Nat
          BY <1>2, <1>7, <4>1, <4>4
        <5>3. QED
          BY <1>5, <1>7, <4>6, <5>1, <5>2
      <4>8. Len(Line) - k + 1 = symbol_cnt /\ ~received_head
        BY <1>1, <2>2, <4>7 DEF LineInv, Shape
      <4>9. symbol_cnt <= 8
        BY <1>1, <4>8 DEF CountInv
      <4>10. QED
        BY <1>7, <4>7, <4>8, <4>9
    <3>3. QED
      BY <1>7, <3>1, <3>2
  <2>3. DemodInv'
    BY <1>1, <1>10, <1>12, <2>1, <2>2 DEF DemodInv
  <2>4. QED
    BY <1>5, <1>11, <2>3 DEF DemodGood
<1>14. CASE Len(block) # FD!DemodBlockSize(fd_is_header, fd_cr)
  <2>1. fd_out' = block /\ fd_frame_info' = fd_frame_info /\ words' = words
    BY <1>5, <1>14
  <2>2. block # <<>>
    BY <1>5, <1>7, EmptySeq
  <2>3. ASSUME fd_frame_info # <<>>, fd_frame_info[1].is_header
        PROVE  fd_is_header' /\ Len(fd_out') < 8
    <3>1. fd_is_header /\ n < 8
      BY <1>1, <2>3 DEF DemodInv
    <3>2. Len(block) # 8
      BY <1>14, <3>1 DEF FD!DemodBlockSize
    <3>3. QED
      BY <1>5, <1>7, <2>1, <3>1, <3>2
  <2>4. DemodInv'
    BY <1>1, <1>10, <1>12, <2>1, <2>2, <2>3 DEF DemodInv
  <2>5. QED
    BY <1>5, <1>11, <2>4 DEF DemodGood
<1>15. QED
  BY <1>13, <1>14

\* A tag starts a new block: a header's drops what was collected, a payload's is in
\* front of the whole line.
LEMMA TaggedKeeps ==
  ASSUME PInv, UNCHANGED syncState, grays' = grays, sync_out # <<>>,
         FD!DemodHeaderTag \/ FD!DemodPayloadTag
  PROVE  DemodGood
<1> DEFINE s == sync_out[1]
           tag == s.tags[1]
           block == Append(<<>>, s.frame)
           a == Len(grays) + Len(words)
           n == Len(fd_out)
           k == a + n + 1
<1>1. /\ SyncTypeOK /\ LineTypeOK /\ CountInv /\ HeaderSymbols = 8 /\ LineInv(Line) /\ DemodInv
  BY DEF PInv, PipeTypeOK, HeaderSymbols
<1>2. /\ sync_out \in Seq(SymType) /\ fd_out \in Seq(SymbolId) /\ fd_frame_info \in Seq(TagType)
      /\ fd_is_header \in BOOLEAN /\ fd_cr \in Nat /\ Len(sync_out) \in Nat \ {0}
  BY <1>1, EmptySeq DEF LineTypeOK
<1>3. Head(sync_out) = s /\ s \in SymType
  BY <1>2
<1>4. Len(s.tags) = 1 /\ s.tags \in Seq(TagType)
  BY <1>3 DEF FD!DemodHeaderTag, FD!DemodPayloadTag, SymType
<1>5. tag \in TagType /\ s.tags = <<tag>> /\ <<tag>> \in Seq(TagType)
  BY <1>4
<1>6. Parts(Line, grays, words, fd_out, fd_frame_info, sync_out)
  BY <1>1, LineNow
<1>7. n \in Nat /\ a \in Nat /\ Len(Line) \in Nat /\ Len(grays) \in Nat /\ Len(words) \in Nat
  BY <1>6 DEF Parts
<1>8. k \in 1 .. Len(Line) /\ Line[k] = SymbolItem(s)
  <2>1. Len(Line) = a + n + Len(sync_out)
    BY <1>6 DEF Parts
  <2>2. k \in 1 .. Len(Line) /\ 1 \in 1 .. Len(sync_out)
    BY <1>2, <1>7, <2>1
  <2>3. QED
    BY <1>6, <2>2 DEF Parts
<1>9. (IsHdr(Line[k]) <=> tag.is_header) /\ (IsPay(Line[k]) <=> ~tag.is_header)
  BY <1>5, <1>8 DEF IsHdr, IsPay, SymbolItem
<1> HIDE DEF s, tag, block
<1>10. ~tag.is_header => a = 0 /\ n = 0
  <2>1. ~tag.is_header => k = 1
    BY <1>1, <1>8, <1>9 DEF LineInv, Shape
  <2>2. QED
    BY <1>7, <2>1
<1>11. \E h \in BOOLEAN, c \in Nat :
         h = tag.is_header /\ FD!DemodSymbol(h, c, <<>>, <<tag>>)
  <2>1. CASE FD!DemodHeaderTag
    <3>1. tag.is_header /\ FD!DemodSymbol(TRUE, fd_cr, <<>>, <<tag>>)
      BY <1>3, <2>1 DEF FD!DemodHeaderTag, tag
    <3>2. tag.is_header = TRUE
      BY <1>5, <3>1 DEF TagType
    <3>3. QED
      BY <1>2, <3>1, <3>2
  <2>2. CASE FD!DemodPayloadTag
    <3>1. ~tag.is_header /\ FD!DemodSymbol(FALSE, tag.cr, fd_out, <<tag>>)
      BY <1>3, <2>2 DEF FD!DemodPayloadTag, tag
    <3>2. tag.is_header = FALSE /\ tag.cr \in Nat
      BY <1>5, <3>1 DEF TagType
    <3>3. fd_out = <<>>
      BY <1>2, <1>10, <3>1, EmptySeq
    <3>4. QED
      BY <3>1, <3>2, <3>3
  <2>3. QED
    BY <2>1, <2>2
<1>12. PICK h \in BOOLEAN, c \in Nat :
         h = tag.is_header /\ FD!DemodSymbol(h, c, <<>>, <<tag>>)
  BY <1>11
<1>13. /\ LineTypeOK' /\ fd_is_header' = h
       /\ block \in Seq(SymbolId) /\ Len(block) = Len(<<>>) + 1
       /\ \A i \in 1 .. Len(<<>>) : block[i] = <<>>[i]
       /\ block[Len(<<>>) + 1] = sync_out[1].frame
       /\ Len(sync_out) >= 1 /\ Len(Tail(sync_out)) = Len(sync_out) - 1
       /\ \A i \in 2 .. Len(sync_out) : Tail(sync_out)[i - 1] = sync_out[i]
       /\ Parts(Line', grays, words, block, <<tag>>, Tail(sync_out))
       /\ IF Len(block) = FD!DemodBlockSize(h, c)
            THEN /\ fd_out' = <<>> /\ fd_frame_info' = <<>>
                 /\ Len(words') = Len(words) + Len(block)
            ELSE fd_out' = block /\ fd_frame_info' = <<tag>> /\ words' = words
  <2>1. <<>> \in Seq(SymbolId) /\ block = Append(<<>>, sync_out[1].frame)
    BY EmptySeq DEF block, s
  <2>2. DemodMoved(h, c, <<>>, <<tag>>, block)
    BY <1>1, <1>5, <1>12, <2>1, DemodMoves
  <2>3. QED
    BY <2>2 DEF DemodMoved
<1>14. Len(block) = 1 /\ fd_out' = block /\ fd_frame_info' = <<tag>> /\ words' = words
  <2>1. Len(block) = 1
    BY <1>13, EmptySeq
  <2>2. Len(block) # FD!DemodBlockSize(h, c)
    BY <1>12, <2>1 DEF FD!DemodBlockSize
  <2>3. QED
    BY <1>13, <2>1, <2>2
<1>15. Cut(Line, Line', a, n)
  <2>1. Len(<<>>) = 0 /\ Len(<<>>) \in Nat /\ Len(fd_out) = Len(<<>>) + n /\ 1 .. Len(<<>>) = {}
    BY <1>7, EmptySeq
  <2>2. BlockItem(sync_out[1].frame, <<tag>>, Len(<<>>) + 1) = SymbolItem(sync_out[1])
    BY <1>5, <2>1 DEF BlockItem, SymbolItem, s
  <2>3. Cut(Line, Line', Len(grays) + Len(words) + Len(<<>>), n)
    BY <1>1, <1>7, <1>13, <2>1, <2>2, DemodCuts
  <2>4. Len(grays) + Len(words) + Len(<<>>) = a
    BY <1>7, <2>1
  <2>5. QED
    BY <2>3, <2>4
<1>16. n = 0 \/ \A i \in 1 .. a + n : ~IsHdr(Line[i])
  <2> SUFFICES ASSUME n # 0, NEW i \in 1 .. a + n, IsHdr(Line[i]) PROVE FALSE
    OBVIOUS
  <2>1. tag.is_header
    BY <1>10
  <2>2. i \in 1 .. Len(Line) /\ i < k
    BY <1>7, <1>8
  <2>3. Len(Line) - i + 1 = symbol_cnt /\ Len(Line) - k + 1 = symbol_cnt
    BY <1>1, <1>8, <1>9, <2>1, <2>2 DEF LineInv, Shape
  <2>4. QED
    BY <1>7, <2>2, <2>3
<1>17. Len(Line') \in Nat /\ Len(Line') + n = Len(Line) /\ a \in 0 .. Len(Line') /\ Len(Line') > a
  BY <1>7, <1>8, <1>15 DEF Cut
<1>18. LineInv(Line)'
  <2>1. LineInv(Line')
    BY <1>1, <1>7, <1>15, <1>16, <1>17, CutKeeps
  <2>2. QED
    BY <2>1, LineStays
<1>19. symbol_cnt' = symbol_cnt
  BY DEF syncState
<1>20. \A i \in 1 .. a : Line'[i] = Line[i]
  BY <1>15 DEF Cut
<1>21. DemodInv'
  <2>1. block # <<>>
    BY <1>14, EmptySeq
  <2>2. h => fd_is_header'
    BY <1>13
  <2>3. <<tag>> # <<>> /\ <<tag>>[1] = tag
    OBVIOUS
  <2>4. \A i \in 1 .. Len(grays') + Len(words') : IsHdr(Line'[i]) => symbol_cnt = 8
    BY <1>1, <1>14, <1>20 DEF DemodInv
  <2>5. fd_out' # <<>> /\ Len(fd_out') < 8 /\ (fd_frame_info'[1].is_header => fd_is_header')
    <3>1. fd_out' # <<>> /\ Len(fd_out') < 8
      <4>1. Len(fd_out') = 1
        BY <1>14
      <4>2. fd_out' # <<>>
        BY <1>14, <2>1
      <4>3. QED
        BY <4>1, <4>2
    <3>2. fd_frame_info'[1] = tag
      BY <1>14, <2>3
    <3>3. QED
      BY <1>12, <2>2, <3>1, <3>2
  <2>6. QED
    BY <1>1, <1>19, <2>4, <2>5 DEF DemodInv
<1>22. TagPassed(Line)' => TagPassed(Line)
  <2> SUFFICES ASSUME TagPassed(Line)' PROVE TagPassed(Line)
    OBVIOUS
  <2>1. Line'[1].tag = <<>>
    BY <1>7, <1>17 DEF TagPassed
  <2>2. CASE a = 0
    <3>1. Line'[1] = Line[k]
      <4>1. 1 \in a + 1 .. Len(Line') /\ 1 + n = k
        BY <1>7, <1>17, <2>2
      <4>2. Line'[1] = Line[1 + n]
        BY <1>15, <4>1 DEF Cut
      <4>3. QED
        BY <4>1, <4>2
    <3>2. QED
      BY <1>5, <1>8, <2>1, <3>1 DEF SymbolItem
  <2>3. CASE a # 0
    <3>1. Line'[1] = Line[1] /\ Len(Line) # 0
      BY <1>7, <1>17, <1>20, <2>3
    <3>2. QED
      BY <2>1, <3>1 DEF TagPassed
  <2>4. QED
    BY <2>2, <2>3
<1>23. QED
  BY <1>13, <1>18, <1>21, <1>22 DEF DemodGood

LEMMA DemodKeeps ==
  ASSUME PInv, FftDemodCall PROVE PInv'
<1>1. /\ SyncTypeOK /\ LineTypeOK /\ CodeTypeOK /\ CountInv
      /\ LineInv(Line) /\ DemodInv /\ TakenInv /\ CodesInv /\ TailInv /\ NibsInv /\ RoomInv
  BY DEF PInv, PipeTypeOK
<1>2. /\ grays' = grays /\ codes' = codes /\ nibs' = nibs /\ di_is_header' = di_is_header
      /\ di_cr' = di_cr /\ hm_is_header' = hm_is_header /\ hm_cr' = hm_cr /\ hd_left' = hd_left
      /\ fi_q' = fi_q /\ UNCHANGED <<syncState, codes, nibs, hammingState>>
  BY DEF FftDemodCall, deinterState, hammingState, headerState, messages
<1>3. SyncTypeOK' /\ CountInv'
  BY <1>1, <1>2, SyncStays
<1>4. CodesInv' /\ NibsInv' /\ (Taken' <=> Taken) /\ (Continues' <=> Continues)
  BY <1>1, <1>2, CodesStay
<1>5. symbol_cnt' = symbol_cnt /\ symb_numb' = symb_numb /\ received_head' = received_head
  BY <1>2 DEF syncState
<1>6. RoomInv'
  BY <1>1, <1>2, <1>5 DEF RoomInv
<1>7. CodeTypeOK'
  BY <1>1, <1>2 DEF CodeTypeOK
<1>8. DemodGood /\ TakenInv'
  <2>1. CASE sync_out = <<>>
    <3>1. /\ sync_out' = sync_out /\ words' = words /\ fd_out' = fd_out
          /\ fd_frame_info' = fd_frame_info /\ fd_is_header' = fd_is_header /\ fd_cr' = fd_cr
      BY <2>1 DEF FftDemodCall, demodState
    <3>2. Line' = Line /\ LineTypeOK'
      BY <1>1, <1>2, <3>1 DEF Line, LineTypeOK
    <3>3. LineInv(Line)' /\ (TagPassed(Line)' => TagPassed(Line))
      BY <1>1, <1>2, <3>2, LineUnmoved
    <3>4. DemodInv'
      BY <1>1, <1>2, <1>5, <3>1, <3>2 DEF DemodInv
    <3>5. TakenInv'
      BY <1>1, <1>2, <1>4, <1>5, <3>2 DEF TakenInv
    <3>6. QED
      BY <3>2, <3>3, <3>4, <3>5 DEF DemodGood
  <2>2. CASE sync_out # <<>>
    <3>1. FD!DemodUntagged \/ FD!DemodHeaderTag \/ FD!DemodPayloadTag
      BY <2>2 DEF FftDemodCall, FD!DemodWork
    <3>2. DemodGood
      BY <1>2, <2>2, <3>1, UntaggedKeeps, TaggedKeeps
    <3>3. Len(Line) # 0
      <4>1. Parts(Line, grays, words, fd_out, fd_frame_info, sync_out)
        BY <1>1, LineNow
      <4>2. Len(sync_out) \in Nat \ {0}
        BY <1>1, <2>2, EmptySeq DEF LineTypeOK
      <4>3. QED
        BY <4>1, <4>2 DEF Parts
    <3>4. ~Taken /\ fi_q = <<>>
      BY <1>1, <3>3 DEF TakenInv
    <3>5. TakenInv'
      BY <1>1, <1>2, <1>4, <3>4 DEF TakenInv
    <3>6. QED
      BY <3>2, <3>5
  <2>3. QED
    BY <2>1, <2>2
<1>9. TailInv'
  BY <1>1, <1>4, <1>8 DEF TailInv, DemodGood
<1>10. QED
  BY <1>3, <1>4, <1>6, <1>7, <1>8, <1>9 DEF PInv, PipeTypeOK, DemodGood

(***************************************************************************)
(* Deinterleaver.                                                          *)
(***************************************************************************)
\* The k code words made of the first n symbols.
BlockOrigin(n) == {grays[i].frame : i \in 1 .. n}
CodeWords(n, k) ==
  [i \in 1 .. k |-> [origin |-> BlockOrigin(n), tag |-> IF i = 1 THEN grays[1].tag ELSE <<>>]]

\* What a call can do: nothing but take settings, drop all up to the next tag, or
\* decode a block in front of it, which has eight symbols if it is a header's.
Dropped(n) ==
  /\ n < Len(grays) /\ n = DI!UpToNextTag(grays) /\ codes' = codes
  /\ grays' = SubSeq(grays, n + 1, Len(grays))
Decoded(n, k) ==
  /\ n \in 1 .. DI!UpToNextTag(grays) /\ k \in Nat \ {0}
  /\ IsHdr(grays[1]) => n = 8
  /\ grays' = SubSeq(grays, n + 1, Len(grays)) /\ codes' = codes \o CodeWords(n, k)

LEMMA SettingsTaken ==
  ASSUME LineTypeOK, CodeTypeOK, grays # <<>>, DI!TakeSettings
  PROVE  /\ di_is_header' \in BOOLEAN /\ di_cr' \in Nat
         /\ IsHdr(grays[1]) => di_is_header' = TRUE
<1> DEFINE tag == grays[1].tag
<1>1. /\ grays \in Seq(ItemType) /\ Len(grays) \in Nat \ {0} /\ di_is_header \in BOOLEAN /\ di_cr \in Nat
  BY EmptySeq DEF LineTypeOK, CodeTypeOK
<1>2. Head(grays) = grays[1] /\ grays[1] \in ItemType
  BY <1>1
<1>3. tag \in Seq(TagType)
  BY <1>2 DEF ItemType
<1>4. tag # <<>> => tag[1] \in TagType
  BY <1>3, HeadTailProperties
<1>5. tag # <<>> => tag[1].is_header \in BOOLEAN /\ tag[1].cr \in Nat
  BY <1>4 DEF TagType
<1>6. /\ di_is_header' = IF tag = <<>> THEN di_is_header ELSE tag[1].is_header
      /\ di_cr' = IF tag = <<>> \/ di_is_header' THEN di_cr ELSE tag[1].cr
  BY <1>2 DEF DI!TakeSettings
<1> HIDE DEF tag
<1>7. di_cr' = di_cr \/ (tag # <<>> /\ di_cr' = tag[1].cr)
  BY <1>6
<1>8. \/ tag = <<>> /\ di_is_header' = di_is_header
      \/ tag # <<>> /\ di_is_header' = tag[1].is_header
  BY <1>6
<1>9. di_is_header' \in BOOLEAN /\ di_cr' \in Nat
  BY <1>1, <1>5, <1>7, <1>8
<1>10. IsHdr(grays[1]) => di_is_header' = TRUE
  <2> SUFFICES ASSUME IsHdr(grays[1]) PROVE di_is_header' = TRUE
    OBVIOUS
  <2>1. tag # <<>> /\ tag[1].is_header
    BY DEF IsHdr, tag
  <2>2. tag[1].is_header = TRUE
    BY <1>5, <2>1
  <2>3. QED
    BY <1>8, <2>1, <2>2
<1>11. QED
  BY <1>9, <1>10

LEMMA DeinterOutcome ==
  ASSUME LineTypeOK, CodeTypeOK, grays # <<>>, DeinterleaverCall
  PROVE  /\ di_is_header' \in BOOLEAN /\ di_cr' \in Nat
         /\ \/ grays' = grays /\ codes' = codes
            \/ \E n \in 1 .. Len(grays) : Dropped(n)
            \/ \E n \in 1 .. Len(grays), k \in Nat : Decoded(n, k)
<1>1. /\ grays \in Seq(ItemType) /\ Len(grays) \in Nat /\ Len(grays) > 0
      /\ Head(grays) = grays[1] /\ di_is_header \in BOOLEAN /\ di_cr \in Nat
  BY EmptySeq DEF LineTypeOK, CodeTypeOK
<1>2. /\ DI!UpToNextTag(grays) \in 1 .. Len(grays)
      /\ DI!TagsAt(grays) \ {0} # {} => DI!UpToNextTag(grays) < Len(grays)
  BY <1>1, NextTag
<1>3. CASE DI!DeinterDrop
  <2>1. /\ grays' = SubSeq(grays, DI!UpToNextTag(grays) + 1, Len(grays))
        /\ UNCHANGED <<codes, di_is_header, di_cr>> /\ DI!TagsAt(grays) \ {0} # {}
    BY <1>3 DEF DI!DeinterDrop, DI!DropFront, DI!TooFew
  <2>2. Dropped(DI!UpToNextTag(grays))
    BY <1>2, <2>1 DEF Dropped
  <2>3. QED
    BY <1>1, <1>2, <2>1, <2>2
<1>4. CASE DI!DeinterDecode
  <2> DEFINE cw == DI!CwLen(di_is_header', di_cr')
             k == DI!SfApp(di_is_header')
  <2>1. /\ di_is_header' \in BOOLEAN /\ di_cr' \in Nat
        /\ IsHdr(grays[1]) => di_is_header' = TRUE
    <3>1. DI!TakeSettings
      BY <1>4 DEF DI!DeinterDecode
    <3>2. QED
      BY <3>1, SettingsTaken
  <2>2. CASE DI!UpToNextTag(grays) >= cw
    <3>1. DI!DeinterleaveBlock(di_is_header', di_cr', grays[1].tag)
      BY <1>1, <1>4, <2>2 DEF DI!DeinterDecode
    <3>2. grays' = SubSeq(grays, cw + 1, Len(grays)) /\ codes' = codes \o CodeWords(cw, k)
      BY <3>1, Zenon DEF DI!DeinterleaveBlock, DI!DropFront, CodeWords, BlockOrigin
    <3>3. cw \in Nat /\ cw >= 1 /\ (IsHdr(grays[1]) => cw = 8)
      <4>1. cw = IF di_is_header' THEN 8 ELSE 4 + di_cr'
        BY DEF DI!CwLen, DI!HeaderSymbols
      <4> HIDE DEF cw
      <4>2. cw = 8 \/ cw = 4 + di_cr'
        BY <4>1
      <4>3. cw \in Nat /\ cw >= 1
        BY <2>1, <4>2
      <4>4. di_is_header' = TRUE => cw = 8
        BY <4>1
      <4>5. QED
        BY <2>1, <4>3, <4>4
    <3>4. k \in Nat \ {0}
      BY FrameAssumption DEF DI!SfApp
    <3> HIDE DEF cw, k
    <3>5. cw \in 1 .. DI!UpToNextTag(grays) /\ cw \in 1 .. Len(grays) /\ k \in Nat
      BY <1>1, <1>2, <2>2, <3>3, <3>4
    <3>6. Decoded(cw, k)
      BY <3>2, <3>3, <3>4, <3>5 DEF Decoded
    <3>7. QED
      BY <2>1, <3>5, <3>6
  <2>3. CASE ~(DI!UpToNextTag(grays) >= cw)
    <3>1. UNCHANGED <<grays, codes>>
      BY <1>4, <2>3 DEF DI!DeinterDecode
    <3>2. QED
      BY <2>1, <3>1
  <2>4. QED
    BY <2>2, <2>3
<1>5. CASE DI!DeinterNoRoom
  BY <1>5, SettingsTaken DEF DI!DeinterNoRoom
<1>6. QED
  BY <1>3, <1>4, <1>5 DEF DeinterleaverCall

LEMMA CodeWordsType ==
  ASSUME LineTypeOK, NEW n \in 1 .. Len(grays), NEW k \in Nat
  PROVE  /\ CodeWords(n, k) \in Seq(CodeType) /\ Len(CodeWords(n, k)) = k
         /\ \A i \in 1 .. k :
              /\ CodeWords(n, k)[i].origin = BlockOrigin(n)
              /\ CodeWords(n, k)[i].tag = IF i = 1 THEN grays[1].tag ELSE <<>>
<1>1. grays \in Seq(ItemType) /\ Len(grays) \in Nat
  BY DEF LineTypeOK
<1>2. \A i \in 1 .. n : grays[i] \in ItemType
  BY <1>1, ElementOfSeq
<1>3. BlockOrigin(n) \in SUBSET SymbolId
  BY <1>2 DEF BlockOrigin, ItemType
<1>4. grays[1].tag \in Seq(TagType) /\ <<>> \in Seq(TagType)
  BY <1>2, EmptySeq DEF ItemType
<1>5. ASSUME NEW i \in 1 .. k
      PROVE  /\ CodeWords(n, k)[i] \in CodeType
             /\ CodeWords(n, k)[i].origin = BlockOrigin(n)
             /\ CodeWords(n, k)[i].tag = IF i = 1 THEN grays[1].tag ELSE <<>>
  <2> DEFINE t == IF i = 1 THEN grays[1].tag ELSE <<>>
  <2>1. t \in Seq(TagType)
    BY <1>4
  <2>2. CodeWords(n, k)[i] = [origin |-> BlockOrigin(n), tag |-> t]
    BY Zenon DEF CodeWords
  <2> HIDE DEF t
  <2>3. CodeWords(n, k)[i] \in CodeType /\ CodeWords(n, k)[i].tag = t
        /\ CodeWords(n, k)[i].origin = BlockOrigin(n)
    BY <1>3, <2>1, <2>2 DEF CodeType
  <2>4. QED
    BY <2>3 DEF t
<1>6. CodeWords(n, k) \in [1 .. k -> CodeType]
  <2> DEFINE w == CodeWords(n, k)
  <2>1. DOMAIN w = 1 .. k /\ w = [i \in 1 .. k |-> w[i]]
    BY Zenon DEF CodeWords
  <2> HIDE DEF w
  <2>2. \A i \in 1 .. k : w[i] \in CodeType
    BY <1>5 DEF w
  <2>3. w \in [1 .. k -> CodeType]
    BY <2>1, <2>2
  <2>4. QED
    BY <2>3 DEF w
<1>7. CodeWords(n, k) \in Seq(CodeType) /\ Len(CodeWords(n, k)) = k
  BY <1>6, FunctionIsSeq
<1>8. QED
  BY <1>5, <1>7

\* Symbols leave in front.
LEMMA FrontLeaves ==
  ASSUME LineTypeOK, NEW n \in 0 .. Len(grays), grays' = SubSeq(grays, n + 1, Len(grays)),
         UNCHANGED <<words, sync_out, fd_out, fd_frame_info, fd_is_header, fd_cr>>
  PROVE  /\ LineTypeOK' /\ Len(grays') = Len(grays) - n /\ Len(grays) \in Nat
         /\ Cut(Line, Line', 0, n) /\ Len(Line) \in Nat /\ Len(Line') \in Nat
<1>1. grays \in Seq(ItemType) /\ Len(grays) \in Nat
  BY DEF LineTypeOK
<1>2. /\ grays' \in Seq(ItemType) /\ Len(grays') = Len(grays) - n
      /\ \A i \in 1 .. Len(grays) - n : grays'[i] = grays[i + n]
  BY <1>1, FrontDropped
<1>3. LineTypeOK'
  BY <1>2 DEF LineTypeOK
<1>4. Parts(Line, grays, words, fd_out, fd_frame_info, sync_out)
  BY LineNow
<1>5. Parts(Line', grays', words, fd_out, fd_frame_info, sync_out)
  BY <1>3, LineNext
<1>6. /\ Len(words) \in Nat /\ Len(fd_out) \in Nat /\ Len(sync_out) \in Nat
      /\ Len(Line') = Len(grays) - n + Len(words) + Len(fd_out) + Len(sync_out)
      /\ Len(Line) = Len(grays) + Len(words) + Len(fd_out) + Len(sync_out)
  BY <1>2, <1>4, <1>5 DEF Parts
<1>7. ASSUME NEW i \in 1 .. Len(Line') PROVE Line'[i] = Line[i + n]
  <2>1. CASE i \in 1 .. Len(grays')
    <3>1. i + n \in 1 .. Len(grays) /\ i \in 1 .. Len(grays) - n
      BY <1>1, <1>2, <2>1
    <3>2. Line'[i] = grays'[i] /\ Line[i + n] = grays[i + n]
      BY <1>4, <1>5, <2>1, <3>1 DEF Parts
    <3>3. QED
      BY <1>2, <3>1, <3>2
  <2>2. CASE \E j \in 1 .. Len(words) : i = Len(grays') + j
    <3>1. PICK j \in 1 .. Len(words) : i = Len(grays') + j
      BY <2>2
    <3>2. Line'[Len(grays') + j] = words[j] /\ Line[Len(grays) + j] = words[j]
      BY <1>4, <1>5, <3>1 DEF Parts
    <3>3. i + n = Len(grays) + j
      BY <1>1, <1>2, <3>1
    <3>4. QED
      BY <3>1, <3>2, <3>3
  <2>3. CASE \E j \in 1 .. Len(fd_out) : i = Len(grays') + Len(words) + j
    <3>1. PICK j \in 1 .. Len(fd_out) : i = Len(grays') + Len(words) + j
      BY <2>3
    <3>2. /\ Line'[Len(grays') + Len(words) + j] = BlockItem(fd_out[j], fd_frame_info, j)
          /\ Line[Len(grays) + Len(words) + j] = BlockItem(fd_out[j], fd_frame_info, j)
      BY <1>4, <1>5, <3>1 DEF Parts
    <3>3. i + n = Len(grays) + Len(words) + j
      BY <1>1, <1>2, <1>6, <3>1
    <3>4. QED
      BY <3>1, <3>2, <3>3
  <2>4. CASE \E j \in 1 .. Len(sync_out) : i = Len(grays') + Len(words) + Len(fd_out) + j
    <3>1. PICK j \in 1 .. Len(sync_out) : i = Len(grays') + Len(words) + Len(fd_out) + j
      BY <2>4
    <3>2. /\ Line'[Len(grays') + Len(words) + Len(fd_out) + j] = SymbolItem(sync_out[j])
          /\ Line[Len(grays) + Len(words) + Len(fd_out) + j] = SymbolItem(sync_out[j])
      BY <1>4, <1>5, <3>1 DEF Parts
    <3>3. i + n = Len(grays) + Len(words) + Len(fd_out) + j
      BY <1>1, <1>2, <1>6, <3>1
    <3>4. QED
      BY <3>1, <3>2, <3>3
  <2>5. InPart(i, grays', words, fd_out, sync_out)
    BY <1>5, Places
  <2>6. QED
    BY <2>1, <2>2, <2>3, <2>4, <2>5 DEF InPart
<1>8. Len(Line) \in Nat /\ Len(Line') \in Nat /\ Len(Line') + n = Len(Line)
  BY <1>1, <1>6
<1>9. Cut(Line, Line', 0, n)
  BY <1>7, <1>8 DEF Cut
<1>10. QED
  BY <1>1, <1>2, <1>3, <1>8, <1>9

\* Symbols of a payload, or of a header, that leave in front as one block are of one
\* frame and one kind.
LEMMA BlockIsOfOneKind ==
  ASSUME NEW n \in Nat, n >= 1, NEW id, \A i \in 1 .. n : grays[i].frame = id
  PROVE  BlockOrigin(n) = {id}
BY DEF BlockOrigin

\* What the line keeps when its front has left, and what the next code words are.
LEMMA BlockLeaves ==
  ASSUME PInv, UNCHANGED syncState, LineTypeOK', NEW n \in 1 .. Len(grays),
         Len(grays') = Len(grays) - n, Len(grays) \in Nat, Cut(Line, Line', 0, n),
         Len(Line) \in Nat, Len(Line') \in Nat,
         UNCHANGED <<words, fd_out, fd_frame_info, fd_is_header>>
  PROVE  /\ (\A i \in 1 .. n : ~IsHdr(Line[i])) \/ Len(Line') = 0 => LineInv(Line)'
         /\ DemodInv'
<1>1. SyncTypeOK /\ LineTypeOK /\ CountInv /\ LineInv(Line) /\ DemodInv /\ HeaderSymbols = 8
  BY DEF PInv, PipeTypeOK, HeaderSymbols
<1>2. /\ symbol_cnt' = symbol_cnt /\ received_head' = received_head /\ rates' = rates
      /\ frame_cnt' = frame_cnt /\ symb_numb' = symb_numb
  BY DEF syncState
<1>3. /\ Len(grays) \in Nat /\ Len(words) \in Nat /\ Len(grays) + Len(words) <= Len(Line)
      /\ Len(Line') + n = Len(Line)
  BY <1>1, LineNow DEF Parts, Cut
<1>4. ASSUME \A i \in 1 .. n : ~IsHdr(Line[i]) PROVE LineInv(Line)'
  <2>1. LineInv(Line')
    <3>1. 0 \in 0 .. Len(Line') /\ n \in Nat /\ 0 + n = n
      BY <1>3
    <3>2. QED
      BY <1>1, <1>4, <3>1, CutKeeps
  <2>2. QED
    BY <2>1, LineStays
<1>5. ASSUME Len(Line') = 0 PROVE LineInv(Line)'
  <2>1. \A k \in 1 .. Len(Line') : FALSE
    BY <1>5
  <2>2. Shape(Line')
    BY <2>1, Zenon DEF Shape
  <2>3. Fits(Line')
    <3>1. symb_numb \in Nat /\ symbol_cnt \in Nat
      BY <1>1 DEF SyncTypeOK
    <3>2. received_head => symbol_cnt >= 8
      BY <1>1 DEF CountInv
    <3>3. QED
      BY <1>5, <3>1, <3>2 DEF Fits, Payload, HeaderSymbols
  <2>4. CASE ~received_head /\ symbol_cnt \in 1 .. 7
    <3>1. PICK k \in 1 .. Len(Line) : IsHdr(Line[k])
      BY <1>1, <2>4 DEF LineInv, Begun
    <3>2. k \in 1 .. Len(grays) + Len(words)
      BY <1>3, <1>5
    <3>3. symbol_cnt = 8
      BY <1>1, <3>1, <3>2 DEF DemodInv
    <3>4. QED
      BY <2>4, <3>3
  <2>5. CASE ~(~received_head /\ symbol_cnt \in 1 .. 7)
    <3>1. Begun(Line')
      BY <2>5 DEF Begun, HeaderSymbols
    <3>2. LineInv(Line')
      BY <2>2, <2>3, <3>1 DEF LineInv
    <3>3. QED
      BY <3>2, LineStays
  <2>6. QED
    BY <2>4, <2>5
<1>6. DemodInv'
  <2>1. ASSUME NEW k \in 1 .. Len(grays') + Len(words), IsHdr(Line'[k]) PROVE symbol_cnt = 8
    <3>1. k + n \in 1 .. Len(grays) + Len(words) /\ k \in 0 + 1 .. Len(Line')
      BY <1>3
    <3>2. Line'[k] = Line[k + n]
      BY <3>1 DEF Cut
    <3>3. QED
      BY <1>1, <2>1, <3>1, <3>2 DEF DemodInv
  <2>2. QED
    BY <1>1, <1>2, <2>1 DEF DemodInv
<1>7. QED
  BY <1>4, <1>5, <1>6

\* What stays as it is in every call of the Deinterleaver.
LEMMA DeinterQuiet ==
  ASSUME PInv, DeinterleaverCall
  PROVE  /\ UNCHANGED syncState /\ SyncTypeOK' /\ CountInv'
         /\ symbol_cnt' = symbol_cnt /\ symb_numb' = symb_numb /\ received_head' = received_head
         /\ frame_cnt' = frame_cnt /\ rates' = rates
         /\ UNCHANGED <<words, sync_out, fd_out, fd_frame_info, fd_is_header, fd_cr>>
         /\ nibs' = nibs /\ hd_left' = hd_left /\ fi_q' = fi_q
         /\ hm_is_header' = hm_is_header /\ hm_cr' = hm_cr /\ UNCHANGED hammingState
         /\ NibsInv'
<1>1. SyncTypeOK /\ CountInv /\ NibsInv
  BY DEF PInv, PipeTypeOK
<1>2. /\ UNCHANGED syncState /\ UNCHANGED <<words, sync_out, fd_out, fd_frame_info, fd_is_header, fd_cr>>
      /\ nibs' = nibs /\ hd_left' = hd_left /\ fi_q' = fi_q
      /\ hm_is_header' = hm_is_header /\ hm_cr' = hm_cr /\ UNCHANGED hammingState
  BY DEF DeinterleaverCall, demodState, hammingState, headerState, messages
<1>3. /\ symbol_cnt' = symbol_cnt /\ symb_numb' = symb_numb /\ received_head' = received_head
      /\ frame_cnt' = frame_cnt /\ rates' = rates
  BY <1>2 DEF syncState
<1>4. SyncTypeOK' /\ CountInv'
  BY <1>1, <1>2, SyncStays
<1>5. NibsInv'
  BY <1>1, <1>2, <1>3 DEF NibsInv, OfHeader, OfPayload
<1>6. QED
  BY <1>2, <1>3, <1>4, <1>5

LEMMA DropKeeps ==
  ASSUME PInv, DeinterleaverCall, grays # <<>>, di_is_header' \in BOOLEAN, di_cr' \in Nat,
         NEW n \in 1 .. Len(grays), Dropped(n)
  PROVE  PInv'
<1>1. /\ SyncTypeOK /\ LineTypeOK /\ CodeTypeOK /\ CountInv /\ HeaderSymbols = 8
      /\ LineInv(Line) /\ DemodInv /\ TakenInv /\ CodesInv /\ TailInv /\ NibsInv /\ RoomInv
  BY DEF PInv, PipeTypeOK, HeaderSymbols
<1>2. /\ UNCHANGED syncState /\ SyncTypeOK' /\ CountInv'
      /\ symbol_cnt' = symbol_cnt /\ symb_numb' = symb_numb /\ received_head' = received_head
      /\ frame_cnt' = frame_cnt /\ rates' = rates
      /\ UNCHANGED <<words, sync_out, fd_out, fd_frame_info, fd_is_header, fd_cr>>
      /\ nibs' = nibs /\ hd_left' = hd_left /\ fi_q' = fi_q
      /\ hm_is_header' = hm_is_header /\ hm_cr' = hm_cr /\ UNCHANGED hammingState
  BY DeinterQuiet
<1>3. /\ n < Len(grays) /\ n = DI!UpToNextTag(grays) /\ codes' = codes
      /\ grays' = SubSeq(grays, n + 1, Len(grays))
  BY DEF Dropped
<1>4. /\ LineTypeOK' /\ Len(grays') = Len(grays) - n /\ Len(grays) \in Nat
      /\ Cut(Line, Line', 0, n) /\ Len(Line) \in Nat /\ Len(Line') \in Nat
  <2>1. n \in 0 .. Len(grays)
    BY <1>1 DEF LineTypeOK
  <2>2. QED
    BY <1>1, <1>2, <1>3, <2>1, FrontLeaves
<1>5. Parts(Line, grays, words, fd_out, fd_frame_info, sync_out)
  BY <1>1, LineNow
<1>6. grays[n + 1].tag # <<>>
  BY <1>3, <1>4, NextTag
<1>7. n + 1 \in 1 .. Len(Line) /\ Line[n + 1].tag # <<>> /\ Len(Line) > 0
  <2>1. n + 1 \in 1 .. Len(grays)
    BY <1>3, <1>4
  <2>2. Line[n + 1] = grays[n + 1] /\ Len(Line) >= Len(grays)
    BY <1>5, <2>1 DEF Parts
  <2>3. QED
    BY <1>4, <1>6, <2>1, <2>2
<1>8. IsHdr(Line[n + 1])
  BY <1>1, <1>7 DEF LineInv, Shape, IsHdr, IsPay
<1>9. \A i \in 1 .. n : ~IsHdr(Line[i])
  <2> SUFFICES ASSUME NEW i \in 1 .. n, IsHdr(Line[i]) PROVE FALSE
    OBVIOUS
  <2>1. i \in 1 .. Len(Line)
    BY <1>4, <1>7
  <2>2. Len(Line) - i + 1 = symbol_cnt /\ Len(Line) - (n + 1) + 1 = symbol_cnt
    BY <1>1, <1>7, <1>8, <2>1 DEF LineInv, Shape
  <2>3. QED
    BY <1>4, <2>1, <2>2
<1>10. LineInv(Line)' /\ DemodInv'
  BY <1>2, <1>4, <1>9, BlockLeaves
<1>11. /\ CodesInv' /\ NibsInv' /\ (Taken' <=> Taken)
  <2>1. UNCHANGED <<syncState, codes, nibs, hammingState>>
    BY <1>2, <1>3
  <2>2. QED
    BY <1>1, <2>1, CodesStay
<1>12. ~Taken /\ fi_q = <<>>
  BY <1>1, <1>7 DEF TakenInv
<1>13. TakenInv'
  BY <1>1, <1>2, <1>3, <1>11, <1>12 DEF TakenInv
<1>14. TailInv'
  <2>1. Len(Line') # 0 /\ Line'[1] = Line[n + 1]
    <3>1. Len(Line') + n = Len(Line) /\ 1 \in 0 + 1 .. Len(Line') /\ 1 + n = n + 1
      BY <1>4, <1>7 DEF Cut
    <3>2. Line'[1] = Line[1 + n]
      BY <1>4, <3>1 DEF Cut
    <3>3. QED
      BY <1>4, <3>1, <3>2
  <2>2. QED
    BY <1>7, <2>1 DEF TailInv, TagPassed
<1>15. RoomInv'
  <2>1. RoomForFrames => Len(grays') <= GraysCap
    <3>1. GraysCap \in Nat
      BY PipelineAssumption
    <3>2. QED
      BY <1>1, <1>4, <3>1 DEF RoomInv
  <2>2. QED
    BY <1>1, <1>2, <2>1 DEF RoomInv
<1>16. CodeTypeOK'
  BY <1>1, <1>2, <1>3 DEF CodeTypeOK
<1>17. QED
  BY <1>2, <1>4, <1>10, <1>11, <1>13, <1>14, <1>15, <1>16 DEF PInv, PipeTypeOK

\* Code words behind the others, whose tag has their settings or that go on with the
\* settings of what is in front of them.
Appended(k, O, tag) ==
  /\ Len(codes) \in Nat /\ (codes = <<>> <=> Len(codes) = 0) /\ (codes' = <<>> <=> Len(codes') = 0)
  /\ Len(codes') = Len(codes) + k
  /\ \A i \in 1 .. Len(codes) : codes'[i] = codes[i]
  /\ \A i \in 1 .. k : /\ codes'[Len(codes) + i].origin = O
                        /\ codes'[Len(codes) + i].tag = IF i = 1 THEN tag ELSE <<>>
SettingsFor(O, tag) ==
  /\ tag # <<>> => ReadAs(tag[1].is_header, tag[1].cr, O)
  /\ tag = <<>> /\ codes = <<>> => ReadAs(hm_is_header, hm_cr, O)
  /\ tag = <<>> /\ codes # <<>> => codes[Len(codes)].origin = O

LEMMA CodesAppended ==
  ASSUME CodesInv, UNCHANGED <<syncState, hammingState>>, NEW k \in Nat, k > 0, NEW O, NEW tag,
         Appended(k, O, tag), SettingsFor(O, tag)
  PROVE  CodesInv'
<1> DEFINE c == codes'
           n == Len(codes)
           R(h, r, o) == IF h THEN OfHeader(o) ELSE OfPayload(r, o)
<1>1. TagsTrue /\ SettingsTrue /\ OriginsAlike
  BY DEF CodesInv
<1>2. /\ frame_cnt' = frame_cnt /\ rates' = rates
      /\ hm_is_header' = hm_is_header /\ hm_cr' = hm_cr
  BY DEF syncState, hammingState
<1>3. \A o : OfHeader(o)' <=> OfHeader(o)
  BY <1>2 DEF OfHeader
<1>4. \A r, o : OfPayload(r, o)' <=> OfPayload(r, o)
  BY <1>2 DEF OfPayload
<1>5. /\ n \in Nat /\ Len(c) = n + k /\ \A i \in 1 .. n : c[i] = codes[i]
      /\ c[n + 1].origin = O /\ c[n + 1].tag = tag
      /\ \A i \in n + 1 .. n + k : c[i].origin = O /\ (i # n + 1 => c[i].tag = <<>>)
      /\ \A i \in 1 .. Len(c) : i \in 1 .. n \/ i \in n + 1 .. n + k
  <2>0. /\ n \in Nat /\ Len(c) = n + k /\ \A i \in 1 .. n : c[i] = codes[i]
        /\ \A i \in 1 .. k : c[n + i].origin = O /\ c[n + i].tag = IF i = 1 THEN tag ELSE <<>>
    BY DEF Appended
  <2>1. ASSUME NEW i \in n + 1 .. n + k
        PROVE  c[i].origin = O /\ c[i].tag = IF i = n + 1 THEN tag ELSE <<>>
    <3>1. i - n \in 1 .. k /\ n + (i - n) = i /\ (i - n = 1 <=> i = n + 1)
      BY <2>0
    <3> HIDE DEF n, c
    <3>2. c[n + (i - n)].origin = O /\ c[n + (i - n)].tag = IF i - n = 1 THEN tag ELSE <<>>
      BY <2>0, <3>1
    <3>3. QED
      BY <3>1, <3>2
  <2>2. n \in Nat /\ n + 1 \in n + 1 .. n + k /\ Len(c) = n + k
    BY <2>0
  <2>3. \A i \in 1 .. n : c[i] = codes[i]
    BY <2>0
  <2> HIDE DEF n, c
  <2>4. \A i \in 1 .. n + k : i \in 1 .. n \/ i \in n + 1 .. n + k
    BY <2>2
  <2>5. QED
    BY <2>1, <2>2, <2>3, <2>4
<1>6. /\ tag # <<>> => R(tag[1].is_header, tag[1].cr, O)
      /\ tag = <<>> /\ n = 0 => R(hm_is_header, hm_cr, O)
      /\ tag = <<>> /\ n # 0 => codes[n].origin = O
  BY Zenon DEF ReadAs, SettingsFor, Appended
<1>7. (codes = <<>> <=> n = 0) /\ (c = <<>> <=> n + k = 0)
  BY <1>5 DEF Appended
<1> HIDE DEF c, n
<1>8. TagsTrue'
  <2>1. ASSUME NEW i \in 1 .. Len(c), c[i].tag # <<>>
        PROVE  R(c[i].tag[1].is_header, c[i].tag[1].cr, c[i].origin)
    <3>1. CASE i \in 1 .. n
      <4>1. c[i] = codes[i] /\ i \in 1 .. Len(codes)
        BY <1>5, <3>1 DEF n
      <4>2. QED
        BY <1>1, <2>1, <4>1, Zenon DEF TagsTrue, ReadAs
    <3>2. CASE i \in n + 1 .. n + k
      <4>1. i = n + 1 /\ c[i].tag = tag /\ c[i].origin = O
        BY <1>5, <2>1, <3>2
      <4>2. QED
        BY <1>6, <2>1, <4>1, Zenon
    <3>3. QED
      BY <1>5, <3>1, <3>2
  <2>2. QED
    BY <1>3, <1>4, <2>1, Zenon DEF TagsTrue, ReadAs, c
<1>9. SettingsTrue'
  <2>1. ASSUME c[1].tag = <<>> PROVE R(hm_is_header, hm_cr, c[1].origin)
    <3>1. CASE n = 0
      <4>1. c[1].tag = tag /\ c[1].origin = O
        BY <1>5, <3>1
      <4>2. QED
        BY <1>6, <2>1, <3>1, <4>1, Zenon
    <3>2. CASE n # 0
      <4>1. c[1] = codes[1] /\ codes # <<>>
        BY <1>5, <1>7, <3>2
      <4>2. QED
        BY <1>1, <2>1, <4>1, Zenon DEF SettingsTrue, ReadAs
    <3>3. QED
      BY <3>1, <3>2
  <2>2. QED
    BY <1>2, <1>3, <1>4, <2>1, Zenon DEF SettingsTrue, ReadAs, c
<1>10. OriginsAlike'
  <2>1. ASSUME NEW i \in 1 .. Len(c), NEW j \in 1 .. Len(c), j < i,
               \A m \in j + 1 .. i : c[m].tag = <<>>
        PROVE  c[i].origin = c[j].origin
    <3>1. CASE i \in 1 .. n
      <4>1. j \in 1 .. n /\ c[i] = codes[i] /\ c[j] = codes[j]
        BY <1>5, <2>1, <3>1
      <4>2. \A m \in j + 1 .. i : codes[m].tag = <<>>
        <5>1. \A m \in j + 1 .. i : m \in 1 .. n /\ c[m] = codes[m]
          BY <1>5, <3>1, <4>1
        <5>2. QED
          BY <2>1, <5>1
      <4>3. codes[i].origin = codes[j].origin
        BY <1>1, <2>1, <3>1, <4>1, <4>2 DEF OriginsAlike, n
      <4>4. QED
        BY <4>1, <4>3
    <3>2. CASE i \in n + 1 .. n + k /\ j \in n + 1 .. n + k
      BY <1>5, <3>2
    <3>3. CASE i \in n + 1 .. n + k /\ j \in 1 .. n
      <4>1. n + 1 \in j + 1 .. i /\ n # 0 /\ n \in 1 .. n
        BY <1>5, <3>3
      <4>2. tag = <<>> /\ codes[n].origin = O /\ c[i].origin = O /\ c[j] = codes[j]
        BY <1>5, <1>6, <2>1, <3>3, <4>1
      <4>3. codes[n].origin = codes[j].origin
        <5>1. CASE j = n
          BY <5>1
        <5>2. CASE j # n
          <6>1. j < n /\ \A m \in j + 1 .. n : m \in j + 1 .. i /\ c[m] = codes[m]
            BY <1>5, <3>3, <5>2
          <6>2. \A m \in j + 1 .. n : codes[m].tag = <<>>
            BY <2>1, <6>1
          <6>3. QED
            BY <1>1, <3>3, <4>1, <6>1, <6>2 DEF OriginsAlike, n
        <5>3. QED
          BY <5>1, <5>2
      <4>4. QED
        BY <4>2, <4>3
    <3>4. QED
      BY <1>5, <3>1, <3>2, <3>3
  <2>2. QED
    BY <2>1 DEF OriginsAlike, c
<1>11. QED
  BY <1>8, <1>9, <1>10 DEF CodesInv

LEMMA DecodeKeeps ==
  ASSUME PInv, DeinterleaverCall, grays # <<>>, di_is_header' \in BOOLEAN, di_cr' \in Nat,
         NEW n \in 1 .. Len(grays), NEW k \in Nat, Decoded(n, k)
  PROVE  PInv'
<1> DEFINE tag == grays[1].tag
           O == BlockOrigin(n)
           c == Len(codes)
<1>1. /\ SyncTypeOK /\ LineTypeOK /\ CodeTypeOK /\ CountInv /\ HeaderSymbols = 8
      /\ LineInv(Line) /\ DemodInv /\ TakenInv /\ CodesInv /\ TailInv /\ NibsInv /\ RoomInv
  BY DEF PInv, PipeTypeOK, HeaderSymbols
<1>2. /\ UNCHANGED syncState /\ SyncTypeOK' /\ CountInv'
      /\ symbol_cnt' = symbol_cnt /\ symb_numb' = symb_numb /\ received_head' = received_head
      /\ frame_cnt' = frame_cnt /\ rates' = rates
      /\ UNCHANGED <<words, sync_out, fd_out, fd_frame_info, fd_is_header, fd_cr>>
      /\ nibs' = nibs /\ hd_left' = hd_left /\ fi_q' = fi_q
      /\ hm_is_header' = hm_is_header /\ hm_cr' = hm_cr /\ UNCHANGED hammingState
      /\ NibsInv'
  BY DeinterQuiet
<1>3. /\ n \in 1 .. DI!UpToNextTag(grays) /\ k \in Nat /\ k > 0
      /\ IsHdr(grays[1]) => n = 8
      /\ grays' = SubSeq(grays, n + 1, Len(grays)) /\ codes' = codes \o CodeWords(n, k)
  BY DEF Decoded
<1>4. /\ LineTypeOK' /\ Len(grays') = Len(grays) - n /\ Len(grays) \in Nat
      /\ Cut(Line, Line', 0, n) /\ Len(Line) \in Nat /\ Len(Line') \in Nat
  <2>1. n \in 0 .. Len(grays)
    BY <1>1 DEF LineTypeOK
  <2>2. QED
    BY <1>1, <1>2, <1>3, <2>1, FrontLeaves
<1>5. /\ \A i \in 1 .. Len(grays) : Line[i] = grays[i]
      /\ Len(grays) <= Len(Line) /\ Len(words) \in Nat /\ Len(Line) > 0
      /\ Len(Line') + n = Len(Line)
  <2>1. Parts(Line, grays, words, fd_out, fd_frame_info, sync_out)
    BY <1>1, LineNow
  <2>2. QED
    BY <1>4, <2>1 DEF Parts, Cut
<1>6. \A i \in 2 .. n : grays[i].tag = <<>>
  <2>1. \A i \in 2 .. DI!UpToNextTag(grays) : grays[i].tag = <<>>
    BY <1>4, NextTag
  <2>2. DI!UpToNextTag(grays) \in 1 .. Len(grays)
    BY <1>4, NextTag
  <2>3. QED
    BY <1>3, <2>1, <2>2
<1>7. /\ CodeWords(n, k) \in Seq(CodeType) /\ Len(CodeWords(n, k)) = k
      /\ \A i \in 1 .. k :
           /\ CodeWords(n, k)[i].origin = O
           /\ CodeWords(n, k)[i].tag = IF i = 1 THEN tag ELSE <<>>
  BY <1>1, CodeWordsType
<1> HIDE DEF O, tag
<1>8. /\ codes' \in Seq(CodeType) /\ Len(codes') = c + k /\ c \in Nat
      /\ \A i \in 1 .. c : codes'[i] = codes[i]
      /\ \A i \in 1 .. k : /\ codes'[c + i].origin = O
                           /\ codes'[c + i].tag = IF i = 1 THEN tag ELSE <<>>
  <2> DEFINE w == CodeWords(n, k)
  <2>1. codes \in Seq(CodeType) /\ w \in Seq(CodeType)
    BY <1>1, <1>7 DEF CodeTypeOK
  <2> HIDE DEF w
  <2>2. /\ codes \o w \in Seq(CodeType) /\ Len(codes \o w) = Len(codes) + Len(w)
        /\ Len(codes) \in Nat /\ Len(w) \in Nat
        /\ \A i \in 1 .. Len(codes) : (codes \o w)[i] = codes[i]
        /\ \A i \in 1 .. Len(w) : (codes \o w)[Len(codes) + i] = w[i]
    BY <2>1, Joined
  <2>3. /\ codes' = codes \o w /\ Len(w) = k
        /\ \A i \in 1 .. k : w[i].origin = O /\ w[i].tag = IF i = 1 THEN tag ELSE <<>>
    BY <1>3, <1>7 DEF w
  <2>4. QED
    BY <2>2, <2>3
<1>9. /\ (codes = <<>> <=> Len(codes) = 0) /\ (codes' = <<>> <=> Len(codes') = 0)
      /\ c + 1 \in 1 .. Len(codes') /\ codes'[c + 1].origin = O /\ codes'[c + 1].tag = tag
      /\ c + k \in 1 .. Len(codes') /\ codes'[c + k].origin = O
      /\ \A i \in 1 .. Len(codes') : i \in 1 .. c \/ (i - c \in 1 .. k /\ c + (i - c) = i)
  <2>1. (codes = <<>> <=> Len(codes) = 0) /\ (codes' = <<>> <=> Len(codes') = 0)
    BY <1>1, <1>8, EmptySeq DEF CodeTypeOK
  <2>2. 1 \in 1 .. k /\ k \in 1 .. k
    BY <1>3
  <2> HIDE DEF c
  <2>3. /\ c + 1 \in 1 .. Len(codes') /\ c + k \in 1 .. Len(codes')
        /\ \A i \in 1 .. Len(codes') : i \in 1 .. c \/ (i - c \in 1 .. k /\ c + (i - c) = i)
    BY <1>3, <1>8
  <2>4. QED
    BY <1>8, <2>1, <2>2, <2>3
<1>10. ~Taken /\ fi_q = <<>>
  BY <1>1, <1>5 DEF TakenInv
<1>11. CodeTypeOK'
  BY <1>1, <1>2, <1>8 DEF CodeTypeOK
<1>12. RoomInv'
  <2>1. RoomForFrames => Len(grays') <= GraysCap
    <3>1. GraysCap \in Nat
      BY PipelineAssumption
    <3>2. QED
      BY <1>1, <1>4, <3>1 DEF RoomInv
  <2>2. QED
    BY <1>1, <1>2, <2>1 DEF RoomInv
<1>13. /\ (\A i \in 1 .. n : ~IsHdr(Line[i])) \/ Len(Line') = 0 => LineInv(Line)'
       /\ DemodInv'
  BY <1>2, <1>4, BlockLeaves
<1>14. ASSUME NEW id, \A i \in 1 .. n : grays[i].frame = id PROVE O = {id}
  <2>1. n \in Nat /\ n >= 1
    BY <1>4
  <2>2. QED
    BY <1>14, <2>1, BlockIsOfOneKind DEF O
<1>15. 1 \in 1 .. Len(Line) /\ 1 \in 1 .. Len(grays) /\ Line[1] = grays[1] /\ Line[1].tag = tag
  BY <1>4, <1>5 DEF tag
<1>16. \A i \in 1 .. n : i \in 1 .. Len(grays) /\ i \in 1 .. Len(Line) /\ (i = 1 \/ i \in 2 .. n)
  BY <1>4, <1>5
<1>17. \A i \in 1 .. Len(codes') : IsHdr(codes'[i]) => i = c + 1 /\ IsHdr(grays[1])
  <2> SUFFICES ASSUME NEW i \in 1 .. Len(codes'), IsHdr(codes'[i])
               PROVE  i = c + 1 /\ IsHdr(grays[1])
    OBVIOUS
  <2>1. i \notin 1 .. c
    BY <1>8, <1>10 DEF Taken
  <2>2. i - c \in 1 .. k /\ c + (i - c) = i
    BY <1>9, <2>1
  <2> DEFINE j == i - c
  <2> HIDE DEF j
  <2>3. codes'[c + j].tag = IF j = 1 THEN tag ELSE <<>>
    BY <1>8, <2>2 DEF j
  <2>4. codes'[i].tag = IF j = 1 THEN tag ELSE <<>>
    BY <2>2, <2>3 DEF j
  <2>5. j = 1 /\ tag # <<>> /\ tag[1].is_header
    BY <2>4 DEF IsHdr
  <2>6. QED
    BY <2>2, <2>5 DEF IsHdr, tag, j
<1>18. CASE IsHdr(grays[1])
  <2>1. n = 8 /\ Len(Line) = 8 /\ symbol_cnt = 8 /\ ~received_head
    <3>1. IsHdr(Line[1])
      BY <1>15, <1>18
    <3>2. Len(Line) - 1 + 1 = symbol_cnt /\ ~received_head
      BY <1>1, <1>15, <3>1 DEF LineInv, Shape
    <3>3. 1 \in 1 .. Len(grays) + Len(words)
      BY <1>4, <1>5, <1>15
    <3>4. symbol_cnt = 8
      BY <1>1, <3>1, <3>3 DEF DemodInv
    <3>5. QED
      BY <1>3, <1>4, <1>18, <3>2, <3>4
  <2>2. Len(Line') = 0
    BY <1>4, <1>5, <2>1
  <2>3. \A i \in 1 .. n : grays[i].frame = <<frame_cnt, TRUE>>
    <3>1. \A i \in 1 .. n : 1 \in 1 .. i /\ IsHdr(Line[1]) /\ i \in 1 .. Len(Line)
      BY <1>15, <1>16, <1>18
    <3>2. \A i \in 1 .. n : Line[i].frame = <<frame_cnt, TRUE>>
      BY <1>1, <3>1 DEF LineInv, Shape
    <3>3. QED
      BY <1>5, <1>16, <3>2
  <2>4. O = {<<frame_cnt, TRUE>>}
    BY <1>14, <2>3
  <2>5. OfHeader(O)
    <3>1. frame_cnt \in 1 .. frame_cnt
      BY <1>1 DEF SyncTypeOK
    <3>2. QED
      BY <2>4, <3>1, Zenon DEF OfHeader
  <2>6. tag # <<>> /\ ReadAs(tag[1].is_header, tag[1].cr, O)
    BY <1>18, <2>5 DEF IsHdr, ReadAs, tag
  <2>7. CodesInv'
    <3>1. UNCHANGED <<syncState, hammingState>> /\ CodesInv
      BY <1>1, <1>2
    <3>2. k \in Nat /\ k > 0
      BY <1>3
    <3>3. SettingsFor(O, tag)
      BY <2>6, Zenon DEF SettingsFor
    <3>4. Appended(k, O, tag)
      BY <1>8, <1>9 DEF Appended
    <3>5. QED
      BY <3>1, <3>2, <3>3, <3>4, CodesAppended
  <2>8. TakenInv'
    <3>1. \A i, j \in 1 .. Len(codes') : IsHdr(codes'[i]) /\ IsHdr(codes'[j]) => i = j
      BY <1>17
    <3>2. \A i \in 1 .. Len(nibs) : ~IsHdr(nibs[i])
      BY <1>10 DEF Taken
    <3>3. Len(fi_q') <= 1 /\ fi_q' = <<>>
      BY <1>1, <1>2, <1>10 DEF TakenInv
    <3>4. QED
      BY <1>1, <1>2, <2>1, <2>2, <3>1, <3>2, <3>3 DEF TakenInv
  <2>9. TailInv'
    BY <1>2, <2>1, <2>2 DEF TailInv, TagPassed
  <2>10. LineInv(Line)' /\ DemodInv'
    BY <1>13, <2>2
  <2>11. QED
    BY <1>2, <1>4, <1>11, <1>12, <2>7, <2>8, <2>9, <2>10 DEF PInv, PipeTypeOK
<1>19. CASE ~IsHdr(grays[1])
  <2>1. \A i \in 1 .. n : ~IsHdr(Line[i])
    BY <1>5, <1>6, <1>16, <1>19 DEF IsHdr
  <2>2. \A i \in 1 .. n : grays[i].frame = <<Len(rates), FALSE>>
    <3>1. \A i \in 1 .. n : \A j \in 1 .. i : j \in 1 .. n
      BY <1>4
    <3>2. \A i \in 1 .. n : Line[i].frame = <<Len(rates), FALSE>>
      BY <1>1, <1>16, <2>1, <3>1 DEF LineInv, Shape
    <3>3. QED
      BY <1>5, <1>16, <3>2
  <2>3. Len(rates) > 0 /\ Len(rates) \in Nat
    <3>1. \A j \in 1 .. 1 : ~IsHdr(Line[j])
      BY <1>15, <1>19
    <3>2. Len(rates) > 0
      BY <1>1, <1>15, <3>1 DEF LineInv, Shape
    <3>3. QED
      BY <1>1, <3>2 DEF SyncTypeOK
  <2>4. O = {<<Len(rates), FALSE>>}
    BY <1>14, <2>2
  <2>5. tag # <<>> => ReadAs(tag[1].is_header, tag[1].cr, O)
    <3> SUFFICES ASSUME tag # <<>> PROVE ReadAs(tag[1].is_header, tag[1].cr, O)
      OBVIOUS
    <3>1. IsPay(Line[1]) /\ ~tag[1].is_header
      BY <1>15, <1>19 DEF IsHdr, IsPay
    <3>2. tag[1].cr = rates[Len(rates)]
      BY <1>1, <1>15, <3>1 DEF LineInv, Shape
    <3>3. OfPayload(tag[1].cr, O)
      <4>1. Len(rates) \in 1 .. Len(rates)
        BY <2>3
      <4>2. QED
        BY <2>4, <3>2, <4>1, Zenon DEF OfPayload
    <3>4. QED
      BY <3>1, <3>3, Zenon DEF ReadAs
  <2>6. tag = <<>> => Continues
    BY <1>1, <1>5, <1>15 DEF TailInv, TagPassed
  <2>7. /\ tag = <<>> /\ codes = <<>> => ReadAs(hm_is_header, hm_cr, O)
        /\ tag = <<>> /\ codes # <<>> => codes[Len(codes)].origin = O
    BY <2>4, <2>6, Zenon DEF Continues
  <2>8. CodesInv'
    <3>1. UNCHANGED <<syncState, hammingState>> /\ CodesInv
      BY <1>1, <1>2
    <3>2. k \in Nat /\ k > 0
      BY <1>3
    <3>3. SettingsFor(O, tag)
      BY <2>5, <2>7, Zenon DEF SettingsFor
    <3>4. Appended(k, O, tag)
      BY <1>8, <1>9 DEF Appended
    <3>5. QED
      BY <3>1, <3>2, <3>3, <3>4, CodesAppended
  <2>9. ~Taken'
    BY <1>2, <1>10, <1>17, <1>19 DEF Taken
  <2>10. TakenInv'
    <3>1. \A i \in 1 .. Len(codes') : ~IsHdr(codes'[i])
      BY <1>17, <1>19
    <3>2. Len(fi_q') <= 1 /\ fi_q' = <<>>
      BY <1>1, <1>2, <1>10 DEF TakenInv
    <3>3. \A i, j \in 1 .. Len(nibs) : IsHdr(nibs[i]) /\ IsHdr(nibs[j]) => i = j
      BY <1>1 DEF TakenInv
    <3>4. QED
      BY <1>2, <2>9, <3>1, <3>2, <3>3 DEF TakenInv
  <2>11. Continues'
    BY <1>2, <1>8, <1>9, <2>4 DEF Continues
  <2>12. LineInv(Line)' /\ DemodInv'
    BY <1>13, <2>1
  <2>13. QED
    BY <1>2, <1>4, <1>11, <1>12, <2>8, <2>10, <2>11, <2>12 DEF PInv, PipeTypeOK, TailInv
<1>20. QED
  BY <1>18, <1>19

LEMMA DeinterKeeps ==
  ASSUME PInv, DeinterleaverCall PROVE PInv'
<1>1. /\ SyncTypeOK /\ LineTypeOK /\ CodeTypeOK /\ CountInv
      /\ LineInv(Line) /\ DemodInv /\ TakenInv /\ CodesInv /\ TailInv /\ NibsInv /\ RoomInv
  BY DEF PInv, PipeTypeOK
<1>2. /\ UNCHANGED syncState /\ SyncTypeOK' /\ CountInv'
      /\ symbol_cnt' = symbol_cnt /\ symb_numb' = symb_numb /\ received_head' = received_head
      /\ UNCHANGED <<words, sync_out, fd_out, fd_frame_info, fd_is_header, fd_cr>>
      /\ nibs' = nibs /\ hd_left' = hd_left /\ fi_q' = fi_q
      /\ hm_is_header' = hm_is_header /\ hm_cr' = hm_cr /\ UNCHANGED hammingState
  BY DeinterQuiet
<1>3. ASSUME grays' = grays, codes' = codes, di_is_header' \in BOOLEAN, di_cr' \in Nat PROVE PInv'
  <2>1. Line' = Line /\ LineTypeOK'
    BY <1>1, <1>2, <1>3 DEF Line, LineTypeOK
  <2>2. LineInv(Line)' /\ (TagPassed(Line)' <=> TagPassed(Line))
    BY <1>1, <1>2, <2>1, LineUnmoved
  <2>3. CodesInv' /\ NibsInv' /\ (Taken' <=> Taken) /\ (Continues' <=> Continues)
    BY <1>1, <1>2, <1>3, CodesStay
  <2>4. DemodInv' /\ TakenInv' /\ TailInv' /\ RoomInv'
    BY <1>1, <1>2, <1>3, <2>1, <2>2, <2>3 DEF DemodInv, TakenInv, TailInv, RoomInv
  <2>5. CodeTypeOK'
    BY <1>1, <1>2, <1>3 DEF CodeTypeOK
  <2>6. QED
    BY <1>2, <2>1, <2>2, <2>3, <2>4, <2>5 DEF PInv, PipeTypeOK
<1>4. CASE grays = <<>>
  <2>1. grays' = grays /\ codes' = codes /\ di_is_header' = di_is_header /\ di_cr' = di_cr
    BY <1>4 DEF DeinterleaverCall, deinterState
  <2>2. di_is_header' \in BOOLEAN /\ di_cr' \in Nat
    BY <1>1, <2>1 DEF CodeTypeOK
  <2>3. QED
    BY <1>3, <2>1, <2>2
<1>5. CASE grays # <<>>
  <2>1. /\ di_is_header' \in BOOLEAN /\ di_cr' \in Nat
        /\ \/ grays' = grays /\ codes' = codes
           \/ \E n \in 1 .. Len(grays) : Dropped(n)
           \/ \E n \in 1 .. Len(grays), k \in Nat : Decoded(n, k)
    BY <1>1, <1>5, DeinterOutcome
  <2>2. QED
    BY <1>3, <1>5, <2>1, DropKeeps, DecodeKeeps
<1>6. QED
  BY <1>4, <1>5

(***************************************************************************)
(* HammingDecoder.                                                         *)
(***************************************************************************)
LEMMA HammingQuiet ==
  ASSUME PInv, HammingDecoderCall
  PROVE  /\ UNCHANGED syncState /\ SyncTypeOK' /\ CountInv' /\ LineTypeOK' /\ Line' = Line
         /\ symbol_cnt' = symbol_cnt /\ symb_numb' = symb_numb /\ received_head' = received_head
         /\ frame_cnt' = frame_cnt /\ rates' = rates
         /\ UNCHANGED <<words, grays, sync_out, fd_out, fd_frame_info, fd_is_header, fd_cr>>
         /\ UNCHANGED <<di_is_header, di_cr, hd_left, fi_q>>
<1>1. SyncTypeOK /\ CountInv /\ LineTypeOK
  BY DEF PInv, PipeTypeOK
<1>2. /\ UNCHANGED syncState
      /\ UNCHANGED <<words, grays, sync_out, fd_out, fd_frame_info, fd_is_header, fd_cr>>
      /\ UNCHANGED <<di_is_header, di_cr, hd_left, fi_q>>
  BY DEF HammingDecoderCall, demodState, deinterState, headerState, messages
<1>3. SyncTypeOK' /\ CountInv'
  BY <1>1, <1>2, SyncStays
<1>4. LineTypeOK' /\ Line' = Line
  BY <1>1, <1>2 DEF LineTypeOK, Line
<1>5. QED
  BY <1>2, <1>3, <1>4 DEF syncState

\* The settings the first code words are decoded with.
LEMMA HammingSettings ==
  ASSUME PInv, HammingDecoderCall
  PROVE  /\ hm_is_header' \in BOOLEAN /\ hm_cr' \in Nat
         /\ codes = <<>> => hm_is_header' = hm_is_header /\ hm_cr' = hm_cr
         /\ codes # <<>> => ReadAs(hm_is_header', hm_cr', codes[1].origin)
<1>1. /\ codes \in Seq(CodeType) /\ hm_is_header \in BOOLEAN /\ hm_cr \in Nat
      /\ TagsTrue /\ SettingsTrue
  BY DEF PInv, PipeTypeOK, CodeTypeOK, CodesInv
<1>2. CASE codes = <<>> \/ Head(codes).tag = <<>>
  <2>1. hm_is_header' = hm_is_header /\ hm_cr' = hm_cr
    BY <1>2 DEF HammingDecoderCall, hammingState
  <2>2. codes # <<>> => codes[1].tag = <<>>
    BY <1>1, <1>2
  <2>3. codes # <<>> => ReadAs(hm_is_header, hm_cr, codes[1].origin)
    BY <1>1, <2>2, Zenon DEF SettingsTrue
  <2>4. QED
    BY <1>1, <2>1, <2>3
<1>3. CASE codes # <<>> /\ Head(codes).tag # <<>>
  <2> DEFINE tag == codes[1].tag[1]
             O == codes[1].origin
  <2>1. 1 \in 1 .. Len(codes) /\ Head(codes) = codes[1] /\ codes[1] \in CodeType
    <3>1. Len(codes) \in Nat \ {0}
      BY <1>1, <1>3, EmptySeq
    <3>2. QED
      BY <1>1, <1>3, <3>1
  <2>2. tag \in TagType
    <3>1. codes[1].tag \in Seq(TagType) /\ codes[1].tag # <<>>
      BY <1>3, <2>1 DEF CodeType
    <3>2. Len(codes[1].tag) \in Nat \ {0}
      BY <3>1, EmptySeq
    <3>3. QED
      BY <3>1, <3>2
  <2>3. tag.is_header \in BOOLEAN /\ tag.cr \in Nat
    BY <2>2 DEF TagType
  <2>4. /\ hm_is_header' = tag.is_header
        /\ hm_cr' = IF tag.is_header THEN hm_cr ELSE tag.cr
    BY <1>3, <2>1 DEF HammingDecoderCall
  <2>5. ReadAs(tag.is_header, tag.cr, O)
    BY <1>1, <1>3, <2>1 DEF TagsTrue
  <2> HIDE DEF tag, O
  <2>6. hm_is_header' \in BOOLEAN /\ hm_cr' \in Nat
    BY <1>1, <2>3, <2>4
  <2>7. ReadAs(hm_is_header', hm_cr', O)
    BY <2>3, <2>4, <2>5, Zenon DEF ReadAs
  <2>8. QED
    BY <1>3, <2>6, <2>7 DEF O
<1>4. QED
  BY <1>2, <1>3

\* The first d code words become nibbles.
WordsDecoded(d) ==
  /\ Len(codes) \in Nat /\ Len(nibs) \in Nat /\ d \in 0 .. Len(codes)
  /\ codes # <<>> => d <= DI!UpToNextTag(codes)
  /\ codes' \in Seq(CodeType) /\ Len(codes') = Len(codes) - d
  /\ \A i \in 1 .. Len(codes') : codes'[i] = codes[i + d]
  /\ nibs' \in Seq(NibType) /\ Len(nibs') = Len(nibs) + d /\ Len(nibs') <= NibsCap
  /\ \A i \in 1 .. Len(nibs) : nibs'[i] = nibs[i]
  /\ \A i \in 1 .. d : /\ nibs'[Len(nibs) + i].origin = codes[i].origin
                       /\ nibs'[Len(nibs) + i].tag = codes[i].tag
                       /\ nibs'[Len(nibs) + i].rate = IF hm_is_header' THEN 4 ELSE hm_cr'

LEMMA HammingMoves ==
  ASSUME PInv, HammingDecoderCall PROVE WordsDecoded(Decodable)
<1> DEFINE d == Decodable
           r == IF hm_is_header' THEN 4 ELSE hm_cr'
           w == [i \in 1 .. d |-> [origin |-> codes[i].origin, tag |-> codes[i].tag, rate |-> r]]
<1>1. /\ codes \in Seq(CodeType) /\ nibs \in Seq(NibType) /\ Len(nibs) <= NibsCap
      /\ Len(codes) \in Nat /\ Len(nibs) \in Nat
  BY DEF PInv, PipeTypeOK, CodeTypeOK
<1>2. NibsCap - Len(nibs) \in Nat /\ NibsCap \in Nat
  BY <1>1, PipelineAssumption
<1>3. /\ codes # <<>> => DI!UpToNextTag(codes) \in 1 .. Len(codes)
      /\ codes = <<>> => DI!UpToNextTag(codes) = 0
  <2>1. CASE codes = <<>>
    <3>1. Len(codes) = 0
      BY <1>1, <2>1, EmptySeq
    <3>2. DI!TagsAt(codes) = {}
      BY <3>1 DEF DI!TagsAt
    <3>3. QED
      BY <2>1, <3>1, <3>2 DEF DI!UpToNextTag
  <2>2. CASE codes # <<>>
    <3>1. Len(codes) > 0
      BY <1>1, <2>2, EmptySeq
    <3>2. QED
      BY <1>1, <2>2, <3>1, NextTag
  <2>3. QED
    BY <2>1, <2>2
<1>4. /\ d \in 0 .. Len(codes) /\ d <= NibsCap - Len(nibs)
      /\ codes # <<>> => d <= DI!UpToNextTag(codes)
  <2> DEFINE u == DI!UpToNextTag(codes)
  <2>1. u \in 0 .. Len(codes)
    <3>1. codes = <<>> => u = 0
      BY <1>3
    <3>2. codes # <<>> => u \in 1 .. Len(codes)
      BY <1>3
    <3> HIDE DEF u
    <3>3. QED
      BY <1>1, <3>1, <3>2
  <2>2. d = IF u <= NibsCap - Len(nibs) THEN u ELSE NibsCap - Len(nibs)
    BY Zenon DEF Decodable, SmallerOf
  <2> HIDE DEF d, u
  <2>3. d \in 0 .. Len(codes) /\ d <= NibsCap - Len(nibs) /\ d <= u
    BY <1>1, <1>2, <2>1, <2>2
  <2>4. QED
    BY <2>3 DEF u
<1>5. codes' = SubSeq(codes, d + 1, Len(codes)) /\ nibs' = nibs \o w
  BY DEF HammingDecoderCall
<1>6. r \in Nat
  <2>1. hm_is_header' \in BOOLEAN /\ hm_cr' \in Nat
    BY HammingSettings
  <2>2. QED
    BY <2>1
<1> HIDE DEF r
<1>7. /\ codes' \in Seq(CodeType) /\ Len(codes') = Len(codes) - d
      /\ \A i \in 1 .. Len(codes') : codes'[i] = codes[i + d]
  <2> HIDE DEF d
  <2>1. QED
    BY <1>1, <1>4, <1>5, FrontDropped
<1>8. /\ w \in Seq(NibType) /\ Len(w) = d
      /\ \A i \in 1 .. d : w[i].origin = codes[i].origin /\ w[i].tag = codes[i].tag /\ w[i].rate = r
  <2> HIDE DEF d
  <2>1. \A i \in 1 .. d : codes[i] \in CodeType
    BY <1>1, <1>4
  <2>2. \A i \in 1 .. d :
          [origin |-> codes[i].origin, tag |-> codes[i].tag, rate |-> r] \in NibType
    BY <1>6, <2>1 DEF CodeType, NibType
  <2>3. w \in [1 .. d -> NibType]
    BY <2>2
  <2>4. \A i \in 1 .. d : w[i].origin = codes[i].origin /\ w[i].tag = codes[i].tag /\ w[i].rate = r
    OBVIOUS
  <2>5. d \in Nat
    BY <1>4
  <2> HIDE DEF w
  <2>6. QED
    BY <2>3, <2>4, <2>5, FunctionIsSeq
<1>9. /\ nibs' \in Seq(NibType) /\ Len(nibs') = Len(nibs) + d
      /\ \A i \in 1 .. Len(nibs) : nibs'[i] = nibs[i]
      /\ \A i \in 1 .. d : nibs'[Len(nibs) + i] = w[i]
  <2> HIDE DEF w, d
  <2>1. /\ nibs \o w \in Seq(NibType) /\ Len(nibs \o w) = Len(nibs) + Len(w)
        /\ \A i \in 1 .. Len(nibs) : (nibs \o w)[i] = nibs[i]
        /\ \A i \in 1 .. Len(w) : (nibs \o w)[Len(nibs) + i] = w[i]
    BY <1>1, <1>8, Joined
  <2>2. QED
    BY <1>5, <1>8, <2>1
<1> HIDE DEF w, d
<1>10. \A i \in 1 .. d : /\ nibs'[Len(nibs) + i].origin = codes[i].origin
                         /\ nibs'[Len(nibs) + i].tag = codes[i].tag
                         /\ nibs'[Len(nibs) + i].rate = r
  BY <1>8, <1>9
<1>11. Len(nibs') <= NibsCap
  BY <1>1, <1>2, <1>4, <1>9
<1>12. WordsDecoded(d)
  BY <1>1, <1>4, <1>7, <1>9, <1>10, <1>11 DEF WordsDecoded, r
<1>13. QED
  BY <1>12 DEF d

LEMMA HammingCodes ==
  ASSUME PInv, HammingDecoderCall, NEW d, WordsDecoded(d) PROVE CodesInv' /\ (Continues => Continues')
<1> DEFINE u == DI!UpToNextTag(codes)
           n == Len(codes)
           R(h, c, o) == IF h THEN OfHeader(o) ELSE OfPayload(c, o)
<1>1. /\ codes \in Seq(CodeType) /\ TagsTrue /\ OriginsAlike
      /\ frame_cnt' = frame_cnt /\ rates' = rates
  <2>1. frame_cnt' = frame_cnt /\ rates' = rates
    BY HammingQuiet
  <2>2. QED
    BY <2>1 DEF PInv, PipeTypeOK, CodeTypeOK, CodesInv
<1>2. \A o : OfHeader(o)' <=> OfHeader(o)
  BY <1>1 DEF OfHeader
<1>3. \A c, o : OfPayload(c, o)' <=> OfPayload(c, o)
  BY <1>1 DEF OfPayload
<1>4. /\ n \in Nat /\ d \in 0 .. n /\ Len(codes') = n - d /\ codes' \in Seq(CodeType)
      /\ \A i \in 1 .. n - d : codes'[i] = codes[i + d] /\ i + d \in 1 .. n
      /\ codes # <<>> => d <= u
  BY DEF WordsDecoded
<1>5. (codes = <<>> <=> n = 0) /\ (codes' = <<>> <=> d = n)
  <2>1. codes = <<>> <=> Len(codes) = 0
    BY <1>1, EmptySeq
  <2>2. codes' = <<>> <=> Len(codes') = 0
    BY <1>4, EmptySeq
  <2>3. n - d = 0 <=> d = n
    BY <1>4
  <2>4. QED
    BY <1>4, <2>1, <2>2, <2>3
<1>6. ASSUME codes # <<>>
      PROVE  /\ u \in 1 .. n /\ (u < n => codes[u + 1].tag # <<>>)
             /\ \A i \in 1 .. u : codes[i].origin = codes[1].origin
  <2>1. n > 0
    BY <1>4, <1>5, <1>6
  <2>2. /\ u \in 1 .. n /\ (u < n => codes[u + 1].tag # <<>>)
        /\ \A i \in 2 .. u : codes[i].tag = <<>>
    BY <1>4, <2>1, NextTag
  <2> HIDE DEF u
  <2>3. ASSUME NEW i \in 1 .. u PROVE codes[i].origin = codes[1].origin
    <3>1. CASE i = 1
      BY <3>1
    <3>2. CASE i # 1
      <4>1. 1 < i /\ i \in 1 .. n /\ 1 \in 1 .. n /\ \A m \in 1 + 1 .. i : m \in 2 .. u
        BY <1>4, <2>2, <3>2
      <4>2. QED
        BY <1>1, <2>2, <4>1 DEF OriginsAlike
    <3>3. QED
      BY <3>1, <3>2
  <2>4. QED
    BY <2>2, <2>3
<1>7. /\ codes = <<>> => hm_is_header' = hm_is_header /\ hm_cr' = hm_cr
      /\ codes # <<>> => ReadAs(hm_is_header', hm_cr', codes[1].origin)
  BY HammingSettings
<1> HIDE DEF u
<1>8. TagsTrue'
  <2>1. ASSUME NEW i \in 1 .. Len(codes'), codes'[i].tag # <<>>
        PROVE  R(codes'[i].tag[1].is_header, codes'[i].tag[1].cr, codes'[i].origin)
    <3>1. codes'[i] = codes[i + d] /\ i + d \in 1 .. Len(codes)
      BY <1>4
    <3>2. QED
      BY <1>1, <2>1, <3>1, Zenon DEF TagsTrue, ReadAs
  <2>2. QED
    BY <1>2, <1>3, <2>1, Zenon DEF TagsTrue, ReadAs
<1>9. SettingsTrue'
  <2>1. ASSUME codes' # <<>>, codes'[1].tag = <<>>
        PROVE  R(hm_is_header', hm_cr', codes'[1].origin)
    <3>1. d < n /\ codes # <<>> /\ codes'[1] = codes[d + 1]
      <4>1. d < n /\ codes # <<>>
        BY <1>4, <1>5, <2>1
      <4>2. 1 \in 1 .. n - d /\ 1 + d = d + 1
        BY <1>4, <4>1
      <4>3. codes'[1] = codes[1 + d]
        BY <1>4, <4>2
      <4>4. QED
        BY <4>1, <4>2, <4>3
    <3>2. d + 1 \in 1 .. u
      BY <1>4, <1>6, <2>1, <3>1
    <3>3. codes'[1].origin = codes[1].origin
      BY <1>6, <3>1, <3>2
    <3>4. QED
      BY <1>7, <3>1, <3>3, Zenon DEF ReadAs
  <2>2. QED
    BY <1>2, <1>3, <2>1, Zenon DEF SettingsTrue, ReadAs
<1>10. OriginsAlike'
  <2>1. ASSUME NEW i \in 1 .. Len(codes'), NEW j \in 1 .. Len(codes'), j < i,
               \A m \in j + 1 .. i : codes'[m].tag = <<>>
        PROVE  codes'[i].origin = codes'[j].origin
    <3>1. /\ codes'[i] = codes[i + d] /\ i + d \in 1 .. n /\ codes'[j] = codes[j + d]
          /\ j + d \in 1 .. n /\ j + d < i + d
      BY <1>4, <2>1
    <3>2. ASSUME NEW m \in (j + d) + 1 .. i + d PROVE codes[m].tag = <<>>
      <4>1. m - d \in j + 1 .. i /\ m - d \in 1 .. n - d /\ (m - d) + d = m
        BY <1>4
      <4>2. codes'[m - d].tag = <<>> /\ codes'[m - d] = codes[(m - d) + d]
        BY <1>4, <2>1, <4>1
      <4>3. QED
        BY <4>1, <4>2
    <3>3. QED
      BY <1>1, <3>1, <3>2 DEF OriginsAlike
  <2>2. QED
    BY <2>1 DEF OriginsAlike
<1>11. CodesInv'
  BY <1>8, <1>9, <1>10 DEF CodesInv
<1>12. ASSUME Continues PROVE Continues'
  <2> DEFINE o == {<<Len(rates), FALSE>>}
  <2>1. o' = o
    BY <1>1
  <2>2. CASE codes = <<>>
    <3>1. ReadAs(hm_is_header, hm_cr, o)
      BY <1>12, <2>2 DEF Continues
    <3>2. codes' = <<>> /\ hm_is_header' = hm_is_header /\ hm_cr' = hm_cr
      BY <1>4, <1>5, <1>7, <2>2
    <3> HIDE DEF o
    <3>3. R(hm_is_header', hm_cr', o)
      BY <3>1, <3>2, Zenon DEF ReadAs
    <3>4. ReadAs(hm_is_header, hm_cr, o)'
      BY <1>2, <1>3, <2>1, <3>3, Zenon DEF ReadAs
    <3>5. QED
      BY <3>2, <3>4, Zenon DEF Continues, o
  <2>3. CASE codes # <<>>
    <3>1. codes[n].origin = o
      BY <1>12, <2>3 DEF Continues
    <3> HIDE DEF o
    <3>2. CASE codes' = <<>>
      <4>1. n \in 1 .. u
        BY <1>4, <1>5, <1>6, <2>3, <3>2
      <4>2. codes[1].origin = o
        BY <1>6, <2>3, <3>1, <4>1
      <4>3. R(hm_is_header', hm_cr', o)
        BY <1>7, <2>3, <4>2, Zenon DEF ReadAs
      <4>4. ReadAs(hm_is_header, hm_cr, o)'
        BY <1>2, <1>3, <2>1, <4>3, Zenon DEF ReadAs
      <4>5. QED
        BY <3>2, <4>4, Zenon DEF Continues, o
    <3>3. CASE codes' # <<>>
      <4>1. n - d \in 1 .. n - d /\ (n - d) + d = n
        BY <1>4, <1>5, <3>3
      <4>2. codes'[Len(codes')] = codes[n]
        BY <1>4, <4>1
      <4>3. QED
        BY <2>1, <3>1, <3>3, <4>2 DEF Continues, o
    <3>4. QED
      BY <3>2, <3>3
  <2>4. QED
    BY <2>2, <2>3
<1>13. QED
  BY <1>11, <1>12

LEMMA HammingNibs ==
  ASSUME PInv, HammingDecoderCall, NEW d, WordsDecoded(d) PROVE NibsInv' /\ TakenInv'
<1> DEFINE n == Len(nibs)
           P(r, o) == (OfHeader(o) /\ r = 4) \/ OfPayload(r, o)
<1>1. /\ frame_cnt' = frame_cnt /\ rates' = rates /\ fi_q' = fi_q /\ Line' = Line
      /\ received_head' = received_head /\ symbol_cnt' = symbol_cnt
  BY HammingQuiet
<1>2. NibsInv /\ TakenInv /\ OriginsAlike /\ codes \in Seq(CodeType)
  BY DEF PInv, PipeTypeOK, CodeTypeOK, CodesInv
<1>3. /\ Len(codes) \in Nat /\ n \in Nat /\ d \in 0 .. Len(codes)
      /\ Len(codes') = Len(codes) - d /\ Len(nibs') = n + d
      /\ codes # <<>> => d <= DI!UpToNextTag(codes)
      /\ \A i \in 1 .. Len(codes') : codes'[i] = codes[i + d] /\ i + d \in d + 1 .. Len(codes)
      /\ \A i \in 1 .. n : nibs'[i] = nibs[i]
      /\ \A i \in 1 .. d : /\ nibs'[n + i].origin = codes[i].origin
                           /\ nibs'[n + i].tag = codes[i].tag
                           /\ nibs'[n + i].rate = IF hm_is_header' THEN 4 ELSE hm_cr'
  BY DEF WordsDecoded
<1>4. \A j \in 1 .. Len(nibs') : j \in 1 .. n \/ (j - n \in 1 .. d /\ n + (j - n) = j)
  BY <1>3
<1>5. \A i \in 1 .. d : codes[i].origin = codes[1].origin /\ codes # <<>>
  <2> SUFFICES ASSUME NEW i \in 1 .. d PROVE codes[i].origin = codes[1].origin /\ codes # <<>>
    OBVIOUS
  <2>1. Len(codes) > 0
    BY <1>3
  <2>2. codes # <<>>
    BY <1>2, <2>1, EmptySeq
  <2>3. /\ DI!UpToNextTag(codes) \in 1 .. Len(codes)
        /\ \A m \in 2 .. DI!UpToNextTag(codes) : codes[m].tag = <<>>
    BY <1>3, <2>1, NextTag
  <2>4. CASE i = 1
    BY <2>2, <2>4
  <2>5. CASE i # 1
    <3>1. /\ 1 < i /\ i \in 1 .. Len(codes) /\ 1 \in 1 .. Len(codes)
          /\ \A m \in 1 + 1 .. i : m \in 2 .. DI!UpToNextTag(codes)
      BY <1>3, <2>2, <2>3, <2>5
    <3>2. QED
      BY <1>2, <2>2, <2>3, <3>1 DEF OriginsAlike
  <2>6. QED
    BY <2>4, <2>5
<1>6. NibsInv'
  <2>1. ASSUME NEW j \in 1 .. Len(nibs') PROVE P(nibs'[j].rate, nibs'[j].origin)
    <3>1. CASE j \in 1 .. n
      <4>1. nibs'[j] = nibs[j]
        BY <1>3, <3>1
      <4>2. QED
        BY <1>2, <3>1, <4>1 DEF NibsInv
    <3>2. CASE j - n \in 1 .. d /\ n + (j - n) = j
      <4> DEFINE i == j - n
      <4> HIDE DEF i
      <4>1. i \in 1 .. d /\ n + i = j
        BY <3>2 DEF i
      <4>2. /\ nibs'[j].origin = codes[1].origin /\ codes # <<>>
            /\ nibs'[j].rate = IF hm_is_header' THEN 4 ELSE hm_cr'
        BY <1>3, <1>5, <4>1
      <4>3. ReadAs(hm_is_header', hm_cr', codes[1].origin) /\ hm_is_header' \in BOOLEAN
        BY <4>2, HammingSettings
      <4>4. QED
        BY <4>2, <4>3, Zenon DEF ReadAs
    <3>3. QED
      BY <1>4, <3>1, <3>2
  <2>2. QED
    BY <1>1, <2>1 DEF NibsInv, OfHeader, OfPayload
<1>7. \A i \in 1 .. Len(codes') :
        i + d \in 1 .. Len(codes) /\ (IsHdr(codes'[i]) <=> IsHdr(codes[i + d]))
  BY <1>3 DEF IsHdr
<1>8. \A j \in 1 .. n : j \in 1 .. Len(nibs') /\ (IsHdr(nibs'[j]) <=> IsHdr(nibs[j]))
  BY <1>3
<1>9. \A i \in 1 .. d : i \in 1 .. Len(codes) /\ (IsHdr(nibs'[n + i]) <=> IsHdr(codes[i]))
  BY <1>3 DEF IsHdr
<1>10. Taken' => Taken
  <2>1. ASSUME NEW i \in 1 .. Len(codes'), IsHdr(codes'[i]) PROVE Taken
    BY <1>7, <2>1 DEF Taken
  <2>2. ASSUME NEW j \in 1 .. Len(nibs'), IsHdr(nibs'[j]) PROVE Taken
    <3>1. CASE j \in 1 .. n
      BY <1>8, <2>2, <3>1 DEF Taken
    <3>2. CASE j - n \in 1 .. d /\ n + (j - n) = j
      BY <1>9, <2>2, <3>2 DEF Taken
    <3>3. QED
      BY <1>4, <3>1, <3>2
  <2>3. QED
    BY <2>1, <2>2 DEF Taken
<1>11. \A i, j \in 1 .. Len(codes') : IsHdr(codes'[i]) /\ IsHdr(codes'[j]) => i = j
  <2> SUFFICES ASSUME NEW i \in 1 .. Len(codes'), NEW j \in 1 .. Len(codes'),
                      IsHdr(codes'[i]), IsHdr(codes'[j])
               PROVE  i = j
    OBVIOUS
  <2>1. i + d = j + d
    BY <1>2, <1>7 DEF TakenInv
  <2>2. QED
    BY <1>3, <2>1
<1>12. \A i, j \in 1 .. Len(nibs') : IsHdr(nibs'[i]) /\ IsHdr(nibs'[j]) => i = j
  <2> SUFFICES ASSUME NEW i \in 1 .. Len(nibs'), NEW j \in 1 .. Len(nibs'),
                      IsHdr(nibs'[i]), IsHdr(nibs'[j])
               PROVE  i = j
    OBVIOUS
  <2>1. CASE i \in 1 .. n /\ j \in 1 .. n
    BY <1>2, <1>8, <2>1 DEF TakenInv
  <2>2. CASE i \in 1 .. n /\ j - n \in 1 .. d /\ n + (j - n) = j
    BY <1>2, <1>8, <1>9, <2>2 DEF TakenInv
  <2>3. CASE j \in 1 .. n /\ i - n \in 1 .. d /\ n + (i - n) = i
    BY <1>2, <1>8, <1>9, <2>3 DEF TakenInv
  <2>4. CASE /\ i - n \in 1 .. d /\ n + (i - n) = i
             /\ j - n \in 1 .. d /\ n + (j - n) = j
    <3>1. i - n = j - n
      BY <1>2, <1>9, <2>4 DEF TakenInv
    <3>2. QED
      BY <2>4, <3>1
  <2>5. QED
    BY <1>4, <2>1, <2>2, <2>3, <2>4
<1>13. \A i \in 1 .. Len(codes'), j \in 1 .. Len(nibs') : ~(IsHdr(codes'[i]) /\ IsHdr(nibs'[j]))
  <2> SUFFICES ASSUME NEW i \in 1 .. Len(codes'), NEW j \in 1 .. Len(nibs'),
                      IsHdr(codes'[i]), IsHdr(nibs'[j])
               PROVE  FALSE
    OBVIOUS
  <2>1. i + d \in 1 .. Len(codes) /\ IsHdr(codes[i + d])
    BY <1>7
  <2>2. CASE j \in 1 .. n
    BY <1>2, <1>8, <2>1, <2>2 DEF TakenInv
  <2>3. CASE j - n \in 1 .. d /\ n + (j - n) = j
    <3>1. i + d = j - n
      BY <1>2, <1>9, <2>1, <2>3 DEF TakenInv
    <3>2. QED
      BY <1>3, <2>3, <3>1
  <2>4. QED
    BY <1>4, <2>2, <2>3
<1>14. TakenInv'
  BY <1>1, <1>2, <1>10, <1>11, <1>12, <1>13 DEF TakenInv
<1>15. QED
  BY <1>6, <1>14

LEMMA HammingKeeps ==
  ASSUME PInv, HammingDecoderCall PROVE PInv'
<1>1. /\ SyncTypeOK /\ LineTypeOK /\ CodeTypeOK
      /\ LineInv(Line) /\ DemodInv /\ TailInv /\ RoomInv
  BY DEF PInv, PipeTypeOK
<1>2. /\ UNCHANGED syncState /\ SyncTypeOK' /\ CountInv' /\ LineTypeOK' /\ Line' = Line
      /\ symbol_cnt' = symbol_cnt /\ symb_numb' = symb_numb
      /\ UNCHANGED <<words, grays, sync_out, fd_out, fd_frame_info, fd_is_header, fd_cr>>
      /\ UNCHANGED <<di_is_header, di_cr, hd_left, fi_q>>
  BY HammingQuiet
<1>3. WordsDecoded(Decodable)
  BY HammingMoves
<1>4. CodesInv' /\ (Continues => Continues')
  BY <1>3, HammingCodes
<1>5. NibsInv' /\ TakenInv'
  BY <1>3, HammingNibs
<1>6. hm_is_header' \in BOOLEAN /\ hm_cr' \in Nat
  BY HammingSettings
<1>7. CodeTypeOK'
  BY <1>1, <1>2, <1>3, <1>6 DEF CodeTypeOK, WordsDecoded
<1>8. LineInv(Line)' /\ (TagPassed(Line)' <=> TagPassed(Line))
  BY <1>1, <1>2, LineUnmoved
<1>9. DemodInv' /\ TailInv' /\ RoomInv'
  BY <1>1, <1>2, <1>4, <1>8 DEF DemodInv, TailInv, RoomInv
<1>10. QED
  BY <1>2, <1>4, <1>5, <1>7, <1>8, <1>9 DEF PInv, PipeTypeOK

(***************************************************************************)
(* HeaderDecoder.                                                          *)
(***************************************************************************)
LEMMA HeaderQuiet ==
  ASSUME PInv, HeaderDecoderCall
  PROVE  /\ UNCHANGED syncState /\ SyncTypeOK' /\ CountInv' /\ LineTypeOK' /\ Line' = Line
         /\ symbol_cnt' = symbol_cnt /\ symb_numb' = symb_numb /\ received_head' = received_head
         /\ frame_cnt' = frame_cnt /\ rates' = rates
         /\ UNCHANGED <<words, grays, sync_out, fd_out, fd_frame_info, fd_is_header, fd_cr>>
         /\ UNCHANGED <<di_is_header, di_cr, hm_is_header, hm_cr, codes>>
<1>1. SyncTypeOK /\ CountInv /\ LineTypeOK
  BY DEF PInv, PipeTypeOK
<1>2. /\ UNCHANGED syncState
      /\ UNCHANGED <<words, grays, sync_out, fd_out, fd_frame_info, fd_is_header, fd_cr>>
      /\ UNCHANGED <<di_is_header, di_cr, hm_is_header, hm_cr, codes>>
  BY DEF HeaderDecoderCall, demodState, deinterState, hammingState
<1>3. SyncTypeOK' /\ CountInv'
  BY <1>1, <1>2, SyncStays
<1>4. LineTypeOK' /\ Line' = Line
  BY <1>1, <1>2 DEF LineTypeOK, Line
<1>5. QED
  BY <1>2, <1>3, <1>4 DEF syncState

\* What an answer keeps of what the header said.
LEMMA AnswerOf ==
  ASSUME NEW m \in HeaderMsgType, NEW f \in Nat, NEW a, a = [m EXCEPT !.frame = f]
  PROVE  a \in HeaderMsgType /\ a.err = m.err /\ SymbNumb(a) = SymbNumb(m)
<1>1. /\ a \in HeaderMsgType /\ a.err = m.err
      /\ a.cr = m.cr /\ a.pay_len = m.pay_len /\ a.crc = m.crc
  BY DEF HeaderMsgType
<1>2. SymbNumb(a) = SymbNumb(m)
  BY <1>1, Zenon DEF SymbNumb
<1>3. QED
  BY <1>1, <1>2

\* What a frame takes of the nibbles, none of them behind the next tag.
LEMMA CollectTakes ==
  ASSUME NEW frame, NEW left \in Nat, Len(nibs) \in Nat, Len(nibs) > 0, HD!Collect(frame, left)
  PROVE  /\ hd_left' \in Nat
         /\ \E d \in 0 .. Len(nibs) : /\ nibs' = SubSeq(nibs, d + 1, Len(nibs))
                                      /\ left > 0 => d > 0
                                      /\ \A i \in 2 .. d : nibs[i].tag = <<>>
<1> DEFINE u == HD!NibsToNextTag
           d == HD!SmallerOf(u, left)
<1>1. u \in 1 .. Len(nibs) /\ \A i \in 2 .. u : nibs[i].tag = <<>>
  BY SameNextTag, NextTag
<1>2. hd_left' = left - d /\ nibs' = HD!DropNibs(d)
  BY Zenon DEF HD!Collect
<1>3. d = IF u <= left THEN u ELSE left
  BY Zenon DEF HD!SmallerOf
<1>4. nibs' = SubSeq(nibs, d + 1, Len(nibs))
  BY <1>2, Zenon DEF HD!DropNibs
<1> HIDE DEF d, u
<1>5. d \in 0 .. Len(nibs) /\ d <= u /\ d <= left /\ (left > 0 => d > 0)
  BY <1>1, <1>3
<1>6. hd_left' \in Nat
  BY <1>2, <1>5
<1>7. \A i \in 2 .. d : nibs[i].tag = <<>>
  BY <1>1, <1>5
<1>8. QED
  BY <1>4, <1>5, <1>6, <1>7

\* A header is taken when it is answered and not before.
Unanswered(d) == fi_q' = fi_q /\ \A i \in 1 .. d : ~IsHdr(nibs[i])
Answered(d, m, f) == IsHdr(nibs[1]) /\ d > 0 /\ fi_q' = Append(fi_q, [m EXCEPT !.frame = f])

LEMMA HeaderOutcome ==
  ASSUME PInv, HeadersAskForNibbles, HeaderDecoderCall
  PROVE  /\ hd_left' \in Nat
         /\ \E d \in 0 .. Len(nibs) :
              /\ nibs' = SubSeq(nibs, d + 1, Len(nibs))
              /\ Unanswered(d) \/ \E m \in HeaderMsgs, f \in Nat : Answered(d, m, f)
<1>1. nibs \in Seq(NibType) /\ Len(nibs) \in Nat /\ hd_left \in Nat
  BY DEF PInv, PipeTypeOK, CodeTypeOK
<1>2. CASE UNCHANGED <<nibs, headerState, messages>>
  <2>1. nibs' = SubSeq(nibs, 0 + 1, Len(nibs))
    <3>1. 0 \in 0 .. Len(nibs)
      BY <1>1
    <3>2. nibs = SubSeq(nibs, 1, Len(nibs))
      BY <1>1
    <3>3. QED
      BY <1>2, <3>2
  <2>2. Unanswered(0) /\ hd_left' \in Nat /\ 0 \in 0 .. Len(nibs)
    BY <1>1, <1>2 DEF Unanswered, headerState, messages
  <2>3. QED
    BY <2>1, <2>2
<1>3. CASE HD!HeaderWork
  <2>1. nibs # <<>> /\ Len(nibs) > 0
    BY <1>1, <1>3, EmptySeq DEF HD!HeaderWork
  <2>2. /\ 0 \in HD!TaggedNibs <=> nibs[1].tag # <<>>
        /\ HD!IsHeader <=> IsHdr(nibs[1])
    <3>1. 0 \in 0 .. Len(nibs) - 1 /\ 0 + 1 = 1
      BY <1>1, <2>1
    <3>2. 0 \in HD!TaggedNibs <=> nibs[1].tag # <<>>
      BY <3>1 DEF HD!TaggedNibs
    <3>3. QED
      BY <3>2 DEF HD!IsHeader, IsHdr
  <2>3. CASE HD!SkipToTag
    <3> DEFINE d == HD!NibsToNextTag
    <3>1. d \in 1 .. Len(nibs) /\ \A i \in 2 .. d : nibs[i].tag = <<>>
      BY <1>1, <2>1, SameNextTag, NextTag
    <3>2. nibs' = SubSeq(nibs, d + 1, Len(nibs)) /\ hd_left' = hd_left /\ fi_q' = fi_q
      BY <2>3, Zenon DEF HD!SkipToTag, HD!DropNibs
    <3>3. nibs[1].tag = <<>>
      BY <2>2, <2>3 DEF HD!SkipToTag
    <3> HIDE DEF d
    <3>4. \A i \in 1 .. d : i = 1 \/ i \in 2 .. d
      BY <3>1
    <3>5. Unanswered(d) /\ d \in 0 .. Len(nibs)
      BY <3>1, <3>2, <3>3, <3>4 DEF Unanswered, IsHdr
    <3>6. QED
      BY <1>1, <3>2, <3>5
  <2>4. CASE HD!CollectPayload
    <3>1. HD!Collect(hd_frame, hd_left) /\ fi_q' = fi_q /\ ~IsHdr(nibs[1])
      BY <2>2, <2>4, Zenon DEF HD!CollectPayload
    <3>2. hd_left' \in Nat
      BY <1>1, <2>1, <3>1, CollectTakes
    <3>3. PICK d \in 0 .. Len(nibs) : /\ nibs' = SubSeq(nibs, d + 1, Len(nibs))
                                      /\ \A i \in 2 .. d : nibs[i].tag = <<>>
      BY <1>1, <2>1, <3>1, CollectTakes
    <3>4. \A i \in 1 .. d : i = 1 \/ i \in 2 .. d
      BY <1>1
    <3>5. Unanswered(d)
      BY <3>1, <3>3, <3>4 DEF Unanswered, IsHdr
    <3>6. QED
      BY <3>2, <3>3, <3>5
  <2>5. ASSUME NEW m \in HeaderMsgs, HD!DecodeHeader(m)
        PROVE  /\ hd_left' \in Nat
               /\ \E d \in 0 .. Len(nibs) :
                    nibs' = SubSeq(nibs, d + 1, Len(nibs)) /\ \E f \in Nat : Answered(d, m, f)
    <3> DEFINE f == nibs[1].tag[1].frame
    <3>1. IsHdr(nibs[1]) /\ fi_q' = Append(fi_q, [m EXCEPT !.frame = f])
      BY <2>2, <2>5, Zenon DEF HD!DecodeHeader
    <3>2. f \in Nat
      <4>1. nibs[1] \in NibType
        BY <1>1, <2>1
      <4>2. nibs[1].tag \in Seq(TagType) /\ nibs[1].tag # <<>>
        BY <3>1, <4>1 DEF NibType, IsHdr
      <4>3. Len(nibs[1].tag) \in Nat \ {0}
        BY <4>2, EmptySeq
      <4>4. nibs[1].tag[1] \in TagType
        BY <4>2, <4>3
      <4>5. QED
        BY <4>4 DEF TagType
    <3> HIDE DEF f
    <3>3. m \in HeaderMsgType /\ m.err \in BOOLEAN
      BY PipelineAssumption DEF HeaderMsgType
    <3>4. CASE m.err
      <4>1. ~ImplHead
        BY <2>5, <3>4, Zenon DEF HD!DecodeHeader
      <4>2. Len(nibs) >= 5 /\ nibs' = SubSeq(nibs, 5 + 1, Len(nibs)) /\ hd_left' = hd_left
        <5>1. Len(nibs) >= HD!HeaderLen /\ nibs' = HD!DropNibs(HD!HeaderLen) /\ hd_left' = hd_left
          BY <2>5, <3>4, <4>1, Zenon DEF HD!DecodeHeader
        <5>2. QED
          BY <5>1 DEF HD!DropNibs, HD!HeaderLen
      <4>3. 5 \in 0 .. Len(nibs) /\ Answered(5, m, f)
        BY <1>1, <3>1, <4>2 DEF Answered
      <4>4. QED
        BY <1>1, <3>2, <4>2, <4>3
    <3>5. CASE ~m.err
      <4> DEFINE e == [HD!EmptyFrame EXCEPT !.frame = f, !.has_crc = m.crc]
                 left == FrameNibbles(m)
      <4>1. left \in Nat /\ left > 0
        <5>1. m.pay_len \in Nat /\ m.crc \in BOOLEAN
          BY <3>3 DEF HeaderMsgType
        <5>2. left \in Nat
          BY <5>1, FrameAssumption DEF FrameNibbles, HeaderLen
        <5>3. QED
          BY <3>5, <5>2 DEF HeadersAskForNibbles
      <4>2. HD!Collect(e, left)
        <5>1. HD!FrameNibbles(m) = left
          BY Zenon DEF HD!FrameNibbles, FrameNibbles, HD!HeaderLen, HeaderLen
        <5>2. HD!Collect(e, HD!FrameNibbles(m))
          BY <2>5, <3>5, Zenon DEF HD!DecodeHeader, f
        <5> HIDE DEF e, left
        <5>3. QED
          BY <5>1, <5>2, Zenon
      <4> HIDE DEF e, left
      <4>3. hd_left' \in Nat
        BY <1>1, <2>1, <4>1, <4>2, CollectTakes
      <4>4. PICK d \in 0 .. Len(nibs) : nibs' = SubSeq(nibs, d + 1, Len(nibs)) /\ d > 0
        BY <1>1, <2>1, <4>1, <4>2, CollectTakes
      <4>5. Answered(d, m, f)
        BY <3>1, <4>4 DEF Answered
      <4>6. QED
        BY <3>2, <4>3, <4>4, <4>5
    <3>6. QED
      BY <3>3, <3>4, <3>5
  <2>6. QED
    BY <1>3, <2>3, <2>4, <2>5, Zenon DEF HD!HeaderWork
<1>4. QED
  BY <1>2, <1>3, Zenon DEF HeaderDecoderCall

LEMMA HeaderKeeps ==
  ASSUME PInv, HeadersAskForNibbles, HeaderDecoderCall PROVE PInv'
<1>1. /\ SyncTypeOK /\ LineTypeOK /\ CodeTypeOK
      /\ LineInv(Line) /\ DemodInv /\ TakenInv /\ CodesInv /\ TailInv /\ NibsInv /\ RoomInv
  BY DEF PInv, PipeTypeOK
<1>2. /\ UNCHANGED syncState /\ SyncTypeOK' /\ CountInv' /\ LineTypeOK' /\ Line' = Line
      /\ symbol_cnt' = symbol_cnt /\ symb_numb' = symb_numb /\ received_head' = received_head
      /\ frame_cnt' = frame_cnt /\ rates' = rates
      /\ UNCHANGED <<words, grays, sync_out, fd_out, fd_frame_info, fd_is_header, fd_cr>>
      /\ UNCHANGED <<di_is_header, di_cr, hm_is_header, hm_cr, codes>>
  BY HeaderQuiet
<1>3. hd_left' \in Nat
  BY HeaderOutcome
<1>4. PICK d \in 0 .. Len(nibs) :
        /\ nibs' = SubSeq(nibs, d + 1, Len(nibs))
        /\ Unanswered(d) \/ \E m \in HeaderMsgs, f \in Nat : Answered(d, m, f)
  BY HeaderOutcome
<1>5. nibs \in Seq(NibType) /\ Len(nibs) \in Nat /\ Len(nibs) <= NibsCap /\ fi_q \in Seq(HeaderMsgType)
  BY <1>1 DEF CodeTypeOK
<1>6. /\ nibs' \in Seq(NibType) /\ Len(nibs') = Len(nibs) - d
      /\ \A i \in 1 .. Len(nibs') : nibs'[i] = nibs[i + d] /\ i + d \in d + 1 .. Len(nibs)
  <2>1. /\ nibs' \in Seq(NibType) /\ Len(nibs') = Len(nibs) - d
        /\ \A i \in 1 .. Len(nibs) - d : nibs'[i] = nibs[i + d]
    BY <1>4, <1>5, FrontDropped
  <2>2. QED
    BY <1>4, <1>5, <2>1
<1>7. /\ \A i \in 1 .. Len(nibs') : IsHdr(nibs'[i]) => IsHdr(nibs[i + d]) /\ i + d \in 1 .. Len(nibs)
      /\ Taken' => Taken
  <2>1. \A i \in 1 .. Len(nibs') : IsHdr(nibs'[i]) => IsHdr(nibs[i + d]) /\ i + d \in 1 .. Len(nibs)
    BY <1>4, <1>6
  <2>2. QED
    BY <1>2, <2>1 DEF Taken
<1>8. NibsInv'
  <2>1. ASSUME NEW i \in 1 .. Len(nibs')
        PROVE  \/ OfHeader(nibs'[i].origin) /\ nibs'[i].rate = 4
               \/ OfPayload(nibs'[i].rate, nibs'[i].origin)
    <3>1. nibs'[i] = nibs[i + d] /\ i + d \in 1 .. Len(nibs)
      BY <1>4, <1>6
    <3>2. QED
      BY <1>1, <3>1 DEF NibsInv
  <2>2. QED
    BY <1>2, <2>1 DEF NibsInv, OfHeader, OfPayload
<1>9. LineInv(Line)' /\ (TagPassed(Line)' <=> TagPassed(Line))
  BY <1>1, <1>2, LineUnmoved
<1>10. CodesInv' /\ (Continues' <=> Continues)
  <2>1. /\ frame_cnt' = frame_cnt /\ rates' = rates /\ codes' = codes
        /\ hm_is_header' = hm_is_header /\ hm_cr' = hm_cr
    BY <1>2
  <2>2. TagsTrue'
    BY <1>1, <2>1, Zenon DEF CodesInv, TagsTrue, ReadAs, OfHeader, OfPayload
  <2>3. SettingsTrue'
    BY <1>1, <2>1, Zenon DEF CodesInv, SettingsTrue, ReadAs, OfHeader, OfPayload
  <2>4. OriginsAlike'
    BY <1>1, <2>1 DEF CodesInv, OriginsAlike
  <2>5. Continues' <=> Continues
    BY <2>1, Zenon DEF Continues, ReadAs, OfHeader, OfPayload
  <2>6. QED
    BY <2>2, <2>3, <2>4, <2>5 DEF CodesInv
<1>11. DemodInv' /\ TailInv'
  BY <1>1, <1>2, <1>9, <1>10 DEF DemodInv, TailInv
<1>12. /\ \A i, j \in 1 .. Len(codes') : IsHdr(codes'[i]) /\ IsHdr(codes'[j]) => i = j
       /\ \A i, j \in 1 .. Len(nibs') : IsHdr(nibs'[i]) /\ IsHdr(nibs'[j]) => i = j
       /\ \A i \in 1 .. Len(codes'), j \in 1 .. Len(nibs') : ~(IsHdr(codes'[i]) /\ IsHdr(nibs'[j]))
  <2>1. \A i, j \in 1 .. Len(codes') : IsHdr(codes'[i]) /\ IsHdr(codes'[j]) => i = j
    BY <1>1, <1>2 DEF TakenInv
  <2>2. ASSUME NEW i \in 1 .. Len(nibs'), NEW j \in 1 .. Len(nibs'), IsHdr(nibs'[i]), IsHdr(nibs'[j])
        PROVE  i = j
    <3>1. i + d = j + d
      BY <1>1, <1>7, <2>2 DEF TakenInv
    <3>2. QED
      BY <1>4, <3>1
  <2>3. \A i \in 1 .. Len(codes'), j \in 1 .. Len(nibs') : ~(IsHdr(codes'[i]) /\ IsHdr(nibs'[j]))
    BY <1>1, <1>2, <1>7 DEF TakenInv
  <2>4. QED
    BY <2>1, <2>2, <2>3
<1>13. Len(nibs') <= NibsCap
  <2>1. NibsCap \in Nat
    BY PipelineAssumption
  <2>2. QED
    BY <1>4, <1>5, <1>6, <2>1
<1>14. ASSUME fi_q' \in Seq(HeaderMsgType), TakenInv', RoomInv' PROVE PInv'
  <2>1. CodeTypeOK'
    BY <1>1, <1>2, <1>3, <1>6, <1>13, <1>14 DEF CodeTypeOK
  <2>2. QED
    BY <1>2, <1>8, <1>9, <1>10, <1>11, <1>14, <2>1 DEF PInv, PipeTypeOK
<1>15. CASE Unanswered(d)
  <2>1. fi_q' = fi_q
    BY <1>15 DEF Unanswered
  <2>2. TakenInv'
    BY <1>1, <1>2, <1>7, <1>12, <2>1 DEF TakenInv
  <2>3. RoomInv'
    BY <1>1, <1>2, <2>1 DEF RoomInv
  <2>4. QED
    BY <1>5, <1>14, <2>1, <2>2, <2>3
<1>16. ASSUME NEW m \in HeaderMsgs, NEW f \in Nat, Answered(d, m, f) PROVE PInv'
  <2> DEFINE a == [m EXCEPT !.frame = f]
  <2>1. a \in HeaderMsgType /\ a.err = m.err /\ SymbNumb(a) = SymbNumb(m)
    <3>1. m \in HeaderMsgType
      BY PipelineAssumption
    <3>2. QED
      BY <3>1, AnswerOf
  <2>2. IsHdr(nibs[1]) /\ d > 0 /\ fi_q' = Append(fi_q, a)
    BY <1>16 DEF Answered
  <2> HIDE DEF a
  <2>3. 1 \in 1 .. Len(nibs) /\ Taken /\ fi_q = <<>>
    <3>1. 1 \in 1 .. Len(nibs)
      BY <1>4, <1>5, <2>2
    <3>2. Taken
      BY <2>2, <3>1 DEF Taken
    <3>3. QED
      BY <1>1, <3>1, <3>2 DEF TakenInv
  <2>4. fi_q' \in Seq(HeaderMsgType) /\ Len(fi_q') = 1 /\ fi_q'[1] = a /\ fi_q' # <<>>
    <3>1. Len(fi_q) = 0
      BY <2>3, EmptySeq
    <3>2. /\ Append(fi_q, a) \in Seq(HeaderMsgType) /\ Len(Append(fi_q, a)) = Len(fi_q) + 1
          /\ Append(fi_q, a)[Len(fi_q) + 1] = a
      BY <1>5, <2>1, AppendProperties
    <3>3. fi_q' \in Seq(HeaderMsgType) /\ Len(fi_q') = 1 /\ fi_q'[1] = a
      BY <2>2, <3>1, <3>2
    <3>4. QED
      BY <3>3, EmptySeq
  <2>5. ~Taken'
    <3>1. \A i \in 1 .. Len(codes') : ~IsHdr(codes'[i])
      BY <1>1, <1>2, <2>2, <2>3 DEF TakenInv
    <3>2. ASSUME NEW i \in 1 .. Len(nibs'), IsHdr(nibs'[i]) PROVE FALSE
      <4>1. i + d = 1
        BY <1>1, <1>7, <2>2, <2>3, <3>2 DEF TakenInv
      <4>2. QED
        BY <1>4, <2>2, <4>1
    <3>3. QED
      BY <3>1, <3>2 DEF Taken
  <2>6. TakenInv'
    BY <1>1, <1>2, <1>12, <2>3, <2>4, <2>5 DEF TakenInv
  <2>7. RoomInv'
    <3>1. RoomForFrames /\ ~a.err => SymbNumb(a) <= WordsCap /\ SymbNumb(a) - HeaderSymbols <= GraysCap
      BY <2>1 DEF RoomForFrames
    <3>2. QED
      BY <1>1, <1>2, <2>4, <3>1 DEF RoomInv
  <2>8. QED
    BY <1>14, <2>4, <2>6, <2>7
<1>17. QED
  BY <1>4, <1>15, <1>16

(***************************************************************************)
(* The theorems.                                                           *)
(***************************************************************************)
LEMMA PipeStep ==
  ASSUME PInv, HeadersAskForNibbles, [PipeNext]_pipeVars PROVE PInv'
<1>1. CASE UNCHANGED pipeVars
  <2>1. /\ UNCHANGED syncState /\ UNCHANGED hammingState
        /\ UNCHANGED <<sync_out, words, grays, codes, nibs, fd_is_header, fd_out, fd_frame_info>>
        /\ UNCHANGED <<fd_cr, di_is_header, di_cr, hm_is_header, hm_cr, hd_left, fi_q>>
        /\ UNCHANGED <<symbol_cnt, symb_numb, received_head>>
    BY <1>1 DEF pipeVars, syncState, demodState, deinterState, hammingState, headerState, messages
  <2>2. /\ SyncTypeOK /\ LineTypeOK /\ CodeTypeOK /\ CountInv
        /\ LineInv(Line) /\ DemodInv /\ TakenInv /\ CodesInv /\ TailInv /\ NibsInv /\ RoomInv
    BY DEF PInv, PipeTypeOK
  <2>3. SyncTypeOK' /\ CountInv'
    BY <2>1, <2>2, SyncStays
  <2>4. LineTypeOK' /\ Line' = Line
    BY <2>1, <2>2 DEF LineTypeOK, Line
  <2>5. LineInv(Line)' /\ (TagPassed(Line)' <=> TagPassed(Line))
    BY <2>1, <2>2, <2>4, LineUnmoved
  <2>6. CodesInv' /\ NibsInv' /\ (Taken' <=> Taken) /\ (Continues' <=> Continues)
    BY <2>1, <2>2, CodesStay
  <2>7. CodeTypeOK' /\ DemodInv' /\ TakenInv' /\ TailInv' /\ RoomInv'
    <3>1. CodeTypeOK'
      BY <2>1, <2>2 DEF CodeTypeOK
    <3>2. DemodInv' /\ TailInv' /\ RoomInv'
      BY <2>1, <2>2, <2>4, <2>5, <2>6 DEF DemodInv, TailInv, RoomInv
    <3>3. TakenInv'
      BY <2>1, <2>2, <2>4, <2>6 DEF TakenInv
    <3>4. QED
      BY <3>1, <3>2, <3>3
  <2>8. QED
    BY <2>3, <2>4, <2>5, <2>6, <2>7 DEF PInv, PipeTypeOK
<1>2. CASE PipeNext
  BY <1>2, WriteKeeps, AnswerKeeps, DemodKeeps, GrayKeeps, DeinterKeeps, HammingKeeps, HeaderKeeps
     DEF PipeNext
<1>3. QED
  BY <1>1, <1>2

\* The places together are the line.
LEMMA PInvOneFrame ==
  ASSUME PInv PROVE HoldsOneFrame
<1>1. /\ SyncTypeOK /\ LineTypeOK /\ CountInv /\ Fits(Line) /\ HeaderSymbols = 8
  BY DEF PInv, PipeTypeOK, LineInv, HeaderSymbols
<1>2. Len(Line) = Held
  <2>1. Parts(Line, grays, words, fd_out, fd_frame_info, sync_out)
    BY <1>1, LineNow
  <2>2. QED
    BY <2>1 DEF Parts, Held
<1>3. /\ received_head => Held + HeaderSymbols <= symbol_cnt
      /\ ~received_head => Held <= Payload + symbol_cnt
  BY <1>1, <1>2 DEF Fits
<1>4. /\ symbol_cnt \in Nat /\ symb_numb \in Nat /\ Payload \in Nat
      /\ Payload = IF symb_numb > HeaderSymbols THEN symb_numb - HeaderSymbols ELSE 0
  BY <1>1 DEF SyncTypeOK, Payload
<1>5. Payload + symbol_cnt = symbol_cnt + Payload
  BY <1>4
<1>6. QED
  BY <1>3, <1>4, <1>5 DEF HoldsOneFrame

\* Neither of the two buffers holds more than the line, and the line never more than a
\* payload and a header.
LEMMA PInvNotOverrun ==
  ASSUME PInv, RoomForFrames PROVE NothingOverrun
<1>1. /\ SyncTypeOK /\ LineTypeOK /\ CountInv /\ Fits(Line) /\ RoomInv /\ HeaderSymbols = 8
  BY DEF PInv, PipeTypeOK, LineInv, HeaderSymbols
<1>2. Len(words) <= Len(Line) /\ Len(Line) \in Nat /\ Len(words) \in Nat
  <2>1. Parts(Line, grays, words, fd_out, fd_frame_info, sync_out)
    BY <1>1, LineNow
  <2>2. QED
    BY <2>1 DEF Parts
<1>3. /\ symb_numb \in Nat /\ symbol_cnt \in Nat /\ WordsCap \in Nat /\ GraysCap \in Nat
      /\ symb_numb <= WordsCap /\ HeaderSymbols <= WordsCap /\ Len(grays) <= GraysCap
  BY <1>1, PipelineAssumption DEF SyncTypeOK, RoomInv, RoomForFrames
<1>4. Len(Line) <= WordsCap
  <2>1. CASE received_head
    BY <1>1, <1>2, <1>3, <2>1 DEF Fits, CountInv
  <2>2. CASE ~received_head
    BY <1>1, <1>2, <1>3, <2>2 DEF Fits, Payload, CountInv
  <2>3. QED
    BY <2>1, <2>2
<1>5. QED
  BY <1>2, <1>3, <1>4 DEF NothingOverrun

LEMMA PInvOwnRate ==
  ASSUME PInv PROVE DecodedAtOwnRate
<1>1. /\ SyncTypeOK /\ CountInv /\ NibsInv /\ nibs \in Seq(NibType)
  BY DEF PInv, PipeTypeOK, CodeTypeOK
<1>2. frame_cnt \in Nat /\ Len(rates) \in Nat /\ Len(rates) <= frame_cnt
  BY <1>1 DEF SyncTypeOK, CountInv
<1>3. DOMAIN nibs = 1 .. Len(nibs)
  BY <1>1
<1>4. ASSUME NEW i \in 1 .. Len(nibs)
      PROVE  \E f \in 1 .. frame_cnt, is_header \in BOOLEAN :
               /\ nibs[i].origin = {<<f, is_header>>}
               /\ nibs[i].rate = IF is_header THEN 4 ELSE rates[f]
  <2>1. CASE OfHeader(nibs[i].origin) /\ nibs[i].rate = 4
    <3>1. PICK f \in 1 .. frame_cnt : nibs[i].origin = {<<f, TRUE>>}
      BY <2>1 DEF OfHeader
    <3>2. QED
      BY <2>1, <3>1
  <2>2. CASE OfPayload(nibs[i].rate, nibs[i].origin)
    <3>1. PICK f \in 1 .. Len(rates) : nibs[i].origin = {<<f, FALSE>>} /\ nibs[i].rate = rates[f]
      BY <2>2 DEF OfPayload
    <3>2. f \in 1 .. frame_cnt
      BY <1>2
    <3>3. QED
      BY <3>1, <3>2
  <2>3. QED
    BY <1>1, <2>1, <2>2 DEF NibsInv
<1>5. QED
  BY <1>3, <1>4 DEF DecodedAtOwnRate

LEMMA PipeAlways ==
  ASSUME HeadersAskForNibbles PROVE PipeSpec => []PInv
<1>1. PipeInit => PInv
  BY InitPInv
<1>2. PInv /\ [PipeNext]_pipeVars => PInv'
  BY PipeStep
<1>3. QED
  BY <1>1, <1>2, PTL DEF PipeSpec

\* Whatever the sizes of the buffers, for as many frames as come and whatever their
\* headers say, the places between FrameSync and the Deinterleaver hold the payload of
\* one frame and the header of the next at most, and once that header was answered
\* nothing but its own frame's payload: FrameSync writes no symbol of a payload before
\* the answer, and an answer only comes to an empty line (FrameSync::frame_info,
\* compensate_sfo, FftDemod::work, HeaderDecoder::work).
THEOREM ChainHoldsOneFrame ==
  ASSUME HeadersAskForNibbles PROVE PipeSpec => []HoldsOneFrame
<1>1. PipeSpec => []PInv
  BY PipeAlways
<1>2. PInv => HoldsOneFrame
  BY PInvOneFrame
<1>3. QED
  BY <1>1, <1>2, PTL

\* FftDemod and GrayMapping write whether there is room or not: if the buffers are large
\* enough for the longest payload and a header there is.  The code does not make them so
\* (FftDemod::work, GrayMapping::work).
COROLLARY NothingIsOverrun ==
  ASSUME HeadersAskForNibbles, RoomForFrames PROVE PipeSpec => []NothingOverrun
<1>1. PipeSpec => []PInv
  BY PipeAlways
<1>2. PInv => NothingOverrun
  BY PInvNotOverrun
<1>3. QED
  BY <1>1, <1>2, PTL

\* Whatever the sizes of the buffers and wherever the calls cut the stream, every nibble
\* is made of the symbols of one frame, all of its header block or none, and decoded with
\* the rate this frame's header announced, a header with the highest: the tags that carry
\* the settings stay with their items through all five blocks (Deinterleaver::work,
\* HammingDecoder::work, HeaderDecoder::work).
THEOREM NibblesKeepTheirRate ==
  ASSUME HeadersAskForNibbles PROVE PipeSpec => []DecodedAtOwnRate
<1>1. PipeSpec => []PInv
  BY PipeAlways
<1>2. PInv => DecodedAtOwnRate
  BY PInvOwnRate
<1>3. QED
  BY <1>1, <1>2, PTL

=============================================================================
