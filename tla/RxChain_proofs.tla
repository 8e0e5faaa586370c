--------------------------- MODULE RxChain_proofs ---------------------------
(***************************************************************************)
(* Proofs about the receive chain, retuned at any moment: the frames keep  *)
(* their order in every interleaving of the blocks, and the HeaderDecoder  *)
(* hands them over whole.                                                  *)
(***************************************************************************)
EXTENDS RxChain, FrameSync_proofs, WellFoundedInduction

\* Every good header asks for nibbles.  The HeaderDecoder refuses an explicit
\* header without a payload; for an implicit one it is the configured length
\* that has to be positive.
HeadersAskForNibbles == \A m \in HeaderMsgs : ~m.err => FrameNibbles(m) > 0

(***************************************************************************)
(* The line of items on their way from FrameSync to the Decoder.  An item  *)
(* has own frames (the ghosts of the symbols it was made of) and header    *)
(* frames (those of the header tags it carries).                           *)
(***************************************************************************)
\* x is nearer to the Decoder than y: what y announces is newer than everything
\* in x, and what x announces is not newer than what y is made of.
Before(x, y) ==
  /\ \A h \in y.hdr : (\A f \in x.own : f < h) /\ (\A f \in x.hdr : f < h)
  /\ \A h \in x.hdr, f \in y.own : h <= f

Part(x, y) == x.own \subseteq y.own /\ x.hdr \subseteq y.hdr
Both(x, y) == [own |-> x.own \cup y.own, hdr |-> x.hdr \cup y.hdr]

\* A header tag sits on the first symbol of its frame, or on what was made of it.
OnOwn(x) == \A h \in x.hdr : h \in x.own /\ \A f \in x.own : h <= f

\* The first n items of a stream.
All(s, n) == [own |-> UNION {s[i].own : i \in 1 .. n}, hdr |-> UNION {s[i].hdr : i \in 1 .. n}]
Sorted(s, n) == \A i, j \in 1 .. n : i < j => Before(s[i], s[j])

HdrOf(tags) == {tags[a].frame : a \in {b \in 1 .. Len(tags) : tags[b].is_header}}
NibItems == [i \in 1 .. Len(nibs) |-> [own |-> nibs[i].origin, hdr |-> HdrOf(nibs[i].tag)]]
WordItems == [i \in 1 .. Len(words) |-> [own |-> {words[i].frame}, hdr |-> HdrOf(words[i].tag)]]
SymItems ==
  [i \in 1 .. Len(sync_out) |-> [own |-> {sync_out[i].frame}, hdr |-> HdrOf(sync_out[i].tags)]]

Sent  == UNION {posted[i].origin : i \in 1 .. Len(posted)}
Kept  == IF hd_left > 0 THEN hd_frame.origin ELSE {}
Done  == [own |-> Sent \cup Kept, hdr |-> accepted]
Nibs  == All(NibItems, Len(nibs))
Words == All(WordItems, Len(words))
Block == [own |-> {fd_out[i] : i \in 1 .. Len(fd_out)}, hdr |-> HdrOf(fd_frame_info)]
Syms  == All(SymItems, Len(sync_out))
Pend  == [own |-> {}, hdr |-> HdrOf(pend)]

Line == <<Done, Nibs, Words, Block, Syms, Pend>>

InLine(line) == \A j, k \in 1 .. 6 : j < k => Before(line[j], line[k])
Known(line) == \A k \in 1 .. 6 : line[k].own \cup line[k].hdr \subseteq 1 .. frame_cnt

(***************************************************************************)
(* Items, streams of items and lines of streams.                           *)
(***************************************************************************)
LEMMA BeforeParts ==
  ASSUME NEW x, NEW y, NEW u, NEW v, Before(x, y), Part(u, x), Part(v, y)
  PROVE  Before(u, v)
BY DEF Before, Part

LEMMA BeforeBoth ==
  ASSUME NEW x, NEW y, NEW z
  PROVE  /\ Before(x, z) /\ Before(y, z) => Before(Both(x, y), z)
         /\ Before(z, x) /\ Before(z, y) => Before(z, Both(x, y))
BY DEF Before, Both

LEMMA PartOfAll ==
  ASSUME NEW s, NEW n \in Nat, NEW i \in 1 .. n
  PROVE  Part(s[i], All(s, n))
BY DEF Part, All

\* What is before every item of a stream is before the stream, and the other way
\* round.
LEMMA BeforeAll ==
  ASSUME NEW x, NEW s, NEW n \in Nat
  PROVE  /\ (\A i \in 1 .. n : Before(x, s[i])) => Before(x, All(s, n))
         /\ (\A i \in 1 .. n : Before(s[i], x)) => Before(All(s, n), x)
BY DEF Before, All

\* The first n items leave a stream.
LEMMA FrontGone ==
  ASSUME NEW s, NEW t, NEW n \in Nat, NEW b \in Nat, Sorted(s, n + b),
         \A i \in 1 .. b : t[i] = s[i + n]
  PROVE  /\ Sorted(t, b)
         /\ Part(All(t, b), All(s, n + b))
         /\ Part(All(s, n), All(s, n + b))
         /\ Before(All(s, n), All(t, b))
<1>1. \A i \in 1 .. b : i + n \in 1 .. n + b
  OBVIOUS
<1>2. Sorted(t, b)
  BY <1>1 DEF Sorted
<1>3. Part(All(t, b), All(s, n + b))
  BY <1>1 DEF Part, All
<1>4. Part(All(s, n), All(s, n + b))
  <2>1. 1 .. n \subseteq 1 .. n + b
    OBVIOUS
  <2>2. QED
    BY <2>1 DEF Part, All
<1>5. \A i \in 1 .. n, j \in 1 .. b : Before(s[i], t[j])
  BY <1>1 DEF Sorted
<1>6. Before(All(s, n), All(t, b))
  <2>1. \A i \in 1 .. n : Before(s[i], All(t, b))
    BY <1>5, BeforeAll
  <2>2. QED
    BY <2>1, BeforeAll
<1>7. QED
  BY <1>2, <1>3, <1>4, <1>6

\* The b items of u join a stream of n.
LEMMA BackJoined ==
  ASSUME NEW s, NEW u, NEW t, NEW n \in Nat, NEW b \in Nat,
         Sorted(s, n), Sorted(u, b), Before(All(s, n), All(u, b)),
         \A i \in 1 .. n : t[i] = s[i],
         \A i \in 1 .. b : t[n + i] = u[i]
  PROVE  Sorted(t, n + b) /\ Part(All(t, n + b), Both(All(s, n), All(u, b)))
<1>1. \A i \in 1 .. n + b : i \in 1 .. n \/ (i - n \in 1 .. b /\ i = n + (i - n))
  OBVIOUS
<1>2. \A i \in 1 .. n + b : \/ i \in 1 .. n /\ t[i] = s[i]
                            \/ i - n \in 1 .. b /\ t[i] = u[i - n]
  BY <1>1
<1>3. \A i \in 1 .. n, j \in 1 .. b : Before(s[i], u[j])
  BY PartOfAll, BeforeParts
<1>4. Sorted(t, n + b)
  <2> SUFFICES ASSUME NEW i \in 1 .. n + b, NEW j \in 1 .. n + b, i < j
               PROVE  Before(t[i], t[j])
    BY DEF Sorted
  <2>1. CASE i \in 1 .. n /\ j \in 1 .. n
    BY <2>1 DEF Sorted
  <2>2. CASE i \in 1 .. n /\ j \notin 1 .. n
    BY <2>2, <1>2, <1>3
  <2>3. CASE i \notin 1 .. n
    BY <2>3, <1>2 DEF Sorted
  <2>4. QED
    BY <2>1, <2>2, <2>3
<1>5. Part(All(t, n + b), Both(All(s, n), All(u, b)))
  BY <1>2 DEF Part, All, Both
<1>6. QED
  BY <1>4, <1>5

\* m goes one place on, from the back of the line to the front.
LEMMA Advance ==
  ASSUME NEW S, NEW T, NEW k \in 1 .. 5, NEW m, InLine(S),
         Part(m, S[k + 1]), Before(m, T[k + 1]),
         Part(T[k], Both(S[k], m)),
         \A j \in 1 .. 6 \ {k} : Part(T[j], S[j])
  PROVE  InLine(T)
<1> SUFFICES ASSUME NEW i \in 1 .. 6, NEW j \in 1 .. 6, i < j PROVE Before(T[i], T[j])
  BY DEF InLine
<1>1. Before(S[i], S[j])
  BY DEF InLine
<1>2. CASE i # k /\ j # k
  BY <1>1, <1>2, BeforeParts
<1>3. CASE j = k
  <2>1. Before(S[i], S[k + 1]) /\ Part(S[i], S[i])
    BY <1>3 DEF InLine, Part
  <2>2. Before(S[i], m)
    BY <2>1, BeforeParts
  <2>3. Before(S[i], Both(S[k], m))
    BY <1>1, <1>3, <2>2, BeforeBoth
  <2>4. Part(T[i], S[i])
    BY <1>3
  <2>5. QED
    BY <1>3, <2>3, <2>4, BeforeParts
<1>4. CASE i = k
  <2>1. Part(T[j], S[j])
    BY <1>4
  <2>2. Before(m, T[j])
    <3>1. CASE j = k + 1
      BY <3>1
    <3>2. CASE j # k + 1
      <4>1. Before(S[k + 1], S[j])
        BY <3>2, <1>4 DEF InLine
      <4>2. QED
        BY <4>1, <2>1, BeforeParts
    <3>3. QED
      BY <3>1, <3>2
  <2>3. Before(S[k], T[j])
    <3>1. Part(S[k], S[k])
      BY DEF Part
    <3>2. QED
      BY <3>1, <1>1, <1>4, <2>1, BeforeParts
  <2>4. Before(Both(S[k], m), T[j]) /\ Part(T[j], T[j])
    BY <2>2, <2>3, BeforeBoth DEF Part
  <2>5. QED
    BY <1>4, <2>4, BeforeParts
<1>5. QED
  BY <1>2, <1>3, <1>4

\* A line some of whose items are dropped.
LEMMA Dropped ==
  ASSUME NEW S, NEW T, InLine(S), \A j \in 1 .. 6 : Part(T[j], S[j])
  PROVE  InLine(T)
BY BeforeParts DEF InLine

\* Nothing newer than frame_cnt is known.
LEMMA StillKnown ==
  ASSUME NEW S, NEW T, NEW k \in 1 .. 5, Known(S),
         Part(T[k], Both(S[k], S[k + 1])), \A j \in 1 .. 6 \ {k} : Part(T[j], S[j])
  PROVE  Known(T)
BY DEF Known, Part, Both

(***************************************************************************)
(* The invariant.                                                          *)
(***************************************************************************)
FrameType == [frame : Nat, has_crc : BOOLEAN, count : Nat, origin : SUBSET Nat]
SymType  == [frame : Nat, tags : Seq(TagType)]
WordType == [frame : Nat, tag : Seq(TagType)]
NibType  == [origin : SUBSET Nat, tag : Seq(TagType)]

ChainTypeOK ==
  /\ sync_out \in Seq(SymType) /\ words \in Seq(WordType) /\ nibs \in Seq(NibType)
  /\ fd_is_header \in BOOLEAN /\ fd_cr \in Nat
  /\ fd_out \in Seq(Nat) /\ fd_frame_info \in Seq(TagType)
  /\ di_is_header \in BOOLEAN /\ di_cr \in Nat
  /\ hd_left \in Nat /\ hd_frame \in FrameType
  /\ fi_q \in Seq(HeaderMsgType) /\ frm_q \in Seq(FrameType)
  /\ crc_q \in Seq([valid : BOOLEAN, frame : Nat])
  /\ posted \in Seq(FrameType)

\* The header tag of the block being collected belongs to its first symbol.
BlockOnOwn ==
  \A h \in HdrOf(fd_frame_info) :
    fd_out # <<>> /\ h = fd_out[1] /\ \A i \in 1 .. Len(fd_out) : h <= fd_out[i]

TagsOnOwn ==
  /\ \A i \in 1 .. Len(nibs) : OnOwn(NibItems[i])
  /\ \A i \in 1 .. Len(words) : OnOwn(WordItems[i])
  /\ BlockOnOwn
  /\ \A i \in 1 .. Len(sync_out) : Len(sync_out[i].tags) = 1 => OnOwn(SymItems[i])
  /\ Len(pend) = 1 => HdrOf(pend) \subseteq {frame_cnt}

AllSorted ==
  Sorted(NibItems, Len(nibs)) /\ Sorted(WordItems, Len(words)) /\ Sorted(SymItems, Len(sync_out))

\* Symbols are only sent after a frame was found.
Started == m_state = "SfoCompensation" => frame_cnt > 0

OrderInv == InLine(Line) /\ Known(Line) /\ AllSorted /\ TagsOnOwn /\ Started

\* The frame has a good header, and count is what that asks for.
Asked(frame, count) ==
  \E m \in HeaderMsgs : ~m.err /\ m.crc = frame.has_crc /\ count = FrameNibbles(m)

\* What the HeaderDecoder has sent off, and what it is collecting.
Whole(frame, count) == frame.origin \cap accepted = {frame.frame} /\ Asked(frame, count)
CollectInv ==
  /\ \A i, j \in 1 .. Len(posted) : i < j => posted[i].frame < posted[j].frame
  /\ \A i \in 1 .. Len(posted) : Whole(posted[i], posted[i].count)
  /\ hd_left > 0 =>
       /\ \A i \in 1 .. Len(posted) : posted[i].frame < hd_frame.frame
       /\ \A f \in accepted : f <= hd_frame.frame
       /\ Whole(hd_frame, hd_frame.count + hd_left)

ChainInv == IInv /\ ChainTypeOK /\ OrderInv /\ CollectInv

(***************************************************************************)
(* Tags.                                                                   *)
(***************************************************************************)
LEMMA HdrNone == HdrOf(<<>>) = {}
BY DEF HdrOf

LEMMA HdrOne ==
  ASSUME NEW t \in TagType
  PROVE  HdrOf(<<t>>) = IF t.is_header THEN {t.frame} ELSE {}
BY DEF HdrOf

LEMMA HdrMore ==
  ASSUME NEW tags \in Seq(TagType), NEW t \in TagType
  PROVE  HdrOf(Append(tags, t)) = HdrOf(tags) \cup (IF t.is_header THEN {t.frame} ELSE {})
<1> DEFINE n == Len(tags)
           more == Append(tags, t)
<1>1. /\ n \in Nat /\ Len(more) = n + 1 /\ more[n + 1] = t
      /\ \A i \in 1 .. n : more[i] = tags[i]
  BY AppendProperties
<1> HIDE DEF more, n
<1>2. 1 .. n + 1 = (1 .. n) \cup {n + 1}
  BY <1>1
<1>3. {b \in 1 .. n + 1 : more[b].is_header} =
        {b \in 1 .. n : tags[b].is_header} \cup (IF t.is_header THEN {n + 1} ELSE {})
  BY <1>1, <1>2
<1>4. QED
  BY <1>1, <1>3 DEF HdrOf, n, more

(***************************************************************************)
(* What one call of FrameSync's work() does to the tags and to the output. *)
(***************************************************************************)
\* tags: what waits on the writer together with what the call adds.
TagsAdded(tags) ==
  \/ frame_cnt' = frame_cnt /\ tags = pend
  \/ /\ frame_cnt' = frame_cnt
     /\ \E m \in HeaderMsgType : tags = Append(pend, PayloadTag(m))
  \/ frame_cnt' = frame_cnt + 1 /\ tags = Append(pend, HeaderTag(frame_cnt'))
TagsGo(tags) ==
  \/ io'.produce = 0 /\ pend' = tags
  \/ io'.produce > 0 /\ io'.tags = tags /\ pend' = <<>>

LEMMA WorkOutcome ==
  ASSUME TypeOK, Work
  PROVE  /\ \E tags \in Seq(TagType) : TagsAdded(tags) /\ TagsGo(tags)
         /\ m_state' = "SfoCompensation" \/ io'.produce > 0 =>
              m_state = "SfoCompensation" \/ frame_cnt' = frame_cnt + 1
<1> DEFINE goal == \E tags \in Seq(TagType) : TagsAdded(tags) /\ TagsGo(tags)
           started == m_state' = "SfoCompensation" \/ io'.produce > 0 =>
                        m_state = "SfoCompensation" \/ frame_cnt' = frame_cnt + 1
<1>1. PICK n \in InputSizes, s \in OutputSizes :
        Detect(n) \/ SyncSymbol(n) \/ SyncQuarterDown(n, s) \/ CompensateSfo(n)
  BY DEF Work
<1>2. pend \in Seq(TagType) /\ frame_cnt \in Nat
  BY DEF TypeOK
<1>3. ASSUME frame_cnt' = frame_cnt, pend' = pend, m_state' # "SfoCompensation",
             NEW c, Io(n, c)
      PROVE  goal /\ started
  BY <1>2, <1>3 DEF TagsAdded, TagsGo, Io
<1>4. CASE Detect(n)
  BY <1>2, <1>3, <1>4 DEF Detect, DetectSilence, DetectSymbol
<1>5. CASE SyncSymbol(n)
  BY <1>2, <1>3, <1>5
     DEF SyncSymbol, SyncNetId1, SyncNetId2, SyncDownchirp1, SyncDownchirp2
<1>6. CASE SyncQuarterDown(n, s)
  <2>1. ASSUME NEW keep, NEW b, NEW c, NEW id, Abandon(n, keep, b, c, id)
        PROVE  goal /\ started
    BY <2>1, <1>3 DEF Abandon, Reset
  <2>2. ASSUME NEW b, NEW w1, NEW w2, NEW r, NEW v0, NEW v1, NEW v2,
               ClassifyNetId(n, s, b, w1, w2, r, v0, v1, v2)
        PROVE  goal /\ started
    <3> DEFINE off == NetIdOff(v0)
               id == <<Aligned(v0, v0), Aligned(v1, v0)>>
               resync == AdditionalSamples + w1
               tags == Append(pend, HeaderTag(frame_cnt'))
    <3>1. \/ Abandon(n, TRUE, b, 0, <<v0, v1>>)
          \/ Abandon(n, TRUE, b, 0, id)
          \/ Abandon(n, TRUE, b, resync, <<id[1], id[1]>>)
          \/ AcceptMatching(n, b, id, off, w1, w2)
          \/ Panic /\ Io(n, 0)
          \/ AcceptOneSymbolOff(n, b, id, off, w1, w2, v2)
      BY <2>2, Zenon DEF ClassifyNetId
    <3>2. ASSUME frame_cnt' = frame_cnt + 1 PROVE tags \in Seq(TagType)
      BY <3>2, <1>2, HeaderTagType, AppendProperties
    <3>3. CASE AcceptMatching(n, b, id, off, w1, w2)
      <4>1. frame_cnt' = frame_cnt + 1 /\ pend' = tags /\ io'.produce = 0
        BY <3>3 DEF AcceptMatching, Accept, Io
      <4>2. TagsAdded(tags) /\ TagsGo(tags)
        BY <4>1 DEF TagsAdded, TagsGo
      <4>3. QED
        BY <4>1, <4>2, <3>2, <1>2
    <3>4. CASE AcceptOneSymbolOff(n, b, id, off, w1, w2, v2)
      <4>1. /\ frame_cnt' = frame_cnt + 1 /\ pend' = <<>>
            /\ io'.produce = N /\ io'.tags = tags
        BY <3>4 DEF AcceptOneSymbolOff, Accept, IoSymbol
      <4>2. TagsAdded(tags) /\ TagsGo(tags)
        BY <4>1, ShapeFacts DEF TagsAdded, TagsGo
      <4>3. QED
        BY <4>1, <4>2, <3>2, <1>2
    <3>5. CASE Panic /\ Io(n, 0)
      <4>1. m_state' # "SfoCompensation"
        BY <1>6, <3>5 DEF SyncQuarterDown, Panic
      <4>2. QED
        BY <1>3, <3>5, <4>1 DEF Panic
    <3>6. QED
      BY <3>1, <3>3, <3>4, <3>5, <2>1, <1>2
  <2>3. QED
    BY <1>2, <1>6, <2>1, <2>2 DEF SyncQuarterDown
<1>7. CASE CompensateSfo(n)
  <2> DEFINE new == IF tagq = <<>> THEN <<>> ELSE <<PayloadTag(Head(tagq))>>
             tags == pend \o new
  <2>1. tags \in Seq(TagType) /\ (frame_cnt' = frame_cnt => TagsAdded(tags))
    <3>1. CASE tagq = <<>>
      <4>1. tags = pend
        BY <3>1, <1>2, ConcatEmptySeq
      <4>2. QED
        BY <4>1, <1>2 DEF TagsAdded
    <3>2. CASE tagq # <<>>
      <4>1. Head(tagq) \in HeaderMsgType
        BY <3>2, HeadTailProperties DEF TypeOK
      <4>2. PayloadTag(Head(tagq)) \in TagType
        BY <4>1, PayloadTagType
      <4>3. tags = Append(pend, PayloadTag(Head(tagq)))
        BY <3>2, <1>2, <4>2, AppendIsConcat
      <4>4. tags \in Seq(TagType)
        BY <4>2, <4>3, <1>2, AppendProperties
      <4> HIDE DEF tags
      <4>5. QED
        BY <4>1, <4>3, <4>4 DEF TagsAdded
    <3>3. QED
      BY <3>1, <3>2
  <2>2. frame_cnt' = frame_cnt /\ TagsGo(tags)
    BY <1>7, ShapeFacts DEF CompensateSfo, TagsGo, Io, IoSymbol
  <2>3. started
    BY <1>7 DEF CompensateSfo
  <2>4. QED
    BY <2>1, <2>2, <2>3
<1>8. QED
  BY <1>1, <1>4, <1>5, <1>6, <1>7

(***************************************************************************)
(* FrameSync: a symbol joins the line, or tags wait for the next one.      *)
(***************************************************************************)
LEMMA FrameSyncKeepsTypes ==
  ASSUME TypeOK, TypeOK', ChainTypeOK, FrameSyncStep
  PROVE  ChainTypeOK'
<1>1. io'.tags \in Seq(TagType) /\ frame_cnt' \in Nat /\ sync_out \in Seq(SymType)
  BY DEF TypeOK, IoType, ChainTypeOK
<1>2. Symbol(io'.tags) \in SymType
  BY <1>1 DEF Symbol, SymType
<1>3. sync_out' \in Seq(SymType)
  BY <1>1, <1>2, AppendProperties DEF FrameSyncStep
<1>4. QED
  BY <1>3 DEF FrameSyncStep, ChainTypeOK, streamVars, demodState, deinterState, headerState,
              messages

LEMMA FrameSyncKeepsOrder ==
  ASSUME TypeOK, ChainTypeOK, OrderInv, FrameSyncStep
  PROVE  OrderInv'
<1> DEFINE n == Len(sync_out)
<1>1. /\ pend \in Seq(TagType) /\ frame_cnt \in Nat
      /\ sync_out \in Seq(SymType) /\ n \in Nat
  BY DEF TypeOK, ChainTypeOK
<1>2. /\ UNCHANGED <<Done, Nibs, Words, Block, NibItems, WordItems>>
      /\ UNCHANGED <<nibs, words, fd_out, fd_frame_info>>
  BY DEF FrameSyncStep, headerState, demodState, Done, Sent, Kept, Nibs, Words, Block, NibItems,
         WordItems
<1>3. PICK tags \in Seq(TagType) : TagsAdded(tags) /\ TagsGo(tags)
  BY WorkOutcome DEF FrameSyncStep
<1>4. /\ frame_cnt' = frame_cnt \/ frame_cnt' = frame_cnt + 1
      /\ HdrOf(tags) \subseteq
           HdrOf(pend) \cup (IF frame_cnt' = frame_cnt THEN {} ELSE {frame_cnt'})
      /\ Len(tags) = 1 => HdrOf(tags) \subseteq {frame_cnt'}
  <2>1. CASE tags = pend /\ frame_cnt' = frame_cnt
    BY <2>1 DEF OrderInv, TagsOnOwn
  <2>2. CASE frame_cnt' = frame_cnt /\ \E m \in HeaderMsgType : tags = Append(pend, PayloadTag(m))
    <3>1. PICK t \in TagType : ~t.is_header /\ tags = Append(pend, t)
      BY <2>2, PayloadTagType DEF PayloadTag
    <3>2. HdrOf(tags) = HdrOf(pend) /\ Len(tags) = Len(pend) + 1
      <4>1. HdrOf(tags) = HdrOf(pend) \cup (IF t.is_header THEN {t.frame} ELSE {})
        BY <1>1, <3>1, HdrMore
      <4>2. Len(tags) = Len(pend) + 1
        BY <1>1, <3>1, AppendProperties
      <4>3. QED
        BY <4>1, <4>2, <3>1
    <3>3. Len(tags) = 1 => HdrOf(tags) = {}
      BY <3>2, <1>1, HdrNone
    <3>4. QED
      BY <2>2, <3>2, <3>3
  <2>3. CASE frame_cnt' = frame_cnt + 1 /\ tags = Append(pend, HeaderTag(frame_cnt'))
    <3>1. HdrOf(tags) = HdrOf(pend) \cup {frame_cnt'} /\ Len(tags) = Len(pend) + 1
      BY <1>1, <2>3, HdrMore, HeaderTagType, AppendProperties DEF HeaderTag
    <3>2. Len(tags) = 1 => HdrOf(pend) = {}
      BY <3>1, <1>1, HdrNone
    <3>3. QED
      BY <2>3, <3>1, <3>2, <1>1
  <2>4. QED
    BY <1>3, <2>1, <2>2, <2>3 DEF TagsAdded
<1> DEFINE new == [own |-> {}, hdr |-> HdrOf(tags)]
           sym == [own |-> {frame_cnt'}, hdr |-> HdrOf(tags)]
\* What is added comes after all that is in the line.
<1>5. /\ \A k \in 1 .. 5 : Before(Line[k], new) /\ Before(Line[k], sym)
      /\ HdrOf(tags) \subseteq 1 .. frame_cnt' /\ 1 .. frame_cnt \subseteq 1 .. frame_cnt'
      /\ frame_cnt' \in Nat
  <2>1. Line[6] = Pend /\ \A k \in 1 .. 5 : Before(Line[k], Pend)
    BY DEF OrderInv, InLine, Line
  <2>2. \A k \in 1 .. 6 :
          Line[k].own \subseteq 1 .. frame_cnt /\ Line[k].hdr \subseteq 1 .. frame_cnt
    BY DEF OrderInv, Known
  <2>3. HdrOf(pend) \subseteq 1 .. frame_cnt
    BY <2>1, <2>2 DEF Pend
  <2>4. ASSUME NEW k \in 1 .. 5, NEW h \in HdrOf(tags)
        PROVE  (\A f \in Line[k].own : f < h) /\ (\A f \in Line[k].hdr : f < h)
    <3>1. CASE h \in HdrOf(pend)
      BY <3>1, <2>1 DEF Before, Pend
    <3>2. CASE h = frame_cnt + 1
      BY <3>2, <2>2, <1>1
    <3>3. QED
      BY <3>1, <3>2, <1>4
  <2>5. \A k \in 1 .. 5 : \A h \in Line[k].hdr : h <= frame_cnt'
    BY <2>2, <1>1, <1>4
  <2>6. \A k \in 1 .. 5 : Before(Line[k], new) /\ Before(Line[k], sym)
    BY <2>4, <2>5 DEF Before
  <2>7. HdrOf(tags) \subseteq 1 .. frame_cnt' /\ 1 .. frame_cnt \subseteq 1 .. frame_cnt'
    BY <2>3, <1>1, <1>4
  <2>8. QED
    BY <2>6, <2>7, <1>1, <1>4
<1>6. io'.produce > 0 => frame_cnt' \in 1 .. frame_cnt'
  BY WorkOutcome, <1>1, <1>4, <1>5 DEF FrameSyncStep, OrderInv, Started
<1>7. Started'
  BY WorkOutcome, <1>1, <1>4 DEF FrameSyncStep, OrderInv, Started
<1>8. CASE io'.produce = 0 /\ pend' = tags
  <2>1. sync_out' = sync_out /\ UNCHANGED <<SymItems, Syms>> /\ Pend' = new
    BY <1>8 DEF FrameSyncStep, SymItems, Syms, Pend
  <2>2. Line' = <<Done, Nibs, Words, Block, Syms, new>>
    BY <1>2, <2>1 DEF Line
  <2>3. \A k \in 1 .. 5 : Line'[k] = Line[k]
    BY <2>2 DEF Line
  <2>4. Line'[6] = new
    BY <2>2
  <2>5. InLine(Line')
    BY <2>3, <2>4, <1>5 DEF OrderInv, InLine
  <2>6. Known(Line)'
    BY <2>3, <2>4, <1>5 DEF OrderInv, Known
  <2>7. AllSorted' /\ TagsOnOwn'
    BY <2>1, <1>2, <1>4, <1>8 DEF OrderInv, AllSorted, TagsOnOwn, BlockOnOwn
  <2>8. QED
    BY <2>5, <2>6, <2>7, <1>7 DEF OrderInv
<1>9. CASE io'.produce > 0 /\ io'.tags = tags /\ pend' = <<>>
  <2>1. sync_out' = Append(sync_out, [frame |-> frame_cnt', tags |-> tags])
    BY <1>9 DEF FrameSyncStep, Symbol
  <2>2. [frame |-> frame_cnt', tags |-> tags] \in SymType
    BY <1>5 DEF SymType
  <2>3. /\ Len(sync_out') = n + 1
        /\ \A i \in 1 .. n : sync_out'[i] = sync_out[i]
        /\ sync_out'[n + 1] = [frame |-> frame_cnt', tags |-> tags]
    BY <1>1, <2>1, <2>2, AppendProperties
  <2>4. /\ \A i \in 1 .. n : SymItems'[i] = SymItems[i]
        /\ SymItems'[n + 1] = sym
    <3>1. DOMAIN SymItems' = 1 .. n + 1
      BY <2>3 DEF SymItems
    <3>2. \A i \in 1 .. n + 1 :
            SymItems'[i] = [own |-> {sync_out'[i].frame}, hdr |-> HdrOf(sync_out'[i].tags)]
      BY <2>3 DEF SymItems
    <3>3. \A i \in 1 .. n : i \in 1 .. n + 1
      BY <1>1
    <3>4. n + 1 \in 1 .. n + 1
      BY <1>1
    <3>5. SymItems'[n + 1] = sym
      BY <3>2, <3>4, <2>3
    <3>6. QED
      BY <3>2, <3>3, <3>5, <2>3 DEF SymItems
  <2> DEFINE one == <<sym>>
  <2>5. /\ Sorted(one, 1) /\ Part(All(one, 1), sym) /\ Before(All(SymItems, n), All(one, 1))
        /\ \A i \in 1 .. 1 : SymItems'[n + i] = one[i]
    <3>1. Sorted(one, 1) /\ Part(All(one, 1), sym)
      BY DEF Sorted, Part, All
    <3>2. Line[5] = All(SymItems, n) /\ Part(Line[5], Line[5])
      BY DEF Line, Syms, Part
    <3>3. Before(Line[5], sym)
      BY <1>5
    <3>4. QED
      BY <3>1, <3>2, <3>3, <2>4, BeforeParts
  <2>6. Sorted(SymItems', n + 1) /\ Part(All(SymItems', n + 1), Both(All(SymItems, n), All(one, 1)))
    <3>1. Sorted(SymItems, n)
      BY DEF OrderInv, AllSorted
    <3> HIDE DEF one
    <3>2. QED
      BY <3>1, <2>4, <2>5, <1>1, BackJoined
  <2>7. Part(Syms', Both(Syms, sym))
    BY <2>3, <2>5, <2>6 DEF Syms, Part, Both
  <2>8. Line' = <<Done, Nibs, Words, Block, Syms', [own |-> {}, hdr |-> {}]>>
    BY <1>2, <1>9, HdrNone DEF Line, Pend
  <2>9. (\A k \in 1 .. 4 : Line'[k] = Line[k]) /\ Line'[5] = Syms' /\ Line[5] = Syms
    BY <2>8 DEF Line
  <2>10. InLine(Line')
    <3>1. \A k \in 1 .. 4 : Before(Line[k], Both(Syms, sym)) /\ Part(Line[k], Line[k])
      BY <1>5, <2>9, BeforeBoth DEF OrderInv, InLine, Part
    <3>2. \A k \in 1 .. 4 : Before(Line[k], Syms')
      BY <3>1, <2>7, BeforeParts
    <3>3. \A x : Before(x, [own |-> {}, hdr |-> {}])
      BY DEF Before
    <3>4. \A j, k \in 1 .. 4 : j < k => Before(Line'[j], Line'[k])
      BY <2>9 DEF OrderInv, InLine
    <3>5. Line'[6] = [own |-> {}, hdr |-> {}]
      BY <2>8
    <3>6. QED
      BY <3>2, <3>3, <3>4, <3>5, <2>9 DEF InLine
  <2>11. Known(Line)'
    <3>0. Syms.own \cup Syms.hdr \subseteq 1 .. frame_cnt'
      BY <1>5, <2>9 DEF OrderInv, Known
    <3>1. Both(Syms, sym).own \cup Both(Syms, sym).hdr \subseteq 1 .. frame_cnt'
      BY <3>0, <1>5, <1>6, <1>9 DEF Both
    <3>2. Syms'.own \cup Syms'.hdr \subseteq 1 .. frame_cnt'
      BY <3>1, <2>7 DEF Part
    <3>3. QED
      BY <3>2, <2>8, <2>9, <1>5 DEF OrderInv, Known
  <2>12. AllSorted'
    BY <2>3, <2>6, <1>2 DEF OrderInv, AllSorted
  <2>13. TagsOnOwn'
    <3>1. Len(tags) = 1 => OnOwn(sym)
      BY <1>4, <1>5 DEF OnOwn
    <3>2. \A i \in 1 .. Len(sync_out') : Len(sync_out'[i].tags) = 1 => OnOwn(SymItems'[i])
      <4>1. \A i \in 1 .. n : Len(sync_out'[i].tags) = 1 => OnOwn(SymItems'[i])
        BY <2>3, <2>4 DEF OrderInv, TagsOnOwn
      <4>2. Len(sync_out'[n + 1].tags) = 1 => OnOwn(SymItems'[n + 1])
        BY <3>1, <2>3, <2>4
      <4>3. \A i \in 1 .. n + 1 : i \in 1 .. n \/ i = n + 1
        BY <1>1
      <4>4. QED
        BY <4>1, <4>2, <4>3, <2>3
    <3>3. Len(pend') # 1
      BY <1>9
    <3>4. QED
      BY <3>2, <3>3, <1>2 DEF OrderInv, TagsOnOwn, BlockOnOwn
  <2>14. QED
    BY <2>10, <2>11, <2>12, <2>13, <1>7 DEF OrderInv
<1>10. QED
  BY <1>3, <1>8, <1>9 DEF TagsGo

(***************************************************************************)
(* FftDemod: a symbol joins the block, a full block goes out.              *)
(***************************************************************************)
\* The block after the symbol, and the tag it has then.
DemodJoins(block, tag) ==
  LET symbol == sync_out[1]
  IN  \/ /\ symbol.tags = <<>> /\ tag = fd_frame_info
         /\ block = Append(fd_out, symbol.frame) /\ fd_is_header' = fd_is_header
      \/ /\ Len(symbol.tags) = 1 /\ tag = symbol.tags /\ tag[1].is_header
         /\ block = <<symbol.frame>> /\ fd_is_header' = TRUE
      \/ /\ Len(symbol.tags) = 1 /\ tag = symbol.tags /\ ~tag[1].is_header
         /\ block = Append(fd_out, symbol.frame) /\ fd_is_header' = FALSE
DemodGoes(block, tag) ==
  \/ UNCHANGED words /\ fd_out' = block /\ fd_frame_info' = tag
  \/ /\ words' = words \o FD!TaggedBlock(block, tag) /\ fd_out' = <<>> /\ fd_frame_info' = <<>>
     /\ fd_is_header' => Len(block) = HeaderSymbols

LEMMA DemodOutcome ==
  ASSUME ChainTypeOK, FftDemodStep
  PROVE  /\ sync_out # <<>> /\ sync_out' = Tail(sync_out)
         /\ fd_is_header' \in BOOLEAN /\ fd_cr' \in Nat
         /\ \E block \in Seq(Nat), tag \in Seq(TagType) :
              Len(block) > 0 /\ DemodJoins(block, tag) /\ DemodGoes(block, tag)
<1> DEFINE f == sync_out[1].frame
           tags == sync_out[1].tags
<1>1. /\ sync_out # <<>> /\ sync_out \in Seq(SymType) /\ Head(sync_out) = sync_out[1]
      /\ fd_out \in Seq(Nat) /\ fd_frame_info \in Seq(TagType)
      /\ fd_is_header \in BOOLEAN /\ fd_cr \in Nat
  BY DEF FftDemodStep, FD!DemodWork, ChainTypeOK
<1>2. f \in Nat /\ tags \in Seq(TagType)
  <2>1. sync_out[1] \in SymType
    BY <1>1, HeadTailProperties
  <2>2. QED
    BY <2>1 DEF SymType
<1> HIDE DEF f, tags
<1>3. ASSUME NEW collected \in Seq(Nat)
      PROVE  Append(collected, f) \in Seq(Nat) /\ Len(Append(collected, f)) > 0
  <2>1. Len(collected) \in Nat
    BY <1>3, LenProperties
  <2>2. QED
    BY <1>2, <1>3, <2>1, AppendProperties
<1>4. ASSUME NEW is_header, NEW cr, NEW collected \in Seq(Nat), NEW tag,
             FD!DemodSymbol(is_header, cr, collected, tag)
      PROVE  /\ sync_out' = Tail(sync_out) /\ fd_is_header' = is_header /\ fd_cr' = cr
             /\ DemodGoes(Append(collected, f), tag)
  BY <1>1, <1>4, Zenon
     DEF FD!DemodSymbol, FD!DemodBlockSize, DemodGoes, HeaderSymbols, f
<1>5. CASE FD!DemodUntagged
  <2>1. tags = <<>> /\ FD!DemodSymbol(fd_is_header, fd_cr, fd_out, fd_frame_info)
    BY <1>1, <1>5, Zenon DEF FD!DemodUntagged, tags
  <2>2. ASSUME fd_is_header' = fd_is_header
        PROVE  DemodJoins(Append(fd_out, f), fd_frame_info)
    BY <2>1, <2>2, Zenon DEF DemodJoins, f, tags
  <2>3. QED
    BY <1>1, <1>3, <1>4, <2>1, <2>2
<1>6. ASSUME Len(tags) = 1
      PROVE  tags = <<tags[1]>> /\ tags[1] \in TagType /\ tags[1].is_header \in BOOLEAN
             /\ tags[1].cr \in Nat
  <2>1. tags[1] \in TagType
    BY <1>2, <1>6, ElementOfSeq
  <2>2. tags = <<tags[1]>>
    BY <1>2, <1>6, <2>1
  <2>3. QED
    BY <2>1, <2>2 DEF TagType
<1>7. CASE FD!DemodHeaderTag
  <2>1. Len(tags) = 1 /\ tags[1].is_header /\ FD!DemodSymbol(TRUE, fd_cr, <<>>, <<tags[1]>>)
    BY <1>1, <1>7, Zenon DEF FD!DemodHeaderTag, tags
  <2>2. FD!DemodSymbol(TRUE, fd_cr, <<>>, tags)
    BY <2>1, <1>6
  <2>3. Append(<<>>, f) = <<f>> /\ <<>> \in Seq(Nat)
    OBVIOUS
  <2>4. ASSUME fd_is_header' = TRUE PROVE DemodJoins(<<f>>, tags)
    BY <2>1, <2>4, Zenon DEF DemodJoins, f, tags
  <2>5. QED
    BY <1>1, <1>2, <1>3, <1>4, <2>2, <2>3, <2>4
<1>8. CASE FD!DemodPayloadTag
  <2>1. /\ Len(tags) = 1 /\ ~tags[1].is_header
        /\ FD!DemodSymbol(FALSE, tags[1].cr, fd_out, <<tags[1]>>)
    BY <1>1, <1>8, Zenon DEF FD!DemodPayloadTag, tags
  <2>2. FD!DemodSymbol(FALSE, tags[1].cr, fd_out, tags)
    BY <2>1, <1>6
  <2>3. ASSUME fd_is_header' = FALSE PROVE DemodJoins(Append(fd_out, f), tags)
    BY <2>1, <2>3, Zenon DEF DemodJoins, f, tags
  <2>4. QED
    BY <1>1, <1>2, <1>3, <1>4, <1>6, <2>1, <2>2, <2>3
<1>9. QED
  BY <1>5, <1>7, <1>8 DEF FftDemodStep, FD!DemodWork

\* What a block is as words.
LEMMA TaggedBlockType ==
  ASSUME NEW block \in Seq(Nat), NEW tag \in Seq(TagType)
  PROVE  /\ FD!TaggedBlock(block, tag) \in Seq(WordType)
         /\ Len(FD!TaggedBlock(block, tag)) = Len(block)
         /\ \A i \in 1 .. Len(block) :
              FD!TaggedBlock(block, tag)[i]
                = [frame |-> block[i], tag |-> IF i = 1 THEN tag ELSE <<>>]
<1> DEFINE out == [i \in 1 .. Len(block) |->
                     [frame |-> block[i], tag |-> IF i = 1 THEN tag ELSE <<>>]]
<1>1. out = FD!TaggedBlock(block, tag)
  BY Zenon DEF FD!TaggedBlock
<1>2. \A i \in 1 .. Len(block) :
        [frame |-> block[i], tag |-> IF i = 1 THEN tag ELSE <<>>] \in WordType
  BY ElementOfSeq DEF WordType
<1>3. Len(block) \in Nat
  OBVIOUS
<1>4. out \in Seq(WordType) /\ Len(out) = Len(block)
  BY <1>2, <1>3
<1>5. QED
  BY <1>1, <1>4

LEMMA FftDemodKeepsTypes ==
  ASSUME ChainTypeOK, FftDemodStep
  PROVE  ChainTypeOK'
<1>1. PICK block \in Seq(Nat), tag \in Seq(TagType) : DemodGoes(block, tag)
  BY DemodOutcome
<1>2. words' \in Seq(WordType)
  <2>1. words \in Seq(WordType)
    BY DEF ChainTypeOK
  <2>2. FD!TaggedBlock(block, tag) \in Seq(WordType)
    BY TaggedBlockType
  <2>3. words \o FD!TaggedBlock(block, tag) \in Seq(WordType)
    BY <2>1, <2>2, ConcatProperties
  <2>4. words' = words \/ words' = words \o FD!TaggedBlock(block, tag)
    BY <1>1, Zenon DEF DemodGoes
  <2>5. QED
    BY <2>1, <2>3, <2>4
<1>3. fd_out' \in Seq(Nat) /\ fd_frame_info' \in Seq(TagType)
  <2>1. <<>> \in Seq(Nat) /\ <<>> \in Seq(TagType)
    OBVIOUS
  <2>2. \/ fd_out' = block /\ fd_frame_info' = tag
        \/ fd_out' = <<>> /\ fd_frame_info' = <<>>
    BY <1>1, Zenon DEF DemodGoes
  <2>3. QED
    BY <2>1, <2>2
<1>4. sync_out' \in Seq(SymType) /\ fd_is_header' \in BOOLEAN /\ fd_cr' \in Nat
  BY DemodOutcome, HeadTailProperties DEF ChainTypeOK
<1>5. QED
  BY <1>2, <1>3, <1>4 DEF FftDemodStep, ChainTypeOK, deinterState, headerState, messages, ghosts

\* The order with the new block, before it is decided whether it is full.
BlockItem(block, tag) == [own |-> {block[i] : i \in 1 .. Len(block)}, hdr |-> HdrOf(tag)]
FirstOwns(block, tag) ==
  \A h \in HdrOf(tag) : h = block[1] /\ \A i \in 1 .. Len(block) : h <= block[i]
BlockLine(block, tag) == <<Done, Nibs, Words, BlockItem(block, tag), Syms', Pend>>

LEMMA SymbolJoinsBlock ==
  ASSUME TypeOK, ChainTypeOK, OrderInv, sync_out # <<>>, sync_out' = Tail(sync_out),
         NEW block, NEW tag, DemodJoins(block, tag)
  PROVE  /\ InLine(BlockLine(block, tag)) /\ Known(BlockLine(block, tag))
         /\ FirstOwns(block, tag)
         /\ Sorted(SymItems', Len(sync_out'))
         /\ \A i \in 1 .. Len(sync_out') : Len(sync_out'[i].tags) = 1 => OnOwn(SymItems'[i])
<1> DEFINE f == sync_out[1].frame
           tags == sync_out[1].tags
           b == Len(sync_out) - 1
<1>1. /\ b \in Nat /\ Len(sync_out) = 1 + b /\ Len(sync_out') = b
      /\ \A i \in 1 .. b : sync_out'[i] = sync_out[i + 1]
      /\ f \in Nat /\ tags \in Seq(TagType) /\ fd_out \in Seq(Nat)
      /\ fd_frame_info \in Seq(TagType)
  <2>1. sync_out \in Seq(SymType) /\ fd_out \in Seq(Nat) /\ fd_frame_info \in Seq(TagType)
    BY DEF ChainTypeOK
  <2>2. Len(sync_out) \in Nat /\ Len(sync_out) # 0
    BY <2>1, EmptySeq
  <2>3. /\ Len(Tail(sync_out)) = Len(sync_out) - 1
        /\ \A i \in 1 .. Len(Tail(sync_out)) : Tail(sync_out)[i] = sync_out[i + 1]
    BY <2>1, HeadTailProperties
  <2>4. sync_out[1] \in SymType
    BY <2>1, <2>2, ElementOfSeq
  <2>5. f \in Nat /\ tags \in Seq(TagType)
    BY <2>4 DEF SymType
  <2>6. QED
    BY <2>1, <2>2, <2>3, <2>5
<1> DEFINE sym == [own |-> {f}, hdr |-> HdrOf(tags)]
<1>2. /\ SymItems[1] = sym
      /\ \A i \in 1 .. b : SymItems'[i] = SymItems[i + 1]
  <2>1. SymItems[1] = sym
    BY <1>1 DEF SymItems
  <2>2. \A i \in 1 .. b : i + 1 \in 1 .. Len(sync_out) /\ i \in 1 .. Len(sync_out')
    BY <1>1
  <2>3. QED
    BY <2>1, <2>2, <1>1 DEF SymItems
<1>3. Sorted(SymItems, 1 + b)
  BY <1>1 DEF OrderInv, AllSorted
<1>4. /\ Sorted(SymItems', b)
      /\ Part(All(SymItems', b), All(SymItems, 1 + b))
      /\ Part(All(SymItems, 1), All(SymItems, 1 + b))
      /\ Before(All(SymItems, 1), All(SymItems', b))
  BY <1>1, <1>2, <1>3, FrontGone
<1>5. Part(sym, Syms) /\ Before(sym, Syms') /\ Part(Syms', Syms)
  <2>1. Part(sym, All(SymItems, 1))
    BY <1>2, PartOfAll
  <2>2. Syms = All(SymItems, 1 + b) /\ Syms' = All(SymItems', b)
    BY <1>1 DEF Syms
  <2>3. Part(Syms', Syms') /\ Part(sym, Syms)
    BY <2>1, <2>2, <1>4 DEF Part
  <2>4. QED
    BY <1>4, <2>1, <2>2, <2>3, BeforeParts
<1> DEFINE B == BlockItem(block, tag)
           M == BlockLine(block, tag)
<1>6. OnOwn(sym) \/ HdrOf(tags) = {} \/ Len(tags) # 1
  BY <1>1, <1>2 DEF OrderInv, TagsOnOwn
<1>7. Part(B, Both(Block, sym)) /\ FirstOwns(block, tag)
  <2>2. \A h \in HdrOf(fd_frame_info) : h <= f
    <3>1. Before(Block, Syms)
      BY DEF OrderInv, InLine, Line
    <3>2. f \in Syms.own
      BY <1>5 DEF Part
    <3>3. QED
      BY <3>1, <3>2 DEF Before, Block
  <2>3. ASSUME NEW t \in TagType, tags = <<t>>
        PROVE  HdrOf(tags) \subseteq {f} /\ (~t.is_header => HdrOf(tags) = {})
    <3>1. HdrOf(tags) = IF t.is_header THEN {t.frame} ELSE {}
      BY <2>3, HdrOne
    <3>2. Len(tags) = 1
      BY <2>3
    <3>3. OnOwn(sym) \/ HdrOf(tags) = {}
      BY <1>6, <3>2
    <3>4. QED
      BY <3>1, <3>3 DEF OnOwn
  <2>4. Len(tags) = 1 => tags[1] \in TagType /\ tags = <<tags[1]>>
    <3>1. Len(tags) = 1 => tags[1] \in TagType
      BY <1>1, ElementOfSeq
    <3>2. QED
      BY <3>1, <1>1
  <2>5. /\ Len(Append(fd_out, f)) = Len(fd_out) + 1 /\ Len(fd_out) \in Nat
        /\ \A i \in 1 .. Len(fd_out) : Append(fd_out, f)[i] = fd_out[i]
        /\ Append(fd_out, f)[Len(fd_out) + 1] = f
    BY <1>1, AppendProperties
  <2>6. \A i \in 1 .. Len(fd_out) + 1 : i \in 1 .. Len(fd_out) \/ i = Len(fd_out) + 1
    BY <2>5
  <2>7. CASE tags = <<>> /\ tag = fd_frame_info /\ block = Append(fd_out, f)
    <3>1. Part(B, Both(Block, sym))
      BY <2>5, <2>6, <2>7 DEF Part, Both, BlockItem, Block
    <3>2. \A h \in HdrOf(fd_frame_info) :
            fd_out # <<>> /\ h = fd_out[1] /\ \A i \in 1 .. Len(fd_out) : h <= fd_out[i]
      BY DEF OrderInv, TagsOnOwn, BlockOnOwn
    <3>3. fd_out # <<>> => 1 \in 1 .. Len(fd_out)
      BY <1>1, EmptySeq
    <3>4. FirstOwns(block, tag)
      BY <3>2, <3>3, <2>2, <2>5, <2>6, <2>7 DEF FirstOwns
    <3>5. QED
      BY <3>1, <3>4
  <2>8. CASE Len(tags) = 1 /\ tag = tags /\ tag[1].is_header /\ block = <<f>>
    <3>1. HdrOf(tags) \subseteq {f}
      BY <2>3, <2>4, <2>8
    <3>2. Len(block) = 1 /\ block[1] = f
      BY <2>8
    <3>3. Part(B, Both(Block, sym))
      BY <3>2, <2>8 DEF Part, Both, BlockItem
    <3>4. FirstOwns(block, tag)
      BY <3>1, <3>2, <2>8, <1>1 DEF FirstOwns
    <3>5. QED
      BY <3>3, <3>4
  <2>9. CASE Len(tags) = 1 /\ tag = tags /\ ~tag[1].is_header /\ block = Append(fd_out, f)
    <3>1. HdrOf(tag) = {}
      BY <2>3, <2>4, <2>9
    <3>2. Part(B, Both(Block, sym))
      BY <3>1, <2>5, <2>6, <2>9 DEF Part, Both, BlockItem, Block
    <3>3. QED
      BY <3>1, <3>2 DEF FirstOwns
  <2>10. QED
    BY <2>7, <2>8, <2>9 DEF DemodJoins
<1> HIDE DEF sym
<1>8. /\ Line[4] = Block /\ Line[5] = Syms /\ M[4] = B /\ M[5] = Syms'
      /\ \A j \in 1 .. 6 \ {4} : Part(M[j], Line[j])
  BY <1>5 DEF Line, BlockLine, Part
<1>9. InLine(M)
  <2>1. Part(sym, Line[4 + 1]) /\ Before(sym, M[4 + 1]) /\ Part(M[4], Both(Line[4], sym))
    BY <1>5, <1>7, <1>8
  <2>2. InLine(Line) /\ 4 \in 1 .. 5
    BY DEF OrderInv
  <2> HIDE DEF M
  <2>3. QED
    BY <2>1, <2>2, <1>8, Advance
<1>10. Known(M)
  <2>1. Part(M[4], Both(Line[4], Line[4 + 1]))
    BY <1>5, <1>7, <1>8 DEF Part, Both
  <2>2. Known(Line) /\ 4 \in 1 .. 5
    BY DEF OrderInv
  <2> HIDE DEF M
  <2>3. QED
    BY <2>1, <2>2, <1>8, StillKnown
<1>11. \A i \in 1 .. b : Len(sync_out'[i].tags) = 1 => OnOwn(SymItems'[i])
  <2>1. \A i \in 1 .. b : i + 1 \in 1 .. Len(sync_out)
    BY <1>1
  <2>2. QED
    BY <2>1, <1>1, <1>2 DEF OrderInv, TagsOnOwn
<1>12. QED
  BY <1>1, <1>4, <1>7, <1>9, <1>10, <1>11

LEMMA FftDemodKeepsOrder ==
  ASSUME TypeOK, ChainTypeOK, OrderInv, FftDemodStep
  PROVE  OrderInv'
<1>1. PICK block \in Seq(Nat), tag \in Seq(TagType) :
        Len(block) > 0 /\ DemodJoins(block, tag) /\ DemodGoes(block, tag)
  BY DemodOutcome
<1>2. sync_out # <<>> /\ sync_out' = Tail(sync_out)
  BY DemodOutcome
<1>3. /\ InLine(BlockLine(block, tag)) /\ Known(BlockLine(block, tag))
      /\ FirstOwns(block, tag)
      /\ Sorted(SymItems', Len(sync_out'))
      /\ \A i \in 1 .. Len(sync_out') : Len(sync_out'[i].tags) = 1 => OnOwn(SymItems'[i])
  BY <1>1, <1>2, SymbolJoinsBlock
<1>4. /\ UNCHANGED <<nibs, pend, frame_cnt, m_state, Done, Nibs, Pend, NibItems>>
      /\ Started'
      /\ Len(pend') = 1 => HdrOf(pend') \subseteq {frame_cnt'}
      /\ Sorted(NibItems', Len(nibs')) /\ \A i \in 1 .. Len(nibs') : OnOwn(NibItems'[i])
  BY DEF FftDemodStep, vars, headerState, ghosts, Done, Sent, Kept, Nibs, Pend, NibItems, OrderInv,
         AllSorted, TagsOnOwn, Started
<1> DEFINE M == BlockLine(block, tag)
           n == Len(words)
           b == Len(block)
<1>5. n \in Nat /\ b \in Nat /\ words \in Seq(WordType)
  BY DEF ChainTypeOK
<1>6. CASE UNCHANGED words /\ fd_out' = block /\ fd_frame_info' = tag
  <2>1. UNCHANGED <<WordItems, Words>> /\ Block' = BlockItem(block, tag)
    BY <1>6 DEF WordItems, Words, Block, BlockItem
  <2>2. Line' = M
    BY <1>4, <2>1 DEF Line, BlockLine
  <2>3. InLine(Line') /\ Known(Line)'
    BY <2>2, <1>3, <1>4 DEF Known
  <2>4. BlockOnOwn'
    BY <1>1, <1>3, <1>6 DEF BlockOnOwn, FirstOwns
  <2>5. AllSorted' /\ TagsOnOwn'
    BY <1>3, <1>4, <1>6, <2>1, <2>4 DEF OrderInv, AllSorted, TagsOnOwn
  <2>6. QED
    BY <2>3, <2>5, <1>4 DEF OrderInv
<1>7. CASE words' = words \o FD!TaggedBlock(block, tag) /\ fd_out' = <<>> /\ fd_frame_info' = <<>>
  <2> DEFINE u == [i \in 1 .. b |-> [own |-> {block[i]},
                                     hdr |-> HdrOf(IF i = 1 THEN tag ELSE <<>>)]]
             out == FD!TaggedBlock(block, tag)
             B == BlockItem(block, tag)
             E == [own |-> {}, hdr |-> {}]
  <2>1. /\ out \in Seq(WordType) /\ Len(out) = b
        /\ \A i \in 1 .. b : out[i] = [frame |-> block[i], tag |-> IF i = 1 THEN tag ELSE <<>>]
    BY TaggedBlockType
  <2> HIDE DEF out
  <2>2. /\ words' = words \o out
        /\ Len(words') = n + b
        /\ \A i \in 1 .. n + b : words'[i] = IF i <= n THEN words[i] ELSE out[i - n]
    <3>1. words' = words \o out
      BY <1>7 DEF out
    <3>2. /\ Len(words \o out) = Len(words) + Len(out)
          /\ \A i \in 1 .. Len(words) + Len(out) :
               (words \o out)[i] = IF i <= Len(words) THEN words[i] ELSE out[i - Len(words)]
      <4>1. words \in Seq(WordType) /\ out \in Seq(WordType)
        BY <2>1, <1>5
      <4>2. QED
        BY <4>1, ConcatProperties
    <3>3. QED
      BY <3>1, <3>2, <2>1
  <2>3. /\ \A i \in 1 .. n : WordItems'[i] = WordItems[i]
        /\ \A i \in 1 .. b : WordItems'[n + i] = u[i]
    <3>1. \A i \in 1 .. n + b :
            WordItems'[i] = [own |-> {words'[i].frame}, hdr |-> HdrOf(words'[i].tag)]
      BY <2>2 DEF WordItems
    <3>2. \A i \in 1 .. n : i \in 1 .. n + b /\ i <= n
      BY <1>5
    <3>3. \A i \in 1 .. b : n + i \in 1 .. n + b /\ ~(n + i <= n) /\ n + i - n = i
      BY <1>5
    <3>4. \A i \in 1 .. n : WordItems'[i] = WordItems[i]
      BY <3>1, <3>2, <2>2 DEF WordItems
    <3>5. \A i \in 1 .. b : words'[n + i] = out[i]
      BY <3>3, <2>2
    <3>6. \A i \in 1 .. b :
            WordItems'[n + i] = [own |-> {out[i].frame}, hdr |-> HdrOf(out[i].tag)]
      BY <3>1, <3>3, <3>5
    <3>7. \A i \in 1 .. b :
            /\ out[i].frame = block[i] /\ out[i].tag = (IF i = 1 THEN tag ELSE <<>>)
            /\ u[i] = [own |-> {block[i]}, hdr |-> HdrOf(IF i = 1 THEN tag ELSE <<>>)]
      <4>1. \A i \in 1 .. b : u[i] = [own |-> {block[i]},
                                       hdr |-> HdrOf(IF i = 1 THEN tag ELSE <<>>)]
        BY Zenon
      <4>2. \A i \in 1 .. b :
              out[i].frame = block[i] /\ out[i].tag = (IF i = 1 THEN tag ELSE <<>>)
        <5> SUFFICES ASSUME NEW i \in 1 .. b
                     PROVE  out[i].frame = block[i] /\ out[i].tag = (IF i = 1 THEN tag ELSE <<>>)
          OBVIOUS
        <5> DEFINE t == IF i = 1 THEN tag ELSE <<>>
        <5>1. out[i] = [frame |-> block[i], tag |-> t]
          BY <2>1, Zenon
        <5> HIDE DEF t
        <5>2. out[i].frame = block[i] /\ out[i].tag = t
          BY <5>1
        <5>3. QED
          BY <5>2, Zenon DEF t
      <4>3. QED
        BY <4>1, <4>2, Zenon
    <3> HIDE DEF u
    <3>8. \A i \in 1 .. b : WordItems'[n + i] = u[i]
      BY <3>6, <3>7
    <3>9. QED
      BY <3>4, <3>8
  <2>4. /\ Sorted(u, b) /\ Part(All(u, b), B)
        /\ \A i \in 1 .. b : OnOwn(u[i])
    <3>1. HdrOf(<<>>) = {}
      BY HdrNone
    <3>2. \A i \in 1 .. b : u[i].hdr = (IF i = 1 THEN HdrOf(tag) ELSE {}) /\ u[i].own = {block[i]}
      BY <3>1
    <3> HIDE DEF u
    <3>3. Sorted(u, b)
      <4>1. \A i, j \in 1 .. b : i < j => u[j].hdr = {} /\ u[j].own = {block[j]}
        BY <3>2
      <4>2. \A i \in 1 .. b : u[i].hdr \subseteq HdrOf(tag)
        BY <3>2
      <4>3. \A h \in HdrOf(tag), j \in 1 .. b : h <= block[j]
        BY <1>3 DEF FirstOwns
      <4>4. QED
        BY <4>1, <4>2, <4>3 DEF Sorted, Before
    <3>4. \A i \in 1 .. b : u[i].hdr \subseteq HdrOf(tag)
      BY <3>2
    <3>5. Part(All(u, b), B)
      BY <3>2, <3>4 DEF Part, All, BlockItem
    <3>6. 1 \in 1 .. b
      BY <1>1, <1>5
    <3>7. \A h \in HdrOf(tag) : h = block[1] /\ h <= h
      BY <3>6, <1>3 DEF FirstOwns
    <3>8. \A i \in 1 .. b : OnOwn(u[i])
      BY <3>2, <3>7 DEF OnOwn
    <3>9. QED
      BY <3>3, <3>5, <3>8
  <2> HIDE DEF u
  <2>5. Before(Words, B) /\ Before(Words, All(u, b))
    <3>1. Before(Words, B) /\ Part(Words, Words)
      BY <1>3 DEF InLine, BlockLine, Part
    <3>2. QED
      BY <3>1, <2>4, BeforeParts
  <2>6. /\ Sorted(WordItems', n + b)
        /\ Part(All(WordItems', n + b), Both(All(WordItems, n), All(u, b)))
    <3>1. Sorted(WordItems, n) /\ Words = All(WordItems, n)
      BY DEF OrderInv, AllSorted, Words
    <3>2. Before(All(WordItems, n), All(u, b))
      BY <2>5, <3>1
    <3>3. QED
      BY <3>1, <3>2, <2>3, <2>4, <1>5, BackJoined
  <2>7. Part(Words', Both(Words, B))
    BY <2>2, <2>4, <2>6 DEF Words, Part, Both
  <2>8. Block' = E
    <3>1. Len(fd_out') = 0 /\ HdrOf(fd_frame_info') = {}
      BY <1>7, HdrNone
    <3>2. {fd_out'[i] : i \in 1 .. Len(fd_out')} = {}
      BY <3>1
    <3>3. QED
      BY <3>1, <3>2 DEF Block
  <2> DEFINE T == <<Done, Nibs, Words', E, Syms', Pend>>
  <2>9. Line' = T
    BY <2>8, <1>4 DEF Line
  <2>10. /\ M[3] = Words /\ M[4] = B /\ T[3] = Words' /\ T[4] = E
         /\ \A j \in 1 .. 6 \ {3} : Part(T[j], M[j])
    BY DEF BlockLine, Part
  <2> HIDE DEF T, M
  <2>11. InLine(T)
    <3>1. Part(B, M[3 + 1]) /\ Before(B, T[3 + 1]) /\ Part(T[3], Both(M[3], B))
      BY <2>7, <2>10 DEF Part, Before
    <3>2. InLine(M) /\ 3 \in 1 .. 5
      BY <1>3 DEF M
    <3>3. QED
      BY <3>1, <3>2, <2>10, Advance
  <2>12. Known(T)
    <3>1. Part(T[3], Both(M[3], M[3 + 1]))
      BY <2>7, <2>10
    <3>2. Known(M) /\ 3 \in 1 .. 5
      BY <1>3 DEF M
    <3>3. QED
      BY <3>1, <3>2, <2>10, StillKnown
  <2>13. InLine(Line') /\ Known(Line)'
    BY <2>9, <2>11, <2>12, <1>4 DEF Known
  <2>14. BlockOnOwn'
    BY <1>7, HdrNone DEF BlockOnOwn
  <2>15. \A i \in 1 .. Len(words') : OnOwn(WordItems'[i])
    <3>1. \A i \in 1 .. n : OnOwn(WordItems'[i])
      BY <2>3 DEF OrderInv, TagsOnOwn
    <3>2. \A i \in 1 .. b : OnOwn(WordItems'[n + i])
      BY <2>3, <2>4
    <3>3. \A i \in 1 .. n + b : i \in 1 .. n \/ (i - n \in 1 .. b /\ i = n + (i - n))
      BY <1>5
    <3>4. QED
      BY <3>1, <3>2, <3>3, <2>2
  <2>16. AllSorted' /\ TagsOnOwn'
    BY <1>3, <1>4, <2>2, <2>6, <2>14, <2>15 DEF AllSorted, TagsOnOwn
  <2>17. QED
    BY <2>13, <2>16, <1>4 DEF OrderInv
<1>8. QED
  BY <1>1, <1>6, <1>7 DEF DemodGoes

(***************************************************************************)
(* Deinterleaver: words leave in front, all of them or none as one block.  *)
(***************************************************************************)
LEMMA SmallestExists ==
  ASSUME NEW S, S \subseteq Nat, S # {}
  PROVE  \E i \in S : \A j \in S : i <= j
<1>1. PICK x \in S : \A y \in S : ~ (<<y, x>> \in OpToRel(<, Nat))
  BY NatLessThanWellFounded, WFMin, Zenon
<1>2. \A y \in S : ~(y < x)
  BY <1>1 DEF OpToRel
<1>3. QED
  BY <1>2

LEMMA UpToNextTagRange ==
  ASSUME NEW stream, Len(stream) \in Nat, Len(stream) > 0
  PROVE  DI!UpToNextTag(stream) \in 1 .. Len(stream)
<1> DEFINE later == DI!TagsAt(stream) \ {0}
<1>1. later \subseteq 1 .. Len(stream) - 1
  BY DEF DI!TagsAt
<1>2. CASE later = {}
  BY <1>2 DEF DI!UpToNextTag
<1>3. CASE later # {}
  <2>0. later \subseteq Nat
    BY <1>1
  <2>1. \E i \in later : \A j \in later : i <= j
    <3> HIDE DEF later
    <3>1. QED
      BY <2>0, <1>3, SmallestExists
  <2>2. DI!Lowest(later) \in later
    BY <2>1 DEF DI!Lowest
  <2>3. DI!UpToNextTag(stream) = DI!Lowest(later)
    BY <1>3 DEF DI!UpToNextTag
  <2>4. QED
    BY <1>1, <2>2, <2>3
<1>4. QED
  BY <1>2, <1>3

\* The k nibbles made of the first n words.
BlockOrigin(n) == {words[i].frame : i \in 1 .. n}
NibblesOf(n, k) ==
  [i \in 1 .. k |-> [origin |-> BlockOrigin(n), tag |-> IF i = 1 THEN words[1].tag ELSE <<>>]]

LEMMA DeinterOutcome ==
  ASSUME ChainTypeOK, DeinterleaverStep
  PROVE  /\ di_is_header' \in BOOLEAN /\ di_cr' \in Nat
         /\ \E n \in 0 .. Len(words), k \in Nat :
              /\ words' = SubSeq(words, n + 1, Len(words))
              /\ nibs' = nibs \/ (n > 0 /\ nibs' = nibs \o NibblesOf(n, k))
<1>1. /\ words \in Seq(WordType) /\ words # <<>> /\ Len(words) \in Nat /\ Len(words) > 0
      /\ Head(words) = words[1] /\ di_is_header \in BOOLEAN /\ di_cr \in Nat
  BY EmptySeq DEF DeinterleaverStep, DI!DeinterWork, ChainTypeOK
<1>2. DI!UpToNextTag(words) \in 1 .. Len(words)
  BY <1>1, UpToNextTagRange
<1>3. CASE DI!DeinterDrop
  <2>1. /\ words' = SubSeq(words, DI!UpToNextTag(words) + 1, Len(words))
        /\ UNCHANGED <<nibs, di_is_header, di_cr>>
    BY <1>3 DEF DI!DeinterDrop, DI!DropFront
  <2>2. DI!UpToNextTag(words) \in 0 .. Len(words)
    BY <1>2
  <2>3. QED
    BY <1>1, <2>1, <2>2
<1>4. CASE DI!DeinterDecode
  <2>1. di_is_header' \in BOOLEAN /\ di_cr' \in Nat
    <3> DEFINE tag == words[1].tag
    <3>1. tag \in Seq(TagType)
      <4>1. words[1] \in WordType
        BY <1>1, ElementOfSeq
      <4>2. QED
        BY <4>1 DEF WordType
    <3>2. tag # <<>> => tag[1] \in TagType
      BY <3>1, HeadTailProperties
    <3>3. tag # <<>> => tag[1].is_header \in BOOLEAN /\ tag[1].cr \in Nat
      BY <3>2 DEF TagType
    <3>4. /\ di_is_header' = IF tag = <<>> THEN di_is_header ELSE tag[1].is_header
          /\ di_cr' = IF tag = <<>> \/ di_is_header' THEN di_cr ELSE tag[1].cr
      BY <1>1, <1>4 DEF DI!DeinterDecode, DI!TakeSettings
    <3> HIDE DEF tag
    <3>5. di_cr' = di_cr \/ (tag # <<>> /\ di_cr' = tag[1].cr)
      BY <3>4
    <3>6. di_is_header' = di_is_header \/ (tag # <<>> /\ di_is_header' = tag[1].is_header)
      BY <3>4
    <3>7. QED
      BY <3>3, <3>5, <3>6, <1>1
  <2> DEFINE cw == DI!CwLen(di_is_header', di_cr')
             k == DI!SfApp(di_is_header')
  <2>2. CASE DI!UpToNextTag(words) >= cw
    <3>1. cw \in 1 .. Len(words)
      <4>1. cw = 8 \/ cw = 4 + di_cr'
        BY DEF DI!CwLen, DI!HeaderSymbols
      <4>2. cw \in Nat /\ cw >= 1
        BY <4>1, <2>1
      <4> HIDE DEF cw
      <4>3. QED
        BY <4>2, <1>1, <1>2, <2>2
    <3>2. k \in Nat
      BY FrameAssumption DEF DI!SfApp
    <3>3. DI!DeinterleaveBlock(di_is_header', di_cr', words[1].tag)
      BY <1>1, <1>4, <2>2 DEF DI!DeinterDecode
    <3>4. words' = SubSeq(words, cw + 1, Len(words)) /\ nibs' = nibs \o NibblesOf(cw, k)
      BY <3>3, Zenon DEF DI!DeinterleaveBlock, DI!DropFront, NibblesOf, BlockOrigin
    <3> HIDE DEF cw, k
    <3>5. cw \in 0 .. Len(words) /\ cw > 0
      BY <3>1, <1>1
    <3>6. QED
      BY <2>1, <3>2, <3>4, <3>5
  <2>3. CASE ~(DI!UpToNextTag(words) >= cw)
    <3>1. UNCHANGED <<words, nibs>>
      BY <1>4, <2>3 DEF DI!DeinterDecode
    <3>2. SubSeq(words, 0 + 1, Len(words)) = words /\ 0 \in 0 .. Len(words)
      BY <1>1, SubSeqFull
    <3>3. QED
      BY <2>1, <3>1, <3>2
  <2>4. QED
    BY <2>2, <2>3
<1>5. QED
  BY <1>3, <1>4 DEF DeinterleaverStep, DI!DeinterWork

LEMMA NibblesType ==
  ASSUME ChainTypeOK, NEW n \in 1 .. Len(words), NEW k \in Nat
  PROVE  /\ NibblesOf(n, k) \in Seq(NibType) /\ Len(NibblesOf(n, k)) = k
         /\ \A i \in 1 .. k :
              /\ NibblesOf(n, k)[i].origin = BlockOrigin(n)
              /\ NibblesOf(n, k)[i].tag = IF i = 1 THEN words[1].tag ELSE <<>>
<1>1. words \in Seq(WordType) /\ Len(words) \in Nat
  BY DEF ChainTypeOK
<1>2. \A i \in 1 .. n : words[i] \in WordType
  BY <1>1, ElementOfSeq
<1>3. BlockOrigin(n) \in SUBSET Nat
  BY <1>2 DEF BlockOrigin, WordType
<1>4. words[1].tag \in Seq(TagType) /\ <<>> \in Seq(TagType)
  BY <1>2 DEF WordType
<1>5. ASSUME NEW i \in 1 .. k
      PROVE  /\ NibblesOf(n, k)[i] \in NibType
             /\ NibblesOf(n, k)[i].origin = BlockOrigin(n)
             /\ NibblesOf(n, k)[i].tag = IF i = 1 THEN words[1].tag ELSE <<>>
  <2> DEFINE t == IF i = 1 THEN words[1].tag ELSE <<>>
  <2>1. t \in Seq(TagType)
    BY <1>4
  <2>2. NibblesOf(n, k)[i] = [origin |-> BlockOrigin(n), tag |-> t]
    BY Zenon DEF NibblesOf
  <2> HIDE DEF t
  <2>3. /\ NibblesOf(n, k)[i] \in NibType
        /\ NibblesOf(n, k)[i].origin = BlockOrigin(n) /\ NibblesOf(n, k)[i].tag = t
    BY <2>1, <2>2, <1>3 DEF NibType
  <2>4. QED
    BY <2>3, Zenon DEF t
<1>6. DOMAIN NibblesOf(n, k) = 1 .. k /\ NibblesOf(n, k) = [i \in 1 .. k |-> NibblesOf(n, k)[i]]
  BY Zenon DEF NibblesOf
<1>7. NibblesOf(n, k) \in [1 .. k -> NibType]
  BY <1>5, <1>6
<1>8. NibblesOf(n, k) \in Seq(NibType) /\ Len(NibblesOf(n, k)) = k
  BY <1>7
<1>9. QED
  BY <1>5, <1>8

\* What is left of a stream without its first n elements.
LEMMA FrontDropped ==
  ASSUME NEW T, NEW q \in Seq(T), NEW n \in 0 .. Len(q)
  PROVE  LET r == SubSeq(q, n + 1, Len(q))
         IN  /\ r \in Seq(T) /\ Len(r) = Len(q) - n /\ Len(r) \in Nat
             /\ \A i \in 1 .. Len(q) - n : r[i] = q[i + n]
<1>1. Len(q) \in Nat /\ n \in Nat
  OBVIOUS
<1>2. \A i \in n + 1 .. Len(q) : q[i] \in T
  BY <1>1
<1>3. /\ SubSeq(q, n + 1, Len(q)) \in Seq(T)
      /\ Len(SubSeq(q, n + 1, Len(q))) = IF n + 1 <= Len(q) THEN Len(q) - (n + 1) + 1 ELSE 0
      /\ \A i \in 1 .. Len(q) - (n + 1) + 1 : SubSeq(q, n + 1, Len(q))[i] = q[n + 1 + i - 1]
  BY <1>1, <1>2, SubSeqProperties
<1>4. QED
  BY <1>1, <1>3

LEMMA DeinterleaverKeepsTypes ==
  ASSUME ChainTypeOK, DeinterleaverStep
  PROVE  ChainTypeOK'
<1>1. PICK n \in 0 .. Len(words), k \in Nat :
        /\ words' = SubSeq(words, n + 1, Len(words))
        /\ nibs' = nibs \/ (n > 0 /\ nibs' = nibs \o NibblesOf(n, k))
  BY DeinterOutcome
<1>2. words \in Seq(WordType) /\ nibs \in Seq(NibType)
  BY DEF ChainTypeOK
<1>3. words' \in Seq(WordType)
  BY <1>1, <1>2, FrontDropped
<1>4. n > 0 => n \in 1 .. Len(words)
  OBVIOUS
<1>5. nibs' \in Seq(NibType)
  BY <1>1, <1>2, <1>4, NibblesType, ConcatProperties
<1>6. di_is_header' \in BOOLEAN /\ di_cr' \in Nat
  BY DeinterOutcome
<1>7. QED
  BY <1>3, <1>5, <1>6 DEF DeinterleaverStep, ChainTypeOK, demodState, headerState, messages, ghosts

LEMMA DeinterleaverKeepsOrder ==
  ASSUME TypeOK, ChainTypeOK, OrderInv, DeinterleaverStep
  PROVE  OrderInv'
<1>1. PICK n \in 0 .. Len(words), k \in Nat :
        /\ words' = SubSeq(words, n + 1, Len(words))
        /\ nibs' = nibs \/ (n > 0 /\ nibs' = nibs \o NibblesOf(n, k))
  BY DeinterOutcome
<1> DEFINE a == Len(nibs)
           b == Len(words) - n
<1>2. /\ words \in Seq(WordType) /\ nibs \in Seq(NibType) /\ a \in Nat
      /\ n \in Nat /\ b \in Nat /\ Len(words) = n + b /\ Len(words) \in Nat
  BY DEF ChainTypeOK
<1>3. Len(words') = b /\ \A i \in 1 .. b : words'[i] = words[i + n]
  BY <1>1, <1>2, FrontDropped
<1>4. /\ UNCHANGED <<sync_out, pend, frame_cnt, m_state, fd_out, fd_frame_info>>
      /\ UNCHANGED <<Done, Block, Syms, Pend, SymItems>>
      /\ Started'
      /\ Len(pend') = 1 => HdrOf(pend') \subseteq {frame_cnt'}
  BY DEF DeinterleaverStep, vars, demodState, headerState, ghosts, Done, Sent, Kept, Block, Syms,
         Pend, SymItems, OrderInv, TagsOnOwn, Started
<1>5. \A i \in 1 .. b : WordItems'[i] = WordItems[i + n]
  <2>1. \A i \in 1 .. b : i + n \in 1 .. Len(words)
    BY <1>2
  <2>2. QED
    BY <2>1, <1>3 DEF WordItems
<1>6. Sorted(WordItems, n + b)
  BY <1>2 DEF OrderInv, AllSorted
<1> DEFINE F == All(WordItems, n)
<1>7. /\ Sorted(WordItems', b) /\ Part(Words', Words) /\ Part(F, Words) /\ Before(F, Words')
  <2>1. /\ Sorted(WordItems', b)
        /\ Part(All(WordItems', b), All(WordItems, n + b))
        /\ Part(All(WordItems, n), All(WordItems, n + b))
        /\ Before(All(WordItems, n), All(WordItems', b))
    BY <1>2, <1>5, <1>6, FrontGone
  <2>2. Words = All(WordItems, n + b) /\ Words' = All(WordItems', b)
    BY <1>2, <1>3 DEF Words
  <2>3. QED
    BY <2>1, <2>2
<1>8. \A i \in 1 .. b : OnOwn(WordItems'[i])
  <2>1. \A i \in 1 .. b : i + n \in 1 .. Len(words)
    BY <1>2
  <2>2. QED
    BY <2>1, <1>5 DEF OrderInv, TagsOnOwn
<1>9. /\ \A j \in {1, 4, 5, 6} : Line'[j] = Line[j]
      /\ Line[2] = Nibs /\ Line'[2] = Nibs' /\ Line[3] = Words /\ Line'[3] = Words'
      /\ \A j \in 1 .. 6 : j \in {1, 4, 5, 6} \/ j = 2 \/ j = 3
  BY <1>4 DEF Line
<1>10. \A x : Part(x, x)
  BY DEF Part
\* What follows from the nibbles being in order, and in line with the rest.
<1>11. ASSUME Part(Nibs', Both(Nibs, F)), Sorted(NibItems', Len(nibs')),
              \A i \in 1 .. Len(nibs') : OnOwn(NibItems'[i])
       PROVE  OrderInv'
  <2>1. \A j \in 1 .. 6 \ {2} : Part(Line'[j], Line[j])
    BY <1>7, <1>9, <1>10
  <2>2. InLine(Line) /\ Known(Line) /\ 2 \in 1 .. 5 /\ 2 + 1 = 3
    BY DEF OrderInv
  <2>3. Part(F, Line[2 + 1]) /\ Before(F, Line'[2 + 1]) /\ Part(Line'[2], Both(Line[2], F))
    BY <1>7, <1>9, <1>11, <2>2
  <2> HIDE DEF F
  <2>4. InLine(Line')
    BY <2>1, <2>2, <2>3, Advance
  <2>5. Part(Line'[2], Both(Line[2], Line[2 + 1]))
    BY <2>3 DEF Part, Both
  <2>6. Known(Line)'
    <3>1. Known(Line')
      BY <2>1, <2>2, <2>5, StillKnown
    <3>2. QED
      BY <3>1, <1>4 DEF Known
  <2>7. BlockOnOwn'
    BY <1>4 DEF OrderInv, TagsOnOwn, BlockOnOwn
  <2>8. \A i \in 1 .. Len(sync_out') : Len(sync_out'[i].tags) = 1 => OnOwn(SymItems'[i])
    BY <1>4 DEF OrderInv, TagsOnOwn
  <2>9. Sorted(SymItems', Len(sync_out'))
    BY <1>4 DEF OrderInv, AllSorted
  <2>10. AllSorted' /\ TagsOnOwn'
    BY <1>3, <1>4, <1>7, <1>8, <1>11, <2>7, <2>8, <2>9 DEF AllSorted, TagsOnOwn
  <2>11. QED
    BY <2>4, <2>6, <2>10, <1>4 DEF OrderInv
<1>12. CASE nibs' = nibs
  <2>1. Nibs' = Nibs /\ NibItems' = NibItems
    BY <1>12 DEF Nibs, NibItems
  <2>2. Part(Nibs', Both(Nibs, F))
    BY <2>1 DEF Part, Both
  <2>3. Sorted(NibItems', Len(nibs')) /\ \A i \in 1 .. Len(nibs') : OnOwn(NibItems'[i])
    BY <2>1, <1>12 DEF OrderInv, AllSorted, TagsOnOwn
  <2>4. QED
    BY <2>2, <2>3, <1>11
<1>13. CASE n > 0 /\ nibs' = nibs \o NibblesOf(n, k)
  <2> DEFINE out == NibblesOf(n, k)
             O == BlockOrigin(n)
             H == HdrOf(words[1].tag)
             u == [i \in 1 .. k |-> [own |-> O, hdr |-> IF i = 1 THEN H ELSE {}]]
  <2>1. n \in 1 .. Len(words) /\ 1 \in 1 .. n /\ 1 \in 1 .. Len(words)
    BY <1>13, <1>2
  <2>2. /\ out \in Seq(NibType) /\ Len(out) = k
        /\ \A i \in 1 .. k : out[i].origin = O /\ out[i].tag = IF i = 1 THEN words[1].tag ELSE <<>>
    BY <2>1, NibblesType
  <2>3. /\ Len(nibs') = a + k
        /\ \A i \in 1 .. a + k : nibs'[i] = IF i <= a THEN nibs[i] ELSE out[i - a]
    <3>1. nibs' = nibs \o out
      BY <1>13
    <3> HIDE DEF out
    <3>2. out \in Seq(NibType) /\ nibs \in Seq(NibType)
      BY <2>2, <1>2
    <3>3. /\ Len(nibs \o out) = Len(nibs) + Len(out)
          /\ \A i \in 1 .. Len(nibs) + Len(out) :
               (nibs \o out)[i] = IF i <= Len(nibs) THEN nibs[i] ELSE out[i - Len(nibs)]
      BY <3>2, ConcatProperties
    <3>4. QED
      BY <3>1, <3>3, <2>2
  <2>4. /\ \A i \in 1 .. k : HdrOf(out[i].tag) = IF i = 1 THEN H ELSE {}
    BY <2>2, HdrNone
  <2> HIDE DEF out
  <2>5. /\ \A i \in 1 .. a : NibItems'[i] = NibItems[i]
        /\ \A i \in 1 .. k : NibItems'[a + i] = u[i]
    <3>1. \A i \in 1 .. a + k :
            NibItems'[i] = [own |-> nibs'[i].origin, hdr |-> HdrOf(nibs'[i].tag)]
      BY <2>3 DEF NibItems
    <3>2. \A i \in 1 .. a : i \in 1 .. a + k /\ i <= a
      BY <1>2
    <3>3. \A i \in 1 .. k : a + i \in 1 .. a + k /\ ~(a + i <= a) /\ a + i - a = i
      BY <1>2
    <3>4. \A i \in 1 .. a : NibItems'[i] = NibItems[i]
      BY <3>1, <3>2, <2>3 DEF NibItems
    <3>5. \A i \in 1 .. k : nibs'[a + i] = out[i]
      BY <3>3, <2>3
    <3>6. \A i \in 1 .. k : NibItems'[a + i] = [own |-> out[i].origin, hdr |-> HdrOf(out[i].tag)]
      BY <3>1, <3>3, <3>5
    <3> HIDE DEF O, H
    <3>7. \A i \in 1 .. k : NibItems'[a + i] = u[i]
      BY <3>6, <2>2, <2>4
    <3>8. QED
      BY <3>4, <3>7
  <2>6. /\ \A i \in 1 .. n : i \in 1 .. Len(words)
        /\ \A i \in 1 .. n : WordItems[i].own = {words[i].frame}
        /\ WordItems[1].hdr = H
    BY <2>1, <1>2 DEF WordItems
  \* The tag of the first word belongs to it, and no later word is older.
  <2>7. (\A h \in H : h \in O /\ \A f \in O : h <= f) /\ O = F.own /\ H \subseteq F.hdr
    <3>1. OnOwn(WordItems[1])
      BY <2>1 DEF OrderInv, TagsOnOwn
    <3>2. \A h \in H : h = words[1].frame /\ h <= words[1].frame
      BY <3>1, <2>1, <2>6 DEF OnOwn
    <3>3. \A i \in 2 .. n : Before(WordItems[1], WordItems[i])
      BY <1>2, <1>6, <2>1 DEF Sorted
    <3>4. \A h \in H, i \in 2 .. n : h <= words[i].frame
      <4>1. \A i \in 2 .. n : i \in 1 .. n
        OBVIOUS
      <4>2. QED
        BY <3>3, <4>1, <2>6 DEF Before
    <3>5. \A i \in 1 .. n : i = 1 \/ i \in 2 .. n
      OBVIOUS
    <3>6. O = F.own
      BY <2>6 DEF All, BlockOrigin
    <3>7. H \subseteq F.hdr
      BY <2>1, <2>6 DEF All
    <3>8. \A h \in H : h \in O /\ \A f \in O : h <= f
      BY <3>2, <3>4, <3>5, <2>1 DEF BlockOrigin
    <3>9. QED
      BY <3>6, <3>7, <3>8
  <2>8. \A i \in 1 .. k : u[i].own = O /\ u[i].hdr \subseteq H /\ (i # 1 => u[i].hdr = {})
    OBVIOUS
  <2> HIDE DEF O, H, F, u
  <2>9. Sorted(u, k) /\ Part(All(u, k), F) /\ \A i \in 1 .. k : OnOwn(u[i])
    <3>1. \A i, j \in 1 .. k : i < j => j # 1
      OBVIOUS
    <3>2. Sorted(u, k)
      BY <3>1, <2>7, <2>8 DEF Sorted, Before
    <3>3. Part(All(u, k), F)
      BY <2>7, <2>8 DEF Part, All
    <3>4. \A i \in 1 .. k : OnOwn(u[i])
      BY <2>7, <2>8 DEF OnOwn
    <3>5. QED
      BY <3>2, <3>3, <3>4
  <2>10. Sorted(NibItems, a) /\ Nibs = All(NibItems, a)
    BY DEF OrderInv, AllSorted, Nibs
  <2>11. Before(All(NibItems, a), All(u, k))
    <3>1. Before(Nibs, Words) /\ Part(Nibs, Nibs)
      BY <1>10 DEF OrderInv, InLine, Line
    <3>2. Before(Nibs, F)
      BY <3>1, <1>7, BeforeParts
    <3>3. QED
      BY <3>1, <3>2, <2>9, <2>10, BeforeParts
  <2>12. Sorted(NibItems', a + k) /\ Part(All(NibItems', a + k), Both(All(NibItems, a), All(u, k)))
    BY <2>5, <2>9, <2>10, <2>11, <1>2, BackJoined
  <2>13. Part(Nibs', Both(Nibs, F))
    BY <2>3, <2>9, <2>10, <2>12 DEF Nibs, Part, Both
  <2>14. \A i \in 1 .. a + k : OnOwn(NibItems'[i])
    <3>1. \A i \in 1 .. a : OnOwn(NibItems'[i])
      BY <2>5 DEF OrderInv, TagsOnOwn
    <3>2. \A i \in 1 .. k : OnOwn(NibItems'[a + i])
      BY <2>5, <2>9
    <3>3. \A i \in 1 .. a + k : i \in 1 .. a \/ (i - a \in 1 .. k /\ i = a + (i - a))
      BY <1>2
    <3>4. QED
      BY <3>1, <3>2, <3>3
  <2>15. QED
    BY <2>3, <2>12, <2>13, <2>14, <1>11
<1>14. QED
  BY <1>1, <1>12, <1>13

(***************************************************************************)
(* HeaderDecoder: nibbles leave, and some of them become part of a frame.  *)
(***************************************************************************)
Collected(frame, n) ==
  [frame |-> frame.frame, has_crc |-> frame.has_crc, count |-> frame.count + n,
   origin |-> frame.origin \cup UNION {nibs[i].origin : i \in 1 .. n}]

\* n nibbles go into a frame that misses left.
HeaderCollects(frame, left, n) ==
  /\ hd_left' = left - n
  /\ \/ /\ left = n /\ posted' = Append(posted, Collected(frame, n))
        /\ frm_q' = Append(frm_q, Collected(frame, n))
     \/ /\ left # n /\ hd_frame' = Collected(frame, n) /\ posted' = posted /\ frm_q' = frm_q

\* The frame goes on, or a new one starts with header m.
FrameGoesOn(frame, left) ==
  /\ hd_left > 0 /\ frame = hd_frame /\ left = hd_left
  /\ accepted' = accepted /\ fi_q' = fi_q
FrameStarts(frame, left, m) ==
  /\ ~m.err /\ nibs[1].tag # <<>> /\ nibs[1].tag[1].is_header
  /\ frame = [frame |-> nibs[1].tag[1].frame, has_crc |-> m.crc, count |-> 0, origin |-> {}]
  /\ left = FrameNibbles(m)
  /\ accepted' = accepted \cup {frame.frame}
  /\ fi_q' = Append(fi_q, [m EXCEPT !.frame = frame.frame])

\* Nibbles are dropped, without a word or as a bad header.
HeaderDrops(n) ==
  /\ UNCHANGED <<hd_left, hd_frame, posted, frm_q, accepted>>
  /\ \/ fi_q' = fi_q
     \/ \E m \in HeaderMsgs :
          /\ n > 0 /\ m.err /\ nibs[1].tag # <<>> /\ nibs[1].tag[1].is_header
          /\ fi_q' = Append(fi_q, [m EXCEPT !.frame = nibs[1].tag[1].frame])

LEMMA NibsToNextTagRange ==
  ASSUME Len(nibs) \in Nat, Len(nibs) > 0
  PROVE  HD!NibsToNextTag \in 1 .. Len(nibs)
<1> DEFINE later == HD!TaggedNibs \ {0}
<1>1. later \subseteq 1 .. Len(nibs) - 1
  BY DEF HD!TaggedNibs
<1>2. CASE later = {}
  BY <1>2 DEF HD!NibsToNextTag
<1>3. CASE later # {}
  <2>1. later \subseteq Nat
    BY <1>1
  <2>2. \E i \in later : \A j \in later : i <= j
    <3> HIDE DEF later
    <3>1. QED
      BY <2>1, <1>3, SmallestExists
  <2>3. HD!LowestOf(later) \in later
    BY <2>2 DEF HD!LowestOf
  <2>4. HD!NibsToNextTag = HD!LowestOf(later)
    BY <1>3 DEF HD!NibsToNextTag
  <2>5. QED
    BY <1>1, <2>3, <2>4
<1>4. QED
  BY <1>2, <1>3

LEMMA SameNibbles ==
  ASSUME NEW m PROVE HD!FrameNibbles(m) = FrameNibbles(m)
BY Zenon DEF HD!FrameNibbles, FrameNibbles, HD!HeaderLen, HeaderLen

LEMMA FrameNibblesNat ==
  ASSUME NEW m \in HeaderMsgType PROVE FrameNibbles(m) \in Nat
BY FrameAssumption DEF HeaderMsgType, FrameNibbles, HeaderLen

\* A header answer, whatever number is put into it.
LEMMA AnswerType ==
  ASSUME NEW m \in HeaderMsgType, NEW f \in Nat
  PROVE  /\ [m EXCEPT !.frame = f] \in HeaderMsgType
         /\ [m EXCEPT !.frame = f].err = m.err /\ [m EXCEPT !.frame = f].frame = f
BY DEF HeaderMsgType

LEMMA SameFrame ==
  ASSUME NEW x \in FrameType, NEW y \in FrameType,
         x.frame = y.frame, x.has_crc = y.has_crc, x.count = y.count, x.origin = y.origin
  PROVE  x = y
BY DEF FrameType

LEMMA NewFrame ==
  ASSUME NEW f \in Nat, NEW c \in BOOLEAN
  PROVE  [HD!EmptyFrame EXCEPT !.frame = f, !.has_crc = c]
           = [frame |-> f, has_crc |-> c, count |-> 0, origin |-> {}]
<1> DEFINE e == HD!EmptyFrame
           x == [e EXCEPT !.frame = f, !.has_crc = c]
           y == [frame |-> f, has_crc |-> c, count |-> 0, origin |-> {}]
<1>1. e \in FrameType /\ e.count = 0 /\ e.origin = {}
  BY DEF HD!EmptyFrame, FrameType
<1> HIDE DEF e
<1>2. x \in FrameType /\ x.frame = f /\ x.has_crc = c /\ x.count = 0 /\ x.origin = {}
  BY <1>1 DEF FrameType
<1>3. y \in FrameType /\ y.frame = f /\ y.has_crc = c /\ y.count = 0 /\ y.origin = {}
  BY DEF FrameType
<1> HIDE DEF x, y
<1>4. x = y
  BY <1>2, <1>3, SameFrame
<1>5. QED
  BY <1>4 DEF x, y, e

LEMMA CollectOutcome ==
  ASSUME ChainTypeOK, NEW frame \in FrameType, NEW left \in Nat \ {0}, Len(nibs) > 0,
         HD!Collect(frame, left),
         posted' = IF frm_q' # frm_q THEN Append(posted, frm_q'[Len(frm_q')]) ELSE posted
  PROVE  \E n \in 1 .. Len(nibs) :
           /\ n <= left /\ nibs' = SubSeq(nibs, n + 1, Len(nibs))
           /\ HeaderCollects(frame, left, n)
           /\ Collected(frame, n) \in FrameType
           /\ hd_frame' \in FrameType
<1> DEFINE n == HD!SmallerOf(HD!NibsToNextTag, left)
           more == [frame EXCEPT !.count = @ + n,
                                 !.origin = @ \cup UNION {nibs[i].origin : i \in 1 .. n}]
<1>1. nibs \in Seq(NibType) /\ Len(nibs) \in Nat /\ frm_q \in Seq(FrameType) /\ Len(frm_q) \in Nat
  BY DEF ChainTypeOK
<1>2. n \in 1 .. Len(nibs) /\ n <= left
  BY <1>1, NibsToNextTagRange DEF HD!SmallerOf
<1>3. /\ hd_left' = left - n
      /\ nibs' = SubSeq(nibs, n + 1, Len(nibs))
      /\ \/ left = n /\ frm_q' = Append(frm_q, more) /\ hd_frame' = HD!EmptyFrame
         \/ left # n /\ frm_q' = frm_q /\ hd_frame' = more
  BY DEF HD!Collect, HD!DropNibs
<1> HIDE DEF n
<1>4. UNION {nibs[i].origin : i \in 1 .. n} \in SUBSET Nat
  <2>1. \A i \in 1 .. n : nibs[i] \in NibType
    BY <1>1, <1>2, ElementOfSeq
  <2>2. QED
    BY <2>1 DEF NibType
<1>5. more = Collected(frame, n) /\ Collected(frame, n) \in FrameType
  <2> DEFINE O == UNION {nibs[i].origin : i \in 1 .. n}
  <2>1. n \in Nat /\ O \in SUBSET Nat
    BY <1>1, <1>2, <1>4
  <2>2. /\ more = [frame EXCEPT !.count = @ + n, !.origin = @ \cup O]
        /\ Collected(frame, n) = [frame |-> frame.frame, has_crc |-> frame.has_crc,
                                  count |-> frame.count + n, origin |-> frame.origin \cup O]
    BY Zenon DEF Collected
  <2> HIDE DEF O, more
  <2>3. /\ frame.frame \in Nat /\ frame.has_crc \in BOOLEAN /\ frame.count \in Nat
        /\ frame.origin \in SUBSET Nat
    BY DEF FrameType
  <2>4. frame.count + n \in Nat
    BY <2>1, <2>3
  <2>5. frame.origin \cup O \in SUBSET Nat
    BY <2>1, <2>3
  <2>6. Collected(frame, n) \in FrameType
    BY <2>2, <2>3, <2>4, <2>5 DEF FrameType
  <2>7. /\ more \in FrameType /\ more.frame = frame.frame /\ more.has_crc = frame.has_crc
        /\ more.count = frame.count + n /\ more.origin = frame.origin \cup O
    BY <2>2, <2>4, <2>5 DEF FrameType
  <2>8. /\ Collected(frame, n).frame = frame.frame
        /\ Collected(frame, n).has_crc = frame.has_crc
        /\ Collected(frame, n).count = frame.count + n
        /\ Collected(frame, n).origin = frame.origin \cup O
    BY <2>2
  <2>9. more = Collected(frame, n)
    BY <2>6, <2>7, <2>8, SameFrame
  <2>10. QED
    BY <2>6, <2>9
<1> HIDE DEF more
<1>6. HD!EmptyFrame \in FrameType
  BY DEF HD!EmptyFrame, FrameType
<1>7. frm_q' = Append(frm_q, more) => frm_q' # frm_q /\ frm_q'[Len(frm_q')] = more
  <2>1. more \in FrameType
    BY <1>5
  <2>2. /\ Len(Append(frm_q, more)) = Len(frm_q) + 1
        /\ Append(frm_q, more)[Len(frm_q) + 1] = more
    BY <1>1, <2>1, AppendProperties
  <2>3. QED
    BY <1>1, <2>2
<1>8. HeaderCollects(frame, left, n)
  BY <1>3, <1>5, <1>7, Zenon DEF HeaderCollects
<1>9. hd_frame' \in FrameType
  BY <1>3, <1>5, <1>6
<1>10. QED
  BY <1>2, <1>3, <1>5, <1>8, <1>9

LEMMA HeaderOutcome ==
  ASSUME ChainTypeOK, HeadersAskForNibbles, HeaderDecoderStep
  PROVE  /\ Len(nibs) > 0 /\ hd_frame' \in FrameType
         /\ \E n \in 0 .. Len(nibs) :
              /\ nibs' = SubSeq(nibs, n + 1, Len(nibs))
              /\ \/ HeaderDrops(n)
                 \/ \E frame \in FrameType, left \in Nat \ {0} :
                      /\ n \in 1 .. left
                      /\ HeaderCollects(frame, left, n)
                      /\ Collected(frame, n) \in FrameType
                      /\ \/ FrameGoesOn(frame, left)
                         \/ \E m \in HeaderMsgs : FrameStarts(frame, left, m)
<1> DEFINE answer == fi_q'[Len(fi_q')]
           good == IF fi_q' # fi_q /\ ~answer.err THEN {answer.frame} ELSE {}
           tag == nibs[1].tag
           f == tag[1].frame
<1>1. /\ nibs \in Seq(NibType) /\ Len(nibs) \in Nat /\ Len(nibs) > 0
      /\ hd_frame \in FrameType /\ hd_left \in Nat
      /\ fi_q \in Seq(HeaderMsgType) /\ Len(fi_q) \in Nat
  BY EmptySeq DEF ChainTypeOK, HeaderDecoderStep, HD!HeaderWork
<1>2. /\ HD!HeaderWork
      /\ accepted' = accepted \cup good
      /\ posted' = IF frm_q' # frm_q THEN Append(posted, frm_q'[Len(frm_q')]) ELSE posted
  BY DEF HeaderDecoderStep
<1>3. fi_q' = fi_q => accepted' = accepted
  BY <1>2
<1>4. CASE HD!SkipToTag
  <2>1. HD!NibsToNextTag \in 0 .. Len(nibs)
    BY <1>1, NibsToNextTagRange
  <2>2. /\ nibs' = SubSeq(nibs, HD!NibsToNextTag + 1, Len(nibs))
        /\ UNCHANGED <<hd_left, hd_frame, fi_q, frm_q>>
    BY <1>4 DEF HD!SkipToTag, HD!DropNibs
  <2>3. HeaderDrops(HD!NibsToNextTag)
    BY <2>2, <1>2, <1>3 DEF HeaderDrops
  <2>4. QED
    BY <1>1, <2>1, <2>2, <2>3
<1>5. CASE HD!CollectPayload
  <2>1. hd_left \in Nat \ {0} /\ HD!Collect(hd_frame, hd_left) /\ fi_q' = fi_q
    BY <1>1, <1>5 DEF HD!CollectPayload
  <2>2. FrameGoesOn(hd_frame, hd_left)
    BY <1>1, <1>3, <2>1 DEF FrameGoesOn
  <2>3. PICK n \in 1 .. Len(nibs) :
           /\ n <= hd_left /\ nibs' = SubSeq(nibs, n + 1, Len(nibs))
           /\ HeaderCollects(hd_frame, hd_left, n)
           /\ Collected(hd_frame, n) \in FrameType
           /\ hd_frame' \in FrameType
    BY <1>1, <1>2, <2>1, CollectOutcome
  <2>4. n \in 0 .. Len(nibs) /\ n \in 1 .. hd_left
    BY <1>1, <2>3
  <2>5. QED
    BY <1>1, <2>1, <2>2, <2>3, <2>4
<1>6. ASSUME NEW m \in HeaderMsgs, HD!DecodeHeader(m)
      PROVE  /\ hd_frame' \in FrameType
             /\ \E n \in 0 .. Len(nibs) :
                  /\ nibs' = SubSeq(nibs, n + 1, Len(nibs))
                  /\ \/ HeaderDrops(n)
                     \/ \E frame \in FrameType, left \in Nat \ {0} :
                          /\ n \in 1 .. left
                          /\ HeaderCollects(frame, left, n)
                          /\ Collected(frame, n) \in FrameType
                          /\ FrameStarts(frame, left, m)
  <2>1. m \in HeaderMsgType
    BY InputAssumption
  <2>2. tag # <<>> /\ tag[1].is_header /\ f \in Nat
    <3>1. nibs[1] \in NibType
      BY <1>1, ElementOfSeq
    <3>2. tag \in Seq(TagType)
      BY <3>1 DEF NibType
    <3>3. tag # <<>> /\ tag[1].is_header
      BY <1>6 DEF HD!DecodeHeader, HD!IsHeader, HD!TaggedNibs
    <3>4. tag[1] \in TagType
      BY <3>2, <3>3, HeadTailProperties
    <3>5. QED
      BY <3>3, <3>4 DEF TagType
  <2> DEFINE a == [m EXCEPT !.frame = f]
  <2>3. a \in HeaderMsgType /\ a.err = m.err /\ a.frame = f
    BY <2>1, <2>2, AnswerType
  <2>4. fi_q' = Append(fi_q, a)
    BY <1>6 DEF HD!DecodeHeader
  <2> HIDE DEF a
  <2>5. fi_q' # fi_q /\ answer = a
    <3>1. Len(Append(fi_q, a)) = Len(fi_q) + 1 /\ Append(fi_q, a)[Len(fi_q) + 1] = a
      BY <1>1, <2>3, AppendProperties
    <3>2. QED
      BY <1>1, <2>4, <3>1
  <2>6. CASE m.err
    <3>1. HeaderLen \in 0 .. Len(nibs) /\ nibs' = SubSeq(nibs, HeaderLen + 1, Len(nibs))
      BY <1>1, <1>6, <2>6 DEF HD!DecodeHeader, HD!HeaderLen, HeaderLen, HD!DropNibs
    <3>2. UNCHANGED <<hd_left, hd_frame, frm_q>>
      BY <1>6, <2>6 DEF HD!DecodeHeader
    <3>3. accepted' = accepted
      BY <1>2, <2>3, <2>5, <2>6
    <3>4. HeaderLen > 0 /\ posted' = posted
      BY <1>2, <3>2 DEF HeaderLen
    <3>5. \E w \in HeaderMsgs : w.err /\ fi_q' = Append(fi_q, [w EXCEPT !.frame = f])
      BY <2>4, <2>6 DEF a
    <3>6. HeaderDrops(HeaderLen)
      BY <2>2, <3>2, <3>3, <3>4, <3>5 DEF HeaderDrops
    <3>7. QED
      BY <1>1, <3>1, <3>2, <3>6
  <2>7. CASE ~m.err
    <3> DEFINE frame == [frame |-> f, has_crc |-> m.crc, count |-> 0, origin |-> {}]
               left == FrameNibbles(m)
    <3>1. frame = [HD!EmptyFrame EXCEPT !.frame = f, !.has_crc = m.crc]
      BY <2>1, <2>2, NewFrame DEF HeaderMsgType
    <3>2. HD!Collect(frame, left)
      BY <1>6, <2>7, <3>1, SameNibbles DEF HD!DecodeHeader
    <3>3. left \in Nat \ {0}
      BY <2>1, <2>7, FrameNibblesNat DEF HeadersAskForNibbles
    <3>4. frame \in FrameType
      BY <2>1, <2>2 DEF FrameType, HeaderMsgType
    <3>5. accepted' = accepted \cup {f}
      BY <1>2, <2>3, <2>5, <2>7
    <3>6. FrameStarts(frame, left, m)
      BY <2>2, <2>4, <2>7, <3>5 DEF FrameStarts, a
    <3> HIDE DEF frame, left
    <3>7. PICK n \in 1 .. Len(nibs) :
             /\ n <= left /\ nibs' = SubSeq(nibs, n + 1, Len(nibs))
             /\ HeaderCollects(frame, left, n)
             /\ Collected(frame, n) \in FrameType
             /\ hd_frame' \in FrameType
      BY <1>1, <1>2, <3>2, <3>3, <3>4, CollectOutcome
    <3>8. n \in 0 .. Len(nibs) /\ n \in 1 .. left
      BY <1>1, <3>3, <3>7
    <3>9. QED
      BY <3>3, <3>4, <3>6, <3>7, <3>8
  <2>8. QED
    BY <2>6, <2>7
<1>7. QED
  BY <1>1, <1>2, <1>4, <1>5, <1>6 DEF HD!HeaderWork

LEMMA HeaderDecoderKeepsTypes ==
  ASSUME ChainTypeOK, HeadersAskForNibbles, HeaderDecoderStep
  PROVE  ChainTypeOK'
<1>1. PICK n \in 0 .. Len(nibs) :
        /\ nibs' = SubSeq(nibs, n + 1, Len(nibs))
        /\ \/ HeaderDrops(n)
           \/ \E frame \in FrameType, left \in Nat \ {0} :
                /\ n \in 1 .. left
                /\ HeaderCollects(frame, left, n)
                /\ Collected(frame, n) \in FrameType
                /\ \/ FrameGoesOn(frame, left)
                   \/ \E m \in HeaderMsgs : FrameStarts(frame, left, m)
  BY HeaderOutcome
<1>2. /\ nibs \in Seq(NibType) /\ fi_q \in Seq(HeaderMsgType) /\ frm_q \in Seq(FrameType)
      /\ posted \in Seq(FrameType) /\ hd_left \in Nat
      /\ Len(nibs) > 0
  BY HeaderOutcome DEF ChainTypeOK
<1>3. nibs' \in Seq(NibType)
  BY <1>1, <1>2, FrontDropped
<1>4. ASSUME NEW f, NEW m \in HeaderMsgs, nibs[1].tag # <<>>, f = nibs[1].tag[1].frame,
             fi_q' = Append(fi_q, [m EXCEPT !.frame = f])
      PROVE  fi_q' \in Seq(HeaderMsgType)
  <2>1. f \in Nat
    <3>1. nibs[1] \in NibType
      BY <1>2, ElementOfSeq
    <3>2. nibs[1].tag \in Seq(TagType)
      BY <3>1 DEF NibType
    <3>3. nibs[1].tag[1] \in TagType
      BY <3>2, <1>4, HeadTailProperties
    <3>4. QED
      BY <3>3, <1>4 DEF TagType
  <2>2. [m EXCEPT !.frame = f] \in HeaderMsgType
    BY <2>1, AnswerType, InputAssumption
  <2>3. QED
    BY <1>2, <1>4, <2>2, AppendProperties
<1>5. /\ fi_q' \in Seq(HeaderMsgType) /\ hd_left' \in Nat
      /\ frm_q' \in Seq(FrameType) /\ posted' \in Seq(FrameType)
  <2>1. CASE HeaderDrops(n)
    BY <1>2, <1>4, <2>1 DEF HeaderDrops
  <2>2. ASSUME NEW frame \in FrameType, NEW left \in Nat \ {0}, n \in 1 .. left,
               HeaderCollects(frame, left, n), Collected(frame, n) \in FrameType,
               \/ FrameGoesOn(frame, left)
               \/ \E m \in HeaderMsgs : FrameStarts(frame, left, m)
        PROVE  /\ fi_q' \in Seq(HeaderMsgType) /\ hd_left' \in Nat
               /\ frm_q' \in Seq(FrameType) /\ posted' \in Seq(FrameType)
    <3>1. fi_q' \in Seq(HeaderMsgType)
      <4>1. CASE FrameGoesOn(frame, left)
        BY <1>2, <4>1 DEF FrameGoesOn
      <4>2. ASSUME NEW m \in HeaderMsgs, FrameStarts(frame, left, m)
            PROVE  fi_q' \in Seq(HeaderMsgType)
        <5>1. /\ nibs[1].tag # <<>> /\ frame.frame = nibs[1].tag[1].frame
              /\ fi_q' = Append(fi_q, [m EXCEPT !.frame = frame.frame])
          BY <4>2 DEF FrameStarts
        <5>2. QED
          BY <5>1, <1>4
      <4>3. QED
        BY <2>2, <4>1, <4>2
    <3>2. hd_left' \in Nat
      BY <2>2 DEF HeaderCollects
    <3>3. frm_q' \in Seq(FrameType) /\ posted' \in Seq(FrameType)
      <4> DEFINE C == Collected(frame, n)
      <4>1. C \in FrameType
        BY <2>2
      <4>2. \/ posted' = Append(posted, C) /\ frm_q' = Append(frm_q, C)
            \/ posted' = posted /\ frm_q' = frm_q
        BY <2>2, Zenon DEF HeaderCollects
      <4> HIDE DEF C
      <4>3. Append(posted, C) \in Seq(FrameType) /\ Append(frm_q, C) \in Seq(FrameType)
        BY <1>2, <4>1, AppendProperties
      <4>4. QED
        BY <1>2, <4>2, <4>3
    <3>4. QED
      BY <3>1, <3>2, <3>3
  <2>3. QED
    BY <1>1, <2>1, <2>2
<1>6. hd_frame' \in FrameType
  BY HeaderOutcome
<1>7. QED
  BY <1>3, <1>5, <1>6 DEF HeaderDecoderStep, ChainTypeOK, demodState, deinterState

\* The nibbles up to n, the first of which has a header tag: they are of that
\* frame or of later ones, and all that has been taken before is older.
LEMMA HeaderComesFirst ==
  ASSUME ChainTypeOK, OrderInv, Len(nibs) > 0, NEW n \in 1 .. Len(nibs),
         nibs[1].tag # <<>>, nibs[1].tag[1].is_header, NEW f, f = nibs[1].tag[1].frame
  PROVE  /\ f \in All(NibItems, n).hdr /\ f \in All(NibItems, n).own
         /\ \A o \in All(NibItems, n).own : f <= o
         /\ \A o \in Done.own : o < f
         /\ \A o \in accepted : o < f
<1>1. nibs \in Seq(NibType) /\ Len(nibs) \in Nat /\ 1 \in 1 .. n /\ 1 \in 1 .. Len(nibs)
  BY DEF ChainTypeOK
<1>2. f \in HdrOf(nibs[1].tag)
  <2>1. nibs[1] \in NibType
    BY <1>1, ElementOfSeq
  <2>2. nibs[1].tag \in Seq(TagType)
    BY <2>1 DEF NibType
  <2>3. 1 \in 1 .. Len(nibs[1].tag)
    BY <2>2, EmptySeq
  <2>4. QED
    BY <2>3 DEF HdrOf
<1>3. f \in NibItems[1].hdr
  BY <1>1, <1>2 DEF NibItems
<1>4. f \in NibItems[1].own /\ \A o \in NibItems[1].own : f <= o
  BY <1>1, <1>3 DEF OrderInv, TagsOnOwn, OnOwn
<1>5. \A i \in 1 .. n : i # 1 => \A o \in NibItems[i].own : f <= o
  <2>1. \A i \in 1 .. n : i # 1 => Before(NibItems[1], NibItems[i])
    BY <1>1 DEF OrderInv, AllSorted, Sorted
  <2>2. QED
    BY <2>1, <1>3 DEF Before
<1>6. f \in All(NibItems, n).hdr /\ f \in All(NibItems, n).own
  BY <1>1, <1>3, <1>4 DEF All
<1>7. \A o \in All(NibItems, n).own : f <= o
  BY <1>4, <1>5 DEF All
<1>8. Before(Done, Nibs) /\ f \in Nibs.hdr
  <2>1. Line[1] = Done /\ Line[2] = Nibs
    BY DEF Line
  <2>2. Before(Done, Nibs)
    BY <2>1 DEF OrderInv, InLine
  <2>3. f \in Nibs.hdr
    BY <1>1, <1>3 DEF Nibs, All
  <2>4. QED
    BY <2>2, <2>3
<1>9. QED
  BY <1>6, <1>7, <1>8 DEF Before, Done

\* What happens to the nibbles, whichever way.
LEMMA NibblesTaken ==
  ASSUME ChainTypeOK, OrderInv, NEW n \in 0 .. Len(nibs),
         nibs' = SubSeq(nibs, n + 1, Len(nibs))
  PROVE  /\ Part(Nibs', Nibs) /\ Part(All(NibItems, n), Nibs) /\ Before(All(NibItems, n), Nibs')
         /\ Sorted(NibItems', Len(nibs')) /\ \A i \in 1 .. Len(nibs') : OnOwn(NibItems'[i])
<1> DEFINE b == Len(nibs) - n
<1>1. nibs \in Seq(NibType) /\ n \in Nat /\ b \in Nat /\ Len(nibs) = n + b
  BY DEF ChainTypeOK
<1>2. Len(nibs') = b /\ \A i \in 1 .. b : nibs'[i] = nibs[i + n]
  BY <1>1, FrontDropped
<1>3. \A i \in 1 .. b : NibItems'[i] = NibItems[i + n] /\ i + n \in 1 .. Len(nibs)
  <2>1. \A i \in 1 .. b : i + n \in 1 .. Len(nibs)
    BY <1>1
  <2>2. QED
    BY <2>1, <1>2 DEF NibItems
<1>4. Sorted(NibItems, n + b)
  BY <1>1 DEF OrderInv, AllSorted
<1>5. /\ Sorted(NibItems', b)
      /\ Part(All(NibItems', b), All(NibItems, n + b))
      /\ Part(All(NibItems, n), All(NibItems, n + b))
      /\ Before(All(NibItems, n), All(NibItems', b))
  BY <1>1, <1>3, <1>4, FrontGone
<1>6. Nibs = All(NibItems, n + b) /\ Nibs' = All(NibItems', b)
  BY <1>1, <1>2 DEF Nibs
<1>7. \A i \in 1 .. Len(nibs') : OnOwn(NibItems'[i])
  BY <1>2, <1>3 DEF OrderInv, TagsOnOwn
<1>8. QED
  BY <1>2, <1>5, <1>6, <1>7

\* What is taken is what the Decoder's end of the line gets.
LEMMA FrameTakesNibbles ==
  ASSUME ChainTypeOK, OrderInv, Len(nibs) > 0, NEW n \in 1 .. Len(nibs),
         NEW frame \in FrameType, NEW left \in Nat \ {0}, n \in 1 .. left,
         HeaderCollects(frame, left, n), Collected(frame, n) \in FrameType,
         FrameGoesOn(frame, left) \/ \E m \in HeaderMsgs : FrameStarts(frame, left, m)
  PROVE  Part(Done', Both(Done, All(NibItems, n)))
<1> DEFINE F == All(NibItems, n)
           C == Collected(frame, n)
<1>1. nibs \in Seq(NibType) /\ posted \in Seq(FrameType) /\ Len(posted) \in Nat /\ Len(nibs) \in Nat
  BY DEF ChainTypeOK
<1>2. C.origin = frame.origin \cup F.own
  <2>1. \A i \in 1 .. n : NibItems[i].own = nibs[i].origin
    BY <1>1 DEF NibItems
  <2>2. F.own = UNION {nibs[i].origin : i \in 1 .. n}
    BY <2>1 DEF All
  <2>3. QED
    BY <2>2 DEF Collected
<1>3. frame.origin \subseteq Done.own
  <2>1. CASE FrameGoesOn(frame, left)
    BY <2>1 DEF FrameGoesOn, Done, Kept
  <2>2. ASSUME NEW m \in HeaderMsgs, FrameStarts(frame, left, m) PROVE frame.origin = {}
    BY <2>2 DEF FrameStarts
  <2>3. QED
    BY <2>1, <2>2
<1>4. accepted' \subseteq accepted \cup F.hdr
  <2>1. CASE FrameGoesOn(frame, left)
    BY <2>1 DEF FrameGoesOn
  <2>2. ASSUME NEW m \in HeaderMsgs, FrameStarts(frame, left, m)
        PROVE  accepted' \subseteq accepted \cup F.hdr
    <3>1. /\ accepted' = accepted \cup {nibs[1].tag[1].frame}
          /\ nibs[1].tag # <<>> /\ nibs[1].tag[1].is_header
      BY <2>2 DEF FrameStarts
    <3>2. nibs[1].tag[1].frame \in F.hdr
      BY <3>1, HeaderComesFirst
    <3>3. QED
      BY <3>1, <3>2
  <2>3. QED
    BY <2>1, <2>2
<1> HIDE DEF C, F
<1>5. Done'.own \subseteq Done.own \cup F.own
  <2>1. Done.own = Sent \cup Kept /\ Done'.own = Sent' \cup Kept'
    BY DEF Done
  <2>3. CASE left = n /\ posted' = Append(posted, C) /\ hd_left' = left - n
    <3>1. C \in FrameType
      BY DEF C
    <3>2. /\ Len(posted') = Len(posted) + 1
          /\ \A i \in 1 .. Len(posted) : posted'[i] = posted[i]
          /\ posted'[Len(posted) + 1] = C
      BY <1>1, <2>3, <3>1, AppendProperties
    <3>3. \A i \in 1 .. Len(posted) + 1 : i \in 1 .. Len(posted) \/ i = Len(posted) + 1
      BY <1>1
    <3>4. \A i \in 1 .. Len(posted') : posted'[i].origin \subseteq Sent \cup C.origin
      BY <3>2, <3>3 DEF Sent
    <3>5. Sent' \subseteq Sent \cup C.origin
      BY <3>4 DEF Sent
    <3>6. Kept' = {}
      BY <2>3 DEF Kept
    <3>7. QED
      BY <2>1, <3>5, <3>6, <1>2, <1>3
  <2>4. CASE hd_frame' = C /\ posted' = posted
    <3>1. Sent' = Sent /\ Kept' \subseteq C.origin
      BY <2>4 DEF Sent, Kept
    <3>2. QED
      BY <3>1, <2>1, <1>2, <1>3
  <2>5. QED
    BY <2>3, <2>4 DEF HeaderCollects, C
<1>6. QED
  BY <1>4, <1>5 DEF Part, Both, Done, F

LEMMA HeaderDecoderKeepsOrder ==
  ASSUME TypeOK, ChainTypeOK, OrderInv, HeadersAskForNibbles, HeaderDecoderStep
  PROVE  OrderInv'
<1>1. PICK n \in 0 .. Len(nibs) :
        /\ nibs' = SubSeq(nibs, n + 1, Len(nibs))
        /\ \/ HeaderDrops(n)
           \/ \E frame \in FrameType, left \in Nat \ {0} :
                /\ n \in 1 .. left
                /\ HeaderCollects(frame, left, n)
                /\ Collected(frame, n) \in FrameType
                /\ \/ FrameGoesOn(frame, left)
                   \/ \E m \in HeaderMsgs : FrameStarts(frame, left, m)
  BY HeaderOutcome
<1> DEFINE F == All(NibItems, n)
<1>2. /\ Part(Nibs', Nibs) /\ Part(F, Nibs) /\ Before(F, Nibs')
      /\ Sorted(NibItems', Len(nibs'))
      /\ \A i \in 1 .. Len(nibs') : OnOwn(NibItems'[i])
  BY <1>1, NibblesTaken
<1>3. /\ UNCHANGED <<sync_out, words, pend, frame_cnt, m_state, fd_out, fd_frame_info>>
      /\ UNCHANGED <<Words, Block, Syms, Pend, SymItems, WordItems>>
      /\ Started'
      /\ Len(pend') = 1 => HdrOf(pend') \subseteq {frame_cnt'}
  BY DEF HeaderDecoderStep, vars, demodState, Words, Block, Syms, Pend, SymItems, WordItems,
         OrderInv, TagsOnOwn, Started
<1>4. Part(Done', Both(Done, F))
  <2>1. CASE HeaderDrops(n)
    <3>1. Done' = Done
      BY <2>1 DEF HeaderDrops, Done, Sent, Kept
    <3>2. QED
      BY <3>1 DEF Part, Both
  <2>2. ASSUME NEW frame \in FrameType, NEW left \in Nat \ {0}, n \in 1 .. left,
               HeaderCollects(frame, left, n), Collected(frame, n) \in FrameType,
               FrameGoesOn(frame, left) \/ \E m \in HeaderMsgs : FrameStarts(frame, left, m)
        PROVE  Part(Done', Both(Done, F))
    <3>1. n \in 1 .. Len(nibs) /\ Len(nibs) > 0
      BY <1>1, <2>2, HeaderOutcome
    <3>2. QED
      BY <2>2, <3>1, FrameTakesNibbles
  <2>3. QED
    BY <1>1, <2>1, <2>2
<1> HIDE DEF F
<1>5. /\ \A j \in 3 .. 6 : Line'[j] = Line[j]
      /\ Line[1] = Done /\ Line'[1] = Done' /\ Line[2] = Nibs /\ Line'[2] = Nibs'
      /\ \A j \in 1 .. 6 : j \in 3 .. 6 \/ j = 1 \/ j = 2
  BY <1>3 DEF Line
<1>6. \A j \in 1 .. 6 \ {1} : Part(Line'[j], Line[j])
  <2>1. \A x : Part(x, x)
    BY DEF Part
  <2>2. QED
    BY <1>2, <1>5, <2>1
<1>7. InLine(Line) /\ Known(Line) /\ 1 \in 1 .. 5 /\ 1 + 1 = 2
  BY DEF OrderInv
<1>8. Part(F, Line[1 + 1]) /\ Before(F, Line'[1 + 1]) /\ Part(Line'[1], Both(Line[1], F))
  BY <1>2, <1>4, <1>5, <1>7
<1>9. InLine(Line')
  BY <1>6, <1>7, <1>8, Advance
<1>10. Known(Line)'
  <2>1. Part(Line'[1], Both(Line[1], Line[1 + 1]))
    BY <1>8 DEF Part, Both
  <2>2. Known(Line')
    BY <1>6, <1>7, <2>1, StillKnown
  <2>3. QED
    BY <2>2, <1>3 DEF Known
<1>11. BlockOnOwn'
  BY <1>3 DEF OrderInv, TagsOnOwn, BlockOnOwn
<1>12. AllSorted' /\ TagsOnOwn'
  BY <1>2, <1>3, <1>11 DEF OrderInv, AllSorted, TagsOnOwn
<1>13. QED
  BY <1>3, <1>9, <1>10, <1>12 DEF OrderInv

\* A frame that takes n nibbles stays whole, its header newer than all before.
LEMMA FrameStaysWhole ==
  ASSUME ChainTypeOK, OrderInv, CollectInv, Len(nibs) > 0, NEW n \in 1 .. Len(nibs),
         NEW frame \in FrameType, NEW left \in Nat \ {0}, n \in 1 .. left,
         Collected(frame, n) \in FrameType,
         FrameGoesOn(frame, left) \/ \E m \in HeaderMsgs : FrameStarts(frame, left, m)
  PROVE  LET C == Collected(frame, n)
         IN  /\ C.origin \cap accepted' = {C.frame}
             /\ Asked(C, C.count + (left - n))
             /\ \A i \in 1 .. Len(posted) : posted[i].frame < C.frame
             /\ \A f \in accepted' : f <= C.frame
             /\ \A i \in 1 .. Len(posted) : posted[i].origin \cap accepted' = {posted[i].frame}
<1> DEFINE F == All(NibItems, n)
           C == Collected(frame, n)
<1>1. /\ nibs \in Seq(NibType) /\ posted \in Seq(FrameType) /\ Len(posted) \in Nat
      /\ Len(nibs) \in Nat /\ accepted \subseteq Nat /\ F.own \subseteq Nat
  <2>1. Done.hdr \subseteq 1 .. frame_cnt /\ Nibs.own \subseteq 1 .. frame_cnt
    <3>1. Line[1] = Done /\ Line[2] = Nibs
      BY DEF Line
    <3>2. QED
      BY <3>1 DEF OrderInv, Known
  <2>2. F.own \subseteq Nibs.own
    <3>1. \A i \in 1 .. n : i \in 1 .. Len(nibs)
      OBVIOUS
    <3>2. QED
      BY <3>1 DEF Nibs, All
  <2>3. /\ nibs \in Seq(NibType) /\ posted \in Seq(FrameType)
        /\ Len(posted) \in Nat /\ Len(nibs) \in Nat
    BY DEF ChainTypeOK
  <2>4. accepted \subseteq 1 .. frame_cnt
    BY <2>1 DEF Done
  <2>5. 1 .. frame_cnt \subseteq Nat
    OBVIOUS
  <2> HIDE DEF F
  <2>6. QED
    BY <2>1, <2>2, <2>3, <2>4, <2>5
<1>2. /\ C.frame = frame.frame /\ C.has_crc = frame.has_crc /\ C.count = frame.count + n
      /\ C.origin = frame.origin \cup F.own
  <2>1. \A i \in 1 .. n : NibItems[i].own = nibs[i].origin
    BY <1>1 DEF NibItems
  <2>2. F.own = UNION {nibs[i].origin : i \in 1 .. n}
    BY <2>1 DEF All
  <2>3. QED
    BY <2>2 DEF Collected
<1>3. frame.frame \in Nat /\ frame.count \in Nat
  BY DEF FrameType
<1> HIDE DEF F, C
<1>4. \A i \in 1 .. Len(posted) :
        /\ posted[i].origin \cap accepted = {posted[i].frame}
        /\ posted[i].frame \in posted[i].origin /\ posted[i].origin \subseteq Done.own
  BY DEF CollectInv, Whole, Done, Sent
<1>5. CASE FrameGoesOn(frame, left)
  <2>1. /\ accepted' = accepted /\ frame = hd_frame /\ left = hd_left /\ hd_left > 0
        /\ \A i \in 1 .. Len(posted) : posted[i].frame < frame.frame
        /\ \A f \in accepted : f <= frame.frame
        /\ frame.origin \cap accepted = {frame.frame}
        /\ Asked(frame, frame.count + left)
    BY <1>5 DEF FrameGoesOn, CollectInv, Whole
  <2>2. Before(Done, Nibs) /\ Part(F, Nibs)
    <3>1. Line[1] = Done /\ Line[2] = Nibs
      BY DEF Line
    <3>2. \A i \in 1 .. n : i \in 1 .. Len(nibs)
      BY <1>1
    <3>3. Part(F, Nibs)
      BY <3>2 DEF Part, All, Nibs, F
    <3>4. QED
      BY <3>1, <3>3 DEF OrderInv, InLine
  <2>3. \A h \in accepted, o \in F.own : h <= o
    BY <2>2 DEF Before, Part, Done
  <2>4. frame.frame \in accepted
    BY <2>1
  <2>5. \A o \in F.own \cap accepted : o = frame.frame
    BY <2>1, <2>3, <2>4, <1>1, <1>3
  <2>6. C.origin \cap accepted' = {C.frame}
    BY <1>2, <2>1, <2>5
  <2>7. Asked(C, C.count + (left - n))
    <3>1. C.count + (left - n) = frame.count + left
      BY <1>2, <1>3
    <3>2. QED
      BY <3>1, <1>2, <2>1 DEF Asked
  <2>8. QED
    BY <1>2, <1>4, <2>1, <2>6, <2>7 DEF C
<1>6. ASSUME NEW m \in HeaderMsgs, FrameStarts(frame, left, m)
      PROVE  /\ C.origin \cap accepted' = {C.frame}
             /\ Asked(C, C.count + (left - n))
             /\ \A i \in 1 .. Len(posted) : posted[i].frame < C.frame
             /\ \A f \in accepted' : f <= C.frame
             /\ \A i \in 1 .. Len(posted) : posted[i].origin \cap accepted' = {posted[i].frame}
  <2>1. /\ ~m.err /\ nibs[1].tag # <<>> /\ nibs[1].tag[1].is_header
        /\ frame.frame = nibs[1].tag[1].frame /\ frame.has_crc = m.crc
        /\ frame.count = 0 /\ frame.origin = {} /\ left = FrameNibbles(m)
        /\ accepted' = accepted \cup {frame.frame}
    BY <1>6 DEF FrameStarts
  <2>2. /\ frame.frame \in F.own
        /\ \A o \in F.own : frame.frame <= o
        /\ \A o \in Done.own : o < frame.frame
        /\ \A o \in accepted : o < frame.frame
    BY <2>1, HeaderComesFirst DEF F
  <2>3. C.origin \cap accepted' = {C.frame}
    <3>1. \A o \in F.own \cap accepted : FALSE
      BY <2>2, <1>1, <1>3
    <3>2. QED
      BY <3>1, <1>2, <2>1, <2>2
  <2>4. Asked(C, C.count + (left - n))
    <3>1. C.count + (left - n) = FrameNibbles(m)
      BY <1>2, <1>3, <2>1
    <3>2. QED
      BY <3>1, <1>2, <2>1 DEF Asked
  <2>5. \A i \in 1 .. Len(posted) : posted[i].frame < C.frame
    BY <1>2, <1>4, <2>2
  <2>6. \A f \in accepted' : f <= C.frame
    BY <1>1, <1>2, <1>3, <2>1, <2>2
  <2>7. ASSUME NEW i \in 1 .. Len(posted)
        PROVE  posted[i].origin \cap accepted' = {posted[i].frame}
    <3>1. frame.frame \notin posted[i].origin
      BY <1>3, <1>4, <2>2
    <3>2. QED
      BY <3>1, <1>4, <2>1
  <2>8. QED
    BY <2>3, <2>4, <2>5, <2>6, <2>7
<1>7. QED
  BY <1>5, <1>6 DEF C

LEMMA HeaderDecoderKeepsWhole ==
  ASSUME ChainTypeOK, OrderInv, CollectInv, HeadersAskForNibbles, HeaderDecoderStep
  PROVE  CollectInv'
<1>1. PICK n \in 0 .. Len(nibs) :
        /\ nibs' = SubSeq(nibs, n + 1, Len(nibs))
        /\ \/ HeaderDrops(n)
           \/ \E frame \in FrameType, left \in Nat \ {0} :
                /\ n \in 1 .. left
                /\ HeaderCollects(frame, left, n)
                /\ Collected(frame, n) \in FrameType
                /\ \/ FrameGoesOn(frame, left)
                   \/ \E m \in HeaderMsgs : FrameStarts(frame, left, m)
  BY HeaderOutcome
<1>2. posted \in Seq(FrameType) /\ Len(posted) \in Nat /\ Len(nibs) > 0 /\ hd_left \in Nat
  BY HeaderOutcome DEF ChainTypeOK
<1>3. CASE HeaderDrops(n)
  BY <1>3 DEF HeaderDrops, CollectInv, Whole, Asked
<1>4. ASSUME NEW frame \in FrameType, NEW left \in Nat \ {0}, n \in 1 .. left,
             HeaderCollects(frame, left, n), Collected(frame, n) \in FrameType,
             FrameGoesOn(frame, left) \/ \E m \in HeaderMsgs : FrameStarts(frame, left, m)
      PROVE  CollectInv'
  <2> DEFINE C == Collected(frame, n)
  <2>1. n \in 1 .. Len(nibs) /\ n \in Nat
    BY <1>1, <1>4
  <2>2. /\ C.origin \cap accepted' = {C.frame}
        /\ Asked(C, C.count + (left - n))
        /\ \A i \in 1 .. Len(posted) : posted[i].frame < C.frame
        /\ \A f \in accepted' : f <= C.frame
        /\ \A i \in 1 .. Len(posted) : posted[i].origin \cap accepted' = {posted[i].frame}
    BY <1>2, <1>4, <2>1, FrameStaysWhole
  <2>3. C \in FrameType /\ C.count \in Nat
    BY <1>4 DEF FrameType
  <2> HIDE DEF C
  <2>4. /\ \A i, j \in 1 .. Len(posted) : i < j => posted[i].frame < posted[j].frame
        /\ \A i \in 1 .. Len(posted) : Asked(posted[i], posted[i].count)
    BY DEF CollectInv, Whole
  <2>5. CASE left = n /\ posted' = Append(posted, C) /\ hd_left' = left - n
    <3> DEFINE a == Len(posted)
    <3>1. /\ Len(posted') = a + 1
          /\ \A i \in 1 .. a : posted'[i] = posted[i]
          /\ posted'[a + 1] = C
      BY <1>2, <2>3, <2>5, AppendProperties
    <3>2. \A i \in 1 .. a + 1 : i \in 1 .. a \/ i = a + 1
      BY <1>2
    <3>3. ~(hd_left' > 0) /\ C.count + (left - n) = C.count
      BY <2>3, <2>5
    <3>4. ASSUME NEW i \in 1 .. a + 1, NEW j \in 1 .. a + 1, i < j
          PROVE  posted'[i].frame < posted'[j].frame
      <4>1. i \in 1 .. a
        BY <3>2, <3>4, <1>2
      <4>2. CASE j \in 1 .. a
        BY <4>1, <4>2, <3>1, <3>4, <2>4
      <4>3. CASE j = a + 1
        BY <4>1, <4>3, <3>1, <2>2
      <4>4. QED
        BY <3>2, <4>2, <4>3
    <3>5. ASSUME NEW i \in 1 .. a + 1
          PROVE  /\ posted'[i].origin \cap accepted' = {posted'[i].frame}
                 /\ Asked(posted'[i], posted'[i].count)
      <4>1. CASE i \in 1 .. a
        BY <4>1, <3>1, <2>2, <2>4
      <4>2. CASE i = a + 1
        BY <4>2, <3>1, <3>3, <2>2
      <4>3. QED
        BY <3>2, <4>1, <4>2
    <3>6. QED
      BY <3>1, <3>3, <3>4, <3>5 DEF CollectInv, Whole, Asked
  <2>6. CASE left # n /\ hd_frame' = C /\ posted' = posted /\ hd_left' = left - n
    BY <2>2, <2>4, <2>6 DEF CollectInv, Whole, Asked
  <2>7. QED
    BY <1>4, <2>5, <2>6 DEF HeaderCollects, C
<1>5. QED
  BY <1>1, <1>3, <1>4

(***************************************************************************)
(* The invariant of the chain.                                             *)
(***************************************************************************)
\* The handlers and the Decoder leave the line alone.
LineUnchanged ==
  UNCHANGED <<sync_out, words, nibs, fd_out, fd_frame_info, hd_left, hd_frame, posted,
              accepted, pend, frame_cnt>>

LEMMA LineStays ==
  ASSUME OrderInv, CollectInv, LineUnchanged, m_state' = "SfoCompensation" => m_state' = m_state
  PROVE  OrderInv' /\ CollectInv'
<1>1. UNCHANGED <<NibItems, WordItems, SymItems>>
  BY DEF LineUnchanged, NibItems, WordItems, SymItems
<1>2. UNCHANGED <<Done, Nibs, Words, Block, Syms, Pend>>
  BY <1>1 DEF LineUnchanged, Done, Sent, Kept, Nibs, Words, Block, Syms, Pend
<1>3. Line' = Line
  BY <1>2 DEF Line
<1>4. InLine(Line') /\ Known(Line)'
  BY <1>3 DEF OrderInv, Known, LineUnchanged
<1>5. AllSorted' /\ TagsOnOwn'
  BY <1>1 DEF OrderInv, AllSorted, TagsOnOwn, BlockOnOwn, LineUnchanged
<1>6. Started'
  BY DEF OrderInv, Started, LineUnchanged
<1>7. CollectInv'
  BY DEF CollectInv, Whole, LineUnchanged
<1>8. QED
  BY <1>4, <1>5, <1>6, <1>7 DEF OrderInv

LEMMA ChainInitHolds == ChainInit => ChainInv
<1> SUFFICES ASSUME ChainInit PROVE ChainInv
  OBVIOUS
<1>1. IInv
  BY InitHolds DEF ChainInit
<1>2. /\ sync_out = <<>> /\ words = <<>> /\ nibs = <<>> /\ fd_out = <<>> /\ fd_frame_info = <<>>
      /\ hd_left = 0 /\ posted = <<>> /\ accepted = {} /\ pend = <<>> /\ frame_cnt = 0
      /\ m_state = "Detect"
  BY DEF ChainInit, Init, FD!DemodInit, DI!DeinterInit, HD!HeaderInit
<1>3. ChainTypeOK
  <2>1. hd_frame \in FrameType
    BY DEF ChainInit, HD!HeaderInit, HD!EmptyFrame, FrameType
  <2>2. /\ fd_is_header \in BOOLEAN /\ fd_cr \in Nat /\ di_is_header \in BOOLEAN /\ di_cr \in Nat
    BY DEF ChainInit, FD!DemodInit, DI!DeinterInit
  <2>3. fi_q = <<>> /\ frm_q = <<>> /\ crc_q = <<>>
    BY DEF ChainInit, HD!HeaderInit, DE!DecoderInit
  <2>4. \A S : <<>> \in Seq(S)
    OBVIOUS
  <2>5. QED
    BY <1>2, <2>1, <2>2, <2>3, <2>4 DEF ChainTypeOK
<1>4. Len(<<>>) = 0 /\ 1 .. 0 = {}
  OBVIOUS
<1> DEFINE E == [own |-> {}, hdr |-> {}]
<1>5. Nibs = E /\ Words = E /\ Block = E /\ Syms = E /\ Pend = E /\ Done = E
  <2>1. \A x : UNION {x[i].own : i \in {}} = {} /\ UNION {x[i].hdr : i \in {}} = {}
    OBVIOUS
  <2>2. \A x : All(x, 0) = E
    BY <1>4, <2>1 DEF All
  <2>3. Nibs = E /\ Words = E /\ Syms = E
    BY <1>2, <1>4, <2>2 DEF Nibs, Words, Syms
  <2>4. Block = E
    BY <1>2, <1>4, HdrNone DEF Block
  <2>5. Pend = E
    BY <1>2, HdrNone DEF Pend
  <2>6. Sent = {} /\ Kept = {}
    BY <1>2, <1>4 DEF Sent, Kept
  <2>7. QED
    BY <1>2, <2>3, <2>4, <2>5, <2>6 DEF Done
<1>6. \A k \in 1 .. 6 : Line[k] = E
  BY <1>5 DEF Line
<1>7. InLine(Line) /\ Known(Line)
  BY <1>6 DEF InLine, Known, Before
<1>8. AllSorted /\ TagsOnOwn /\ Started
  BY <1>2, <1>4, HdrNone DEF AllSorted, Sorted, TagsOnOwn, BlockOnOwn, Started
<1>9. CollectInv
  BY <1>2, <1>4 DEF CollectInv
<1>10. QED
  BY <1>1, <1>3, <1>7, <1>8, <1>9 DEF ChainInv, OrderInv

LEMMA ChainNextHolds ==
  ASSUME HeadersAskForNibbles, ChainInv, [ChainNext]_chainVars
  PROVE  ChainInv'
<1>1. IInv /\ TypeOK /\ ChainTypeOK /\ OrderInv /\ CollectInv
  BY DEF ChainInv, IInv
<1>2. UNCHANGED vars => IInv'
  BY <1>1, NextStep
<1>3. CASE FrameSyncStep
  <2>1. IInv' /\ TypeOK'
    BY <1>1, <1>3, WorkStep DEF FrameSyncStep, IInv
  <2>2. CollectInv'
    BY <1>1, <1>3 DEF FrameSyncStep, headerState, CollectInv, Whole
  <2>3. QED
    BY <1>1, <1>3, <2>1, <2>2, FrameSyncKeepsTypes, FrameSyncKeepsOrder DEF ChainInv
<1>4. CASE FftDemodStep
  <2>1. IInv' /\ CollectInv'
    BY <1>1, <1>2, <1>4 DEF FftDemodStep, headerState, ghosts, CollectInv, Whole
  <2>2. QED
    BY <1>1, <1>4, <2>1, FftDemodKeepsTypes, FftDemodKeepsOrder DEF ChainInv
<1>5. CASE DeinterleaverStep
  <2>1. IInv' /\ CollectInv'
    BY <1>1, <1>2, <1>5 DEF DeinterleaverStep, headerState, ghosts, CollectInv, Whole
  <2>2. QED
    BY <1>1, <1>5, <2>1, DeinterleaverKeepsTypes, DeinterleaverKeepsOrder DEF ChainInv
<1>6. CASE HeaderDecoderStep
  <2>1. IInv'
    BY <1>2, <1>6 DEF HeaderDecoderStep
  <2>2. QED
    BY <1>1, <1>6, <2>1, HeaderDecoderKeepsTypes, HeaderDecoderKeepsOrder,
       HeaderDecoderKeepsWhole DEF ChainInv
<1>7. CASE DecoderStep
  <2>1. IInv'
    BY <1>2, <1>7 DEF DecoderStep
  <2>2. LineUnchanged /\ m_state' = m_state
    BY <1>7 DEF DecoderStep, LineUnchanged, vars, streamVars, demodState, headerState
  <2>3. ChainTypeOK'
    <3>1. frm_q \in Seq(FrameType) /\ frm_q # <<>> /\ frm_q' = Tail(frm_q)
      BY <1>1, <1>7 DEF ChainTypeOK, DecoderStep, DE!DecoderWork
    <3>2. Tail(frm_q) \in Seq(FrameType) /\ Head(frm_q) \in FrameType
      BY <3>1, HeadTailProperties
    <3>3. crc_q' = crc_q \/ \E v \in BOOLEAN :
                              crc_q' = Append(crc_q, [valid |-> v, frame |-> Head(frm_q).frame])
      BY <1>7 DEF DecoderStep, DE!DecoderWork, DE!DecodeNoCrc, DE!DecodeTooShort, DE!DecodeCrc
    <3>4. \A v \in BOOLEAN :
            [valid |-> v, frame |-> Head(frm_q).frame] \in [valid : BOOLEAN, frame : Nat]
      BY <3>2 DEF FrameType
    <3>5. crc_q' \in Seq([valid : BOOLEAN, frame : Nat])
      <4>1. crc_q \in Seq([valid : BOOLEAN, frame : Nat])
        BY <1>1 DEF ChainTypeOK
      <4>2. CASE crc_q' = crc_q
        BY <4>1, <4>2
      <4>3. ASSUME NEW v \in BOOLEAN,
                   crc_q' = Append(crc_q, [valid |-> v, frame |-> Head(frm_q).frame])
            PROVE  crc_q' \in Seq([valid : BOOLEAN, frame : Nat])
        <5>1. PICK r \in [valid : BOOLEAN, frame : Nat] : crc_q' = Append(crc_q, r)
          BY <3>4, <4>3
        <5>2. QED
          BY <4>1, <5>1, AppendProperties
      <4>4. QED
        BY <3>3, <4>2, <4>3
    <3>6. QED
      BY <1>1, <1>7, <3>1, <3>2, <3>5 DEF DecoderStep, ChainTypeOK, streamVars, demodState,
                                          deinterState, headerState
  <2>4. QED
    BY <1>1, <2>1, <2>2, <2>3, LineStays DEF ChainInv
<1>8. CASE FrameInfoStep
  <2>1. fi_q \in Seq(HeaderMsgType) /\ fi_q # <<>> /\ fi_q' = Tail(fi_q)
    BY <1>1, <1>8 DEF FrameInfoStep, ChainTypeOK
  <2>2. Head(fi_q) \in HeaderMsgType /\ Tail(fi_q) \in Seq(HeaderMsgType)
    BY <2>1, HeadTailProperties
  <2>3. IInv'
    BY <1>1, <1>8, <2>2, FrameInfoHandled DEF FrameInfoStep
  <2>4. ChainTypeOK'
    BY <1>1, <1>8, <2>1, <2>2 DEF FrameInfoStep, ChainTypeOK, streamVars, demodState,
                                  deinterState, headerState, ghosts
  <2>5. LineUnchanged /\ (m_state' = "SfoCompensation" => m_state' = m_state)
    BY <1>8 DEF FrameInfoStep, FrameInfo, FrameInfoBad, FrameInfoGood, FrameInfoPanics, Panic,
                Reset, LineUnchanged, streamVars, demodState, headerState, ghosts
  <2>6. QED
    BY <1>1, <2>3, <2>4, <2>5, LineStays DEF ChainInv
<1>9. CASE PayloadCrcStep
  <2>1. crc_q \in Seq([valid : BOOLEAN, frame : Nat]) /\ crc_q # <<>> /\ crc_q' = Tail(crc_q)
    BY <1>1, <1>9 DEF PayloadCrcStep, ChainTypeOK
  <2>2. /\ Head(crc_q).valid \in BOOLEAN
        /\ Tail(crc_q) \in Seq([valid : BOOLEAN, frame : Nat])
    <3>1. Head(crc_q) \in [valid : BOOLEAN, frame : Nat]
      BY <2>1, HeadTailProperties
    <3>2. Tail(crc_q) \in Seq([valid : BOOLEAN, frame : Nat])
      BY <2>1, HeadTailProperties
    <3>3. QED
      BY <3>1, <3>2
  <2>3. IInv'
    BY <1>1, <1>9, <2>2, PayloadCrcHandled DEF PayloadCrcStep
  <2>4. ChainTypeOK'
    BY <1>1, <1>9, <2>1, <2>2 DEF PayloadCrcStep, ChainTypeOK, streamVars, demodState,
                                  deinterState, headerState, ghosts
  <2>5. LineUnchanged /\ m_state' = m_state
    BY <1>9 DEF PayloadCrcStep, PayloadCrcResult, TakePayloadCrc, Panic, LineUnchanged,
                streamVars, demodState, headerState, ghosts
  <2>6. QED
    BY <1>1, <2>3, <2>4, <2>5, LineStays DEF ChainInv
<1>10. CASE RetuneStep
  <2>1. IInv'
    BY <1>1, <1>10, HandlerReset DEF RetuneStep, Retune
  <2>2. ChainTypeOK'
    BY <1>1, <1>10 DEF RetuneStep, ChainTypeOK, streamVars, demodState, deinterState,
                       headerState, messages
  <2>3. LineUnchanged /\ (m_state' = "SfoCompensation" => m_state' = m_state)
    BY <1>10 DEF RetuneStep, Retune, Reset, LineUnchanged, streamVars, demodState, headerState
  <2>4. QED
    BY <1>1, <2>1, <2>2, <2>3, LineStays DEF ChainInv
<1>11. CASE UNCHANGED chainVars
  <2>1. IInv'
    BY <1>2, <1>11 DEF chainVars
  <2>2. ChainTypeOK'
    BY <1>1, <1>11 DEF chainVars, ChainTypeOK, streamVars, demodState, deinterState, headerState,
                       messages, ghosts
  <2>3. LineUnchanged /\ m_state' = m_state
    BY <1>11 DEF chainVars, vars, LineUnchanged, streamVars, demodState, headerState, ghosts
  <2>4. QED
    BY <1>1, <2>1, <2>2, <2>3, LineStays DEF ChainInv
<1>12. QED
  BY <1>3, <1>4, <1>5, <1>6, <1>7, <1>8, <1>9, <1>10, <1>11 DEF ChainNext

\* The invariant with its hypothesis, which is one about constants.
LEMMA ChainInvariant == HeadersAskForNibbles /\ ChainSpec => []ChainInv
<1> DEFINE Hyp == HeadersAskForNibbles /\ ChainInv
<1>1. HeadersAskForNibbles /\ ChainInit => Hyp
  BY ChainInitHolds
<1>2. Hyp /\ [ChainNext]_chainVars => Hyp'
  <2> SUFFICES ASSUME Hyp, [ChainNext]_chainVars PROVE Hyp'
    OBVIOUS
  <2>1. ChainInv'
    BY ChainNextHolds
  <2>2. HeadersAskForNibbles'
    BY DEF HeadersAskForNibbles, FrameNibbles
  <2>3. QED
    BY <2>1, <2>2
<1>3. Hyp => ChainInv
  OBVIOUS
<1> HIDE DEF Hyp
<1>4. QED
  BY <1>1, <1>2, <1>3, PTL DEF ChainSpec

\* Functions on 1 .. n as sequences.
LEMMA FunctionIsSeq ==
  ASSUME NEW S, NEW n \in Nat, NEW e \in [1 .. n -> S]
  PROVE  e \in Seq(S) /\ Len(e) = n
<1>1. e \in Seq(S)
  OBVIOUS
<1>2. QED
  BY <1>1, LenProperties

LEMMA FunctionAppended ==
  ASSUME NEW S, NEW n \in Nat, NEW s \in Seq(S), Len(s) = n, NEW g \in [1 .. n + 1 -> S],
         \A i \in 1 .. n : g[i] = s[i]
  PROVE  g = Append(s, g[n + 1])
<1> DEFINE x == g[n + 1]
           t == Append(s, x)
<1>1. x \in S
  OBVIOUS
<1>2. g \in Seq(S) /\ Len(g) = n + 1
  BY FunctionIsSeq
<1> HIDE DEF x
<1>3. /\ t \in Seq(S) /\ Len(t) = n + 1 /\ t[n + 1] = x
      /\ \A i \in 1 .. n : t[i] = s[i]
  BY <1>1, AppendProperties
<1>4. \A i \in 1 .. n + 1 : i \in 1 .. n \/ i = n + 1
  OBVIOUS
<1> HIDE DEF t
<1>5. \A i \in 1 .. n + 1 : g[i] = t[i]
  BY <1>3, <1>4 DEF x
<1>6. g = t
  BY <1>2, <1>3, <1>5, SeqEqual
<1>7. QED
  BY <1>6 DEF t, x

\* A step of the chain finds a frame, delivers a newer one, or does neither.
LEMMA DeliveryStep ==
  ASSUME ChainInv, ChainInv', [ChainNext]_chainVars
  PROVE  [Delivery!Next]_<<frame_cnt, [i \in DOMAIN posted |-> posted[i].frame]>>
<1> DEFINE frames == [i \in DOMAIN posted |-> posted[i].frame]
<1>1. IInv /\ TypeOK /\ ChainTypeOK
  BY DEF ChainInv, IInv
<1>2. CASE FrameSyncStep
  <2>1. posted' = posted
    BY <1>2 DEF FrameSyncStep
  <2>2. frame_cnt' = frame_cnt \/ frame_cnt' = frame_cnt + 1
    BY <1>1, <1>2, WorkOutcome DEF FrameSyncStep, TagsAdded
  <2>3. QED
    BY <2>1, <2>2 DEF Delivery!Next, Delivery!Find
<1>3. CASE HeaderDecoderStep /\ posted' # posted
  <2> DEFINE n == Len(posted)
             r == frm_q'[Len(frm_q')]
             f == posted'[n + 1].frame
  <2>1. posted' = Append(posted, r) /\ frame_cnt' = frame_cnt
    BY <1>3 DEF HeaderDecoderStep, vars
  <2>2. posted \in Seq(FrameType) /\ posted' \in Seq(FrameType)
    BY <1>1 DEF ChainInv, ChainTypeOK
  <2> HIDE DEF r
  <2>3. /\ n \in Nat /\ Len(posted') = n + 1 /\ \A i \in 1 .. n : posted'[i] = posted[i]
        /\ DOMAIN posted = 1 .. n /\ DOMAIN posted' = 1 .. n + 1
    BY <2>1, <2>2, AppendProperties
  <2> HIDE DEF n
  <2>4. /\ \A i \in 1 .. n : posted'[i].frame < f
        /\ f \in accepted'
    <3>1. \A i \in 1 .. n : i \in 1 .. n + 1 /\ i < n + 1
      BY <2>3
    <3>2. n + 1 \in 1 .. n + 1
      BY <2>3
    <3>3. posted'[n + 1].origin \cap accepted' = {f}
      BY <2>3, <3>2 DEF ChainInv, CollectInv, Whole
    <3>4. QED
      BY <2>3, <3>1, <3>2, <3>3 DEF ChainInv, CollectInv
  <2>5. f \in 1 .. frame_cnt
    <3>1. Line'[1].hdr = accepted'
      BY DEF Line, Done
    <3>2. Line'[1].hdr \subseteq 1 .. frame_cnt'
      BY DEF ChainInv, OrderInv, Known
    <3>3. QED
      BY <2>1, <2>4, <3>1, <3>2
  <2> HIDE DEF f
  <2>6. frames \in Seq(Nat) /\ Len(frames) = n /\ \A i \in 1 .. n : frames[i] = posted[i].frame
    <3>1. \A i \in 1 .. n : posted[i].frame \in Nat
      <4>1. \A i \in 1 .. n : posted[i] \in FrameType
        BY <2>2, <2>3
      <4>2. QED
        BY <4>1 DEF FrameType
    <3>2. frames \in [1 .. n -> Nat]
      BY <2>3, <3>1
    <3>3. \A i \in 1 .. n : frames[i] = posted[i].frame
      BY <2>3
    <3> HIDE DEF frames
    <3>4. QED
      BY <2>3, <3>2, <3>3, FunctionIsSeq
  <2>7. frames' = Append(frames, f)
    <3>1. frames' = [i \in 1 .. n + 1 |-> posted'[i].frame]
      BY <2>3
    <3>2. \A i \in 1 .. n + 1 : posted'[i].frame \in Nat
      <4>1. \A i \in 1 .. n + 1 : posted'[i] \in FrameType
        BY <2>2, <2>3
      <4>2. QED
        BY <4>1 DEF FrameType
    <3>3. frames' \in [1 .. n + 1 -> Nat]
      BY <3>1, <3>2
    <3>4. n + 1 \in 1 .. n + 1 /\ \A i \in 1 .. n : i \in 1 .. n + 1
      BY <2>3
    <3>5. frames'[n + 1] = f /\ \A i \in 1 .. n : frames'[i] = frames[i]
      BY <2>3, <2>6, <3>1, <3>4 DEF f
    <3> HIDE DEF frames
    <3>6. n \in Nat /\ frames \in Seq(Nat) /\ Len(frames) = n
      BY <2>3, <2>6
    <3>7. QED
      BY <3>3, <3>5, <3>6, FunctionAppended
  <2>8. frames # <<>> => frames[Len(frames)] < f
    <3>1. frames # <<>> => n \in 1 .. n
      BY <2>3, <2>6
    <3>2. QED
      BY <2>3, <2>4, <2>6, <3>1
  <2> HIDE DEF frames
  <2>9. Delivery!Deliver
    BY <2>1, <2>5, <2>7, <2>8 DEF Delivery!Deliver, frames
  <2>10. QED
    BY <2>9 DEF Delivery!Next
<1>4. CASE \/ HeaderDecoderStep /\ posted' = posted
           \/ FftDemodStep \/ DeinterleaverStep \/ DecoderStep \/ FrameInfoStep
           \/ PayloadCrcStep \/ RetuneStep \/ UNCHANGED chainVars
  <2>1. posted' = posted
    BY <1>4 DEF FftDemodStep, DeinterleaverStep, DecoderStep, FrameInfoStep, PayloadCrcStep,
                RetuneStep, chainVars, ghosts
  <2>2. frame_cnt' = frame_cnt
    BY <1>4 DEF HeaderDecoderStep, FftDemodStep, DeinterleaverStep, DecoderStep, FrameInfoStep,
                FrameInfo, FrameInfoBad, FrameInfoGood, FrameInfoPanics, Panic,
                PayloadCrcStep, PayloadCrcResult, TakePayloadCrc, RetuneStep, Retune, Reset, chainVars, vars
  <2>3. QED
    BY <2>1, <2>2
<1>5. QED
  BY <1>2, <1>3, <1>4 DEF ChainNext

(***************************************************************************)
(* The results.                                                            *)
(***************************************************************************)
\* Whatever FrameSync is sent and however often it is retuned, every queue and
\* every block of the chain keeps its type, and FrameSync keeps its invariant.
THEOREM ChainTypeCorrect ==
  HeadersAskForNibbles /\ ChainSpec => [](TypeOK /\ CounterFitsState /\ ChainTypeOK)
<1>1. ChainInv => TypeOK /\ CounterFitsState /\ ChainTypeOK
  BY DEF ChainInv, IInv
<1>2. QED
  BY <1>1, ChainInvariant, PTL

\* Everything on its way to the Decoder stays in line, in every interleaving of
\* the blocks: the header tag of a frame comes before all of its symbols and
\* after all older ones, whatever they have become meanwhile.
THEOREM FramesStayInLine == HeadersAskForNibbles /\ ChainSpec => []InLine(Line)
<1>1. ChainInv => InLine(Line)
  BY DEF ChainInv, OrderInv
<1>2. QED
  BY <1>1, ChainInvariant, PTL

\* HeaderDecoder hands a frame over with exactly the nibbles its header asks for,
\* and with none of a frame that the Decoder gets, got or will get.
THEOREM FramesStayWhole == HeadersAskForNibbles /\ ChainSpec => []FramesAreWhole
<1>1. ChainInv => FramesAreWhole
  <2> SUFFICES ASSUME ChainInv PROVE FramesAreWhole
    OBVIOUS
  <2>1. DOMAIN posted = 1 .. Len(posted)
    BY DEF ChainInv, ChainTypeOK
  <2>2. QED
    BY <2>1 DEF ChainInv, CollectInv, Whole, Asked, FramesAreWhole
<1>2. QED
  BY <1>1, ChainInvariant, PTL

\* The chain implements FrameDelivery: frames reach the Decoder at most once and
\* in the order FrameSync found them.
THEOREM ChainDelivers == HeadersAskForNibbles /\ ChainSpec => DeliversInOrder
<1>1. ChainInit => Delivery!Init
  BY DEF ChainInit, Init, Delivery!Init
<1>2. ChainInv /\ ChainInv' /\ [ChainNext]_chainVars =>
        [Delivery!Next]_<<frame_cnt, [i \in DOMAIN posted |-> posted[i].frame]>>
  BY DeliveryStep
<1>3. QED
  BY <1>1, <1>2, ChainInvariant, PTL DEF ChainSpec, Delivery!Spec, DeliversInOrder

(***************************************************************************)
(* A receive chain that is not retuned: FrameSync waits with the eighth    *)
(* symbol of a frame until the answer to its header arrives.  At any       *)
(* moment there is at most one header under way, as a tag or as an answer, *)
(* and where it is tells how many symbols of the frame were sent.          *)
(***************************************************************************)
\* Every frame with a good header has symbols after those of the header.
PayloadFollows == \A m \in HeaderMsgs : ~m.err => SymbNumb(m) > HeaderSymbols

(***************************************************************************)
(* The invariant.                                                          *)
(***************************************************************************)
\* The frames whose header tag is under way.
Announced == Nibs.hdr \cup Words.hdr \cup Block.hdr \cup Syms.hdr \cup Pend.hdr

Waiting == m_state = "SfoCompensation" /\ ~m_received_head

\* The tag of the payload goes out with the first symbol after the header.
TagInv ==
  /\ tagq # <<>> =>
       /\ m_state = "SfoCompensation" /\ m_received_head /\ Len(tagq) = 1
       /\ symbol_cnt = HeaderSymbols /\ m_symb_numb > HeaderSymbols
  /\ pend # <<>> => Len(pend) = 1 /\ HdrOf(pend) # {}
  /\ \A i \in 1 .. Len(sync_out) : Len(sync_out[i].tags) <= 1

\* The header under way, tag or answer, is the one FrameSync waits for.
HeaderInv ==
  /\ Waiting => symbol_cnt <= HeaderSymbols
  /\ Announced # {} => Announced \subseteq {frame_cnt} /\ Waiting /\ fi_q = <<>>
  /\ fi_q # <<>> =>
       /\ Len(fi_q) = 1 /\ fi_q[1].frame = frame_cnt
       /\ Waiting /\ symbol_cnt = HeaderSymbols
       /\ ~fi_q[1].err => SymbNumb(fi_q[1]) > HeaderSymbols

\* While its tag is on its way to the block FftDemod collects, or in it, all of
\* the symbols sent of the frame are there too; behind it there were eight.
CountInv ==
  /\ Pend.hdr # {} => symbol_cnt = 0
  /\ \A k \in 1 .. Len(sync_out) : SymItems[k].hdr # {} =>
       /\ Len(sync_out) - k + 1 = symbol_cnt
       /\ \A i \in k + 1 .. Len(sync_out) : sync_out[i].tags = <<>>
  /\ Block.hdr # {} =>
       /\ fd_is_header /\ Len(fd_out) + Len(sync_out) = symbol_cnt
       /\ \A i \in 1 .. Len(sync_out) : sync_out[i].tags = <<>>
  /\ Words.hdr # {} \/ Nibs.hdr # {} => symbol_cnt >= HeaderSymbols

PlaceInv == TagInv /\ HeaderInv /\ CountInv

\* Policies with which only the header decides what is cached.
ByHeader == Policy \in {"None", "HeaderCrcOk"}

\* Every cached net id is that of a frame that was vouched for: while FrameSync
\* waits, net_id is that of the frame the answer is about.
IdsInv ==
  /\ ids \in Seq((0 .. (N - 1)) \X (0 .. (N - 1))) /\ Len(ids) = frame_cnt
  /\ m_state = "SfoCompensation" => ids[frame_cnt] = net_id
  /\ vouched \subseteq 1 .. frame_cnt
  /\ Policy = "HeaderCrcOk" /\ fi_q # <<>> => fi_q[1].err \/ fi_q[1].frame \in vouched
  /\ known \subseteq InitialNetIds \cup {ids[f] : f \in vouched}

WaitInv ==
  /\ ChainInv /\ retunes \in Nat
  /\ Undisturbed => PlaceInv /\ (ByHeader => IdsInv)

(***************************************************************************)
(* How many symbols a frame has.                                           *)
(***************************************************************************)
\* An explicit header that the HeaderDecoder lets pass announces a payload, and
\* that is enough.
LEMMA ExplicitHeaders ==
  ASSUME ~ImplHead, \A m \in HeaderMsgs : ~m.err => m.pay_len > 0
  PROVE  PayloadFollows
<1> SUFFICES ASSUME NEW m \in HeaderMsgs, ~m.err PROVE SymbNumb(m) > HeaderSymbols
  BY DEF PayloadFollows
<1> DEFINE a == 2 * m.pay_len - (SF - 5) + (IF SF >= 7 THEN 2 ELSE 0)
                  + (IF ImplHead THEN 0 ELSE 5) + (IF m.crc THEN 4 ELSE 0)
           b == SF - (IF Ldro THEN 2 ELSE 0)
           c == CeilDiv(a, b)
<1>1. m.pay_len \in Nat /\ m.cr \in Nat /\ m.pay_len > 0
  BY InputAssumption DEF HeaderMsgType
<1>2. a \in Int /\ a > 0 /\ b \in Nat /\ b > 0
  BY <1>1, FrameAssumption
<1> HIDE DEF a, b
<1>3. c \in Int /\ b * c >= a
  BY <1>2, CeilDivUp
<1> HIDE DEF c
<1>4. c > 0
  <2>1. ASSUME c <= 0 PROVE FALSE
    <3>1. b * c <= 0 /\ b * c \in Int
      BY <1>2, <1>3, <2>1
    <3>2. QED
      BY <1>2, <1>3, <3>1
  <2>2. QED
    BY <1>3, <2>1
<1>5. SymbNumb(m) = 8 + c * (4 + m.cr)
  BY DEF SymbNumb, HeaderSymbols, a, b, c
<1>6. c * (4 + m.cr) \in Int /\ c * (4 + m.cr) > 0
  BY <1>1, <1>3, <1>4
<1>7. QED
  BY <1>5, <1>6 DEF HeaderSymbols

\* Who has symbols after those of the header has nibbles.
LEMMA PayloadHasNibbles == PayloadFollows => HeadersAskForNibbles
<1> SUFFICES ASSUME PayloadFollows, NEW m \in HeaderMsgs, ~m.err PROVE FrameNibbles(m) > 0
  BY DEF HeadersAskForNibbles
<1> DEFINE a == 2 * m.pay_len - (SF - 5) + (IF SF >= 7 THEN 2 ELSE 0)
                  + (IF ImplHead THEN 0 ELSE 5) + (IF m.crc THEN 4 ELSE 0)
           b == SF - (IF Ldro THEN 2 ELSE 0)
           c == CeilDiv(a, b)
<1>1. m \in HeaderMsgType /\ m.pay_len \in Nat /\ m.cr \in Nat /\ m.crc \in BOOLEAN
  BY InputAssumption DEF HeaderMsgType
<1>2. SymbNumb(m) = 8 + c * (4 + m.cr) /\ SymbNumb(m) > 8
  BY DEF SymbNumb, HeaderSymbols, PayloadFollows, a, b, c
<1>3. a \in Int /\ b \in Nat /\ b > 0
  BY <1>1, FrameAssumption
<1>4. a > 0 => FrameNibbles(m) > 0
  BY <1>1, FrameAssumption DEF FrameNibbles, HeaderLen
<1> HIDE DEF a, b
<1>5. c \in Int /\ b * c < a + b
  BY <1>3, CeilDivUp
<1> HIDE DEF c
<1>6. ASSUME a <= 0 PROVE FALSE
  <2>1. b * c < b /\ b * c \in Int
    BY <1>3, <1>5, <1>6
  <2>2. c < 1
    <3>1. ASSUME c >= 1 PROVE FALSE
      <4>1. b * c >= b * 1
        BY <1>3, <1>5, <3>1
      <4>2. QED
        BY <1>3, <2>1, <4>1
    <3>2. QED
      BY <1>5, <3>1
  <2>3. c * (4 + m.cr) <= 0 /\ c * (4 + m.cr) \in Int
    BY <1>1, <1>5, <2>2
  <2>4. QED
    BY <1>2, <2>3
<1>7. QED
  BY <1>3, <1>4, <1>6

(***************************************************************************)
(* The calls of FrameSync's work(), by what they mean for the chain.       *)
(***************************************************************************)
NewTags == IF tagq = <<>> THEN <<>> ELSE <<PayloadTag(Head(tagq))>>

\* Before a frame is found.
StaysQuiet ==
  /\ m_state # "SfoCompensation" /\ m_state' # "SfoCompensation"
  /\ UNCHANGED <<frame_cnt, pend>> /\ io'.produce = 0
  /\ tagq' = tagq \/ tagq' = Pop(tagq)

FindsFrame ==
  /\ m_state # "SfoCompensation" /\ m_state' = "SfoCompensation"
  /\ ~m_received_head' /\ frame_cnt' = frame_cnt + 1 /\ tagq' = tagq
  /\ \/ /\ symbol_cnt' = 0 /\ io'.produce = 0
        /\ pend' = Append(pend, HeaderTag(frame_cnt'))
     \/ /\ symbol_cnt' = 1 /\ io'.produce > 0
        /\ io'.tags = Append(pend, HeaderTag(frame_cnt')) /\ pend' = <<>>

SendsSymbol ==
  /\ m_state = "SfoCompensation"
  /\ symbol_cnt < HeaderSymbols \/ (m_received_head /\ symbol_cnt < m_symb_numb)
  /\ symbol_cnt' = symbol_cnt + 1
  /\ UNCHANGED <<m_state, frame_cnt, m_received_head, m_symb_numb, net_id>>
  /\ io'.produce > 0 /\ io'.tags = pend \o NewTags
  /\ pend' = <<>> /\ tagq' = Pop(tagq)

EndsFrame ==
  /\ m_state = "SfoCompensation" /\ m_state' # "SfoCompensation"
  /\ m_received_head /\ ~(symbol_cnt < HeaderSymbols) /\ ~(symbol_cnt < m_symb_numb)
  /\ UNCHANGED frame_cnt /\ io'.produce = 0
  /\ pend' = pend \o NewTags /\ tagq' = Pop(Pop(tagq))

LEMMA WorkKind ==
  ASSUME TypeOK, Work
  PROVE  /\ StaysQuiet \/ FindsFrame \/ SendsSymbol \/ EndsFrame
         /\ Policy # "Seen" => known' = known
<1> DEFINE goal == /\ StaysQuiet \/ FindsFrame \/ SendsSymbol \/ EndsFrame
                   /\ Policy # "Seen" => known' = known
<1>1. PICK n \in InputSizes, s \in OutputSizes :
        /\ NextIterationPossible(n, s)
        /\ Detect(n) \/ SyncSymbol(n) \/ SyncQuarterDown(n, s) \/ CompensateSfo(n)
  BY DEF Work
<1>2. CASE Detect(n)
  <2>1. m_state = "Detect" /\ UNCHANGED <<known, frame_cnt, tagq, pend>>
    BY <1>2 DEF Detect
  <2>2. (m_state' = "Detect" \/ m_state' = "Sync") /\ io'.produce = 0
    <3>1. CASE DetectSilence(n)
      BY <2>1, <3>1 DEF DetectSilence, Io
    <3>2. ASSUME NEW b \in UpBins, DetectSymbol(n, b)
          PROVE  (m_state' = "Detect" \/ m_state' = "Sync") /\ io'.produce = 0
      BY <2>1, <3>2 DEF DetectSymbol, Io
    <3>3. QED
      BY <1>2, <3>1, <3>2 DEF Detect
  <2>3. QED
    BY <2>1, <2>2 DEF StaysQuiet
<1>3. CASE SyncSymbol(n)
  BY <1>3 DEF SyncSymbol, SyncNetId1, SyncNetId2, SyncDownchirp1, SyncDownchirp2, Io, StaysQuiet
<1>4. CASE SyncQuarterDown(n, s)
  <2>0. m_state = "Sync"
    BY <1>4 DEF SyncQuarterDown
  <2>1. ASSUME NEW keep, NEW b, NEW c, NEW id, Abandon(n, keep, b, c, id)
        PROVE  goal
    BY <2>0, <2>1 DEF Abandon, Reset, Io, StaysQuiet
  <2>2. ASSUME NEW b, NEW w1, NEW w2, NEW r, NEW v0, NEW v1, NEW v2,
               ClassifyNetId(n, s, b, w1, w2, r, v0, v1, v2)
        PROVE  goal
    <3> DEFINE off == NetIdOff(v0)
               id == <<Aligned(v0, v0), Aligned(v1, v0)>>
               resync == AdditionalSamples + w1
    <3>1. \/ Abandon(n, TRUE, b, 0, <<v0, v1>>)
          \/ Abandon(n, TRUE, b, 0, id)
          \/ Abandon(n, TRUE, b, resync, <<id[1], id[1]>>)
          \/ AcceptMatching(n, b, id, off, w1, w2)
          \/ Panic /\ Io(n, 0)
          \/ AcceptOneSymbolOff(n, b, id, off, w1, w2, v2)
      BY <2>2, Zenon DEF ClassifyNetId
    <3>2. CASE AcceptMatching(n, b, id, off, w1, w2)
      <4>1. FindsFrame
        BY <3>2, <2>0 DEF AcceptMatching, Accept, Io, FindsFrame, NetId1
      <4>2. Policy # "Seen" => known' = known
        BY <3>2 DEF AcceptMatching
      <4>3. QED
        BY <4>1, <4>2
    <3>3. CASE AcceptOneSymbolOff(n, b, id, off, w1, w2, v2)
      BY <3>3, <2>0, ShapeFacts DEF AcceptOneSymbolOff, Accept, IoSymbol, FindsFrame, NetId2
    <3>4. CASE Panic /\ Io(n, 0)
      BY <3>4, <2>0 DEF Panic, Io, StaysQuiet
    <3>5. QED
      BY <3>1, <3>2, <3>3, <3>4, <2>1
  <2>3. QED
    BY <1>4, <2>1, <2>2 DEF SyncQuarterDown
<1>5. CASE CompensateSfo(n)
  <2>1. m_state = "SfoCompensation" /\ (symbol_cnt < HeaderSymbols \/ m_received_head)
    BY <1>1, <1>5 DEF CompensateSfo, NextIterationPossible
  <2>2. CASE symbol_cnt < HeaderSymbols \/ (symbol_cnt < m_symb_numb /\ m_received_head)
    BY <1>5, <2>1, <2>2, ShapeFacts DEF CompensateSfo, IoSymbol, SendsSymbol, NewTags
  <2>3. CASE ~(symbol_cnt < HeaderSymbols \/ (symbol_cnt < m_symb_numb /\ m_received_head))
    BY <1>5, <2>1, <2>3 DEF CompensateSfo, Io, EndsFrame, NewTags
  <2>4. QED
    BY <2>2, <2>3
<1>6. QED
  BY <1>1, <1>2, <1>3, <1>4, <1>5

(***************************************************************************)
(* Where headers are.                                                      *)
(***************************************************************************)
\* No header is in two places of the line.
LEMMA HeadersApart ==
  ASSUME TypeOK, OrderInv
  PROVE  \A j, k \in 1 .. 6 : j < k => Line[j].hdr \cap Line[k].hdr = {}
<1> SUFFICES ASSUME NEW j \in 1 .. 6, NEW k \in 1 .. 6, j < k,
                    NEW h \in Line[j].hdr, h \in Line[k].hdr
             PROVE  FALSE
  OBVIOUS
<1>1. h < h
  BY DEF OrderInv, InLine, Before
<1>2. h \in 1 .. frame_cnt /\ frame_cnt \in Nat
  BY DEF OrderInv, Known, TypeOK
<1>3. QED
  BY <1>1, <1>2

\* Only the current frame is announced: its header tag is in one place.
LEMMA OneHeader ==
  ASSUME TypeOK, OrderInv, HeaderInv
  PROVE  /\ \A k \in 2 .. 6 : Line[k].hdr \subseteq Announced
         /\ \A j, k \in 2 .. 6 : j # k /\ Line[j].hdr # {} => Line[k].hdr = {}
<1>1. \A k \in 2 .. 6 : Line[k].hdr \subseteq Announced
  BY DEF Line, Announced
<1>2. \A k \in 2 .. 6 : Line[k].hdr \subseteq {frame_cnt}
  BY <1>1 DEF HeaderInv
<1>3. \A j, k \in 2 .. 6 : j # k => Line[j].hdr \cap Line[k].hdr = {}
  <2> SUFFICES ASSUME NEW j \in 2 .. 6, NEW k \in 2 .. 6, j # k
               PROVE  Line[j].hdr \cap Line[k].hdr = {}
    OBVIOUS
  <2>1. j \in 1 .. 6 /\ k \in 1 .. 6 /\ (j < k \/ k < j)
    OBVIOUS
  <2>2. QED
    BY <2>1, HeadersApart
<1>4. QED
  BY <1>1, <1>2, <1>3

LEMMA SymsHeaders ==
  ASSUME ChainTypeOK
  PROVE  /\ Len(sync_out) \in Nat
         /\ \A k \in 1 .. Len(sync_out) :
              SymItems[k].hdr = HdrOf(sync_out[k].tags) /\ SymItems[k].hdr \subseteq Syms.hdr
BY DEF ChainTypeOK, SymItems, Syms, All

\* Nothing is announced and nothing waits on the writer when FrameSync does not
\* wait for a header.
LEMMA NotWaiting ==
  ASSUME TagInv, HeaderInv, ~Waiting
  PROVE  Announced = {} /\ fi_q = <<>> /\ pend = <<>>
<1>1. Announced = {} /\ fi_q = <<>>
  BY DEF HeaderInv
<1>2. HdrOf(pend) = {}
  BY <1>1 DEF Announced, Pend
<1>3. QED
  BY <1>1, <1>2 DEF TagInv

LEMMA NothingToCount ==
  ASSUME ChainTypeOK', Announced' = {}
  PROVE  CountInv'
<1>1. \A k \in 1 .. Len(sync_out') : SymItems'[k].hdr \subseteq Syms'.hdr
  BY DEF ChainTypeOK, SymItems, Syms, All
<1>2. QED
  BY <1>1 DEF Announced, CountInv

(***************************************************************************)
(* FrameSync.                                                              *)
(***************************************************************************)
LEMMA NoSymbolSent ==
  ASSUME FrameSyncStep, io'.produce = 0
  PROVE  UNCHANGED <<sync_out, SymItems, Syms>>
BY DEF FrameSyncStep, SymItems, Syms

LEMMA SymbolSent ==
  ASSUME TypeOK', ChainTypeOK, FrameSyncStep, io'.produce > 0
  PROVE  /\ Len(sync_out') = Len(sync_out) + 1
         /\ \A i \in 1 .. Len(sync_out) :
              sync_out'[i] = sync_out[i] /\ SymItems'[i].hdr = SymItems[i].hdr
         /\ sync_out'[Len(sync_out) + 1].tags = io'.tags
         /\ SymItems'[Len(sync_out) + 1].hdr = HdrOf(io'.tags)
         /\ Syms'.hdr = Syms.hdr \cup HdrOf(io'.tags)
<1> DEFINE n == Len(sync_out)
           s == Symbol(io'.tags)
<1>1. sync_out \in Seq(SymType) /\ n \in Nat
  BY DEF ChainTypeOK
<1>2. s \in SymType /\ s.tags = io'.tags
  BY DEF TypeOK, IoType, Symbol, SymType
<1>3. sync_out' = Append(sync_out, s)
  BY DEF FrameSyncStep
<1> HIDE DEF s, n
<1>4. /\ Len(sync_out') = n + 1 /\ sync_out'[n + 1] = s
      /\ \A i \in 1 .. n : sync_out'[i] = sync_out[i]
  BY <1>1, <1>2, <1>3, AppendProperties DEF n
<1>5. \A i \in 1 .. n + 1 : SymItems'[i].hdr = HdrOf(sync_out'[i].tags)
  BY <1>4 DEF SymItems
<1>6. \A i \in 1 .. n : SymItems[i].hdr = HdrOf(sync_out[i].tags)
  BY DEF SymItems, n
<1>7. n + 1 \in 1 .. n + 1 /\ \A i \in 1 .. n : i \in 1 .. n + 1
  BY <1>1
<1>8. /\ \A i \in 1 .. n : SymItems'[i].hdr = SymItems[i].hdr
      /\ SymItems'[n + 1].hdr = HdrOf(io'.tags)
  BY <1>2, <1>4, <1>5, <1>6, <1>7
<1>9. Syms'.hdr = Syms.hdr \cup HdrOf(io'.tags)
  <2>1. Syms'.hdr = UNION {SymItems'[i].hdr : i \in 1 .. n + 1}
    BY <1>4 DEF Syms, All
  <2>2. Syms.hdr = UNION {SymItems[i].hdr : i \in 1 .. n}
    BY DEF Syms, All, n
  <2>3. \A i \in 1 .. n + 1 : i \in 1 .. n \/ i = n + 1
    BY <1>1
  <2>4. QED
    BY <2>1, <2>2, <2>3, <1>7, <1>8
<1>10. QED
  BY <1>2, <1>4, <1>8, <1>9 DEF n

\* What is sent on with a symbol: the header tag that waited, the payload tag
\* that the handler left, or nothing.
LEMMA TagsSent ==
  ASSUME TypeOK, TagInv, HeaderInv, SendsSymbol
  PROVE  /\ tagq' = <<>> /\ fi_q = <<>>
         /\ \/ pend # <<>> /\ Waiting /\ io'.tags = pend
            \/ pend = <<>> /\ tagq = <<>> /\ io'.tags = <<>>
            \/ /\ pend = <<>> /\ ~Waiting
               /\ Len(io'.tags) = 1 /\ HdrOf(io'.tags) = {}
<1>1. /\ pend \in Seq(TagType) /\ tagq \in Seq(HeaderMsgType) /\ symbol_cnt \in Nat
  BY DEF TypeOK
<1>2. tagq' = <<>>
  <2>1. CASE tagq = <<>>
    BY <2>1 DEF SendsSymbol, Pop
  <2>2. CASE tagq # <<>>
    <3>1. Len(tagq) = 1 /\ tagq' = Tail(tagq)
      BY <2>2 DEF SendsSymbol, Pop, TagInv
    <3>2. Tail(tagq) \in Seq(HeaderMsgType) /\ Len(Tail(tagq)) = 0
      BY <1>1, <2>2, <3>1, HeadTailProperties
    <3>3. QED
      BY <3>1, <3>2, EmptySeq
  <2>3. QED
    BY <2>1, <2>2
<1>3. fi_q = <<>>
  BY <1>1 DEF SendsSymbol, HeaderInv, Waiting
<1>4. CASE pend # <<>>
  <2>1. HdrOf(pend) # {}
    BY <1>4 DEF TagInv
  <2>2. Waiting
    BY <2>1 DEF HeaderInv, Announced, Pend
  <2>3. tagq = <<>>
    BY <2>2 DEF TagInv, Waiting
  <2>4. io'.tags = pend
    BY <1>1, <2>3, ConcatEmptySeq DEF SendsSymbol, NewTags
  <2>5. QED
    BY <1>2, <1>3, <1>4, <2>2, <2>4
<1>5. CASE pend = <<>> /\ tagq = <<>>
  BY <1>1, <1>2, <1>3, <1>5, ConcatEmptySeq DEF SendsSymbol, NewTags
<1>6. CASE pend = <<>> /\ tagq # <<>>
  <2> DEFINE t == PayloadTag(Head(tagq))
  <2>1. t \in TagType /\ ~t.is_header
    <3>1. Head(tagq) \in HeaderMsgType
      BY <1>1, <1>6, HeadTailProperties
    <3>2. QED
      BY <3>1, PayloadTagType DEF PayloadTag
  <2> HIDE DEF t
  <2>2. <<t>> \in Seq(TagType) /\ Len(<<t>>) = 1
    BY <2>1
  <2>3. io'.tags = <<t>>
    <3>1. io'.tags = pend \o <<t>>
      BY <1>6 DEF SendsSymbol, NewTags, t
    <3>2. QED
      BY <1>6, <2>2, <3>1, ConcatEmptySeq
  <2>4. HdrOf(<<t>>) = {}
    BY <2>1, HdrOne
  <2>5. ~Waiting
    BY <1>6 DEF TagInv, Waiting
  <2>6. QED
    BY <1>2, <1>3, <1>6, <2>2, <2>3, <2>4, <2>5
<1>7. QED
  BY <1>4, <1>5, <1>6

LEMMA FrameSyncKeepsPlaces ==
  ASSUME ChainInv, ChainInv', PlaceInv, FrameSyncStep
  PROVE  PlaceInv'
<1> DEFINE n == Len(sync_out)
<1>1. /\ TypeOK /\ TypeOK' /\ ChainTypeOK /\ ChainTypeOK' /\ OrderInv
      /\ TagInv /\ HeaderInv /\ CountInv
      /\ n \in Nat /\ symbol_cnt \in Nat /\ frame_cnt \in Nat /\ pend \in Seq(TagType)
  BY SymsHeaders DEF ChainInv, IInv, PlaceInv, TypeOK
<1>2. /\ UNCHANGED <<Nibs, Words, Block, fi_q, fd_is_header, fd_out>>
      /\ Work
  BY DEF FrameSyncStep, demodState, messages, Nibs, NibItems, Words, WordItems, Block
<1>3. CASE StaysQuiet \/ EndsFrame
  <2>1. ~Waiting /\ io'.produce = 0 /\ frame_cnt' = frame_cnt
    BY <1>3 DEF StaysQuiet, EndsFrame, Waiting
  <2>2. Announced = {} /\ fi_q = <<>> /\ pend = <<>> /\ tagq = <<>>
    BY <1>1, <1>3, <2>1, NotWaiting DEF StaysQuiet, EndsFrame, TagInv
  <2>3. ~Waiting' /\ pend' = <<>> /\ tagq' = <<>>
    BY <1>3, <2>2, <1>1, ConcatEmptySeq DEF StaysQuiet, EndsFrame, Waiting, NewTags, Pop
  <2>4. UNCHANGED <<sync_out, SymItems, Syms>>
    BY <2>1, NoSymbolSent
  <2>5. Announced' = {}
    BY <1>2, <2>2, <2>3, <2>4 DEF Announced, Pend
  <2>6. TagInv' /\ HeaderInv' /\ CountInv'
    BY <1>1, <1>2, <2>2, <2>3, <2>4, <2>5, NothingToCount DEF TagInv, HeaderInv
  <2>7. QED
    BY <2>6 DEF PlaceInv
<1>4. CASE FindsFrame
  <2> DEFINE t == HeaderTag(frame_cnt')
  <2>1. /\ ~Waiting /\ Waiting' /\ m_received_head' = FALSE /\ frame_cnt' = frame_cnt + 1
        /\ tagq' = tagq
    BY <1>1, <1>4 DEF FindsFrame, Waiting, TypeOK
  <2>2. Announced = {} /\ fi_q = <<>> /\ pend = <<>> /\ tagq = <<>>
    BY <1>1, <1>4, <2>1, NotWaiting DEF FindsFrame, TagInv
  <2>3. t \in TagType /\ Append(pend, t) = <<t>>
    BY <1>1, <2>1, <2>2, HeaderTagType
  <2>4. Len(<<t>>) = 1 /\ HdrOf(<<t>>) = {frame_cnt'}
    BY <2>3, HdrOne DEF HeaderTag
  <2>5. Syms.hdr = {}
    BY <2>2 DEF Announced
  <2> HIDE DEF t
  <2>6. CASE symbol_cnt' = 0 /\ io'.produce = 0 /\ pend' = <<t>>
    <3>1. UNCHANGED <<sync_out, SymItems, Syms>>
      BY <2>6, NoSymbolSent
    <3>2. Pend'.hdr = {frame_cnt'}
      BY <2>4, <2>6 DEF Pend
    <3>3. Announced' = {frame_cnt'}
      BY <1>2, <2>2, <3>1, <3>2 DEF Announced
    <3>4. TagInv'
      BY <1>1, <2>1, <2>2, <2>4, <2>6, <3>1 DEF TagInv
    <3>5. HeaderInv'
      BY <1>2, <2>1, <2>2, <2>6, <3>3 DEF HeaderInv, HeaderSymbols
    <3>6. CountInv'
      <4>1. \A k \in 1 .. Len(sync_out') : SymItems'[k].hdr = {}
        BY <1>1, <2>5, <3>1, SymsHeaders
      <4>2. Block'.hdr = {} /\ Words'.hdr = {} /\ Nibs'.hdr = {}
        BY <1>2, <2>2 DEF Announced
      <4>3. QED
        BY <2>6, <4>1, <4>2 DEF CountInv
    <3>7. QED
      BY <3>4, <3>5, <3>6 DEF PlaceInv
  <2>7. CASE symbol_cnt' = 1 /\ io'.produce > 0 /\ io'.tags = <<t>> /\ pend' = <<>>
    <3>1. /\ Len(sync_out') = n + 1 /\ sync_out'[n + 1].tags = <<t>>
          /\ \A i \in 1 .. n : sync_out'[i] = sync_out[i] /\ SymItems'[i].hdr = SymItems[i].hdr
          /\ SymItems'[n + 1].hdr = {frame_cnt'} /\ Syms'.hdr = Syms.hdr \cup {frame_cnt'}
      BY <1>1, <2>4, <2>7, SymbolSent
    <3>2. \A i \in 1 .. n + 1 : i \in 1 .. n \/ i = n + 1
      BY <1>1
    <3>3. Pend'.hdr = {}
      BY <2>7, HdrNone DEF Pend
    <3>4. Announced' = {frame_cnt'}
      BY <1>2, <2>2, <3>1, <3>3 DEF Announced
    <3>5. TagInv'
      <4>1. \A i \in 1 .. n : Len(sync_out'[i].tags) <= 1
        BY <1>1, <3>1 DEF TagInv
      <4>2. Len(sync_out'[n + 1].tags) <= 1
        BY <2>4, <3>1
      <4>3. \A i \in 1 .. Len(sync_out') : Len(sync_out'[i].tags) <= 1
        BY <3>1, <3>2, <4>1, <4>2
      <4>4. QED
        BY <2>1, <2>2, <2>7, <4>3 DEF TagInv
    <3>6. HeaderInv'
      BY <1>2, <2>1, <2>2, <2>7, <3>4 DEF HeaderInv, HeaderSymbols
    <3>7. CountInv'
      <4>1. \A k \in 1 .. n : SymItems'[k].hdr = {}
        BY <1>1, <2>5, <3>1, SymsHeaders
      <4>2. Block'.hdr = {} /\ Words'.hdr = {} /\ Nibs'.hdr = {}
        BY <1>2, <2>2 DEF Announced
      <4>3. \A k \in 1 .. n + 1 : SymItems'[k].hdr # {} =>
              n + 1 - k + 1 = symbol_cnt' /\ (k + 1) .. (n + 1) = {}
        BY <1>1, <2>7, <3>2, <4>1
      <4>4. QED
        BY <3>1, <3>3, <4>2, <4>3 DEF CountInv
    <3>8. QED
      BY <3>5, <3>6, <3>7 DEF PlaceInv
  <2>8. QED
    BY <1>4, <2>3, <2>6, <2>7 DEF FindsFrame, t
<1>5. CASE SendsSymbol
  <2>1. /\ (Waiting' <=> Waiting) /\ UNCHANGED <<m_state, m_received_head, frame_cnt>>
        /\ symbol_cnt' = symbol_cnt + 1 /\ pend' = <<>> /\ io'.produce > 0
        /\ Waiting => symbol_cnt < HeaderSymbols
    BY <1>5 DEF SendsSymbol, Waiting
  <2>2. /\ tagq' = <<>> /\ fi_q = <<>>
        /\ \/ pend # <<>> /\ Waiting /\ io'.tags = pend
           \/ pend = <<>> /\ tagq = <<>> /\ io'.tags = <<>>
           \/ /\ pend = <<>> /\ ~Waiting
              /\ Len(io'.tags) = 1 /\ HdrOf(io'.tags) = {}
    BY <1>1, <1>5, TagsSent
  <2>3. /\ Len(sync_out') = n + 1 /\ sync_out'[n + 1].tags = io'.tags
        /\ \A i \in 1 .. n : sync_out'[i] = sync_out[i] /\ SymItems'[i].hdr = SymItems[i].hdr
        /\ SymItems'[n + 1].hdr = HdrOf(io'.tags) /\ Syms'.hdr = Syms.hdr \cup HdrOf(io'.tags)
    BY <1>1, <2>1, SymbolSent
  <2>4. \A i \in 1 .. n + 1 : i \in 1 .. n \/ i = n + 1
    BY <1>1
  <2>5. HdrOf(io'.tags) = Pend.hdr
    BY <2>2, HdrNone DEF Pend
  <2>6. Pend'.hdr = {}
    BY <2>1, HdrNone DEF Pend
  <2>7. Announced' = Announced
    BY <1>2, <2>3, <2>5, <2>6 DEF Announced
  <2>8. TagInv'
    <3>1. Len(io'.tags) <= 1
      <4>1. CASE pend # <<>> /\ io'.tags = pend
        <5>1. TagInv
          BY <1>1
        <5>2. Len(pend) = 1
          BY <4>1, <5>1, Zenon DEF TagInv
        <5>3. Len(io'.tags) = 1
          BY <4>1, <5>2, Zenon
        <5>4. QED
          BY <5>3
      <4>2. CASE io'.tags = <<>>
        <5>1. Len(<<>>) = 0
          OBVIOUS
        <5>2. QED
          BY <4>2, <5>1
      <4>3. CASE Len(io'.tags) = 1
        BY <4>3
      <4>4. QED
        BY <2>2, <4>1, <4>2, <4>3
    <3>2. QED
      BY <1>1, <2>1, <2>2, <2>3, <2>4, <3>1 DEF TagInv
  <2>9. HeaderInv'
    BY <1>1, <1>2, <2>1, <2>2, <2>7 DEF HeaderInv, HeaderSymbols
  <2>10. Pend.hdr # {} => Syms.hdr = {} /\ Block.hdr = {}
    <3>1. Line[4] = Block /\ Line[5] = Syms /\ Line[6] = Pend
      BY DEF Line
    <3>2. QED
      BY <1>1, <3>1, OneHeader
  <2>11. Syms.hdr # {} \/ Block.hdr # {} => io'.tags = <<>>
    <3>1. Syms.hdr # {} \/ Block.hdr # {} => Waiting
      BY <1>1 DEF HeaderInv, Announced
    <3>2. HdrOf(pend) = Pend.hdr
      BY DEF Pend
    <3>3. QED
      BY <1>1, <2>2, <2>10, <3>1, <3>2 DEF TagInv
  <2>12. ASSUME NEW k \in 1 .. n + 1, SymItems'[k].hdr # {}
         PROVE  /\ n + 1 - k + 1 = symbol_cnt'
                /\ \A i \in k + 1 .. n + 1 : sync_out'[i].tags = <<>>
    <3>1. CASE k \in 1 .. n
      <4>1. SymItems[k].hdr # {} /\ Syms.hdr # {}
        BY <1>1, <2>3, <2>12, <3>1, SymsHeaders
      <4>2. n - k + 1 = symbol_cnt /\ \A i \in k + 1 .. n : sync_out[i].tags = <<>>
        BY <1>1, <3>1, <4>1 DEF CountInv
      <4>3. \A i \in k + 1 .. n + 1 : (i \in 1 .. n /\ i \in k + 1 .. n) \/ i = n + 1
        BY <1>1, <3>1
      <4>4. \A i \in k + 1 .. n + 1 : sync_out'[i].tags = <<>>
        BY <2>3, <2>11, <4>1, <4>2, <4>3
      <4>5. QED
        BY <1>1, <2>1, <3>1, <4>2, <4>4
    <3>2. CASE k = n + 1
      <4>1. symbol_cnt = 0
        BY <1>1, <2>3, <2>5, <2>12, <3>2 DEF CountInv
      <4>2. QED
        BY <1>1, <2>1, <3>2, <4>1
    <3>3. QED
      BY <2>4, <3>1, <3>2
  <2>13. Block'.hdr # {} =>
           /\ fd_is_header' /\ Len(fd_out') + Len(sync_out') = symbol_cnt'
           /\ \A i \in 1 .. Len(sync_out') : sync_out'[i].tags = <<>>
    <3> SUFFICES ASSUME Block.hdr # {}
                 PROVE  /\ fd_is_header /\ Len(fd_out) + (n + 1) = symbol_cnt + 1
                        /\ \A i \in 1 .. n + 1 : sync_out'[i].tags = <<>>
      BY <1>2, <2>1, <2>3
    <3>1. fd_is_header /\ Len(fd_out) + n = symbol_cnt /\ \A i \in 1 .. n : sync_out[i].tags = <<>>
      BY <1>1 DEF CountInv
    <3>2. Len(fd_out) \in Nat
      BY <1>1 DEF ChainTypeOK
    <3>3. QED
      BY <1>1, <2>3, <2>4, <2>11, <3>1, <3>2
  <2>14. Words'.hdr # {} \/ Nibs'.hdr # {} => symbol_cnt' >= HeaderSymbols
    BY <1>1, <1>2, <2>1 DEF CountInv, HeaderSymbols
  <2>15. CountInv'
    BY <2>3, <2>6, <2>12, <2>13, <2>14 DEF CountInv
  <2>16. QED
    BY <2>8, <2>9, <2>15 DEF PlaceInv
<1>6. QED
  BY <1>1, <1>2, <1>3, <1>4, <1>5, WorkKind

(***************************************************************************)
(* FftDemod.                                                               *)
(***************************************************************************)
\* A symbol leaves the stream.
LEMMA SymbolTaken ==
  ASSUME ChainTypeOK, sync_out # <<>>, sync_out' = Tail(sync_out)
  PROVE  /\ Len(sync_out) > 0 /\ Len(sync_out') = Len(sync_out) - 1
         /\ \A i \in 1 .. Len(sync_out) - 1 :
              sync_out'[i] = sync_out[i + 1] /\ SymItems'[i].hdr = SymItems[i + 1].hdr
         /\ Syms'.hdr \subseteq Syms.hdr
<1> DEFINE n == Len(sync_out)
<1>1. sync_out \in Seq(SymType) /\ n \in Nat /\ n > 0
  BY EmptySeq DEF ChainTypeOK
<1>2. Len(sync_out') = n - 1 /\ \A i \in 1 .. n - 1 : sync_out'[i] = sync_out[i + 1]
  <2>1. /\ Len(Tail(sync_out)) = n - 1
        /\ \A i \in 1 .. Len(Tail(sync_out)) : Tail(sync_out)[i] = sync_out[i + 1]
    BY <1>1, HeadTailProperties
  <2>2. QED
    BY <2>1
<1> HIDE DEF n
<1>3. \A i \in 1 .. n - 1 : i + 1 \in 1 .. n
  BY <1>1
<1>4. \A i \in 1 .. n - 1 : SymItems'[i].hdr = HdrOf(sync_out'[i].tags)
  BY <1>2 DEF SymItems
<1>5. \A i \in 1 .. n : SymItems[i].hdr = HdrOf(sync_out[i].tags)
  BY DEF SymItems, n
<1>6. \A i \in 1 .. n - 1 : SymItems'[i].hdr = SymItems[i + 1].hdr
  BY <1>2, <1>3, <1>4, <1>5
<1>7. Syms'.hdr = UNION {SymItems'[i].hdr : i \in 1 .. n - 1}
  BY <1>2 DEF Syms, All
<1>8. Syms.hdr = UNION {SymItems[i].hdr : i \in 1 .. n}
  BY DEF Syms, All, n
<1>9. QED
  BY <1>1, <1>2, <1>3, <1>6, <1>7, <1>8 DEF n

\* The header frames of a stream of words whose items have these tags.
LEMMA WordsHeaders ==
  ASSUME ChainTypeOK, NEW out \in Seq(WordType), NEW tag, words' = words \o out,
         \A i \in 1 .. Len(out) : out[i].tag = tag \/ out[i].tag = <<>>
  PROVE  Words'.hdr \subseteq Words.hdr \cup HdrOf(tag)
<1> DEFINE n == Len(words)
           b == Len(out)
<1>1. words \in Seq(WordType) /\ n \in Nat /\ b \in Nat
  BY DEF ChainTypeOK
<1>2. /\ Len(words') = n + b
      /\ \A i \in 1 .. n + b : words'[i] = IF i <= n THEN words[i] ELSE out[i - n]
  BY <1>1, ConcatProperties
<1> HIDE DEF n, b
<1>3. \A i \in 1 .. n + b : i \in 1 .. n \/ (~(i <= n) /\ i - n \in 1 .. b)
  BY <1>1
<1>4. \A i \in 1 .. n + b : \/ i \in 1 .. n /\ words'[i] = words[i]
                            \/ words'[i].tag = tag \/ words'[i].tag = <<>>
  BY <1>1, <1>2, <1>3 DEF b
<1>5. Words'.hdr = UNION {HdrOf(words'[i].tag) : i \in 1 .. n + b}
  BY <1>2 DEF Words, All, WordItems
<1>6. \A i \in 1 .. n : HdrOf(words[i].tag) \subseteq Words.hdr
  BY DEF Words, All, WordItems, n
<1>7. QED
  BY <1>4, <1>5, <1>6, HdrNone

LEMMA FftDemodKeepsPlaces ==
  ASSUME ChainInv, ChainInv', PlaceInv, FftDemodStep
  PROVE  PlaceInv'
<1> DEFINE n == Len(sync_out)
<1>1. /\ TypeOK /\ ChainTypeOK /\ ChainTypeOK' /\ TagInv /\ HeaderInv /\ CountInv
      /\ n \in Nat /\ symbol_cnt \in Nat /\ fd_out \in Seq(Nat) /\ Len(fd_out) \in Nat
  <2>1. /\ TypeOK /\ ChainTypeOK /\ ChainTypeOK' /\ TagInv /\ HeaderInv /\ CountInv
    BY DEF ChainInv, IInv, PlaceInv
  <2>2. symbol_cnt \in Nat
    BY <2>1 DEF TypeOK
  <2>3. sync_out \in Seq(SymType) /\ fd_out \in Seq(Nat)
    BY <2>1 DEF ChainTypeOK
  <2>4. QED
    BY <2>1, <2>2, <2>3
<1>2. PICK block \in Seq(Nat), tag \in Seq(TagType) :
        Len(block) > 0 /\ DemodJoins(block, tag) /\ DemodGoes(block, tag)
  BY <1>1, DemodOutcome
<1>3. /\ n > 0 /\ Len(sync_out') = n - 1
      /\ \A i \in 1 .. n - 1 :
           sync_out'[i] = sync_out[i + 1] /\ SymItems'[i].hdr = SymItems[i + 1].hdr
      /\ Syms'.hdr \subseteq Syms.hdr
  BY <1>1, DemodOutcome, SymbolTaken
<1>4. /\ UNCHANGED <<Nibs, Pend, fi_q, frame_cnt, m_state, m_received_head, symbol_cnt,
                     m_symb_numb, tagq, pend>>
  BY DEF FftDemodStep, vars, messages, Nibs, NibItems, Pend
<1>5. Waiting' <=> Waiting
  BY <1>4 DEF Waiting
<1>6. SymItems[1].hdr = HdrOf(sync_out[1].tags) /\ SymItems[1].hdr \subseteq Syms.hdr
  BY <1>1, <1>3, SymsHeaders
<1>7. HdrOf(tag) \subseteq Block.hdr \cup Syms.hdr
  BY <1>2, <1>6, HdrNone DEF DemodJoins, Block, HdrOf
<1>8. /\ \A i \in 1 .. n - 1 : i + 1 \in 1 .. n
      /\ \A i \in 1 .. n - 1 : i + 1 \in 1 + 1 .. n
  BY <1>1
<1> DEFINE b == Len(block)
<1>0. n = Len(sync_out) /\ b = Len(block) /\ b \in Nat
  OBVIOUS
<1> HIDE DEF n, b
<1>9. ASSUME HdrOf(tag) # {}
      PROVE  /\ fd_is_header' /\ Len(block) + (n - 1) = symbol_cnt
             /\ \A i \in 1 .. n - 1 : sync_out'[i].tags = <<>>
  <2>1. CASE /\ sync_out[1].tags = <<>> /\ tag = fd_frame_info
             /\ block = Append(fd_out, sync_out[1].frame) /\ fd_is_header' = fd_is_header
    <3>1. Block.hdr # {}
      BY <1>9, <2>1 DEF Block
    <3>2. fd_is_header /\ Len(fd_out) + n = symbol_cnt /\ \A i \in 1 .. n : sync_out[i].tags = <<>>
      BY <1>0, <1>1, <3>1 DEF CountInv
    <3>3. Len(block) = Len(fd_out) + 1
      <4>1. sync_out[1] \in SymType
        <5>1. sync_out \in Seq(SymType)
          BY <1>1 DEF ChainTypeOK
        <5>2. 1 \in 1 .. Len(sync_out)
          BY <1>0, <1>1, <1>3
        <5>3. QED
          BY <5>1, <5>2, ElementOfSeq
      <4>2. sync_out[1].frame \in Nat
        BY <4>1 DEF SymType
      <4>3. QED
        BY <1>1, <2>1, <4>2, AppendProperties
    <3>4. \A i \in 1 .. n - 1 : sync_out'[i].tags = <<>>
      BY <1>3, <1>8, <3>2
    <3>5. Len(block) + (n - 1) = symbol_cnt
      BY <1>1, <3>2, <3>3
    <3>6. QED
      BY <2>1, <3>2, <3>4, <3>5
  <2>2. CASE /\ tag = sync_out[1].tags /\ block = <<sync_out[1].frame>> /\ fd_is_header' = TRUE
    <3>1. SymItems[1].hdr # {} /\ 1 \in 1 .. n
      BY <1>1, <1>3, <1>6, <1>9, <2>2
    <3>2. n - 1 + 1 = symbol_cnt /\ \A i \in 1 + 1 .. n : sync_out[i].tags = <<>>
      BY <1>0, <1>1, <3>1 DEF CountInv
    <3>3. Len(block) = 1
      BY <2>2
    <3>4. \A i \in 1 .. n - 1 : sync_out'[i].tags = <<>>
      BY <1>3, <1>8, <3>2
    <3>5. Len(block) + (n - 1) = symbol_cnt
      BY <1>1, <3>2, <3>3
    <3>6. QED
      BY <2>2, <3>4, <3>5
  <2>3. CASE Len(tag) = 1 /\ ~tag[1].is_header
    BY <1>9, <2>3 DEF HdrOf
  <2>4. QED
    BY <1>2, <2>1, <2>2, <2>3 DEF DemodJoins
<1>10. \/ /\ UNCHANGED Words /\ fd_out' = block /\ Block'.hdr = HdrOf(tag)
       \/ /\ Words'.hdr \subseteq Words.hdr \cup HdrOf(tag) /\ Block'.hdr = {}
          /\ fd_is_header' => Len(block) = HeaderSymbols
  <2>1. CASE UNCHANGED words /\ fd_out' = block /\ fd_frame_info' = tag
    BY <2>1 DEF Words, WordItems, Block
  <2>2. CASE /\ words' = words \o FD!TaggedBlock(block, tag)
             /\ fd_out' = <<>> /\ fd_frame_info' = <<>>
             /\ fd_is_header' => Len(block) = HeaderSymbols
    <3> DEFINE out == FD!TaggedBlock(block, tag)
    <3>1. out \in Seq(WordType) /\ \A i \in 1 .. Len(out) : out[i].tag = tag \/ out[i].tag = <<>>
      <4>1. /\ out \in Seq(WordType) /\ Len(out) = Len(block)
            /\ \A i \in 1 .. Len(block) :
                 out[i] = [frame |-> block[i], tag |-> IF i = 1 THEN tag ELSE <<>>]
        BY TaggedBlockType
      <4> HIDE DEF out
      <4>2. ASSUME NEW i \in 1 .. Len(out) PROVE out[i].tag = tag \/ out[i].tag = <<>>
        <5> DEFINE t == IF i = 1 THEN tag ELSE <<>>
        <5>1. i \in 1 .. Len(block)
          BY <4>1, <4>2
        <5>2. out[i] = [frame |-> block[i], tag |-> t]
          BY <4>1, <5>1, Zenon
        <5>3. t = tag \/ t = <<>>
          BY Zenon
        <5> HIDE DEF t
        <5>4. out[i].tag = t
          BY <5>2
        <5>5. QED
          BY <5>3, <5>4
      <4>3. QED
        BY <4>1, <4>2
    <3>2. words' = words \o out
      BY <2>2
    <3> HIDE DEF out
    <3>3. Words'.hdr \subseteq Words.hdr \cup HdrOf(tag)
      BY <1>1, <3>1, <3>2, WordsHeaders
    <3>4. Block'.hdr = {}
      BY <2>2, HdrNone DEF Block
    <3>5. QED
      BY <2>2, <3>3, <3>4
  <2>3. QED
    BY <1>2, <2>1, <2>2 DEF DemodGoes
<1>11. Announced' \subseteq Announced
  BY <1>3, <1>4, <1>7, <1>10 DEF Announced
<1>12. TagInv'
  <2>1. \A i \in 1 .. n : Len(sync_out[i].tags) <= 1
    BY <1>0, <1>1 DEF TagInv
  <2>2. \A i \in 1 .. n - 1 : Len(sync_out'[i].tags) <= 1
    BY <1>3, <1>8, <2>1
  <2>3. \A i \in 1 .. Len(sync_out') : Len(sync_out'[i].tags) <= 1
    BY <1>3, <2>2
  <2>4. QED
    BY <1>1, <1>4, <2>3 DEF TagInv
<1>13. HeaderInv'
  BY <1>1, <1>4, <1>5, <1>11 DEF HeaderInv
<1>14. CountInv'
  <2>1. ASSUME NEW k \in 1 .. n - 1, SymItems'[k].hdr # {}
        PROVE  /\ (n - 1) - k + 1 = symbol_cnt
               /\ \A i \in k + 1 .. n - 1 : sync_out'[i].tags = <<>>
    <3>1. n - (k + 1) + 1 = symbol_cnt /\ \A i \in (k + 1) + 1 .. n : sync_out[i].tags = <<>>
      BY <1>0, <1>1, <1>3, <1>8, <2>1 DEF CountInv
    <3>2. \A i \in k + 1 .. n - 1 : i \in 1 .. n - 1 /\ i + 1 \in (k + 1) + 1 .. n
      BY <1>1
    <3>3. \A i \in k + 1 .. n - 1 : sync_out'[i].tags = <<>>
      BY <1>3, <3>1, <3>2
    <3>4. (n - 1) - k + 1 = symbol_cnt
      BY <1>1, <3>1
    <3>5. QED
      BY <3>3, <3>4
  <2>2. Block'.hdr # {} =>
          /\ fd_is_header' /\ Len(fd_out') + Len(sync_out') = symbol_cnt
          /\ \A i \in 1 .. n - 1 : sync_out'[i].tags = <<>>
    BY <1>3, <1>9, <1>10
  <2>3. Words'.hdr # {} \/ Nibs'.hdr # {} => symbol_cnt >= HeaderSymbols
    <3>1. CASE Words.hdr # {} \/ Nibs.hdr # {}
      BY <1>1, <3>1 DEF CountInv
    <3>2. CASE HdrOf(tag) # {} /\ (fd_is_header' => Len(block) = HeaderSymbols)
      <4>1. b = 8 /\ b + (n - 1) = symbol_cnt
        BY <1>0, <1>9, <3>2 DEF HeaderSymbols
      <4>2. QED
        BY <1>1, <1>3, <4>1 DEF HeaderSymbols
    <3>3. QED
      BY <1>4, <1>10, <3>1, <3>2
  <2>4. QED
    BY <1>1, <1>3, <1>4, <2>1, <2>2, <2>3 DEF CountInv
<1>15. QED
  BY <1>12, <1>13, <1>14 DEF PlaceInv

(***************************************************************************)
(* The other blocks.                                                       *)
(***************************************************************************)
\* What FrameSync and FftDemod have.
FrontStays ==
  UNCHANGED <<m_state, symbol_cnt, m_received_head, m_symb_numb, frame_cnt, tagq, pend,
              sync_out, fd_is_header, fd_out, fd_frame_info>>

LEMMA FrontUnchanged ==
  ASSUME FrontStays
  PROVE  UNCHANGED <<SymItems, Syms, Block, Pend>> /\ (Waiting' <=> Waiting)
BY DEF FrontStays, SymItems, Syms, Block, Pend, Waiting

\* A step that moves or drops headers behind FftDemod, and answers none.
LEMMA BackMoves ==
  ASSUME PlaceInv, FrontStays, fi_q' = fi_q,
         Nibs'.hdr \cup Words'.hdr \subseteq Nibs.hdr \cup Words.hdr
  PROVE  PlaceInv'
<1>1. UNCHANGED <<SymItems, Syms, Block, Pend>> /\ (Waiting' <=> Waiting)
  BY FrontUnchanged
<1>2. Announced' \subseteq Announced
  BY <1>1 DEF Announced
<1>3. TagInv'
  BY DEF PlaceInv, TagInv, FrontStays
<1>4. HeaderInv'
  BY <1>1, <1>2 DEF PlaceInv, HeaderInv, FrontStays
<1>5. CountInv'
  BY <1>1 DEF PlaceInv, CountInv, FrontStays
<1>6. QED
  BY <1>3, <1>4, <1>5 DEF PlaceInv

\* The header frames of a stream of nibbles that is extended.
LEMMA NibsHeaders ==
  ASSUME ChainTypeOK, NEW out \in Seq(NibType), NEW tag, nibs' = nibs \o out,
         \A i \in 1 .. Len(out) : out[i].tag = tag \/ out[i].tag = <<>>
  PROVE  Nibs'.hdr \subseteq Nibs.hdr \cup HdrOf(tag)
<1> DEFINE n == Len(nibs)
           b == Len(out)
<1>1. nibs \in Seq(NibType) /\ n \in Nat /\ b \in Nat
  BY DEF ChainTypeOK
<1>2. /\ Len(nibs') = n + b
      /\ \A i \in 1 .. n + b : nibs'[i] = IF i <= n THEN nibs[i] ELSE out[i - n]
  BY <1>1, ConcatProperties
<1> HIDE DEF n, b
<1>3. \A i \in 1 .. n + b : i \in 1 .. n \/ (~(i <= n) /\ i - n \in 1 .. b)
  BY <1>1
<1>4. \A i \in 1 .. n + b : \/ i \in 1 .. n /\ nibs'[i] = nibs[i]
                            \/ nibs'[i].tag = tag \/ nibs'[i].tag = <<>>
  BY <1>1, <1>2, <1>3 DEF b
<1>5. Nibs'.hdr = UNION {HdrOf(nibs'[i].tag) : i \in 1 .. n + b}
  BY <1>2 DEF Nibs, All, NibItems
<1>6. \A i \in 1 .. n : HdrOf(nibs[i].tag) \subseteq Nibs.hdr
  BY DEF Nibs, All, NibItems, n
<1>7. QED
  BY <1>4, <1>5, <1>6, HdrNone

LEMMA DeinterleaverKeepsPlaces ==
  ASSUME ChainInv, PlaceInv, DeinterleaverStep
  PROVE  PlaceInv'
<1>1. ChainTypeOK
  BY DEF ChainInv
<1>2. PICK n \in 0 .. Len(words), k \in Nat :
        /\ words' = SubSeq(words, n + 1, Len(words))
        /\ nibs' = nibs \/ (n > 0 /\ nibs' = nibs \o NibblesOf(n, k))
  BY <1>1, DeinterOutcome
<1>3. FrontStays /\ fi_q' = fi_q
  BY DEF DeinterleaverStep, vars, demodState, messages, FrontStays
<1>4. Words'.hdr \subseteq Words.hdr
  <2>1. words \in Seq(WordType) /\ Len(words) \in Nat /\ n \in Nat
    BY <1>1 DEF ChainTypeOK
  <2>2. Len(words') = Len(words) - n /\ \A i \in 1 .. Len(words) - n : words'[i] = words[i + n]
    BY <1>2, <2>1, FrontDropped
  <2>3. \A i \in 1 .. Len(words) - n : i + n \in 1 .. Len(words)
    BY <2>1
  <2>4. Words'.hdr = UNION {HdrOf(words'[i].tag) : i \in 1 .. Len(words) - n}
    BY <2>2 DEF Words, All, WordItems
  <2>5. \A i \in 1 .. Len(words) : HdrOf(words[i].tag) \subseteq Words.hdr
    BY DEF Words, All, WordItems
  <2>6. QED
    BY <2>2, <2>3, <2>4, <2>5
<1>5. Nibs'.hdr \subseteq Nibs.hdr \cup Words.hdr
  <2>1. CASE nibs' = nibs
    BY <2>1 DEF Nibs, NibItems
  <2>2. CASE n > 0 /\ nibs' = nibs \o NibblesOf(n, k)
    <3> DEFINE out == NibblesOf(n, k)
               tag == words[1].tag
    <3>1. n \in 1 .. Len(words) /\ 1 \in 1 .. Len(words)
      BY <1>1, <2>2 DEF ChainTypeOK
    <3>2. /\ out \in Seq(NibType) /\ Len(out) = k
          /\ \A i \in 1 .. k : out[i].tag = IF i = 1 THEN tag ELSE <<>>
      BY <1>1, <3>1, NibblesType
    <3>3. HdrOf(tag) \subseteq Words.hdr
      BY <3>1 DEF Words, All, WordItems
    <3> HIDE DEF out, tag
    <3>4. \A i \in 1 .. Len(out) : out[i].tag = tag \/ out[i].tag = <<>>
      <4>1. \A i \in 1 .. k : out[i].tag = tag \/ out[i].tag = <<>>
        BY <3>2, Zenon
      <4>2. QED
        BY <3>2, <4>1, Zenon
    <3>5. nibs' = nibs \o out
      BY <2>2 DEF out
    <3>6. Nibs'.hdr \subseteq Nibs.hdr \cup HdrOf(tag)
      BY <1>1, <3>2, <3>4, <3>5, NibsHeaders
    <3>7. QED
      BY <3>3, <3>6
  <2>3. QED
    BY <1>2, <2>1, <2>2
<1>6. QED
  BY <1>3, <1>4, <1>5, BackMoves

\* The number that is put into an answer does not change what it says.
LEMMA AnswerSays ==
  ASSUME NEW m \in HeaderMsgType, NEW f \in Nat, NEW a, a = [m EXCEPT !.frame = f]
  PROVE  /\ a \in HeaderMsgType /\ a.err = m.err /\ a.frame = f
         /\ SymbNumb(a) = SymbNumb(m)
<1>1. a \in HeaderMsgType /\ a.err = m.err /\ a.frame = f
  BY AnswerType
<1>2. a.pay_len = m.pay_len /\ a.crc = m.crc /\ a.cr = m.cr
  BY DEF HeaderMsgType
<1>3. QED
  BY <1>1, <1>2, Zenon DEF SymbNumb

\* A header that is answered was the only one under way, with all of the symbols
\* FrameSync sends without knowing it.
LEMMA AnsweredHeader ==
  ASSUME ChainInv, PlaceInv, Len(nibs) > 0, NEW n \in 1 .. Len(nibs),
         nibs' = SubSeq(nibs, n + 1, Len(nibs)), UNCHANGED <<Words, Block, Syms, Pend>>,
         nibs[1].tag # <<>>, nibs[1].tag[1].is_header
  PROVE  /\ nibs[1].tag[1].frame = frame_cnt /\ frame_cnt \in Nat
         /\ Waiting /\ symbol_cnt = HeaderSymbols /\ fi_q = <<>>
         /\ Announced' = {}
<1> DEFINE f == nibs[1].tag[1].frame
           F == All(NibItems, n)
<1>1. /\ TypeOK /\ ChainTypeOK /\ OrderInv /\ HeaderInv /\ CountInv
      /\ frame_cnt \in Nat /\ symbol_cnt \in Nat /\ n \in 0 .. Len(nibs)
  BY DEF ChainInv, IInv, PlaceInv, TypeOK, ChainTypeOK
<1>2. Part(Nibs', Nibs) /\ Part(F, Nibs) /\ Before(F, Nibs')
  BY <1>1, NibblesTaken
<1>3. f \in F.hdr
  BY <1>1, HeaderComesFirst
<1> HIDE DEF F
<1>4. f \in Nibs.hdr
  BY <1>2, <1>3 DEF Part
<1>5. f = frame_cnt /\ Waiting /\ fi_q = <<>> /\ Nibs.hdr \subseteq {frame_cnt}
  BY <1>1, <1>4 DEF HeaderInv, Announced
<1>6. symbol_cnt = HeaderSymbols
  BY <1>1, <1>4, <1>5 DEF HeaderInv, CountInv, HeaderSymbols
<1>7. Nibs'.hdr = {}
  <2> SUFFICES ASSUME NEW h \in Nibs'.hdr PROVE FALSE
    OBVIOUS
  <2>1. h = frame_cnt
    BY <1>2, <1>5 DEF Part
  <2>2. f < h
    BY <1>2, <1>3 DEF Before
  <2>3. QED
    BY <1>1, <1>5, <2>1, <2>2
<1>8. Words.hdr = {} /\ Block.hdr = {} /\ Syms.hdr = {} /\ Pend.hdr = {}
  <2>1. /\ Line[2] = Nibs /\ Line[3] = Words /\ Line[4] = Block /\ Line[5] = Syms
        /\ Line[6] = Pend
    BY DEF Line
  <2>2. \A k \in 3 .. 6 : Line[k].hdr = {}
    BY <1>1, <1>4, <2>1, OneHeader
  <2>3. QED
    BY <2>1, <2>2
<1>9. Announced' = {}
  BY <1>7, <1>8 DEF Announced
<1>10. QED
  BY <1>1, <1>5, <1>6, <1>9

\* a is put out as an answer, the only one on its way to FrameSync.
Answers(a) ==
  /\ a \in HeaderMsgType /\ a.frame = frame_cnt /\ frame_cnt \in Nat
  /\ fi_q = <<>> /\ Len(fi_q') = 1 /\ fi_q'[1] = a
  /\ Waiting /\ symbol_cnt = HeaderSymbols /\ Announced' = {}
  /\ ~a.err => SymbNumb(a) > HeaderSymbols

LEMMA HeaderDecoderAnswers ==
  ASSUME PayloadFollows, ChainInv, PlaceInv, HeaderDecoderStep
  PROVE  /\ FrontStays /\ Words' = Words /\ Nibs'.hdr \subseteq Nibs.hdr
         /\ fi_q' = fi_q \/ \E a : Answers(a)
<1>1. ChainTypeOK /\ OrderInv /\ Len(nibs) \in Nat
  BY DEF ChainInv, ChainTypeOK
<1>2. PICK n \in 0 .. Len(nibs) :
        /\ nibs' = SubSeq(nibs, n + 1, Len(nibs))
        /\ \/ HeaderDrops(n)
           \/ \E frame \in FrameType, left \in Nat \ {0} :
                /\ n \in 1 .. left
                /\ FrameGoesOn(frame, left) \/ \E m \in HeaderMsgs : FrameStarts(frame, left, m)
  <2>1. HeadersAskForNibbles
    BY PayloadHasNibbles
  <2>2. QED
    BY <1>1, <2>1, HeaderOutcome
<1>3. FrontStays /\ UNCHANGED <<Words, WordItems>>
  BY DEF HeaderDecoderStep, vars, demodState, FrontStays, Words, WordItems
<1>4. Nibs'.hdr \subseteq Nibs.hdr
  BY <1>1, <1>2, NibblesTaken DEF Part
<1>5. ASSUME NEW m \in HeaderMsgs, n > 0, nibs[1].tag # <<>>, nibs[1].tag[1].is_header,
             fi_q' = Append(fi_q, [m EXCEPT !.frame = nibs[1].tag[1].frame])
      PROVE  \E a : Answers(a)
  <2> DEFINE a == [m EXCEPT !.frame = nibs[1].tag[1].frame]
  <2>1. n \in 1 .. Len(nibs) /\ Len(nibs) > 0
    BY <1>1, <1>5
  <2>2. /\ nibs[1].tag[1].frame = frame_cnt /\ frame_cnt \in Nat
        /\ Waiting /\ symbol_cnt = HeaderSymbols /\ fi_q = <<>>
        /\ Announced' = {}
    BY <1>2, <1>3, <1>5, <2>1, FrontUnchanged, AnsweredHeader
  <2>3. a \in HeaderMsgType /\ a.err = m.err /\ a.frame = frame_cnt /\ SymbNumb(a) = SymbNumb(m)
    BY <2>2, InputAssumption, AnswerSays
  <2>4. fi_q' = Append(<<>>, a)
    BY <1>5, <2>2
  <2> HIDE DEF a
  <2>5. Len(fi_q') = 1 /\ fi_q'[1] = a
    BY <2>4
  <2>6. ~a.err => SymbNumb(a) > HeaderSymbols
    BY <2>3 DEF PayloadFollows
  <2>7. QED
    BY <2>2, <2>3, <2>5, <2>6 DEF Answers
<1>6. ASSUME NEW frame \in FrameType, NEW left \in Nat \ {0}, n \in 1 .. left,
             FrameGoesOn(frame, left) \/ \E m \in HeaderMsgs : FrameStarts(frame, left, m)
      PROVE  fi_q' = fi_q \/ \E a : Answers(a)
  <2>1. n > 0
    BY <1>6
  <2>2. CASE FrameGoesOn(frame, left)
    BY <2>2 DEF FrameGoesOn
  <2>3. ASSUME NEW m \in HeaderMsgs, FrameStarts(frame, left, m) PROVE \E a : Answers(a)
    <3>1. /\ nibs[1].tag # <<>> /\ nibs[1].tag[1].is_header
          /\ fi_q' = Append(fi_q, [m EXCEPT !.frame = nibs[1].tag[1].frame])
      BY <2>3 DEF FrameStarts
    <3>2. QED
      BY <1>5, <2>1, <3>1
  <2>4. QED
    BY <1>6, <2>2, <2>3
<1>7. ASSUME HeaderDrops(n) PROVE fi_q' = fi_q \/ \E a : Answers(a)
  BY <1>5, <1>7 DEF HeaderDrops
<1>8. QED
  BY <1>2, <1>3, <1>4, <1>6, <1>7

LEMMA HeaderDecoderKeepsPlaces ==
  ASSUME PayloadFollows, ChainInv, ChainInv', PlaceInv, HeaderDecoderStep
  PROVE  PlaceInv'
<1>1. /\ FrontStays /\ Words' = Words /\ Nibs'.hdr \subseteq Nibs.hdr
      /\ fi_q' = fi_q \/ \E a : Answers(a)
  BY HeaderDecoderAnswers
<1>2. CASE fi_q' = fi_q
  BY <1>1, <1>2, BackMoves
<1>3. ASSUME NEW a, Answers(a) PROVE PlaceInv'
  <2>1. TagInv'
    BY <1>1 DEF PlaceInv, TagInv, FrontStays
  <2>2. /\ Waiting' /\ frame_cnt' = frame_cnt /\ symbol_cnt' = HeaderSymbols
    BY <1>1, <1>3, FrontUnchanged DEF FrontStays, Answers
  <2>3. HeaderInv'
    BY <1>3, <2>2 DEF HeaderInv, HeaderSymbols, Answers
  <2>4. CountInv'
    BY <1>3, NothingToCount DEF ChainInv, Answers
  <2>5. QED
    BY <2>1, <2>3, <2>4 DEF PlaceInv
<1>4. QED
  BY <1>1, <1>2, <1>3

\* The answer arrives: the frame is given up, or the tag of its payload is left
\* for the next call of work().
LEMMA FrameInfoKeepsPlaces ==
  ASSUME ChainInv, ChainInv', PlaceInv, FrameInfoStep, ~panicked'
  PROVE  PlaceInv'
<1> DEFINE m == Head(fi_q)
<1>1. /\ ChainTypeOK' /\ TagInv /\ HeaderInv
      /\ fi_q \in Seq(HeaderMsgType) /\ fi_q # <<>> /\ fi_q' = Tail(fi_q)
  BY DEF ChainInv, PlaceInv, ChainTypeOK, FrameInfoStep
<1>2. /\ Len(fi_q) = 1 /\ Waiting /\ symbol_cnt = HeaderSymbols /\ Announced = {}
      /\ ~fi_q[1].err => SymbNumb(fi_q[1]) > HeaderSymbols
  BY <1>1 DEF HeaderInv
<1>3. m = fi_q[1] /\ m \in HeaderMsgType /\ fi_q' = <<>>
  <2>1. m = fi_q[1] /\ m \in HeaderMsgType
    BY <1>1, HeadTailProperties
  <2>2. Tail(fi_q) \in Seq(HeaderMsgType) /\ Len(Tail(fi_q)) = 0
    BY <1>1, <1>2, HeadTailProperties
  <2>3. QED
    BY <1>1, <2>1, <2>2, EmptySeq
<1>4. tagq = <<>> /\ pend = <<>>
  <2>1. HdrOf(pend) = {}
    BY <1>2 DEF Announced, Pend
  <2>2. QED
    BY <1>1, <1>2, <2>1 DEF TagInv, Waiting
<1> HIDE DEF m
<1>5. UNCHANGED <<pend, sync_out, Nibs, Words, Block, Syms, Pend>>
  <2>1. pend' = pend
    BY DEF FrameInfoStep, FrameInfo
  <2>2. QED
    BY <2>1 DEF FrameInfoStep, streamVars, demodState, Nibs, NibItems, Words, WordItems,
                Block, Syms, SymItems, Pend
<1>6. Announced' = {}
  BY <1>2, <1>5 DEF Announced
<1>7. FrameInfo(m)
  BY DEF FrameInfoStep, m
<1>8. CountInv'
  BY <1>1, <1>6, NothingToCount
<1>9. \A i \in 1 .. Len(sync_out') : Len(sync_out'[i].tags) <= 1
  BY <1>1, <1>5 DEF TagInv
<1>10. CASE FrameInfoBad(m)
  <2>1. m_state' = "Detect" /\ tagq' = <<>>
    BY <1>4, <1>10 DEF FrameInfoBad, Reset, Pop
  <2>2. TagInv' /\ HeaderInv'
    BY <1>3, <1>4, <1>5, <1>6, <1>9, <2>1 DEF TagInv, HeaderInv, Waiting
  <2>3. QED
    BY <1>8, <2>2 DEF PlaceInv
<1>11. CASE FrameInfoGood(m)
  <2>1. /\ ~m.err /\ UNCHANGED <<m_state, symbol_cnt>>
        /\ m_symb_numb' = SymbNumb(m) /\ m_received_head' = TRUE
        /\ tagq' = Append(<<>>, m)
    BY <1>4, <1>11 DEF FrameInfoGood
  <2>2. Len(tagq') = 1
    BY <1>3, <2>1
  <2>3. TagInv'
    BY <1>2, <1>3, <1>4, <1>5, <1>9, <2>1, <2>2 DEF TagInv, Waiting, HeaderSymbols
  <2>4. HeaderInv'
    BY <1>3, <1>6, <2>1 DEF HeaderInv, Waiting
  <2>5. QED
    BY <1>8, <2>3, <2>4 DEF PlaceInv
<1>12. QED
  BY <1>7, <1>10, <1>11 DEF FrameInfo, FrameInfoPanics, Panic

LEMMA OthersKeepPlaces ==
  ASSUME PlaceInv, DecoderStep \/ PayloadCrcStep \/ UNCHANGED chainVars
  PROVE  PlaceInv'
<1>1. FrontStays /\ UNCHANGED <<fi_q, nibs, words>>
  <2>1. CASE DecoderStep
    BY <2>1 DEF DecoderStep, vars, streamVars, demodState, FrontStays
  <2>2. CASE PayloadCrcStep
    BY <2>2 DEF PayloadCrcStep, PayloadCrcResult, TakePayloadCrc, Panic, streamVars, demodState,
                FrontStays
  <2>3. CASE UNCHANGED chainVars
    BY <2>3 DEF chainVars, vars, streamVars, demodState, messages, FrontStays
  <2>4. QED
    BY <2>1, <2>2, <2>3
<1>2. UNCHANGED <<Nibs, Words>>
  BY <1>1 DEF Nibs, NibItems, Words, WordItems
<1>3. QED
  BY <1>1, <1>2, BackMoves

(***************************************************************************)
(* The net ids.                                                            *)
(***************************************************************************)
LEMMA FrameSyncKeepsIds ==
  ASSUME ChainInv, ChainInv', ByHeader, IdsInv, FrameSyncStep
  PROVE  IdsInv'
<1> DEFINE T == (0 .. (N - 1)) \X (0 .. (N - 1))
<1>1. /\ TypeOK /\ TypeOK' /\ net_id' \in T /\ frame_cnt \in Nat
  BY DEF ChainInv, IInv, TypeOK
<1> HIDE DEF T
<1>2. /\ ids \in Seq(T) /\ Len(ids) = frame_cnt
      /\ m_state = "SfoCompensation" => ids[frame_cnt] = net_id
      /\ vouched \subseteq 1 .. frame_cnt
      /\ known \subseteq InitialNetIds \cup {ids[f] : f \in vouched}
  BY DEF IdsInv, T
<1>3. /\ UNCHANGED <<fi_q, vouched>> /\ Work
      /\ ids' = IF frame_cnt' > frame_cnt THEN Append(ids, net_id') ELSE ids
  BY DEF FrameSyncStep, messages
<1>4. /\ StaysQuiet \/ FindsFrame \/ SendsSymbol \/ EndsFrame
      /\ known' = known
  BY <1>1, <1>3, WorkKind DEF ByHeader
<1>5. CASE frame_cnt' = frame_cnt /\ (m_state' = "SfoCompensation" =>
                                        m_state = "SfoCompensation" /\ net_id' = net_id)
  <2>1. ids' = ids
    BY <1>1, <1>3, <1>5
  <2>2. QED
    BY <1>3, <1>4, <1>5, <2>1 DEF IdsInv
<1>6. CASE FindsFrame
  <2>1. frame_cnt' = frame_cnt + 1 /\ ids' = Append(ids, net_id')
    BY <1>1, <1>3, <1>6 DEF FindsFrame
  <2>2. /\ ids' \in Seq(T) /\ Len(ids') = frame_cnt + 1 /\ ids'[frame_cnt + 1] = net_id'
        /\ \A f \in 1 .. frame_cnt : ids'[f] = ids[f]
    BY <1>1, <1>2, <2>1, AppendProperties
  <2>3. {ids'[f] : f \in vouched} = {ids[f] : f \in vouched}
    BY <1>2, <2>2
  <2>4. vouched \subseteq 1 .. frame_cnt + 1
    BY <1>1, <1>2
  <2>5. Policy = "HeaderCrcOk" /\ fi_q # <<>> => fi_q[1].err \/ fi_q[1].frame \in vouched
    BY DEF IdsInv
  <2>6. QED
    BY <1>2, <1>3, <1>4, <2>1, <2>2, <2>3, <2>4, <2>5 DEF IdsInv, T
<1>7. QED
  BY <1>4, <1>5, <1>6 DEF StaysQuiet, SendsSymbol, EndsFrame

LEMMA HeaderDecoderKeepsIds ==
  ASSUME PayloadFollows, ChainInv, PlaceInv, IdsInv, HeaderDecoderStep
  PROVE  IdsInv'
<1> DEFINE answer == fi_q'[Len(fi_q')]
           good == IF fi_q' # fi_q /\ ~answer.err THEN {answer.frame} ELSE {}
<1>1. /\ UNCHANGED <<m_state, net_id, frame_cnt, known, ids>>
      /\ vouched' = IF Policy = "HeaderCrcOk" THEN vouched \cup good ELSE vouched
  BY DEF HeaderDecoderStep, vars
<1>2. fi_q' = fi_q \/ \E a : Answers(a)
  BY HeaderDecoderAnswers
<1>3. CASE fi_q' = fi_q
  <2>1. vouched' = vouched
    BY <1>1, <1>3
  <2>2. QED
    BY <1>1, <1>3, <2>1 DEF IdsInv
<1>4. ASSUME NEW a, Answers(a) PROVE IdsInv'
  <2>1. answer = a /\ fi_q' # fi_q /\ fi_q'[1] = a /\ a.frame = frame_cnt /\ frame_cnt \in Nat
    BY <1>4 DEF Answers
  <2>2. frame_cnt \in 1 .. frame_cnt
    BY <1>4, <2>1 DEF Answers, Waiting, ChainInv, OrderInv, Started
  <2>3. vouched \subseteq vouched' /\ vouched' \subseteq vouched \cup {frame_cnt}
    BY <1>1, <2>1
  <2>4. Policy = "HeaderCrcOk" => a.err \/ frame_cnt \in vouched'
    BY <1>1, <2>1
  <2> HIDE DEF answer, good
  <2>5. QED
    BY <1>1, <2>1, <2>2, <2>3, <2>4 DEF IdsInv
<1>5. QED
  BY <1>2, <1>3, <1>4

\* The net id that the handler caches is that of the frame the answer is about.
LEMMA FrameInfoKeepsIds ==
  ASSUME ChainInv, PlaceInv, ByHeader, IdsInv, FrameInfoStep
  PROVE  IdsInv'
<1> DEFINE m == Head(fi_q)
<1>1. /\ fi_q \in Seq(HeaderMsgType) /\ fi_q # <<>> /\ fi_q' = Tail(fi_q) /\ FrameInfo(m)
      /\ UNCHANGED <<ids, vouched, frame_cnt, net_id>>
  BY DEF ChainInv, ChainTypeOK, FrameInfoStep, FrameInfo, ghosts
<1>2. /\ Len(fi_q) = 1 /\ fi_q[1].frame = frame_cnt /\ m_state = "SfoCompensation"
  BY <1>1 DEF PlaceInv, HeaderInv, Waiting
<1>3. m = fi_q[1] /\ fi_q' = <<>>
  <2>1. m = fi_q[1]
    BY <1>1, HeadTailProperties
  <2>2. Tail(fi_q) \in Seq(HeaderMsgType) /\ Len(Tail(fi_q)) = 0
    BY <1>1, <1>2, HeadTailProperties
  <2>3. QED
    BY <1>1, <2>1, <2>2, EmptySeq
<1> HIDE DEF m
<1>4. m_state' = "SfoCompensation" => m_state = "SfoCompensation"
  BY <1>2
<1>5. known' \subseteq InitialNetIds \cup {ids[f] : f \in vouched}
  <2>1. CASE known' = known
    BY <2>1 DEF IdsInv
  <2>2. CASE known' # known
    <3>1. ~m.err /\ Policy = "HeaderCrcOk" /\ known' = known \cup {net_id}
      BY <1>1, <2>2 DEF FrameInfo, FrameInfoBad, FrameInfoGood, FrameInfoPanics, Panic, CacheNetId
    <3>2. frame_cnt \in vouched /\ ids[frame_cnt] = net_id
      BY <1>1, <1>2, <1>3, <3>1 DEF IdsInv
    <3>3. QED
      BY <3>1, <3>2 DEF IdsInv
  <2>3. QED
    BY <2>1, <2>2
<1>6. QED
  BY <1>1, <1>3, <1>4, <1>5 DEF IdsInv

LEMMA OthersKeepIds ==
  ASSUME ByHeader, IdsInv,
         \/ FftDemodStep \/ DeinterleaverStep \/ DecoderStep \/ PayloadCrcStep
         \/ UNCHANGED chainVars
  PROVE  IdsInv'
<1>1. UNCHANGED <<m_state, net_id, frame_cnt, known, fi_q, ids, vouched>>
  <2>1. CASE FftDemodStep
    BY <2>1 DEF FftDemodStep, vars, messages, ghosts
  <2>2. CASE DeinterleaverStep
    BY <2>2 DEF DeinterleaverStep, vars, messages, ghosts
  <2>3. CASE DecoderStep
    BY <2>3 DEF DecoderStep, vars, ByHeader
  <2>4. CASE PayloadCrcStep
    BY <2>4 DEF PayloadCrcStep, PayloadCrcResult, TakePayloadCrc, Panic, ghosts, ByHeader
  <2>5. CASE UNCHANGED chainVars
    BY <2>5 DEF chainVars, vars, messages, ghosts
  <2>6. QED
    BY <2>1, <2>2, <2>3, <2>4, <2>5
<1>2. QED
  BY <1>1 DEF IdsInv

(***************************************************************************)
(* The invariant is one.                                                   *)
(***************************************************************************)
LEMMA WaitInitHolds == ChainInit => WaitInv
<1> SUFFICES ASSUME ChainInit PROVE WaitInv
  OBVIOUS
<1>1. ChainInv /\ retunes \in Nat
  BY ChainInitHolds DEF ChainInit
<1>2. /\ m_state = "Detect" /\ tagq = <<>> /\ pend = <<>> /\ fi_q = <<>> /\ frame_cnt = 0
      /\ sync_out = <<>> /\ words = <<>> /\ nibs = <<>> /\ fd_frame_info = <<>>
      /\ ids = <<>> /\ vouched = {} /\ known = InitialNetIds
  BY DEF ChainInit, Init, FD!DemodInit, DI!DeinterInit, HD!HeaderInit
<1>3. Nibs.hdr = {} /\ Words.hdr = {} /\ Block.hdr = {} /\ Syms.hdr = {} /\ Pend.hdr = {}
  BY <1>2, HdrNone DEF Nibs, Words, Block, Syms, Pend, All
<1>4. TagInv
  BY <1>2 DEF TagInv
<1>5. HeaderInv
  BY <1>2, <1>3 DEF HeaderInv, Announced, Waiting
<1>6. CountInv
  BY <1>2, <1>3 DEF CountInv
<1>7. IdsInv
  BY <1>2 DEF IdsInv
<1>8. QED
  BY <1>1, <1>4, <1>5, <1>6, <1>7 DEF WaitInv, PlaceInv

\* FrameSync does nothing any more once it has panicked.
LEMMA PanicIsFinal ==
  ASSUME [ChainNext]_chainVars, panicked
  PROVE  panicked'
<1>1. ~FrameSyncStep /\ ~FrameInfoStep /\ ~PayloadCrcStep /\ ~RetuneStep
  BY DEF FrameSyncStep, Work, FrameInfoStep, FrameInfo, PayloadCrcStep, PayloadCrcResult,
         RetuneStep, Retune
<1>2. UNCHANGED vars
  BY <1>1 DEF ChainNext, FftDemodStep, DeinterleaverStep, HeaderDecoderStep, DecoderStep,
              chainVars
<1>3. QED
  BY <1>2 DEF vars

LEMMA WaitNextHolds ==
  ASSUME PayloadFollows, WaitInv, [ChainNext]_chainVars
  PROVE  WaitInv'
<1>1. ChainInv /\ retunes \in Nat /\ (Undisturbed => PlaceInv /\ (ByHeader => IdsInv))
  BY DEF WaitInv
<1>2. ChainInv'
  BY <1>1, PayloadHasNibbles, ChainNextHolds
<1>3. retunes' = retunes \/ (RetuneStep /\ retunes' = retunes + 1)
  BY DEF ChainNext, FrameSyncStep, FftDemodStep, DeinterleaverStep, HeaderDecoderStep,
         DecoderStep, FrameInfoStep, PayloadCrcStep, RetuneStep, chainVars, ghosts
<1>4. retunes' \in Nat
  BY <1>1, <1>3
<1>5. Undisturbed' => Undisturbed /\ ~RetuneStep
  BY <1>1, <1>3, PanicIsFinal DEF Undisturbed, RetuneStep
<1>6. ASSUME Undisturbed' PROVE PlaceInv'
  <2>1. PlaceInv /\ ~RetuneStep
    BY <1>1, <1>5, <1>6
  <2>2. CASE FrameSyncStep
    BY <1>1, <1>2, <2>1, <2>2, FrameSyncKeepsPlaces
  <2>3. CASE FftDemodStep
    BY <1>1, <1>2, <2>1, <2>3, FftDemodKeepsPlaces
  <2>4. CASE DeinterleaverStep
    BY <1>1, <2>1, <2>4, DeinterleaverKeepsPlaces
  <2>5. CASE HeaderDecoderStep
    BY <1>1, <1>2, <2>1, <2>5, HeaderDecoderKeepsPlaces
  <2>6. CASE FrameInfoStep
    BY <1>1, <1>2, <1>6, <2>1, <2>6, FrameInfoKeepsPlaces DEF Undisturbed
  <2>7. CASE DecoderStep \/ PayloadCrcStep \/ UNCHANGED chainVars
    BY <2>1, <2>7, OthersKeepPlaces
  <2>8. QED
    BY <2>1, <2>2, <2>3, <2>4, <2>5, <2>6, <2>7 DEF ChainNext
<1>7. ASSUME Undisturbed', ByHeader PROVE IdsInv'
  <2>1. PlaceInv /\ IdsInv /\ ~RetuneStep
    BY <1>1, <1>5, <1>7
  <2>2. CASE FrameSyncStep
    BY <1>1, <1>2, <1>7, <2>1, <2>2, FrameSyncKeepsIds
  <2>3. CASE HeaderDecoderStep
    BY <1>1, <2>1, <2>3, HeaderDecoderKeepsIds
  <2>4. CASE FrameInfoStep
    BY <1>1, <1>7, <2>1, <2>4, FrameInfoKeepsIds
  <2>5. CASE \/ FftDemodStep \/ DeinterleaverStep \/ DecoderStep \/ PayloadCrcStep
             \/ UNCHANGED chainVars
    BY <1>7, <2>1, <2>5, OthersKeepIds
  <2>6. QED
    BY <2>1, <2>2, <2>3, <2>4, <2>5 DEF ChainNext
<1>8. ByHeader' => ByHeader
  BY DEF ByHeader
<1>9. QED
  BY <1>2, <1>4, <1>6, <1>7, <1>8 DEF WaitInv

LEMMA WaitInvariant == PayloadFollows /\ ChainSpec => []WaitInv
<1> DEFINE Hyp == PayloadFollows /\ WaitInv
<1>1. PayloadFollows /\ ChainInit => Hyp
  BY WaitInitHolds
<1>2. Hyp /\ [ChainNext]_chainVars => Hyp'
  <2> SUFFICES ASSUME Hyp, [ChainNext]_chainVars PROVE Hyp'
    OBVIOUS
  <2>1. WaitInv'
    BY WaitNextHolds
  <2>2. PayloadFollows'
    BY DEF PayloadFollows, SymbNumb, CeilDiv, HeaderSymbols
  <2>3. QED
    BY <2>1, <2>2
<1>3. Hyp => WaitInv
  OBVIOUS
<1> HIDE DEF Hyp
<1>4. QED
  BY <1>1, <1>2, <1>3, PTL DEF ChainSpec

(***************************************************************************)
(* The results.                                                            *)
(***************************************************************************)
\* The answer of HeaderDecoder finds FrameSync in the state the handler assumes
\* without looking: waiting with the eighth symbol of the very frame the header
\* was in, and it is the only one.
THEOREM AnswersFindTheirFrame ==
  PayloadFollows /\ ChainSpec => []AnswerIsForWaitingFrame
<1>1. WaitInv => AnswerIsForWaitingFrame
  BY DEF WaitInv, PlaceInv, HeaderInv, Waiting, AnswerIsForWaitingFrame, WaitsForHeader,
         HeaderSymbols
<1>2. QED
  BY <1>1, WaitInvariant, PTL

\* The handler finds room in its channel to work(): there is at most one tag in
\* it, and none when an answer arrives.
THEOREM TagChannelHasRoom ==
  PayloadFollows /\ ChainSpec =>
    [](TagChannelNotFull /\ (Undisturbed /\ fi_q # <<>> => tagq = <<>>))
<1>1. WaitInv => TagChannelNotFull /\ (Undisturbed /\ fi_q # <<>> => tagq = <<>>)
  <2> SUFFICES ASSUME WaitInv, Undisturbed
               PROVE  Len(tagq) <= 1 /\ (fi_q # <<>> => tagq = <<>>)
    BY DEF TagChannelNotFull
  <2>1. TagInv /\ HeaderInv
    BY DEF WaitInv, PlaceInv
  <2>2. CASE tagq = <<>>
    BY <2>2
  <2>3. CASE tagq # <<>>
    <3>1. Len(tagq) = 1 /\ m_received_head
      BY <2>1, <2>3, Zenon DEF TagInv
    <3>2. fi_q = <<>>
      BY <2>1, <3>1, Zenon DEF HeaderInv, Waiting
    <3>3. QED
      BY <3>1, <3>2
  <2>4. QED
    BY <2>2, <2>3
<1>2. QED
  BY <1>1, WaitInvariant, PTL

\* FftDemod never finds two tags on one symbol, which it could not consume.
THEOREM TagsStayApart == PayloadFollows /\ ChainSpec => []OneTagPerSymbol
<1>1. WaitInv => OneTagPerSymbol
  <2> SUFFICES ASSUME WaitInv, Undisturbed
               PROVE  /\ Len(pend) <= 1
                      /\ \A i \in DOMAIN sync_out : Len(sync_out[i].tags) <= 1
    BY DEF OneTagPerSymbol
  <2>1. TagInv
    BY DEF WaitInv, PlaceInv
  <2>2. DOMAIN sync_out = 1 .. Len(sync_out)
    BY DEF WaitInv, ChainInv, ChainTypeOK
  <2>3. Len(pend) <= 1
    <3>1. CASE pend = <<>>
      BY <3>1
    <3>2. CASE pend # <<>>
      <4>1. Len(pend) = 1
        BY <2>1, <3>2, Zenon DEF TagInv
      <4>2. QED
        BY <4>1
    <3>3. QED
      BY <3>1, <3>2
  <2>4. QED
    BY <2>1, <2>2, <2>3 DEF TagInv
<1>2. QED
  BY <1>1, WaitInvariant, PTL

\* With a policy that caches a net id when its header was good, or never, every
\* cached net id is a configured one or that of a frame whose header was good.
THEOREM CachedIdsAreVouched ==
  PayloadFollows /\ ByHeader /\ ChainSpec => []CacheIsVouched
<1> DEFINE Hyp == ByHeader
<1>1. WaitInv /\ Hyp => CacheIsVouched
  BY DEF WaitInv, IdsInv, CacheIsVouched
<1>2. Hyp => []Hyp
  <2>1. Hyp => Hyp'
    BY DEF ByHeader
  <2>2. QED
    BY <2>1, PTL
<1> HIDE DEF Hyp
<1>3. ByHeader => Hyp
  BY DEF Hyp
<1>4. QED
  BY <1>1, <1>2, <1>3, WaitInvariant, PTL

=============================================================================
