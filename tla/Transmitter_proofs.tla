------------------------- MODULE Transmitter_proofs -------------------------
(***************************************************************************)
(* Proofs about Transmitter, for bursts of any lengths, any capacity of    *)
(* the output, and any number of payloads: types, that the stream consists *)
(* of whole bursts and is complete when the block leaves, and that the     *)
(* block implements BurstStream.                                           *)
(***************************************************************************)
EXTENDS Transmitter, SequenceTheorems, TLAPS

(***************************************************************************)
(* The invariant: the burst at hand, the queue behind it, and the end of   *)
(* the stream in front of it.                                              *)
(***************************************************************************)
BurstInv ==
  /\ current_frame = 0 => current_len = 0
  /\ current_frame # 0 => current_len > 0 /\ current_len = submitted[current_frame]
  /\ tag_pending = IF current_offset = 0 THEN current_len ELSE 0

\* Nothing is dropped from the queue but by a payload that panics.
QueueInv ==
  ~panicked =>
    /\ current_frame + Len(frames) = Len(submitted)
    /\ \A i \in 1 .. Len(frames) : frames[i] = current_frame + i

\* The samples written so far end just before sample offset + 1 of frame f.
EndsBefore(f, offset) ==
  IF offset > 0
    THEN air # <<>> /\ air[Len(air)].frame = f /\ air[Len(air)].pos = offset
    ELSE IF f <= 1 THEN air = <<>>
         ELSE /\ air # <<>>
              /\ air[Len(air)].frame = f - 1 /\ air[Len(air)].pos = submitted[f - 1]
StreamEnd == EndsBefore(current_frame, current_offset)

FinishedInv == io_finished => frames = <<>> /\ current_offset = current_len /\ ~panicked

TInv == TypeOK /\ BurstInv /\ QueueInv /\ StreamEnd /\ Promise!WholeBursts /\ FinishedInv

LEMMA TInit == Init => TInv
<1> SUFFICES ASSUME Init PROVE TInv
  OBVIOUS
<1>1. TypeOK
  <2>1. Len(submitted) = 0 /\ frames = <<>> /\ submitted = <<>>
    BY DEF Init
  <2>2. frames \in Seq(1 .. Len(submitted)) /\ submitted \in Seq(Nat)
    BY <2>1
  <2>3. current_frame \in 0 .. Len(submitted) /\ current_len \in Nat
        /\ current_offset \in 0 .. current_len /\ tag_pending \in Nat /\ room \in 0 .. Capacity
    BY <2>1, TransmitterAssumption DEF Init
  <2>4. {finished, io_finished, panicked, notified} \subseteq BOOLEAN
    BY Zenon DEF Init
  <2>5. QED
    BY <2>2, <2>3, <2>4 DEF TypeOK
<1>2. BurstInv /\ QueueInv /\ StreamEnd /\ FinishedInv
  BY DEF Init, BurstInv, QueueInv, StreamEnd, EndsBefore, FinishedInv
<1>3. Promise!WholeBursts
  BY DEF Init, Promise!WholeBursts
<1>4. QED
  BY <1>1, <1>2, <1>3 DEF TInv

(***************************************************************************)
(* Writing samples.                                                        *)
(***************************************************************************)
\* An entry of a sequence of naturals is a natural.
LEMMA EntryOfNatSeq ==
  ASSUME NEW s \in Seq(Nat), NEW i \in 1 .. Len(s)
  PROVE  s[i] \in Nat
OBVIOUS

\* More samples of frame f, from the one after offset.
LEMMA Extend ==
  ASSUME Promise!WholeBursts, submitted \in Seq(Nat),
         NEW f \in 1 .. Len(submitted), NEW offset \in Nat, NEW n \in Nat \ {0},
         offset + n <= submitted[f], EndsBefore(f, offset),
         NEW new, new = [i \in 1 .. n |->
                           [frame |-> f, pos |-> offset + i,
                            burst_start |-> IF i = 1 THEN (IF offset = 0 THEN submitted[f] ELSE 0)
                                            ELSE 0]],
         air' = air \o new, submitted' = submitted
  PROVE  /\ Promise!WholeBursts'
         /\ air' # <<>> /\ air'[Len(air')].frame = f /\ air'[Len(air')].pos = offset + n
<1> DEFINE l == Len(air)
<1>1. air \in Seq(Promise!Sample) /\ l \in Nat
  BY DEF Promise!WholeBursts
<1>2. submitted[f] \in Nat /\ f \in Nat /\ 1 \in 1 .. n
  OBVIOUS
<1>3. \A j \in 1 .. n : /\ new[j].frame = f /\ new[j].pos = offset + j
                        /\ new[j].burst_start = IF j = 1 /\ offset = 0 THEN submitted[f] ELSE 0
                        /\ new[j] \in Promise!Sample
  BY <1>2 DEF Promise!Sample
<1>4. new \in Seq(Promise!Sample) /\ Len(new) = n
  <2>1. new \in [1 .. n -> Promise!Sample]
    BY <1>3
  <2>2. QED
    BY <2>1 DEF Promise!Sample
<1>5. /\ air' \in Seq(Promise!Sample) /\ Len(air') = l + n
      /\ \A i \in 1 .. l : air'[i] = air[i]
      /\ \A j \in 1 .. n : air'[l + j] = new[j]
  BY <1>1, <1>4 DEF Promise!Sample
<1> HIDE DEF l
<1>6. ASSUME NEW i \in 1 .. l + n
      PROVE  Promise!IsSample(submitted', air'[i])
  <2>1. CASE i \in 1 .. l
    <3>1. Promise!IsSample(submitted, air[i])
      BY <2>1 DEF Promise!WholeBursts, l
    <3>2. QED
      BY <1>5, <2>1, <3>1 DEF Promise!IsSample
  <2>2. CASE i \notin 1 .. l
    <3>1. PICK j \in 1 .. n : i = l + j
      <4>1. i - l \in 1 .. n /\ i = l + (i - l)
        BY <1>1, <2>2
      <4>2. QED
        BY <4>1
    <3>2. air'[i] = new[j]
      BY <1>5, <3>1
    <3>3. offset + j \in 1 .. submitted[f] /\ (offset + j = 1 <=> j = 1 /\ offset = 0)
      BY <1>2
    <3>4. f \in 1 .. Len(submitted') /\ submitted'[f] = submitted[f]
      OBVIOUS
    <3>5. new[j].pos \in 1 .. submitted[f]
      BY <1>3, <3>3
    <3>6. new[j].burst_start = IF new[j].pos = 1 THEN submitted[f] ELSE 0
      BY <1>3, <3>3
    <3>7. QED
      BY <1>3, <3>2, <3>4, <3>5, <3>6 DEF Promise!IsSample
  <2>3. QED
    BY <2>1, <2>2
<1>7. air' # <<>> /\ air'[1].frame = 1 /\ air'[1].pos = 1
  <2>1. CASE air = <<>>
    <3>1. l = 0
      BY <2>1 DEF l
    <3>2. offset = 0 /\ f = 1
      BY <1>2, <2>1 DEF EndsBefore
    <3>3. air'[l + 1] = new[1]
      BY <1>2, <1>5
    <3>4. l + 1 = 1
      BY <3>1
    <3>5. new[1].frame = 1 /\ new[1].pos = 1
      BY <1>2, <1>3, <3>2
    <3>6. Len(air') # 0
      BY <1>5, <3>1
    <3>7. QED
      BY <3>3, <3>4, <3>5, <3>6
  <2>2. CASE air # <<>>
    <3>1. l >= 1
      BY <1>1, <2>2 DEF l
    <3>2. air'[1] = air[1]
      BY <1>1, <1>5, <3>1
    <3>3. QED
      BY <1>1, <1>5, <2>2, <3>1, <3>2 DEF Promise!WholeBursts
  <2>3. QED
    BY <2>1, <2>2
<1>8. ASSUME NEW i \in 1 .. l + n - 1
      PROVE  Promise!Follows(submitted', air'[i], air'[i + 1])
  <2>1. CASE i < l
    <3>1. i \in 1 .. l - 1 /\ i \in 1 .. l /\ i + 1 \in 1 .. l
      BY <1>1, <2>1
    <3>2. Promise!Follows(submitted, air[i], air[i + 1])
      BY <3>1 DEF Promise!WholeBursts, l
    <3>3. air'[i] = air[i] /\ air'[i + 1] = air[i + 1]
      BY <1>5, <3>1
    <3>4. QED
      BY <3>2, <3>3 DEF Promise!Follows
  <2>2. CASE i = l
    <3>1. air # <<>> /\ l \in 1 .. l
      BY <1>1, <2>2 DEF l
    <3>2. air'[i] = air[l] /\ air'[i + 1] = new[1]
      BY <1>2, <1>5, <2>2, <3>1
    <3>3. new[1].frame = f /\ new[1].pos = offset + 1
      BY <1>2, <1>3
    <3>4. CASE offset > 0
      <4>1. air[l].frame = f /\ air[l].pos = offset
        BY <3>4 DEF EndsBefore, l
      <4>2. offset < submitted[f]
        BY <1>2
      <4>3. QED
        BY <3>2, <3>3, <4>1, <4>2 DEF Promise!Follows
    <3>5. CASE offset = 0
      <4>1. f > 1 /\ air[l].frame = f - 1 /\ air[l].pos = submitted[f - 1]
        BY <1>2, <3>1, <3>5 DEF EndsBefore, l
      <4>2. submitted[f - 1] \in Nat
        <5>1. f - 1 \in 1 .. Len(submitted)
          BY <1>2, <4>1
        <5>2. QED
          BY <5>1, EntryOfNatSeq
      <4>3. ~(air[l].pos < submitted[air[l].frame]) /\ new[1].frame = air[l].frame + 1
        BY <1>2, <3>3, <4>1, <4>2
      <4>4. new[1].pos = 1
        BY <3>3, <3>5
      <4>5. QED
        BY <3>2, <4>3, <4>4 DEF Promise!Follows
    <3>6. offset > 0 \/ offset = 0
      OBVIOUS
    <3>7. QED
      BY <3>4, <3>5, <3>6, Zenon
  <2>3. CASE i > l
    <3>1. PICK j \in 1 .. n : i = l + j /\ j + 1 \in 1 .. n
      <4>1. i - l \in 1 .. n /\ i = l + (i - l) /\ (i - l) + 1 \in 1 .. n
        BY <1>1, <2>3
      <4>2. QED
        BY <4>1
    <3>2. i + 1 = l + (j + 1)
      BY <1>1, <3>1
    <3>3. air'[i] = new[j] /\ air'[i + 1] = new[j + 1]
      BY <1>5, <3>1, <3>2
    <3>4. /\ new[j].frame = f /\ new[j].pos = offset + j
          /\ new[j + 1].frame = f /\ new[j + 1].pos = offset + j + 1
      BY <1>3, <3>1
    <3>5. offset + j < submitted[f]
      BY <1>2, <3>1
    <3>6. QED
      BY <3>3, <3>4, <3>5 DEF Promise!Follows
  <2>4. i < l \/ i = l \/ i > l
    BY <1>1
  <2>5. QED
    BY <2>1, <2>2, <2>3, <2>4, Zenon
<1>9. air'[Len(air')].frame = f /\ air'[Len(air')].pos = offset + n
  <2>1. air'[Len(air')] = new[n]
    BY <1>5
  <2>2. QED
    BY <1>3, <2>1
<1>10. Promise!WholeBursts'
  <2>1. air' \in Seq(Promise!Sample)
    BY <1>5
  <2>2. \A i \in 1 .. Len(air') : Promise!IsSample(submitted', air'[i])
    BY <1>5, <1>6
  <2>3. \A i \in 1 .. Len(air') - 1 : Promise!Follows(submitted', air'[i], air'[i + 1])
    <3>1. Len(air') - 1 = l + n - 1
      BY <1>1, <1>5
    <3>2. QED
      BY <1>8, <3>1, Zenon
  <2>4. QED
    BY <1>7, <2>1, <2>2, <2>3 DEF Promise!WholeBursts
<1>11. QED
  BY <1>7, <1>9, <1>10

\* What Produce does to the stream and the burst at hand.
LEMMA ProduceStep ==
  ASSUME TypeOK, Promise!WholeBursts,
         NEW f \in 1 .. Len(submitted), NEW offset \in Nat, NEW len, NEW tag,
         len = submitted[f], offset < len, tag = (IF offset = 0 THEN len ELSE 0),
         EndsBefore(f, offset), Produce(f, len, offset, tag), submitted' = submitted
  PROVE  /\ Promise!WholeBursts' /\ StreamEnd' /\ BurstInv'
         /\ current_frame' = f /\ current_len' \in Nat /\ current_offset' \in 0 .. current_len'
         /\ tag_pending' \in Nat /\ room' \in 0 .. Capacity /\ notified' \in BOOLEAN
<1> DEFINE n == SmallerOf(room, len - offset)
<1>1. /\ submitted \in Seq(Nat) /\ submitted[f] \in Nat /\ len \in Nat /\ f \in Nat /\ f # 0
      /\ room \in Nat /\ room <= Capacity /\ Capacity \in Nat
  BY TransmitterAssumption DEF TypeOK
<1>2. n \in Nat /\ n <= room /\ offset + n <= len
  BY <1>1 DEF SmallerOf
<1> HIDE DEF n
<1>3. /\ air' = air \o [i \in 1 .. n |-> [frame |-> f, pos |-> offset + i,
                                          burst_start |-> IF i = 1 THEN tag ELSE 0]]
      /\ current_frame' = f /\ current_len' = len /\ current_offset' = offset + n
      /\ tag_pending' = IF n > 0 THEN 0 ELSE tag
      /\ room' = room - n
      /\ notified' = (room > n)
  BY DEF Produce, n
<1>4. /\ current_len' \in Nat /\ current_offset' \in 0 .. current_len'
      /\ tag_pending' \in Nat /\ room' \in 0 .. Capacity
  BY <1>1, <1>2, <1>3
<1>5. notified' \in BOOLEAN
  BY <1>3
<1>6. BurstInv'
  BY <1>1, <1>2, <1>3 DEF BurstInv
<1>7. Promise!WholeBursts' /\ StreamEnd'
  <2>1. CASE n = 0
    <3>1. air' = air
      <4>1. air \in Seq(Promise!Sample)
        BY DEF Promise!WholeBursts
      <4>2. air' = air \o <<>>
        BY <1>3, <2>1
      <4>3. QED
        BY <4>1, <4>2
    <3>2. current_offset' = offset
      BY <1>3, <2>1
    <3>3. Promise!WholeBursts'
      BY <3>1 DEF Promise!WholeBursts
    <3>4. QED
      BY <1>3, <3>1, <3>2, <3>3 DEF StreamEnd, EndsBefore
  <2>2. CASE n # 0
    <3>1. /\ Promise!WholeBursts' /\ air' # <<>>
          /\ air'[Len(air')].frame = f /\ air'[Len(air')].pos = offset + n
      <4> DEFINE new == [i \in 1 .. n |->
                           [frame |-> f, pos |-> offset + i,
                            burst_start |-> IF i = 1 THEN (IF offset = 0 THEN submitted[f] ELSE 0)
                                            ELSE 0]]
      <4>1. air' = air \o new
        BY <1>3
      <4>2. n \in Nat \ {0} /\ offset + n <= submitted[f]
        BY <1>2, <2>2
      <4> HIDE DEF new
      <4>3. new = [i \in 1 .. n |->
                     [frame |-> f, pos |-> offset + i,
                      burst_start |-> IF i = 1 THEN (IF offset = 0 THEN submitted[f] ELSE 0)
                                      ELSE 0]]
        BY DEF new
      <4>4. QED
        BY <1>1, <4>1, <4>2, <4>3, Extend
    <3>2. current_offset' > 0
      BY <1>2, <1>3, <2>2
    <3>3. QED
      BY <1>3, <3>1, <3>2 DEF StreamEnd, EndsBefore
  <2>3. QED
    BY <2>1, <2>2
<1>8. QED
  BY <1>3, <1>4, <1>5, <1>6, <1>7

(***************************************************************************)
(* The steps.                                                              *)
(***************************************************************************)
LEMMA ContinueStep == TInv /\ Running /\ Continue /\ UNCHANGED <<finished, submitted>> => TInv'
<1> SUFFICES ASSUME TInv, Running, Continue, UNCHANGED <<finished, submitted>> PROVE TInv'
  OBVIOUS
<1>1. /\ TypeOK /\ BurstInv /\ QueueInv /\ StreamEnd /\ Promise!WholeBursts
      /\ current_offset < current_len /\ frames' = frames /\ io_finished' = io_finished
      /\ panicked' = panicked /\ submitted' = submitted /\ finished' = finished
      /\ Produce(current_frame, current_len, current_offset, tag_pending)
      /\ ~io_finished
  BY DEF TInv, Continue, Running
<1>2. current_frame \in 1 .. Len(submitted) /\ current_offset \in Nat
      /\ current_len = submitted[current_frame]
      /\ tag_pending = IF current_offset = 0 THEN current_len ELSE 0
  BY <1>1 DEF TypeOK, BurstInv
<1>3. /\ Promise!WholeBursts' /\ StreamEnd' /\ BurstInv'
      /\ current_frame' = current_frame /\ current_len' \in Nat
      /\ current_offset' \in 0 .. current_len'
      /\ tag_pending' \in Nat /\ room' \in 0 .. Capacity /\ notified' \in BOOLEAN
  BY <1>1, <1>2, ProduceStep DEF StreamEnd
<1>4. TypeOK'
  <2>1. {finished, io_finished, panicked, notified}' \subseteq BOOLEAN
    BY <1>1, <1>3, Zenon DEF TypeOK
  <2>2. QED
    BY <1>1, <1>3, <2>1 DEF TypeOK
<1>5. QueueInv'
  BY <1>1, <1>3 DEF QueueInv
<1>6. FinishedInv'
  BY <1>1 DEF FinishedInv
<1>7. QED
  BY <1>3, <1>4, <1>5, <1>6 DEF TInv

LEMMA NextFrameStep == TInv /\ Running /\ NextFrame /\ UNCHANGED <<finished, submitted>> => TInv'
<1> SUFFICES ASSUME TInv, Running, NextFrame, UNCHANGED <<finished, submitted>> PROVE TInv'
  OBVIOUS
<1> DEFINE f == Head(frames)
<1>1. /\ TypeOK /\ BurstInv /\ QueueInv /\ StreamEnd /\ Promise!WholeBursts
      /\ current_offset = current_len /\ frames # <<>> /\ submitted[f] > 0
      /\ frames' = Tail(frames) /\ io_finished' = io_finished
      /\ panicked' = panicked /\ submitted' = submitted /\ finished' = finished
      /\ Produce(f, submitted[f], 0, submitted[f])
      /\ ~io_finished /\ ~panicked
  BY DEF TInv, NextFrame, Running
<1>2. /\ frames \in Seq(1 .. Len(submitted)) /\ Len(frames) \in Nat /\ Len(frames) > 0
      /\ Len(submitted) \in Nat /\ current_frame \in Nat /\ current_len \in Nat
  BY <1>1 DEF TypeOK
<1>3. f = current_frame + 1 /\ f \in 1 .. Len(submitted)
  BY <1>1, <1>2 DEF QueueInv
<1>4. submitted[f] \in Nat
  BY <1>1, <1>3 DEF TypeOK
<1>5. EndsBefore(f, 0)
  <2>1. CASE current_frame = 0
    BY <1>1, <1>3, <2>1 DEF StreamEnd, EndsBefore, BurstInv
  <2>2. CASE current_frame # 0
    <3>1. current_offset > 0 /\ current_offset = submitted[current_frame]
      BY <1>1, <2>2 DEF BurstInv
    <3>2. /\ air # <<>>
          /\ air[Len(air)].frame = current_frame /\ air[Len(air)].pos = current_offset
      BY <1>1, <3>1 DEF StreamEnd, EndsBefore
    <3>3. f - 1 = current_frame /\ ~(f <= 1)
      BY <1>2, <1>3, <2>2
    <3>4. QED
      BY <3>1, <3>2, <3>3 DEF EndsBefore
  <2>3. QED
    BY <2>1, <2>2
<1> HIDE DEF f
<1>6. /\ Promise!WholeBursts' /\ StreamEnd' /\ BurstInv'
      /\ current_frame' = f /\ current_len' \in Nat /\ current_offset' \in 0 .. current_len'
      /\ tag_pending' \in Nat /\ room' \in 0 .. Capacity /\ notified' \in BOOLEAN
  <2>1. 0 \in Nat /\ 0 < submitted[f] /\ submitted[f] = IF 0 = 0 THEN submitted[f] ELSE 0
    BY <1>1, <1>4
  <2>2. QED
    BY <1>1, <1>3, <1>5, <2>1, ProduceStep
<1>7. /\ frames' \in Seq(1 .. Len(submitted)) /\ Len(frames') = Len(frames) - 1
      /\ \A i \in 1 .. Len(frames) - 1 : frames'[i] = frames[i + 1]
  BY <1>1, <1>2
<1>8. TypeOK'
  <2>1. {finished, io_finished, panicked, notified}' \subseteq BOOLEAN
    BY <1>1, <1>6, Zenon DEF TypeOK
  <2>2. current_frame' \in 0 .. Len(submitted')
    BY <1>1, <1>2, <1>3, <1>6
  <2>3. QED
    BY <1>1, <1>6, <1>7, <2>1, <2>2 DEF TypeOK
<1>9. QueueInv'
  <2>1. current_frame' + Len(frames') = Len(submitted')
    BY <1>1, <1>2, <1>3, <1>6, <1>7 DEF QueueInv
  <2>2. ASSUME NEW i \in 1 .. Len(frames')
        PROVE  frames'[i] = current_frame' + i
    <3>1. frames'[i] = frames[i + 1] /\ i + 1 \in 1 .. Len(frames)
      BY <1>2, <1>7
    <3>2. frames[i + 1] = current_frame + (i + 1)
      BY <1>1, <3>1 DEF QueueInv
    <3>3. QED
      BY <1>2, <1>3, <1>6, <1>7, <3>1, <3>2
  <2>3. QED
    BY <2>1, <2>2 DEF QueueInv
<1>10. FinishedInv'
  BY <1>1 DEF FinishedInv
<1>11. QED
  BY <1>6, <1>8, <1>9, <1>10 DEF TInv

\* The stream and the burst are untouched, and what remains of the queue is typed.
LEMMA RestStep ==
  ASSUME TInv, UNCHANGED <<submitted, burstVars, air>>,
         frames' \in Seq(1 .. Len(submitted)),
         {finished', io_finished', panicked', notified'} \subseteq BOOLEAN,
         room' \in 0 .. Capacity, QueueInv', FinishedInv'
  PROVE  TInv'
<1>1. /\ TypeOK /\ BurstInv /\ StreamEnd /\ Promise!WholeBursts
      /\ submitted' = submitted /\ air' = air /\ current_frame' = current_frame
      /\ current_len' = current_len /\ current_offset' = current_offset
      /\ tag_pending' = tag_pending
  BY DEF TInv, burstVars
<1>2. TypeOK'
  BY <1>1 DEF TypeOK
<1>3. BurstInv' /\ StreamEnd' /\ Promise!WholeBursts'
  BY <1>1 DEF BurstInv, StreamEnd, EndsBefore, Promise!WholeBursts
<1>4. QED
  BY <1>2, <1>3 DEF TInv

LEMMA EncoderPanicsStep ==
  TInv /\ Running /\ EncoderPanics /\ UNCHANGED <<finished, submitted>> => TInv'
<1> SUFFICES ASSUME TInv, Running, EncoderPanics, UNCHANGED <<finished, submitted>> PROVE TInv'
  OBVIOUS
<1>1. /\ TypeOK /\ ~io_finished /\ frames # <<>> /\ frames' = Tail(frames)
      /\ panicked' = TRUE /\ notified' = FALSE
      /\ UNCHANGED <<burstVars, air, submitted>>
      /\ io_finished' = io_finished /\ room' = room /\ finished' = finished
  BY DEF TInv, EncoderPanics, Running
<1>2. frames' \in Seq(1 .. Len(submitted)) /\ room' \in 0 .. Capacity
  BY <1>1 DEF TypeOK
<1>3. {finished', io_finished', panicked', notified'} \subseteq BOOLEAN
  BY <1>1, Zenon DEF TypeOK
<1>4. QueueInv' /\ FinishedInv'
  BY <1>1 DEF QueueInv, FinishedInv
<1>5. QED
  BY <1>1, <1>2, <1>3, <1>4, RestStep

LEMMA IdleStep == TInv /\ Running /\ Idle /\ UNCHANGED <<finished, submitted>> => TInv'
<1> SUFFICES ASSUME TInv, Running, Idle, UNCHANGED <<finished, submitted>> PROVE TInv'
  OBVIOUS
<1>1. /\ TypeOK /\ QueueInv /\ ~panicked /\ frames = <<>> /\ frames' = frames
      /\ current_offset = current_len
      /\ io_finished' = finished /\ notified' = FALSE
      /\ UNCHANGED <<burstVars, air, submitted>>
      /\ panicked' = panicked /\ room' = room /\ finished' = finished
  BY DEF TInv, Idle, Running
<1>2. frames' \in Seq(1 .. Len(submitted)) /\ room' \in 0 .. Capacity
  BY <1>1 DEF TypeOK
<1>3. {finished', io_finished', panicked', notified'} \subseteq BOOLEAN
  BY <1>1, Zenon DEF TypeOK
<1>4. QueueInv' /\ FinishedInv'
  BY <1>1 DEF QueueInv, FinishedInv, burstVars
<1>5. QED
  BY <1>1, <1>2, <1>3, <1>4, RestStep

LEMMA MsgFinishedStep == TInv /\ MsgFinished => TInv'
<1> SUFFICES ASSUME TInv, MsgFinished PROVE TInv'
  OBVIOUS
<1>1. /\ TypeOK /\ QueueInv /\ FinishedInv /\ finished' = TRUE /\ notified' = TRUE
      /\ UNCHANGED <<burstVars, air, submitted>>
      /\ frames' = frames /\ panicked' = panicked /\ room' = room /\ io_finished' = io_finished
  BY DEF TInv, MsgFinished
<1>2. frames' \in Seq(1 .. Len(submitted)) /\ room' \in 0 .. Capacity
  BY <1>1 DEF TypeOK
<1>3. {finished', io_finished', panicked', notified'} \subseteq BOOLEAN
  BY <1>1, Zenon DEF TypeOK
<1>4. QueueInv' /\ FinishedInv'
  BY <1>1 DEF QueueInv, FinishedInv, burstVars
<1>5. QED
  BY <1>1, <1>2, <1>3, <1>4, RestStep

LEMMA ConsumeStep == TInv /\ Consume => TInv'
<1> SUFFICES ASSUME TInv, Consume PROVE TInv'
  OBVIOUS
<1>1. /\ TypeOK /\ QueueInv /\ FinishedInv /\ notified' = TRUE
      /\ UNCHANGED <<burstVars, air, submitted>>
      /\ frames' = frames /\ panicked' = panicked /\ finished' = finished
      /\ io_finished' = io_finished
  BY DEF TInv, Consume, queueVars
<1>2. PICK k \in 1 .. (Capacity - room) : room' = room + k
  BY DEF Consume
<1>3. room' \in 0 .. Capacity /\ frames' \in Seq(1 .. Len(submitted))
  BY <1>1, <1>2, TransmitterAssumption DEF TypeOK
<1>4. {finished', io_finished', panicked', notified'} \subseteq BOOLEAN
  BY <1>1, Zenon DEF TypeOK
<1>5. QueueInv' /\ FinishedInv'
  BY <1>1 DEF QueueInv, FinishedInv, burstVars
<1>6. QED
  BY <1>1, <1>3, <1>4, <1>5, RestStep

LEMMA SeqOfFunction ==
  ASSUME NEW S, NEW n \in Nat, NEW f \in [1 .. n -> S] PROVE f \in Seq(S)
<1>1. QED
  BY SeqDef

\* A payload is put at the end of the queue; nothing said about the earlier ones changes.
LEMMA MsgPayloadStep == TInv /\ MsgPayload => TInv'
<1> SUFFICES ASSUME TInv, MsgPayload PROVE TInv'
  OBVIOUS
<1>1. /\ TypeOK /\ BurstInv /\ QueueInv /\ StreamEnd /\ Promise!WholeBursts /\ FinishedInv
      /\ ~io_finished /\ notified' = TRUE /\ frames' = Append(frames, Len(submitted'))
      /\ current_frame' = current_frame /\ current_len' = current_len
      /\ current_offset' = current_offset /\ tag_pending' = tag_pending
      /\ finished' = finished /\ io_finished' = io_finished /\ panicked' = panicked
      /\ room' = room /\ air' = air
  BY DEF TInv, MsgPayload, Running, burstVars
<1>2. PICK len \in Nat : submitted' = Append(submitted, len)
  BY TransmitterAssumption DEF MsgPayload
<1>3. /\ submitted \in Seq(Nat) /\ frames \in Seq(1 .. Len(submitted))
      /\ Len(submitted) \in Nat /\ Len(frames) \in Nat
      /\ current_frame \in 0 .. Len(submitted)
  BY <1>1 DEF TypeOK
<1>4. /\ submitted' \in Seq(Nat) /\ Len(submitted') = Len(submitted) + 1
      /\ \A f \in 1 .. Len(submitted) : submitted'[f] = submitted[f] /\ f \in 1 .. Len(submitted')
  BY <1>2, <1>3
<1>5. /\ frames' \in Seq(1 .. Len(submitted')) /\ Len(frames') = Len(frames) + 1
      /\ \A i \in 1 .. Len(frames) : frames'[i] = frames[i]
      /\ frames'[Len(frames) + 1] = Len(submitted) + 1
  <2>1. frames \in Seq(1 .. Len(submitted'))
    <3>1. frames \in [1 .. Len(frames) -> 1 .. Len(submitted)]
      BY <1>3
    <3>2. frames \in [1 .. Len(frames) -> 1 .. Len(submitted')]
      BY <1>3, <1>4, <3>1
    <3>3. QED
      BY <1>3, <3>2, SeqOfFunction
  <2>2. Len(submitted') \in 1 .. Len(submitted')
    BY <1>3, <1>4
  <2>3. QED
    BY <1>1, <1>3, <1>4, <2>1, <2>2
<1>6. TypeOK'
  <2>1. {finished, io_finished, panicked, notified}' \subseteq BOOLEAN
    BY <1>1, Zenon DEF TypeOK
  <2>2. current_frame' \in 0 .. Len(submitted')
    BY <1>1, <1>3, <1>4
  <2>3. QED
    BY <1>1, <1>4, <1>5, <2>1, <2>2 DEF TypeOK
<1>7. BurstInv'
  <2>1. current_frame # 0 => submitted'[current_frame] = submitted[current_frame]
    BY <1>3, <1>4
  <2>2. QED
    BY <1>1, <2>1 DEF BurstInv
<1>8. QueueInv'
  <2>1. SUFFICES ASSUME ~panicked
                 PROVE  /\ current_frame + Len(frames') = Len(submitted')
                        /\ \A i \in 1 .. Len(frames') : frames'[i] = current_frame + i
    BY <1>1 DEF QueueInv
  <2>2. /\ current_frame + Len(frames) = Len(submitted)
        /\ \A i \in 1 .. Len(frames) : frames[i] = current_frame + i
    BY <1>1, <2>1 DEF QueueInv
  <2>3. current_frame + Len(frames') = Len(submitted')
    BY <1>3, <1>4, <1>5, <2>2
  <2>4. ASSUME NEW i \in 1 .. Len(frames') PROVE frames'[i] = current_frame + i
    <3>1. CASE i \in 1 .. Len(frames)
      BY <1>5, <2>2, <3>1
    <3>2. CASE i = Len(frames) + 1
      BY <1>3, <1>5, <2>2, <3>2
    <3>3. QED
      BY <1>3, <1>5, <3>1, <3>2
  <2>5. QED
    BY <2>3, <2>4
<1>9. StreamEnd'
  <2>1. ASSUME current_frame > 1 PROVE submitted'[current_frame - 1] = submitted[current_frame - 1]
    <3>1. current_frame - 1 \in 1 .. Len(submitted)
      BY <1>3, <2>1
    <3>2. QED
      BY <1>4, <3>1
  <2>2. current_frame \in Nat
    BY <1>3
  <2>3. CASE current_offset > 0
    BY <1>1, <2>3 DEF StreamEnd, EndsBefore
  <2>4. CASE ~(current_offset > 0) /\ current_frame <= 1
    BY <1>1, <2>4 DEF StreamEnd, EndsBefore
  <2>5. CASE ~(current_offset > 0) /\ ~(current_frame <= 1)
    <3>1. submitted'[current_frame - 1] = submitted[current_frame - 1]
      BY <2>1, <2>2, <2>5
    <3>2. QED
      BY <1>1, <2>5, <3>1 DEF StreamEnd, EndsBefore
  <2>6. QED
    BY <2>3, <2>4, <2>5
<1>10. Promise!WholeBursts'
  <2>1. ASSUME NEW i \in 1 .. Len(air) PROVE Promise!IsSample(submitted', air[i])
    <3>1. Promise!IsSample(submitted, air[i])
      BY <1>1 DEF Promise!WholeBursts
    <3>2. QED
      BY <1>4, <3>1 DEF Promise!IsSample
  <2>2. ASSUME NEW i \in 1 .. Len(air) - 1 PROVE Promise!Follows(submitted', air[i], air[i + 1])
    <3>1. i \in 1 .. Len(air)
      BY <1>1 DEF Promise!WholeBursts
    <3>2. Promise!Follows(submitted, air[i], air[i + 1]) /\ Promise!IsSample(submitted, air[i])
      BY <1>1, <3>1 DEF Promise!WholeBursts
    <3>3. submitted'[air[i].frame] = submitted[air[i].frame]
      BY <1>4, <3>2 DEF Promise!IsSample
    <3>4. QED
      BY <3>2, <3>3 DEF Promise!Follows
  <2>3. QED
    BY <1>1, <2>1, <2>2 DEF Promise!WholeBursts
<1>11. FinishedInv'
  BY <1>1 DEF FinishedInv
<1>12. QED
  BY <1>6, <1>7, <1>8, <1>9, <1>10, <1>11 DEF TInv

LEMMA TStep == TInv /\ [Next]_txVars => TInv'
<1> SUFFICES ASSUME TInv, [Next]_txVars PROVE TInv'
  OBVIOUS
<1>1. CASE MsgPayload
  BY <1>1, MsgPayloadStep
<1>2. CASE MsgFinished
  BY <1>2, MsgFinishedStep
<1>3. CASE Work
  BY <1>3, ContinueStep, NextFrameStep, EncoderPanicsStep, IdleStep DEF Work
<1>4. CASE Consume
  BY <1>4, ConsumeStep
<1>5. CASE UNCHANGED txVars
  BY <1>5 DEF txVars, queueVars, burstVars, TInv, TypeOK, BurstInv, QueueInv, StreamEnd,
              EndsBefore, Promise!WholeBursts, FinishedInv
<1>6. QED
  BY <1>1, <1>2, <1>3, <1>4, <1>5 DEF Next

(***************************************************************************)
(* The results.                                                            *)
(***************************************************************************)
LEMMA TInvariant == Spec => []TInv
<1>1. QED
  BY TInit, TStep, PTL DEF Spec

\* The block's state is well-typed: the offset never leaves the burst, the output is
\* never written beyond its room, the queue only holds submitted payloads.
THEOREM TransmitterTypeCorrect == Spec => []TypeOK
<1>1. TInv => TypeOK
  BY DEF TInv
<1>2. QED
  BY <1>1, TInvariant, PTL

\* However the output buffer cuts the bursts, whatever messages arrive meanwhile: the
\* stream is the submitted bursts, whole and in order, with one tag each.
THEOREM StreamIsWholeBursts == Spec => []Promise!WholeBursts
<1>1. TInv => Promise!WholeBursts
  BY DEF TInv
<1>2. QED
  BY <1>1, TInvariant, PTL

\* When the block leaves the flowgraph, the stream ends with the last sample of the
\* last payload: nothing that was submitted is missing.
THEOREM LeavesDrained == Spec => []FinishesDrained
<1>1. ASSUME TInv, io_finished PROVE Promise!AllWritten
  <2>1. /\ TypeOK /\ BurstInv /\ StreamEnd /\ frames = <<>> /\ current_offset = current_len
        /\ current_frame + Len(frames) = Len(submitted)
    BY <1>1 DEF TInv, FinishedInv, QueueInv
  <2>2. current_frame = Len(submitted) /\ submitted \in Seq(Nat) /\ current_frame \in Nat
    BY <2>1 DEF TypeOK
  <2>3. CASE current_frame = 0
    <3>1. submitted = <<>>
      BY <2>2, <2>3, EmptySeq
    <3>2. air = <<>>
      BY <2>1, <2>3 DEF BurstInv, StreamEnd, EndsBefore
    <3>3. QED
      BY <3>1, <3>2 DEF Promise!AllWritten
  <2>4. CASE current_frame # 0
    <3>1. submitted # <<>> /\ current_offset > 0 /\ current_offset = submitted[Len(submitted)]
      BY <2>1, <2>2, <2>4 DEF BurstInv
    <3>2. QED
      BY <2>1, <2>2, <3>1 DEF Promise!AllWritten, StreamEnd, EndsBefore
  <2>5. QED
    BY <2>3, <2>4
<1>2. TInv => FinishesDrained
  BY <1>1 DEF FinishesDrained
<1>3. QED
  BY <1>2, TInvariant, PTL

(***************************************************************************)
(* Refinement: every step submits, transmits, or is not seen.              *)
(***************************************************************************)
\* What is put behind a stream leaves the stream as it is.
LEMMA StaysPrefix ==
  ASSUME NEW S, NEW s \in Seq(S), NEW t \in Seq(S)
  PROVE  Promise!IsPrefix(s, s \o t) /\ Promise!IsPrefix(s, s)
<1>1. /\ s \o t \in Seq(S) /\ Len(s \o t) = Len(s) + Len(t)
      /\ \A i \in 1 .. Len(s) : (s \o t)[i] = s[i]
  BY ConcatProperties
<1>2. Len(s) \in Nat /\ Len(s) <= Len(s \o t)
  BY <1>1
<1>3. \A u \in Seq(S) : Len(s) <= Len(u) => SubSeq(u, 1, Len(s)) = [i \in 1 .. Len(s) |-> u[i]]
  BY <1>2, SubSeqProperties
<1>4. QED
  BY <1>1, <1>2, <1>3 DEF Promise!IsPrefix

\* A call that writes samples extends the stream; what it writes keeps it whole.
LEMMA ProduceExtends ==
  ASSUME TInv, NEW f, NEW len \in Nat, NEW offset \in 0 .. len, NEW tag,
         Produce(f, len, offset, tag)
  PROVE  Promise!IsPrefix(air, air')
<1> DEFINE n == SmallerOf(room, len - offset)
           new == [i \in 1 .. n |-> [frame |-> f, pos |-> offset + i,
                                     burst_start |-> IF i = 1 THEN tag ELSE 0]]
<1>1. n \in Nat
  BY DEF TInv, TypeOK, SmallerOf
<1>2. air' = air \o new
  BY DEF Produce
<1> HIDE DEF n
<1>3. \E S : air \in Seq(S) /\ new \in Seq(S)
  <2> DEFINE S == Promise!Sample \cup {new[i] : i \in 1 .. n}
  <2>1. air \in Seq(S)
    <3>1. air \in Seq(Promise!Sample)
      BY DEF TInv, Promise!WholeBursts
    <3>2. QED
      BY <3>1
  <2>2. new \in [1 .. n -> S]
    OBVIOUS
  <2> HIDE DEF new, S
  <2>3. new \in Seq(S)
    BY <1>1, <2>2, SeqOfFunction
  <2>4. QED
    BY <2>1, <2>3
<1> HIDE DEF new
<1>4. QED
  BY <1>2, <1>3, StaysPrefix

\* However the output buffer cuts the bursts and whatever arrives meanwhile, the
\* Transmitter implements BurstStream: a message to it is a frame submitted, a call
\* of work() adds samples to the stream, and everything else it does is not seen.
THEOREM TransmitterImplementsBurstStream == Spec => SendsBursts
<1>1. Init => Promise!Init
  BY DEF Init, Promise!Init
<1>2. ASSUME TInv, TInv', [Next]_txVars PROVE [Promise!Next]_<<submitted, air>>
  <2>1. CASE MsgPayload
    BY <2>1 DEF MsgPayload, Promise!Next, Promise!Submit
  <2>2. CASE MsgFinished
    BY <2>2 DEF MsgFinished
  <2>3. CASE Work
    <3>1. UNCHANGED submitted
      BY <2>3 DEF Work
    <3>2. Promise!WholeBursts'
      BY <1>2 DEF TInv
    <3>3. CASE Continue
      <4>1. current_len \in Nat /\ current_offset \in 0 .. current_len
        BY <1>2 DEF TInv, TypeOK
      <4>2. Promise!IsPrefix(air, air')
        BY <1>2, <3>3, <4>1, ProduceExtends DEF Continue
      <4>3. QED
        BY <3>1, <3>2, <4>2 DEF Promise!Next, Promise!Transmit
    <3>4. CASE NextFrame
      <4>1. submitted[Head(frames)] \in Nat /\ 0 \in 0 .. submitted[Head(frames)]
        <5>1. frames \in Seq(1 .. Len(submitted)) /\ frames # <<>> /\ submitted \in Seq(Nat)
          BY <1>2, <3>4 DEF TInv, TypeOK, NextFrame
        <5>2. Head(frames) \in 1 .. Len(submitted)
          BY <5>1
        <5>3. QED
          BY <5>1, <5>2, EntryOfNatSeq
      <4>2. Promise!IsPrefix(air, air')
        BY <1>2, <3>4, <4>1, ProduceExtends DEF NextFrame
      <4>3. QED
        BY <3>1, <3>2, <4>2 DEF Promise!Next, Promise!Transmit
    <3>5. CASE EncoderPanics
      BY <3>1, <3>5 DEF EncoderPanics
    <3>6. CASE Idle
      BY <3>1, <3>6 DEF Idle
    <3>7. QED
      BY <2>3, <3>3, <3>4, <3>5, <3>6 DEF Work
  <2>4. CASE Consume
    BY <2>4 DEF Consume, queueVars
  <2>5. CASE UNCHANGED txVars
    BY <2>5 DEF txVars, queueVars
  <2>6. QED
    BY <1>2, <2>1, <2>2, <2>3, <2>4, <2>5 DEF Next
<1>3. QED
  BY <1>1, <1>2, TInvariant, PTL DEF Spec, SendsBursts, Promise!Spec

=============================================================================
