------------------------- MODULE Simulator_proofs --------------------------
(***************************************************************************)
(* Proofs about Simulator, for any number of nodes, transmitters, moves    *)
(* and datagrams, any length of frames, bursts and buffers.                *)
(***************************************************************************)
EXTENDS Simulator, SequenceTheorems, FiniteSetTheorems, TLAPS

(***************************************************************************)
(* Type correctness.                                                       *)
(***************************************************************************)
LEMMA SampleNat ==
  ASSUME NEW k \in Nat \ {0}
  PROVE  SampleAt(k) \in Nat
<1>1. BurstLen \in Nat \ {0} /\ Signal \in Nat
  BY SimulatorAssumption DEF BurstLen
<1>2. (k - 1) % BurstLen \in Nat /\ (k - 1) \div BurstLen \in Nat
  BY <1>1
<1>3. ((k - 1) \div BurstLen) * Signal \in Nat
  BY <1>1, <1>2
<1>4. QED
  BY <1>2, <1>3 DEF SampleAt

LEMMA SilenceSeq ==
  ASSUME NEW n \in Nat
  PROVE  PU!Silence(n) \in Seq(Nat) /\ Len(PU!Silence(n)) = n
<1>1. PU!Silence(n) \in [1 .. n -> Nat]
  BY DEF PU!Silence
<1>2. PU!Silence(n) \in Seq(Nat) /\ DOMAIN PU!Silence(n) = 1 .. n
  BY <1>1, SeqDef
<1>3. QED
  BY <1>2, LenProperties

\* A frame that is sent has exactly its length, one begun fewer samples.
LEMMA FilledFrame ==
  ASSUME SimTypeOK, NEW t \in Tx
  PROVE  /\ PU!Taken(t) \in 0 .. Len(input[t])
         /\ PU!Filled(t) \in Seq(Nat)
         /\ Len(PU!Filled(t)) <= FrameLen
<1> DEFINE samples == tmpbuf[t] \o SubSeq(input[t], 1, PU!Taken(t))
<1>1. /\ input[t] \in Seq(Nat) /\ tmpbuf[t] \in Seq(Nat)
      /\ Len(tmpbuf[t]) \in Nat /\ Len(tmpbuf[t]) < FrameLen /\ FrameLen \in Nat
      /\ Len(input[t]) \in Nat
  <2>1. input \in [Tx -> Seq(Nat)] /\ tmpbuf \in [Tx -> Seq(Nat)] /\ Len(tmpbuf[t]) < FrameLen
    BY DEF SimTypeOK
  <2>2. input[t] \in Seq(Nat) /\ tmpbuf[t] \in Seq(Nat)
    BY <2>1
  <2>3. Len(input[t]) \in Nat /\ Len(tmpbuf[t]) \in Nat
    BY <2>2
  <2>4. QED
    BY <2>1, <2>2, <2>3, SimulatorAssumption
<1>2. /\ PU!Taken(t) \in 0 .. Len(input[t])
      /\ PU!Taken(t) <= FrameLen - Len(tmpbuf[t])
  <2>1. PU!Taken(t) = IF Len(input[t]) <= FrameLen - Len(tmpbuf[t])
                        THEN Len(input[t]) ELSE FrameLen - Len(tmpbuf[t])
    BY DEF PU!Taken
  <2> DEFINE l == Len(input[t]) m == Len(tmpbuf[t])
  <2>2. l \in Nat /\ m \in Nat /\ m < FrameLen /\ FrameLen \in Nat
    BY <1>1
  <2>3. PU!Taken(t) = IF l <= FrameLen - m THEN l ELSE FrameLen - m
    BY <2>1
  <2> HIDE DEF l, m
  <2>4. PU!Taken(t) \in 0 .. l /\ PU!Taken(t) <= FrameLen - m
    BY <2>2, <2>3
  <2>5. QED
    BY <2>4 DEF l, m
<1>3. /\ SubSeq(input[t], 1, PU!Taken(t)) \in Seq(Nat)
      /\ Len(SubSeq(input[t], 1, PU!Taken(t))) = PU!Taken(t)
  BY <1>1, <1>2
<1>4. samples \in Seq(Nat) /\ Len(samples) = Len(tmpbuf[t]) + PU!Taken(t)
  BY <1>1, <1>3
<1>5. FrameLen - Len(samples) \in Nat
  BY <1>1, <1>2, <1>4
<1>6. /\ PU!Silence(FrameLen - Len(samples)) \in Seq(Nat)
      /\ Len(PU!Silence(FrameLen - Len(samples))) = FrameLen - Len(samples)
  BY <1>5, SilenceSeq
<1>7. /\ samples \o PU!Silence(FrameLen - Len(samples)) \in Seq(Nat)
      /\ Len(samples \o PU!Silence(FrameLen - Len(samples))) = FrameLen
  BY <1>1, <1>4, <1>5, <1>6
<1>8. QED
  BY <1>1, <1>2, <1>4, <1>5, <1>7 DEF PU!Filled

LEMMA TypeInit == SimInit => SimTypeOK
<1> SUFFICES ASSUME SimInit PROVE SimTypeOK
  OBVIOUS
<1>1. positions \in [Nodes -> Places] /\ FrameLen \in 1 .. FrameLen
  BY SimulatorAssumption DEF SimInit, PR!ProcessorInit
<1>2. <<>> \in Seq(Nat) /\ Len(<<>>) = 0 /\ Len(<<>>) < FrameLen
      /\ <<>> \in Seq(Frames) /\ <<>> \in Seq(SUBSET Frames)
  BY SimulatorAssumption
<1>3. apart \subseteq Nodes \X Nodes
  BY DEF SimInit, PairsApart
<1>4. QED
  BY <1>1, <1>2, <1>3 DEF SimInit, SimTypeOK, NS!ServerInit, PU!PublisherInit, PR!ProcessorInit,
     SU!SubscriberInit, SU!NoSum, Nodes, PU!PublisherInit

LEMMA TypeServe ==
  ASSUME SimTypeOK, NEW n \in Nodes, Serve(n)
  PROVE  SimTypeOK'
<1>1. PICK d \in Datagrams : NS!ServeDatagram(n, d)
  BY DEF Serve
<1>2. ready \in [Nodes -> Nat] /\ accepted \in [Tx -> Nat]
  BY DEF SimTypeOK
<1>3. ready' \in [Nodes -> Nat] /\ accepted' \in [Tx -> Nat]
  <2>1. ready' = [ready EXCEPT ![n] = ready[n] + 1]
    BY <1>1 DEF NS!ServeDatagram
  <2>2. ready' \in [Nodes -> Nat]
    BY <1>2, <2>1
  <2>3. \/ accepted' = [accepted EXCEPT ![SelectedTx[n]] = accepted[SelectedTx[n]] + 1]
        \/ accepted' = accepted
    BY <1>1 DEF NS!ServeDatagram
  <2>4. accepted' \in [Tx -> Nat]
    BY <1>2, <2>3
  <2>5. QED
    BY <2>2, <2>4
<1>4. QED
  BY <1>3 DEF Serve, SimTypeOK, pubState, procState, subState, moveState

LEMMA TypeTransmit ==
  ASSUME SimTypeOK, NEW t \in Tx, Transmit(t)
  PROVE  SimTypeOK'
<1> DEFINE n == SmallerOf(Capacity - Len(input[t]), BurstLen - (written[t] % BurstLen))
           samples == [i \in 1 .. n |-> SampleAt(written[t] + i)]
<1>1. /\ input[t] \in Seq(Nat) /\ Len(input[t]) \in Nat /\ written[t] \in Nat
      /\ BurstLen \in Nat \ {0} /\ Capacity \in Nat
  <2>1. input \in [Tx -> Seq(Nat)] /\ written \in [Tx -> Nat]
    BY DEF SimTypeOK
  <2>2. input[t] \in Seq(Nat) /\ written[t] \in Nat
    BY <2>1
  <2>3. BurstLen \in Nat \ {0} /\ Capacity \in Nat
    BY SimulatorAssumption DEF BurstLen
  <2>4. QED
    BY <2>2, <2>3
<1>2. written[t] % BurstLen \in 0 .. (BurstLen - 1)
  BY <1>1
<1>3. Len(input[t]) < Capacity
  BY DEF Transmit
<1>4. n \in Nat
  BY <1>1, <1>2, <1>3 DEF SmallerOf
<1>5. \A i \in 1 .. n : SampleAt(written[t] + i) \in Nat
  <2> HIDE DEF n, samples
  <2>1. \A i \in 1 .. n : written[t] + i \in Nat \ {0}
    BY <1>1, <1>4
  <2>2. QED
    BY <2>1, SampleNat
<1>6. samples \in Seq(Nat)
  <2>1. samples \in [1 .. n -> Nat]
    BY <1>5
  <2>2. QED
    BY <2>1, <1>4, SeqDef
<1>7. input[t] \o samples \in Seq(Nat) /\ written[t] + n \in Nat
  BY <1>1, <1>4, <1>6
<1>8. /\ input' = [input EXCEPT ![t] = input[t] \o samples]
      /\ written' = [written EXCEPT ![t] = written[t] + n]
  BY DEF Transmit
<1> HIDE DEF n, samples
<1>9. input' \in [Tx -> Seq(Nat)] /\ written' \in [Tx -> Nat]
  BY <1>7, <1>8 DEF SimTypeOK
<1>10. pub_notified' \in [Tx -> BOOLEAN]
  BY DEF Transmit, SimTypeOK
<1>11. QED
  BY <1>9, <1>10 DEF Transmit, SimTypeOK, serverVars, procState, subState, moveState

LEMMA TypeWake ==
  ASSUME SimTypeOK, NEW t \in Tx, WakePublisher(t)
  PROVE  SimTypeOK'
<1>1. pub_notified' \in [Tx -> BOOLEAN] /\ pub_awake' \in [Tx -> BOOLEAN]
  BY DEF WakePublisher, PU!PublisherWake, SimTypeOK
<1>2. QED
  BY <1>1 DEF WakePublisher, PU!PublisherWake, SimTypeOK, serverVars, procState, subState, moveState

\* What a call of a publisher sends, if it sends a frame.
SentFrame(t) == [start_index |-> start_index[t], tx |-> t, samples |-> PU!Filled(t)]

LEMMA SentFrameTyped ==
  ASSUME SimTypeOK, NEW t \in Tx, Len(PU!Filled(t)) >= FrameLen
  PROVE  SentFrame(t) \in Frames
<1>1. PU!Filled(t) \in Seq(Nat) /\ Len(PU!Filled(t)) \in Nat
  BY FilledFrame, LenProperties
<1>2. Len(PU!Filled(t)) = FrameLen
  BY <1>1, FilledFrame, SimulatorAssumption
<1>3. PU!Filled(t) \in [1 .. FrameLen -> Nat]
  BY <1>1, <1>2, LenProperties
<1>4. QED
  BY <1>3 DEF SentFrame, Frames, SimTypeOK

LEMMA TypePublish ==
  ASSUME SimTypeOK, NEW t \in Tx, Publish(t)
  PROVE  SimTypeOK'
<1>1. PU!PublisherWork(t)
  BY DEF Publish
<1>2. input' \in [Tx -> Seq(Nat)]
  <2>1. input[t] \in Seq(Nat) /\ Len(input[t]) \in Nat
    BY DEF SimTypeOK
  <2>2. SubSeq(input[t], PU!Taken(t) + 1, Len(input[t])) \in Seq(Nat)
    BY <2>1, FilledFrame, SubSeqProperties
  <2>3. input' = [input EXCEPT ![t] = SubSeq(input[t], PU!Taken(t) + 1, Len(input[t]))]
    BY <1>1 DEF PU!PublisherWork
  <2>4. QED
    BY <2>2, <2>3 DEF SimTypeOK
<1>3. pub_awake' \in [Tx -> BOOLEAN] /\ UNCHANGED pub_notified
  BY <1>1 DEF PU!PublisherWork, SimTypeOK
<1>4. /\ tmpbuf' \in [Tx -> Seq(Nat)] /\ \A u \in Tx : Len(tmpbuf'[u]) < FrameLen
      /\ tx_out' \in [Nodes -> Seq(Frames)]
      /\ start_index' \in [Tx -> Nat]
  <2>1. CASE Len(PU!Filled(t)) >= FrameLen
    <3>1. tmpbuf' = [tmpbuf EXCEPT ![t] = <<>>] /\ PU!SendFrame(t, PU!Filled(t))
      BY <1>1, <2>1 DEF PU!PublisherWork
    <3>2. tmpbuf' \in [Tx -> Seq(Nat)] /\ \A u \in Tx : Len(tmpbuf'[u]) < FrameLen
      <4>1. tmpbuf \in [Tx -> Seq(Nat)] /\ \A u \in Tx : Len(tmpbuf[u]) < FrameLen
        BY DEF SimTypeOK
      <4>2. <<>> \in Seq(Nat) /\ Len(<<>>) < FrameLen
        BY SimulatorAssumption
      <4>3. QED
        BY <3>1, <4>1, <4>2
    <3>3. start_index' \in [Tx -> Nat]
      BY <3>1 DEF PU!SendFrame, SimTypeOK
    <3>4. tx_out' = [tx_out EXCEPT ![NodeOf[t]] = Append(tx_out[NodeOf[t]], SentFrame(t))]
      BY <3>1 DEF PU!SendFrame, SentFrame
    <3>5. NodeOf[t] \in Nodes /\ tx_out[NodeOf[t]] \in Seq(Frames)
      BY SimulatorAssumption DEF SimTypeOK
    <3>6. Append(tx_out[NodeOf[t]], SentFrame(t)) \in Seq(Frames)
      BY <3>5, <2>1, SentFrameTyped
    <3>7. tx_out' \in [Nodes -> Seq(Frames)]
      BY <3>4, <3>6 DEF SimTypeOK
    <3>8. QED
      BY <3>2, <3>3, <3>7
  <2>2. CASE ~(Len(PU!Filled(t)) >= FrameLen)
    <3>1. tmpbuf' = [tmpbuf EXCEPT ![t] = PU!Filled(t)] /\ UNCHANGED <<tx_out, start_index>>
      BY <1>1, <2>2 DEF PU!PublisherWork
    <3>2. PU!Filled(t) \in Seq(Nat) /\ Len(PU!Filled(t)) \in Nat
      BY FilledFrame, LenProperties
    <3>3. Len(PU!Filled(t)) < FrameLen
      BY <3>2, <2>2, SimulatorAssumption
    <3>4. QED
      BY <3>1, <3>2, <3>3 DEF SimTypeOK
  <2>3. QED
    BY <2>1, <2>2
<1>5. QED
  BY <1>2, <1>3, <1>4 DEF Publish, SimTypeOK, serverVars, procState, subState, moveState

\* A position in frames of length F: in which frame, and where in it.
LEMMA Division ==
  ASSUME NEW F \in Nat \ {0}, NEW e \in Nat \ {0}
  PROVE  /\ (e - 1) \div F \in Nat
         /\ e - ((e - 1) \div F) * F \in 1 .. F
         /\ \A k \in Nat : e <= F * k => ((e - 1) \div F) + 1 <= k
<1> DEFINE q == (e - 1) \div F
           r == (e - 1) % F
<1>1. q \in Nat /\ r \in 0 .. (F - 1) /\ e - 1 = F * q + r
  OBVIOUS
<1> HIDE DEF q, r
<1>2. F * q \in Nat /\ F * q = q * F
  BY <1>1
<1>3. e - q * F \in 1 .. F
  BY <1>1, <1>2
<1>4. ASSUME NEW k \in Nat, e <= F * k
      PROVE  q + 1 <= k
  <2>1. F * q + 1 <= F * k
    BY <1>1, <1>2, <1>4
  <2>2. SUFFICES ASSUME k <= q PROVE FALSE
    BY <1>1, <1>4
  <2>3. F * k <= F * q
    BY <2>2, <1>1, <1>4
  <2>4. F * k \in Nat
    BY <1>4
  <2>5. QED
    BY <2>1, <2>3, <2>4, <1>2
<1>5. QED
  BY <1>1, <1>3, <1>4 DEF q

LEMMA TypeSubscribe ==
  ASSUME SimTypeOK, NEW n \in Nodes, Subscribe(n)
  PROVE  SimTypeOK'
<1>1. PICK room \in Rooms : SU!SubscriberWork(n, room)
  BY DEF Subscribe
<1> DEFINE sums == SU!Sums(n)
           left == FrameLen * Len(sums) - pos[n]
           out  == SU!SmallerOf(room, left)
           end  == pos[n] + out
           done == (end - 1) \div FrameLen
<1>2. /\ rx_in \in [Nodes -> Seq(SUBSET Frames)] /\ current \in [Nodes -> SUBSET Frames]
      /\ pos \in [Nodes -> 1 .. FrameLen]
      /\ FrameLen \in Nat \ {0} /\ room \in Nat
  BY SimulatorAssumption DEF SimTypeOK
<1>3. /\ rx_in[n] \in Seq(SUBSET Frames) /\ Len(rx_in[n]) \in Nat
      /\ current[n] \in SUBSET Frames /\ pos[n] \in 1 .. FrameLen
  BY <1>2
<1>4. sums \in Seq(SUBSET Frames) /\ Len(sums) \in Nat /\ Len(sums) = Len(rx_in[n]) + 1
  BY <1>3 DEF SU!Sums
<1>5. out > 0
  BY <1>1 DEF SU!SubscriberWork
<1>6. /\ rx_in' = [rx_in EXCEPT ![n] = SubSeq(rx_in[n], done + 1, Len(rx_in[n]))]
      /\ current' = [current EXCEPT ![n] = IF end % FrameLen = 0 THEN SU!NoSum ELSE sums[done + 1]]
      /\ pos' = [pos EXCEPT ![n] = end - done * FrameLen]
  BY <1>1 DEF SU!SubscriberWork, SU!EndOfCall
<1>7. FrameLen * Len(sums) \in Nat
  BY <1>2, <1>4
<1>8. left \in Int
  BY <1>3, <1>7
<1>9. out \in Nat /\ out <= left
  BY <1>2, <1>5, <1>8 DEF SU!SmallerOf
<1>10. end \in Nat \ {0} /\ end <= FrameLen * Len(sums)
  BY <1>3, <1>5, <1>7, <1>9
<1> HIDE DEF sums, left, out, end
<1>11. done \in Nat /\ end - done * FrameLen \in 1 .. FrameLen /\ done + 1 <= Len(sums)
  BY <1>2, <1>4, <1>10, Division
<1> HIDE DEF done
<1>12. pos' \in [Nodes -> 1 .. FrameLen]
  BY <1>2, <1>6, <1>11
<1>13. rx_in' \in [Nodes -> Seq(SUBSET Frames)]
  <2>1. done + 1 \in 1 .. (Len(rx_in[n]) + 1)
    BY <1>3, <1>4, <1>11
  <2>2. SubSeq(rx_in[n], done + 1, Len(rx_in[n])) \in Seq(SUBSET Frames)
    BY <1>3, <2>1, SubSeqProperties
  <2>3. QED
    BY <1>2, <1>6, <2>2
<1>14. current' \in [Nodes -> SUBSET Frames]
  <2>1. done + 1 \in 1 .. Len(sums)
    BY <1>4, <1>11
  <2>2. sums[done + 1] \in SUBSET Frames
    BY <1>4, <2>1, ElementOfSeq
  <2>3. SU!NoSum \in SUBSET Frames
    BY DEF SU!NoSum
  <2>4. QED
    BY <1>2, <1>6, <2>2, <2>3
<1>15. QED
  BY <1>12, <1>13, <1>14
     DEF Subscribe, SimTypeOK, serverVars, pubState, procState, moveState

LEMMA TypeMove ==
  ASSUME SimTypeOK, NEW n \in Nodes, Move(n)
  PROVE  SimTypeOK'
<1>1. PICK place \in Places : PR!MoveNode(n, place)
  BY DEF Move
<1>2. positions' \in [Nodes -> Places]
  BY <1>1 DEF PR!MoveNode, SimTypeOK
<1>3. moves' \in Nat /\ apart' \subseteq Nodes \X Nodes
  BY DEF Move, SimTypeOK
<1>4. QED
  BY <1>1, <1>2, <1>3 DEF Move, PR!MoveNode, SimTypeOK, serverVars, pubState, subState

LEMMA TypeMix ==
  ASSUME SimTypeOK, Mix
  PROVE  SimTypeOK'
<1>1. PR!ProcessorRound
  BY DEF Mix
<1> DEFINE frames == pending_frames \cup PR!Polled
           group  == PR!FirstGroup(frames)
<1>2. /\ tx_out' = [n \in Nodes |-> IF tx_out[n] = <<>> THEN <<>> ELSE Tail(tx_out[n])]
      /\ pending_frames' = PR!Left(frames)
      /\ rx_in' = [n \in Nodes |-> Append(rx_in[n], {f \in group : PR!Hears(n, f)})]
      /\ mixed' = [t \in Tx |-> IF \E f \in group : f.tx = t THEN mixed[t] + 1 ELSE mixed[t]]
      /\ UNCHANGED positions
  BY <1>1 DEF PR!ProcessorRound, Nodes
<1>3. tx_out \in [Nodes -> Seq(Frames)] /\ pending_frames \subseteq Frames
      /\ rx_in \in [Nodes -> Seq(SUBSET Frames)] /\ mixed \in [Tx -> Nat]
  BY DEF SimTypeOK
<1>4. \A n \in Nodes : tx_out[n] # <<>> =>
        Head(tx_out[n]) \in Frames /\ Tail(tx_out[n]) \in Seq(Frames)
  BY <1>3
<1>5. frames \subseteq Frames
  BY <1>3, <1>4 DEF PR!Polled, Nodes
<1>6. group \subseteq frames /\ pending_frames' \subseteq frames
  BY <1>2 DEF PR!FirstGroup, PR!Left
<1>7. tx_out' \in [Nodes -> Seq(Frames)]
  BY <1>2, <1>3, <1>4
<1>8. rx_in' \in [Nodes -> Seq(SUBSET Frames)]
  <2>1. ASSUME NEW n \in Nodes
        PROVE  Append(rx_in[n], {f \in group : PR!Hears(n, f)}) \in Seq(SUBSET Frames)
    <3>1. rx_in[n] \in Seq(SUBSET Frames) /\ {f \in group : PR!Hears(n, f)} \in SUBSET Frames
      BY <1>3, <1>5, <1>6
    <3>2. QED
      BY <3>1, AppendProperties
  <2>2. QED
    BY <1>2, <2>1
<1>9. mixed' \in [Tx -> Nat]
  BY <1>2, <1>3
<1>10. QED
  BY <1>2, <1>5, <1>6, <1>7, <1>8, <1>9
     DEF Mix, SimTypeOK, serverVars, pubState, subState

LEMMA TypeStep == SimTypeOK /\ [SimNext]_simVars => SimTypeOK'
<1> SUFFICES ASSUME SimTypeOK, [SimNext]_simVars PROVE SimTypeOK'
  OBVIOUS
<1>1. CASE UNCHANGED simVars
  BY <1>1 DEF simVars, serverVars, pubState, procState, subState, moveState, SimTypeOK
<1>2. ASSUME NEW n \in Nodes, Serve(n) \/ Subscribe(n) \/ Move(n) PROVE SimTypeOK'
  BY <1>2, TypeServe, TypeSubscribe, TypeMove
<1>3. ASSUME NEW t \in Tx, Transmit(t) \/ WakePublisher(t) \/ Publish(t) PROVE SimTypeOK'
  BY <1>3, TypeTransmit, TypeWake, TypePublish
<1>4. QED
  BY <1>1, <1>2, <1>3, TypeMix DEF SimNext

\* Whatever the clients send and the tasks' order, the simulator's state keeps
\* its types: no frame leaves with more or fewer samples than it should have, and
\* no position in a frame leaves it.
THEOREM SimTypeCorrect == SimSpec => []SimTypeOK
BY TypeInit, TypeStep, PTL DEF SimSpec

(***************************************************************************)
(* The frames between the publishers and the sum.                          *)
(***************************************************************************)
flightVars == <<tx_out, pending_frames, start_index, mixed>>

LEMMA FlightInit == SimInit => FramesInFlight
<1> SUFFICES ASSUME SimInit PROVE FramesInFlight
  OBVIOUS
<1>1. tx_out = [n \in Nodes |-> <<>>] /\ pending_frames = {}
      /\ start_index = [t \in Tx |-> 0] /\ mixed = [t \in Tx |-> 0]
  BY DEF SimInit, PU!PublisherInit, PR!ProcessorInit
<1>2. \A n \in Nodes : DOMAIN tx_out[n] = {}
  BY <1>1
<1>3. \A n \in Nodes : Queued(n) = {}
  BY <1>2 DEF Queued
<1>4. InFlight = {}
  BY <1>1, <1>3 DEF InFlight
<1>5. NoneLost
  BY <1>1 DEF NoneLost
<1>6. QED
  BY <1>1, <1>2, <1>3, <1>4, <1>5
     DEF FramesInFlight, IndexInRange, ProcessorAhead, ChannelInOrder, OwnChannel

LEMMA FlightUnchanged ==
  ASSUME FramesInFlight, UNCHANGED flightVars
  PROVE  FramesInFlight'
<1>1. \A n \in Nodes : Queued(n)' = Queued(n)
  BY DEF Queued, flightVars
<1>2. InFlight' = InFlight
  BY <1>1 DEF InFlight, flightVars
<1>3. QED
  BY <1>1, <1>2 DEF FramesInFlight, IndexInRange, NoneLost, ProcessorAhead, ChannelInOrder,
     OwnChannel, flightVars

\* The channel of a node as a set, before and after a frame is appended.
LEMMA QueuedAppend ==
  ASSUME NEW S, NEW s \in Seq(S), NEW f \in S
  PROVE  /\ Append(s, f) \in Seq(S)
         /\ Len(s) \in Nat /\ Len(Append(s, f)) = Len(s) + 1
         /\ DOMAIN s = 1 .. Len(s) /\ DOMAIN Append(s, f) = 1 .. (Len(s) + 1)
         /\ \A i \in 1 .. Len(s) : Append(s, f)[i] = s[i]
         /\ Append(s, f)[Len(s) + 1] = f
         /\ {Append(s, f)[i] : i \in DOMAIN Append(s, f)} = {s[i] : i \in DOMAIN s} \cup {f}
<1>1. /\ Append(s, f) \in Seq(S)
      /\ Len(s) \in Nat /\ Len(Append(s, f)) = Len(s) + 1
      /\ DOMAIN s = 1 .. Len(s) /\ DOMAIN Append(s, f) = 1 .. (Len(s) + 1)
      /\ \A i \in 1 .. Len(s) : Append(s, f)[i] = s[i]
      /\ Append(s, f)[Len(s) + 1] = f
  BY AppendProperties, LenProperties
<1>2. 1 .. (Len(s) + 1) = (1 .. Len(s)) \cup {Len(s) + 1}
  BY <1>1
<1>3. QED
  BY <1>1, <1>2

\* A frame that is sent is one more in flight.
LEMMA SendJoinsFlight ==
  ASSUME SimTypeOK, NEW t \in Tx, NEW f \in Frames,
         tx_out' = [tx_out EXCEPT ![NodeOf[t]] = Append(tx_out[NodeOf[t]], f)],
         UNCHANGED pending_frames
  PROVE  /\ InFlight' = InFlight \cup {f}
         /\ Queued(NodeOf[t])' = Queued(NodeOf[t]) \cup {f}
         /\ \A n \in Nodes \ {NodeOf[t]} : Queued(n)' = Queued(n)
<1> DEFINE m == NodeOf[t]
<1>1. m \in Nodes /\ tx_out \in [Nodes -> Seq(Frames)]
  BY SimulatorAssumption DEF SimTypeOK
<1>2. tx_out[m] \in Seq(Frames) /\ tx_out'[m] = Append(tx_out[m], f)
      /\ \A n \in Nodes \ {m} : tx_out'[n] = tx_out[n]
  BY <1>1
<1>3. Queued(m)' = Queued(m) \cup {f}
  BY <1>2, QueuedAppend DEF Queued
<1>4. \A n \in Nodes \ {m} : Queued(n)' = Queued(n)
  BY <1>2 DEF Queued
<1>5. ASSUME NEW g
      PROVE  (\E n \in Nodes : g \in Queued(n)') <=> ((\E n \in Nodes : g \in Queued(n)) \/ g = f)
  <2>1. \A n \in Nodes : g \in Queued(n)' <=> (g \in Queued(n) \/ (n = m /\ g = f))
    BY <1>3, <1>4
  <2>2. QED
    BY <1>1, <2>1
<1>6. InFlight' = pending_frames \cup UNION {Queued(n)' : n \in Nodes}
  BY DEF InFlight
<1>7. InFlight' = InFlight \cup {f}
  BY <1>5, <1>6 DEF InFlight
<1>8. QED
  BY <1>3, <1>4, <1>7

\* A frame goes out: it has the highest number of its transmitter so far.
LEMMA FlightSend ==
  ASSUME SimTypeOK, FramesInFlight, NEW t \in Tx, NEW f \in Frames,
         f.tx = t, f.start_index = start_index[t],
         tx_out' = [tx_out EXCEPT ![NodeOf[t]] = Append(tx_out[NodeOf[t]], f)],
         start_index' = [start_index EXCEPT ![t] = start_index[t] + 1],
         UNCHANGED <<pending_frames, mixed>>
  PROVE  FramesInFlight'
<1> DEFINE m == NodeOf[t]
<1>1. /\ m \in Nodes /\ tx_out \in [Nodes -> Seq(Frames)] /\ pending_frames \subseteq Frames
      /\ start_index \in [Tx -> Nat] /\ mixed \in [Tx -> Nat]
  BY SimulatorAssumption DEF SimTypeOK
<1>2. tx_out[m] \in Seq(Frames) /\ tx_out'[m] = Append(tx_out[m], f)
      /\ \A n \in Nodes \ {m} : tx_out'[n] = tx_out[n]
  BY <1>1
<1>3. Queued(m)' = Queued(m) \cup {f}
  BY SendJoinsFlight
<1>4. \A n \in Nodes \ {m} : Queued(n)' = Queued(n)
  BY SendJoinsFlight
<1>5. InFlight' = InFlight \cup {f}
  BY SendJoinsFlight
<1>6. /\ start_index'[t] = start_index[t] + 1
      /\ \A u \in Tx \ {t} : start_index'[u] = start_index[u]
      /\ \A u \in Tx : start_index[u] \in Nat /\ mixed[u] \in Nat
  BY <1>1
<1>7. \A n \in Nodes : Queued(n) \subseteq Frames
  BY <1>1, ElementOfSeq, LenProperties DEF Queued
<1>8. InFlight \subseteq Frames
  BY <1>1, <1>7 DEF InFlight
<1>9. \A g \in Frames : g.tx \in Tx /\ g.start_index \in Nat
  BY DEF Frames
<1>10. IndexInRange'
  <2>1. \A u \in Tx : mixed[u] <= start_index[u]
    BY DEF FramesInFlight, IndexInRange
  <2>2. ASSUME NEW u \in Tx
        PROVE  mixed[u] <= start_index'[u] /\ start_index[u] <= start_index'[u]
               /\ start_index'[u] \in Nat
    <3>1. CASE u = t
      BY <1>6, <2>1, <3>1
    <3>2. CASE u # t
      BY <1>6, <2>1, <3>2
    <3>3. QED
      BY <3>1, <3>2
  <2>3. ASSUME NEW g \in InFlight
        PROVE  mixed[g.tx] <= g.start_index /\ g.start_index < start_index'[g.tx]
    <3> DEFINE u == g.tx k == g.start_index
    <3>1. u \in Tx /\ k \in Nat
      BY <1>8, <1>9, <2>3
    <3>2. mixed[u] <= k /\ k < start_index[u]
      BY <2>3 DEF FramesInFlight, IndexInRange
    <3>3. mixed[u] \in Nat /\ start_index[u] \in Nat /\ start_index'[u] \in Nat
          /\ start_index[u] <= start_index'[u]
      BY <1>6, <2>2, <3>1
    <3> HIDE DEF u, k
    <3>4. mixed[u] <= k /\ k < start_index'[u]
      BY <3>1, <3>2, <3>3
    <3>5. QED
      BY <3>4 DEF u, k
  <2>4. mixed[f.tx] <= f.start_index /\ f.start_index < start_index'[f.tx]
    BY <1>6, <2>1
  <2>5. QED
    BY <1>5, <2>2, <2>3, <2>4 DEF IndexInRange
<1>11. NoneLost'
  <2>1. SUFFICES ASSUME NEW u \in Tx, NEW k \in mixed[u] .. (start_index'[u] - 1)
                 PROVE  \E g \in InFlight \cup {f} : g.tx = u /\ g.start_index = k
    BY <1>5 DEF NoneLost
  <2>2. CASE u = t /\ k = start_index[t]
    BY <2>2
  <2>3. CASE ~(u = t /\ k = start_index[t])
    <3>1. k \in mixed[u] .. (start_index[u] - 1)
      BY <1>6, <2>1, <2>3
    <3>2. QED
      BY <3>1 DEF FramesInFlight, NoneLost
  <2>4. QED
    BY <2>2, <2>3
\* Every frame of t in flight has a lower number than f.
<1>12. \A g \in InFlight : g.tx = t => g.start_index < f.start_index
  BY DEF FramesInFlight, IndexInRange
<1>13. ProcessorAhead'
  <2>1. SUFFICES ASSUME NEW g \in pending_frames, NEW n \in Nodes, NEW h \in Queued(n)', g.tx = h.tx
                 PROVE  g.start_index < h.start_index
    BY DEF ProcessorAhead
  <2>2. CASE h \in Queued(n)
    BY <2>1, <2>2 DEF FramesInFlight, ProcessorAhead
  <2>3. CASE h \notin Queued(n)
    <3>1. h = f
      BY <1>3, <1>4, <2>1, <2>3
    <3>2. QED
      BY <1>12, <2>1, <3>1 DEF InFlight
  <2>4. QED
    BY <2>2, <2>3
<1>14. ChannelInOrder'
  <2>1. SUFFICES ASSUME NEW n \in Nodes, NEW i \in DOMAIN tx_out'[n], NEW j \in DOMAIN tx_out'[n],
                        i < j, tx_out'[n][i].tx = tx_out'[n][j].tx
                 PROVE  tx_out'[n][i].start_index < tx_out'[n][j].start_index
    BY DEF ChannelInOrder
  <2>2. CASE n # m
    BY <1>2, <2>1, <2>2 DEF FramesInFlight, ChannelInOrder
  <2>3. CASE n = m
    <3> DEFINE l == Len(tx_out[m])
    <3>1. /\ l \in Nat /\ DOMAIN tx_out[m] = 1 .. l /\ i \in 1 .. (l + 1) /\ j \in 1 .. (l + 1)
          /\ \A x \in 1 .. l : tx_out'[m][x] = tx_out[m][x]
          /\ tx_out'[m][l + 1] = f
      BY <1>2, <2>1, <2>3, QueuedAppend
    <3>2. i \in 1 .. l
      BY <2>1, <3>1
    <3>3. tx_out[m][i] \in Queued(m)
      BY <3>1, <3>2 DEF Queued
    <3>4. CASE j = l + 1
      <4>1. tx_out[m][i] \in InFlight /\ tx_out[m][i].tx = t
        BY <1>1, <2>1, <2>3, <3>1, <3>2, <3>3, <3>4 DEF InFlight
      <4>2. QED
        BY <1>12, <2>3, <3>1, <3>2, <3>4, <4>1
    <3>5. CASE j \in 1 .. l
      BY <2>1, <2>3, <3>1, <3>2, <3>5 DEF FramesInFlight, ChannelInOrder
    <3>6. QED
      BY <3>1, <3>4, <3>5
  <2>4. QED
    BY <2>2, <2>3
<1>15. OwnChannel'
  <2>1. SUFFICES ASSUME NEW n \in Nodes, NEW g \in Queued(n)' PROVE NodeOf[g.tx] = n
    BY DEF OwnChannel
  <2>2. g \in Queued(n) \/ (n = m /\ g = f)
    BY <1>3, <1>4, <2>1
  <2>3. QED
    BY <2>2 DEF FramesInFlight, OwnChannel
<1>16. QED
  BY <1>10, <1>11, <1>13, <1>14, <1>15 DEF FramesInFlight

LEMMA FlightPublish ==
  ASSUME SimTypeOK, FramesInFlight, NEW t \in Tx, Publish(t)
  PROVE  FramesInFlight'
<1>1. PU!PublisherWork(t) /\ UNCHANGED <<pending_frames, mixed>>
  BY DEF Publish, procState
<1>2. CASE Len(PU!Filled(t)) >= FrameLen
  <2>1. PU!SendFrame(t, PU!Filled(t))
    BY <1>1, <1>2 DEF PU!PublisherWork
  <2>2. /\ tx_out' = [tx_out EXCEPT ![NodeOf[t]] = Append(tx_out[NodeOf[t]], SentFrame(t))]
        /\ start_index' = [start_index EXCEPT ![t] = start_index[t] + 1]
    BY <2>1 DEF PU!SendFrame, SentFrame
  <2>3. SentFrame(t) \in Frames
    BY <1>2, SentFrameTyped
  <2>4. SentFrame(t).tx = t /\ SentFrame(t).start_index = start_index[t]
    BY DEF SentFrame
  <2>5. QED
    BY <1>1, <2>2, <2>3, <2>4, FlightSend
<1>3. CASE ~(Len(PU!Filled(t)) >= FrameLen)
  <2>1. UNCHANGED flightVars
    BY <1>1, <1>3 DEF PU!PublisherWork, flightVars
  <2>2. QED
    BY <2>1, FlightUnchanged
<1>4. QED
  BY <1>2, <1>3

\* The channel of a node as a set, before and after its first frame is taken.
LEMMA QueuedTail ==
  ASSUME NEW S, NEW s \in Seq(S), s # <<>>
  PROVE  /\ Tail(s) \in Seq(S)
         /\ Len(s) \in Nat \ {0} /\ Len(Tail(s)) = Len(s) - 1
         /\ DOMAIN s = 1 .. Len(s) /\ DOMAIN Tail(s) = 1 .. (Len(s) - 1)
         /\ \A i \in 1 .. (Len(s) - 1) : Tail(s)[i] = s[i + 1]
         /\ Head(s) = s[1]
         /\ {s[i] : i \in DOMAIN s} = {Head(s)} \cup {Tail(s)[i] : i \in DOMAIN Tail(s)}
<1>1. /\ Tail(s) \in Seq(S)
      /\ Len(s) \in Nat \ {0} /\ Len(Tail(s)) = Len(s) - 1
      /\ DOMAIN s = 1 .. Len(s) /\ DOMAIN Tail(s) = 1 .. (Len(s) - 1)
      /\ \A i \in 1 .. (Len(s) - 1) : Tail(s)[i] = s[i + 1]
      /\ Head(s) = s[1]
  BY HeadTailProperties, LenProperties, EmptySeq
<1>2. \A i \in 1 .. Len(s) : i = 1 \/ (i - 1 \in 1 .. (Len(s) - 1) /\ s[i] = Tail(s)[i - 1])
  <2>1. SUFFICES ASSUME NEW i \in 1 .. Len(s), i # 1
                 PROVE  i - 1 \in 1 .. (Len(s) - 1) /\ s[i] = Tail(s)[i - 1]
    OBVIOUS
  <2>2. i - 1 \in 1 .. (Len(s) - 1) /\ (i - 1) + 1 = i
    BY <1>1, <2>1
  <2>3. QED
    BY <1>1, <2>2
<1>3. ASSUME NEW i \in DOMAIN s
      PROVE  s[i] = Head(s) \/ \E j \in DOMAIN Tail(s) : s[i] = Tail(s)[j]
  <2>1. CASE i = 1
    BY <1>1, <2>1
  <2>2. CASE i # 1
    <3>1. i - 1 \in DOMAIN Tail(s) /\ s[i] = Tail(s)[i - 1]
      BY <1>1, <1>2, <1>3, <2>2
    <3>2. QED
      BY <3>1
  <2>3. QED
    BY <2>1, <2>2
<1>4. \A i \in 1 .. (Len(s) - 1) : i + 1 \in 1 .. Len(s)
  BY <1>1
<1>5. 1 \in 1 .. Len(s)
  BY <1>1
<1>6. {Head(s)} \cup {Tail(s)[i] : i \in DOMAIN Tail(s)} \subseteq {s[i] : i \in DOMAIN s}
  BY <1>1, <1>4, <1>5
<1>7. QED
  BY <1>1, <1>3, <1>6

\* What a round of the processor does to the frames, as facts about sets: those it
\* holds are ahead of those still queued, and those it sums are the next of their
\* transmitters.
LEMMA MixFrames ==
  ASSUME SimTypeOK, FramesInFlight, Mix,
         NEW frames, frames = pending_frames \cup PR!Polled,
         NEW group, group = PR!FirstGroup(frames)
  PROVE  /\ frames \subseteq Frames /\ group \subseteq frames
         /\ \A n \in Nodes : Queued(n)' \subseteq Queued(n)
         /\ InFlight = frames \cup UNION {Queued(n)' : n \in Nodes}
         /\ InFlight' = (frames \ group) \cup UNION {Queued(n)' : n \in Nodes}
         /\ \A n \in Nodes : \A f \in frames, g \in Queued(n)' :
              f.tx = g.tx => f.start_index < g.start_index
         /\ \A f \in group : f.start_index = mixed[f.tx]
         /\ \A f \in group, g \in frames \ group : f.start_index < g.start_index
<1>1. PR!ProcessorRound
  BY DEF Mix
<1>2. /\ tx_out' = [n \in Nodes |-> IF tx_out[n] = <<>> THEN <<>> ELSE Tail(tx_out[n])]
      /\ pending_frames' = frames \ group
  BY <1>1 DEF PR!ProcessorRound, Nodes, PR!Left
<1>3. tx_out \in [Nodes -> Seq(Frames)] /\ pending_frames \subseteq Frames
      /\ mixed \in [Tx -> Nat] /\ start_index \in [Tx -> Nat]
  BY DEF SimTypeOK
<1>4. ASSUME NEW n \in Nodes, tx_out[n] = <<>>
      PROVE  Queued(n) = {} /\ Queued(n)' = {}
  <2>1. tx_out'[n] = <<>> /\ DOMAIN tx_out[n] = {}
    BY <1>2, <1>4
  <2>2. QED
    BY <1>4, <2>1 DEF Queued
<1>5. ASSUME NEW n \in Nodes, tx_out[n] # <<>>
      PROVE  /\ Queued(n) = {Head(tx_out[n])} \cup Queued(n)'
             /\ tx_out[n] \in Seq(Frames) /\ tx_out'[n] = Tail(tx_out[n])
             /\ Head(tx_out[n]) \in Frames
  <2>1. tx_out'[n] = Tail(tx_out[n]) /\ tx_out[n] \in Seq(Frames)
    BY <1>2, <1>3, <1>5
  <2>2. {tx_out[n][i] : i \in DOMAIN tx_out[n]}
          = {Head(tx_out[n])} \cup {Tail(tx_out[n])[i] : i \in DOMAIN Tail(tx_out[n])}
    BY <1>5, <2>1, QueuedTail
  <2>3. Queued(n)' = {Tail(tx_out[n])[i] : i \in DOMAIN Tail(tx_out[n])}
    BY <2>1 DEF Queued
  <2>4. Queued(n) = {Head(tx_out[n])} \cup Queued(n)'
    BY <2>2, <2>3 DEF Queued
  <2>5. Head(tx_out[n]) \in Frames
    BY <1>5, <2>1, HeadTailProperties
  <2>6. QED
    BY <2>1, <2>4, <2>5
<1>6. frames \subseteq Frames
  BY <1>3, <1>5 DEF PR!Polled, Nodes
<1>7. group \subseteq frames
  BY DEF PR!FirstGroup
<1>8. \A n \in Nodes : Queued(n)' \subseteq Queued(n)
  BY <1>4, <1>5
<1>9. UNION {Queued(n) : n \in Nodes} = PR!Polled \cup UNION {Queued(n)' : n \in Nodes}
  BY <1>4, <1>5 DEF PR!Polled, Nodes
<1>10. InFlight = frames \cup UNION {Queued(n)' : n \in Nodes}
  BY <1>9 DEF InFlight
<1>11. InFlight' = (frames \ group) \cup UNION {Queued(n)' : n \in Nodes}
  BY <1>2 DEF InFlight
<1>12. ASSUME NEW n \in Nodes, NEW f \in frames, NEW g \in Queued(n)', f.tx = g.tx
       PROVE  f.start_index < g.start_index
  <2>1. CASE f \in pending_frames
    BY <1>8, <1>12, <2>1 DEF FramesInFlight, ProcessorAhead
  <2>2. CASE f \notin pending_frames
    <3>1. PICK m \in Nodes : tx_out[m] # <<>> /\ f = Head(tx_out[m])
      BY <2>2 DEF PR!Polled, Nodes
    <3>2. f \in Queued(m) /\ g \in Queued(n)
      BY <1>5, <1>8, <3>1
    <3>3. m = n
      BY <1>12, <3>2 DEF FramesInFlight, OwnChannel
    <3>4. tx_out[n] # <<>> /\ tx_out[n] \in Seq(Frames) /\ tx_out'[n] = Tail(tx_out[n])
      BY <1>5, <3>1, <3>3
    <3>5. PICK i \in DOMAIN tx_out'[n] : g = tx_out'[n][i]
      BY <1>12 DEF Queued
    <3>6. i \in 1 .. (Len(tx_out[n]) - 1) /\ g = tx_out[n][i + 1]
          /\ Len(tx_out[n]) \in Nat /\ DOMAIN tx_out[n] = 1 .. Len(tx_out[n])
          /\ f = tx_out[n][1]
      BY <3>1, <3>3, <3>4, <3>5, QueuedTail
    <3>7. 1 \in DOMAIN tx_out[n] /\ i + 1 \in DOMAIN tx_out[n] /\ 1 < i + 1
      BY <3>6
    <3>8. QED
      BY <1>12, <3>6, <3>7 DEF FramesInFlight, ChannelInOrder
  <2>3. QED
    BY <2>1, <2>2
<1>13. \A f \in frames : f.tx \in Tx /\ f.start_index \in Nat
  BY <1>6 DEF Frames
<1>14. \A f \in group, g \in frames : f.start_index <= g.start_index
  BY DEF PR!FirstGroup
<1>15. ASSUME NEW f \in group
       PROVE  f.start_index = mixed[f.tx]
  <2> DEFINE t == f.tx k == f.start_index
  <2>1. t \in Tx /\ k \in Nat /\ mixed[t] \in Nat /\ start_index[t] \in Nat
    BY <1>3, <1>7, <1>13, <1>15
  <2>2. mixed[t] <= k /\ k < start_index[t]
    BY <1>7, <1>10, <1>15 DEF FramesInFlight, IndexInRange
  <2>3. mixed[t] \in mixed[t] .. (start_index[t] - 1)
    BY <2>1, <2>2
  <2>4. PICK h \in InFlight : h.tx = t /\ h.start_index = mixed[t]
    BY <2>1, <2>3 DEF FramesInFlight, NoneLost
  <2>5. CASE h \in frames
    <3>1. k <= mixed[t]
      BY <1>14, <1>15, <2>4, <2>5
    <3>2. QED
      BY <2>1, <2>2, <3>1
  <2>6. CASE h \notin frames
    <3>1. k < mixed[t]
      BY <1>7, <1>10, <1>12, <1>15, <2>4, <2>6
    <3>2. QED
      BY <2>1, <2>2, <3>1
  <2>7. QED
    BY <2>5, <2>6
<1>16. ASSUME NEW f \in group, NEW g \in frames \ group
       PROVE  f.start_index < g.start_index
  <2>1. PICK h \in frames : ~(g.start_index <= h.start_index)
    BY <1>16 DEF PR!FirstGroup
  <2>2. f.start_index <= h.start_index
    BY <1>14, <1>16, <2>1
  <2>3. f.start_index \in Nat /\ g.start_index \in Nat /\ h.start_index \in Nat
    BY <1>7, <1>13, <1>16, <2>1
  <2>4. QED
    BY <2>1, <2>2, <2>3
<1>17. QED
  BY <1>6, <1>7, <1>8, <1>10, <1>11, <1>12, <1>15, <1>16

LEMMA FlightMix ==
  ASSUME SimTypeOK, FramesInFlight, Mix
  PROVE  FramesInFlight'
<1> DEFINE frames == pending_frames \cup PR!Polled
           group == PR!FirstGroup(frames)
           later == UNION {Queued(n)' : n \in Nodes}
<1>1. /\ frames \subseteq Frames /\ group \subseteq frames
      /\ \A n \in Nodes : Queued(n)' \subseteq Queued(n)
      /\ InFlight = frames \cup later
      /\ InFlight' = (frames \ group) \cup later
      /\ \A n \in Nodes : \A f \in frames, g \in Queued(n)' :
           f.tx = g.tx => f.start_index < g.start_index
      /\ \A f \in group : f.start_index = mixed[f.tx]
      /\ \A f \in group, g \in frames \ group : f.start_index < g.start_index
  BY MixFrames
<1>2. /\ tx_out' = [n \in Nodes |-> IF tx_out[n] = <<>> THEN <<>> ELSE Tail(tx_out[n])]
      /\ pending_frames' = frames \ group
      /\ mixed' = [t \in Tx |-> IF \E f \in group : f.tx = t THEN mixed[t] + 1 ELSE mixed[t]]
      /\ UNCHANGED start_index
  BY DEF Mix, PR!ProcessorRound, PR!Left, Nodes, pubState
<1>3. /\ mixed \in [Tx -> Nat] /\ start_index \in [Tx -> Nat]
      /\ tx_out \in [Nodes -> Seq(Frames)]
      /\ \A n \in Nodes : Queued(n) \subseteq Frames
  <2>1. mixed \in [Tx -> Nat] /\ start_index \in [Tx -> Nat] /\ tx_out \in [Nodes -> Seq(Frames)]
    BY DEF SimTypeOK
  <2>2. \A n \in Nodes : Queued(n) \subseteq Frames
    BY <2>1, ElementOfSeq, LenProperties DEF Queued
  <2>3. QED
    BY <2>1, <2>2
<1> HIDE DEF frames, group
\* The frames of a transmitter whose next frame is summed are later ones.
<1>4. ASSUME NEW g \in InFlight'
      PROVE  /\ g \in InFlight /\ g.tx \in Tx /\ g.start_index \in Nat
             /\ \A f \in group : f.tx = g.tx => mixed[g.tx] < g.start_index
  <2>1. g \in InFlight /\ g \in Frames
    BY <1>1, <1>3, <1>4
  <2>2. \A f \in group : f.tx = g.tx => f.start_index < g.start_index
    BY <1>1, <1>4
  <2>3. QED
    BY <1>1, <2>1, <2>2 DEF Frames
<1>5. IndexInRange'
  <2>1. ASSUME NEW t \in Tx PROVE mixed'[t] <= start_index'[t]
    <3>1. mixed[t] \in Nat /\ start_index[t] \in Nat /\ mixed[t] <= start_index[t]
      BY <1>3 DEF FramesInFlight, IndexInRange
    <3>2. CASE \E f \in group : f.tx = t
      <4>1. PICK f \in group : f.tx = t
        BY <3>2
      <4>2. mixed[t] < start_index[t]
        BY <1>1, <4>1 DEF FramesInFlight, IndexInRange
      <4>3. mixed'[t] = mixed[t] + 1
        BY <1>2, <3>2
      <4>4. QED
        BY <1>2, <3>1, <4>2, <4>3
    <3>3. CASE ~\E f \in group : f.tx = t
      BY <1>2, <3>1, <3>3
    <3>4. QED
      BY <3>2, <3>3
  <2>2. ASSUME NEW g \in InFlight'
        PROVE  mixed'[g.tx] <= g.start_index /\ g.start_index < start_index'[g.tx]
    <3>1. /\ g.tx \in Tx /\ g.start_index \in Nat /\ mixed[g.tx] \in Nat
          /\ mixed[g.tx] <= g.start_index /\ g.start_index < start_index[g.tx]
      BY <1>3, <1>4, <2>2 DEF FramesInFlight, IndexInRange
    <3>2. CASE \E f \in group : f.tx = g.tx
      <4>1. mixed[g.tx] < g.start_index
        BY <1>4, <2>2, <3>2
      <4>2. mixed'[g.tx] = mixed[g.tx] + 1
        BY <1>2, <3>1, <3>2
      <4>3. QED
        BY <1>2, <3>1, <4>1, <4>2
    <3>3. CASE ~\E f \in group : f.tx = g.tx
      BY <1>2, <3>1, <3>3
    <3>4. QED
      BY <3>2, <3>3
  <2>3. QED
    BY <2>1, <2>2 DEF IndexInRange
<1>6. NoneLost'
  <2>1. SUFFICES ASSUME NEW t \in Tx, NEW k \in mixed'[t] .. (start_index'[t] - 1)
                 PROVE  \E g \in InFlight' : g.tx = t /\ g.start_index = k
    BY DEF NoneLost
  <2>2. mixed[t] \in Nat /\ start_index'[t] = start_index[t] /\ start_index[t] \in Nat
    BY <1>2, <1>3
  <2>3. mixed[t] <= mixed'[t] /\ mixed'[t] \in Nat
    BY <1>2, <2>2
  <2>4. k \in mixed[t] .. (start_index[t] - 1)
    BY <2>1, <2>2, <2>3
  <2>5. PICK g \in InFlight : g.tx = t /\ g.start_index = k
    BY <2>4 DEF FramesInFlight, NoneLost
  <2>6. g \notin group
    <3>1. SUFFICES ASSUME g \in group PROVE FALSE
      OBVIOUS
    <3>2. k = mixed[t] /\ mixed'[t] = mixed[t] + 1
      BY <1>1, <1>2, <2>5, <3>1
    <3>3. QED
      BY <2>1, <2>2, <3>2
  <2>7. QED
    BY <1>1, <2>5, <2>6
<1>7. ProcessorAhead'
  BY <1>1, <1>2 DEF ProcessorAhead
<1>8. ChannelInOrder'
  <2>1. SUFFICES ASSUME NEW n \in Nodes, NEW i \in DOMAIN tx_out'[n], NEW j \in DOMAIN tx_out'[n],
                        i < j, tx_out'[n][i].tx = tx_out'[n][j].tx
                 PROVE  tx_out'[n][i].start_index < tx_out'[n][j].start_index
    BY DEF ChannelInOrder
  <2>2. CASE tx_out[n] = <<>>
    <3>1. tx_out'[n] = <<>>
      BY <1>2, <2>2
    <3>2. DOMAIN tx_out'[n] = {}
      BY <3>1
    <3>3. QED
      BY <2>1, <3>2
  <2>3. CASE tx_out[n] # <<>>
    <3> DEFINE s == tx_out[n]
    <3>1. s \in Seq(Frames) /\ tx_out'[n] = Tail(s)
      BY <1>2, <1>3, <2>3
    <3>2. /\ Len(s) \in Nat \ {0} /\ DOMAIN s = 1 .. Len(s)
          /\ DOMAIN Tail(s) = 1 .. (Len(s) - 1)
          /\ \A x \in 1 .. (Len(s) - 1) : Tail(s)[x] = s[x + 1]
      BY <2>3, <3>1, QueuedTail
    <3>3. i + 1 \in DOMAIN s /\ j + 1 \in DOMAIN s /\ i + 1 < j + 1
      BY <2>1, <3>1, <3>2
    <3>4. tx_out'[n][i] = s[i + 1] /\ tx_out'[n][j] = s[j + 1]
      BY <2>1, <3>1, <3>2
    <3>5. QED
      BY <2>1, <3>3, <3>4 DEF FramesInFlight, ChannelInOrder
  <2>4. QED
    BY <2>2, <2>3
<1>9. OwnChannel'
  BY <1>1 DEF FramesInFlight, OwnChannel
<1>10. QED
  BY <1>5, <1>6, <1>7, <1>8, <1>9 DEF FramesInFlight

LEMMA PublishKeeps ==
  ASSUME SimTypeOK, NEW t \in Tx, Publish(t)
  PROVE  \A n \in Nodes : Queued(n) \subseteq Queued(n)'
<1> DEFINE m == NodeOf[t]
<1>1. PU!PublisherWork(t)
  BY DEF Publish
<1>2. m \in Nodes /\ tx_out \in [Nodes -> Seq(Frames)]
  BY SimulatorAssumption DEF SimTypeOK
<1>3. CASE Len(PU!Filled(t)) >= FrameLen
  <2>1. tx_out' = [tx_out EXCEPT ![m] = Append(tx_out[m], SentFrame(t))]
    BY <1>1, <1>3 DEF PU!PublisherWork, PU!SendFrame, SentFrame
  <2>2. SentFrame(t) \in Frames /\ tx_out[m] \in Seq(Frames)
    BY <1>2, <1>3, SentFrameTyped
  <2>3. tx_out'[m] = Append(tx_out[m], SentFrame(t))
        /\ \A n \in Nodes \ {m} : tx_out'[n] = tx_out[n]
    BY <1>2, <2>1
  <2>4. Queued(m)' = Queued(m) \cup {SentFrame(t)}
    BY <2>2, <2>3, QueuedAppend DEF Queued
  <2>5. \A n \in Nodes \ {m} : Queued(n)' = Queued(n)
    BY <2>3 DEF Queued
  <2>6. QED
    BY <2>4, <2>5
<1>4. CASE ~(Len(PU!Filled(t)) >= FrameLen)
  <2>1. UNCHANGED tx_out
    BY <1>1, <1>4 DEF PU!PublisherWork
  <2>2. QED
    BY <2>1 DEF Queued
<1>5. QED
  BY <1>3, <1>4

\* What leaves the flight is the next frame of its transmitter; only a round of the
\* processor takes any.
LEMMA FlightStep ==
  ASSUME SimTypeOK, FramesInFlight, [SimNext]_simVars
  PROVE  /\ FramesInFlight'
         /\ \A f \in InFlight \ InFlight' : f.start_index = mixed[f.tx]
<1>1. CASE UNCHANGED flightVars
  <2>1. \A n \in Nodes : Queued(n)' = Queued(n)
    BY <1>1 DEF Queued, flightVars
  <2>2. InFlight' = InFlight
    BY <1>1, <2>1 DEF InFlight, flightVars
  <2>3. QED
    BY <1>1, <2>2, FlightUnchanged
<1>2. CASE Mix
  <2> DEFINE frames == pending_frames \cup PR!Polled
             group == PR!FirstGroup(frames)
             later == UNION {Queued(n)' : n \in Nodes}
  <2>1. /\ InFlight = frames \cup later /\ InFlight' = (frames \ group) \cup later
        /\ \A f \in group : f.start_index = mixed[f.tx]
    BY <1>2, MixFrames
  <2>2. InFlight \ InFlight' \subseteq group
    BY <2>1
  <2>3. QED
    BY <1>2, <2>1, <2>2, FlightMix
<1>3. ASSUME NEW t \in Tx, Publish(t)
      PROVE  /\ FramesInFlight'
             /\ \A f \in InFlight \ InFlight' : f.start_index = mixed[f.tx]
  <2>1. \A n \in Nodes : Queued(n) \subseteq Queued(n)'
    BY <1>3, PublishKeeps
  <2>2. pending_frames' = pending_frames
    BY <1>3 DEF Publish, procState
  <2>3. InFlight \subseteq InFlight'
    <3>1. InFlight' = pending_frames \cup UNION {Queued(n)' : n \in Nodes}
      BY <2>2 DEF InFlight
    <3>2. QED
      BY <2>1, <3>1 DEF InFlight
  <2>4. QED
    BY <1>3, <2>3, FlightPublish
<1>4. CASE \E n \in Nodes : Serve(n) \/ Subscribe(n) \/ Move(n)
  <2>1. UNCHANGED flightVars
    BY <1>4 DEF Serve, Subscribe, Move, PR!MoveNode, flightVars, pubState, procState
  <2>2. QED
    BY <1>1, <2>1
<1>5. CASE \E t \in Tx : Transmit(t) \/ WakePublisher(t)
  <2>1. UNCHANGED flightVars
    BY <1>5 DEF Transmit, WakePublisher, PU!PublisherWake, flightVars, procState
  <2>2. QED
    BY <1>1, <2>1
<1>6. CASE UNCHANGED simVars
  <2>1. UNCHANGED flightVars
    BY <1>6 DEF simVars, flightVars, pubState, procState
  <2>2. QED
    BY <1>1, <2>1
<1>7. QED
  BY <1>2, <1>3, <1>4, <1>5, <1>6 DEF SimNext

\* However many transmitters there are, and however far apart their counters and
\* their channels' backlogs get, no frame is lost, doubled or overtaken between the
\* publishers (Publisher::work) and the sum (ChannelProcessor::run).
THEOREM FramesStayInFlight == SimSpec => []FramesInFlight
<1>1. SimTypeOK /\ FramesInFlight /\ [SimNext]_simVars => FramesInFlight'
  BY FlightStep
<1>2. QED
  BY FlightInit, SimTypeCorrect, <1>1, PTL DEF SimSpec

\* The sums take the frames of every transmitter in sequence, although they are
\* chosen by the smallest index at hand and never compared across rounds.
THEOREM SumsStayInSequence == SimSpec => SumsInSequence
<1>1. SimTypeOK /\ FramesInFlight /\ [SimNext]_simVars
        => [\A f \in InFlight \ InFlight' : f.start_index = mixed[f.tx]]_simVars
  BY FlightStep
<1>2. QED
  BY SimTypeCorrect, FramesStayInFlight, <1>1, PTL DEF SimSpec, SumsInSequence

(***************************************************************************)
(* The samples on their way.                                               *)
(***************************************************************************)
Vals(s) == {s[i] : i \in DOMAIN s} \ {0}
Below(X, Y) == \A x \in X, y \in Y : x < y
Rising(s) == \A i, j \in DOMAIN s : i < j /\ s[i] # 0 /\ s[j] # 0 => s[i] < s[j]

\* The samples the publisher of t has not sent, and how many of the samples that t
\* has written are no silence: those are numbered from 1.
Rest(t) == tmpbuf[t] \o input[t]
Written(w) == (w \div BurstLen) * Signal + SmallerOf(w % BurstLen, Signal)
Numbers(t) == 1 .. Written(written[t])
Flying(t) == {f \in InFlight : f.tx = t}

\* What node n has still to put out: the places in its sums, and what of t is there.
Ready(n) == pos[n] + 1 .. FrameLen * Len(SU!Sums(n))
Out(n, t, x) == SU!From(n, t, x) \ {0}

\* Every number is in at most one place, and what is further on its way is lower.
RestInv == \A t \in Tx : Rising(Rest(t)) /\ Vals(Rest(t)) \subseteq Numbers(t)
FrameInv ==
  \A t \in Tx : \A f \in Flying(t) :
    Rising(f.samples) /\ Vals(f.samples) \subseteq Numbers(t) /\ Below(Vals(f.samples), Vals(Rest(t)))
FrameOrder ==
  \A t \in Tx : \A f, g \in Flying(t) :
    /\ f.start_index = g.start_index => f = g
    /\ f.start_index < g.start_index => Below(Vals(f.samples), Vals(g.samples))
OutInv ==
  \A n \in Nodes, t \in Tx : \A x \in Ready(n) :
    /\ \A u, v \in Out(n, t, x) : u = v
    /\ Out(n, t, x) \subseteq Numbers(t)
    /\ NodeOf[t] = n => Out(n, t, x) = {}
OutOrder ==
  \A n \in Nodes, t \in Tx : \A x \in Ready(n) :
    /\ \A y \in Ready(n) : x < y => Below(Out(n, t, x), Out(n, t, y))
    /\ \A f \in Flying(t) : Below(Out(n, t, x), Vals(f.samples))
    /\ Below(Out(n, t, x), Vals(Rest(t)))
HeardInv ==
  \A n \in Nodes, t \in Tx :
    /\ heard[n][t] \in Seq(Numbers(t))
    /\ Radio!InOrder(heard[n][t])
    /\ NodeOf[t] = n => heard[n][t] = <<>>
HeardOrder ==
  \A n \in Nodes, t \in Tx :
    /\ \A x \in Ready(n) : Below(Vals(heard[n][t]), Out(n, t, x))
    /\ \A f \in Flying(t) : Below(Vals(heard[n][t]), Vals(f.samples))
    /\ Below(Vals(heard[n][t]), Vals(Rest(t)))

\* And no number is nowhere, for nodes that always were apart.
Somewhere(n, t, v) ==
  \/ v \in Vals(heard[n][t])
  \/ \E x \in Ready(n) : v \in Out(n, t, x)
  \/ \E f \in Flying(t) : v \in Vals(f.samples)
  \/ v \in Vals(Rest(t))
NoneGone ==
  \A n \in Nodes, t \in Tx : <<n, NodeOf[t]>> \in apart =>
    \A v \in Numbers(t) : Somewhere(n, t, v)

ApartNow == apart \subseteq PairsApart
HeardTyped == heard \in [Nodes -> [Tx -> Seq(Nat)]]
SentCounted ==
  \A t \in Tx : Cardinality({k \in 1 .. written[t] : SampleAt(k) # 0}) = Written(written[t])

CarryInv ==
  /\ RestInv /\ FrameInv /\ FrameOrder /\ OutInv /\ OutOrder /\ HeardTyped /\ HeardInv /\ HeardOrder
  /\ NoneGone /\ ApartNow /\ SentCounted

(***************************************************************************)
(* Writing: the numbers of a burst.                                        *)
(***************************************************************************)
Divides(a, B, q, r) == B \in Nat \ {0} /\ q \in Nat /\ r \in Nat /\ r < B /\ a = B * q + r

LEMMA DivisionIsUnique ==
  ASSUME NEW a, NEW B, NEW q, NEW r, Divides(a, B, q, r)
  PROVE  a \div B = q /\ a % B = r
<1>0. B \in Nat \ {0} /\ q \in Nat /\ r \in Nat /\ r < B /\ a = B * q + r
  BY DEF Divides
<1> DEFINE p == a \div B  s == a % B
<1>1. B * q \in Nat /\ a \in Nat
  BY <1>0
<1>2. p \in Nat /\ s \in 0 .. (B - 1) /\ a = B * p + s
  BY <1>0, <1>1
<1> HIDE DEF p, s
<1>3. B * p \in Nat
  BY <1>0, <1>2
<1>4. ASSUME p < q PROVE FALSE
  <2>1. B * (p + 1) <= B * q
    <3>1. p + 1 <= q
      BY <1>0, <1>2, <1>4
    <3>2. B * (q - (p + 1)) \in Nat
      BY <1>0, <1>2, <3>1
    <3>3. B * (q - (p + 1)) = B * q - B * (p + 1)
      BY <1>0, <1>2
    <3>4. QED
      BY <1>0, <1>1, <1>2, <3>2, <3>3
  <2>2. B * (p + 1) = B * p + B
    BY <1>0, <1>2
  <2>3. QED
    BY <1>0, <1>1, <1>2, <1>3, <2>1, <2>2
<1>5. ASSUME q < p PROVE FALSE
  <2>1. B * (q + 1) <= B * p
    <3>1. q + 1 <= p
      BY <1>0, <1>2, <1>5
    <3>2. B * (p - (q + 1)) \in Nat
      BY <1>0, <1>2, <3>1
    <3>3. B * (p - (q + 1)) = B * p - B * (q + 1)
      BY <1>0, <1>2
    <3>4. QED
      BY <1>0, <1>1, <1>2, <3>2, <3>3
  <2>2. B * (q + 1) = B * q + B
    BY <1>0
  <2>3. QED
    BY <1>0, <1>1, <1>2, <1>3, <2>1, <2>2
<1>6. p = q
  BY <1>0, <1>2, <1>4, <1>5
<1>7. s = r
  BY <1>0, <1>1, <1>2, <1>6
<1>8. QED
  BY <1>6, <1>7 DEF p, s

WritesNext(w, n) ==
  /\ Written(w) \in Nat /\ Written(w + n) \in Nat /\ Written(w) <= Written(w + n)
  /\ \E c \in Nat, r \in Nat :
       /\ Written(w) = c + SmallerOf(r, Signal)
       /\ Written(w + n) = c + SmallerOf(r + n, Signal)
       /\ \A i \in 1 .. n : SampleAt(w + i) = IF r + i <= Signal THEN c + r + i ELSE 0

LEMMA QuotientAndRest ==
  ASSUME NEW B \in Nat \ {0}, NEW a \in Nat
  PROVE  a \div B \in Nat /\ a % B \in 0 .. (B - 1) /\ a = B * (a \div B) + (a % B)
OBVIOUS

\* Samples written are the next numbers, and silence after the last of a burst.
LEMMA NextNumbers ==
  ASSUME NEW w \in Nat, NEW n \in Nat, n <= BurstLen - (w % BurstLen)
  PROVE  WritesNext(w, n)
<1> DEFINE B == BurstLen q == w \div B r == w % B c == q * Signal
<1>1. B \in Nat \ {0} /\ Signal \in Nat /\ Signal <= B
  BY SimulatorAssumption DEF BurstLen
<1>2. q \in Nat /\ r \in 0 .. (B - 1) /\ w = B * q + r
  BY <1>1
<1>3. Written(w) = c + SmallerOf(r, Signal) /\ n <= B - r
  BY DEF Written
<1>4. Written(w + n) = ((w + n) \div B) * Signal + SmallerOf((w + n) % B, Signal)
  BY DEF Written
<1>5. ASSUME NEW i \in 1 .. n
      PROVE  SampleAt(w + i) = IF ((w + i - 1) % B) + 1 <= Signal
                                 THEN ((w + i - 1) \div B) * Signal + (((w + i - 1) % B) + 1) ELSE 0
  BY DEF SampleAt
<1> HIDE DEF B, q, r
<1>6. c \in Nat
  BY <1>1, <1>2
<1>7. ASSUME NEW i \in 1 .. n
      PROVE  SampleAt(w + i) = IF r + i <= Signal THEN c + r + i ELSE 0
  <2>1. B * q \in Nat
    BY <1>1, <1>2
  <2>2. w + i - 1 = B * q + (r + i - 1) /\ r + i - 1 \in Nat /\ r + i - 1 < B
    BY <1>1, <1>2, <1>3, <2>1
  <2>3. (w + i - 1) \div B = q /\ (w + i - 1) % B = r + i - 1
    <3>1. Divides(w + i - 1, B, q, r + i - 1)
      BY <1>1, <1>2, <2>2 DEF Divides
    <3>2. QED
      BY <3>1, DivisionIsUnique
  <2>4. ((w + i - 1) % B) + 1 = r + i
    BY <1>2, <2>3
  <2>5. SampleAt(w + i) = IF r + i <= Signal THEN c + (r + i) ELSE 0
    BY <1>5, <2>3, <2>4
  <2> HIDE DEF c
  <2>6. QED
    BY <1>2, <1>6, <2>5
<1>8. Written(w + n) = c + SmallerOf(r + n, Signal)
  <2>1. B * q \in Nat /\ B * (q + 1) = B * q + B
    BY <1>1, <1>2
  <2>2. CASE r + n < B
    <3>1. w + n = B * q + (r + n)
      BY <1>1, <1>2, <2>1
    <3>2. (w + n) \div B = q /\ (w + n) % B = r + n
      <4>1. r + n \in Nat
        BY <1>1, <1>2
      <4>2. Divides(w + n, B, q, r + n)
        BY <1>1, <1>2, <2>2, <3>1, <4>1 DEF Divides
      <4>3. QED
        BY <4>2, DivisionIsUnique
    <3>3. QED
      BY <1>4, <3>2
  <2>3. CASE r + n = B
    <3>1. w + n = B * (q + 1) + 0
      BY <1>1, <1>2, <2>1, <2>3
    <3>2. (w + n) \div B = q + 1 /\ (w + n) % B = 0
      <4>1. q + 1 \in Nat /\ 0 \in Nat /\ 0 < B
        BY <1>1, <1>2
      <4>2. Divides(w + n, B, q + 1, 0)
        BY <1>1, <1>2, <3>1, <4>1 DEF Divides
      <4>3. QED
        BY <4>2, DivisionIsUnique
    <3>3. (q + 1) * Signal = c + Signal
      BY <1>1, <1>2
    <3>4. SmallerOf(0, Signal) = 0 /\ SmallerOf(r + n, Signal) = Signal
      BY <1>1, <2>3 DEF SmallerOf
    <3> HIDE DEF c
    <3>5. QED
      BY <1>1, <1>4, <1>6, <3>2, <3>3, <3>4
  <2>4. QED
    BY <1>1, <1>2, <1>3, <2>2, <2>3
<1> HIDE DEF c
<1>9. SmallerOf(r, Signal) \in Nat /\ SmallerOf(r + n, Signal) \in Nat
      /\ SmallerOf(r, Signal) <= SmallerOf(r + n, Signal)
  BY <1>1, <1>2 DEF SmallerOf
<1>10. Written(w) \in Nat /\ Written(w + n) \in Nat /\ Written(w) <= Written(w + n)
  BY <1>3, <1>6, <1>8, <1>9
<1>11. r \in Nat
  BY <1>1, <1>2
<1>12. QED
  BY <1>3, <1>6, <1>7, <1>8, <1>10, <1>11 DEF WritesNext

(***************************************************************************)
(* Sequences of samples.                                                   *)
(***************************************************************************)
LEMMA Joined ==
  ASSUME NEW S, NEW s \in Seq(S), NEW u \in Seq(S)
  PROVE  /\ s \o u \in Seq(S) /\ Len(s \o u) = Len(s) + Len(u) /\ Len(s) \in Nat /\ Len(u) \in Nat
         /\ DOMAIN s = 1 .. Len(s) /\ DOMAIN u = 1 .. Len(u) /\ DOMAIN (s \o u) = 1 .. Len(s) + Len(u)
         /\ \A i \in 1 .. Len(s) : (s \o u)[i] = s[i]
         /\ \A i \in 1 .. Len(u) : (s \o u)[Len(s) + i] = u[i]
         /\ \A i \in 1 .. Len(s) + Len(u) : i \in 1 .. Len(s) \/ \E j \in 1 .. Len(u) : i = Len(s) + j
<1>1. s \o u \in Seq(S) /\ Len(s \o u) = Len(s) + Len(u) /\ Len(s) \in Nat /\ Len(u) \in Nat
  BY ConcatProperties, LenProperties
<1>2. DOMAIN s = 1 .. Len(s) /\ DOMAIN u = 1 .. Len(u) /\ DOMAIN (s \o u) = 1 .. Len(s) + Len(u)
  BY <1>1, LenProperties
<1>3. \A i \in 1 .. Len(s) + Len(u) : (s \o u)[i] = IF i <= Len(s) THEN s[i] ELSE u[i - Len(s)]
  BY ConcatProperties
<1>4. ASSUME NEW i \in 1 .. Len(s) + Len(u), i \notin 1 .. Len(s)
      PROVE  \E j \in 1 .. Len(u) : i = Len(s) + j
  <2>1. i - Len(s) \in 1 .. Len(u) /\ i = Len(s) + (i - Len(s))
    BY <1>1, <1>4
  <2>2. QED
    BY <2>1
<1>5. \A i \in 1 .. Len(u) : (s \o u)[Len(s) + i] = u[i]
  <2>1. SUFFICES ASSUME NEW i \in 1 .. Len(u) PROVE (s \o u)[Len(s) + i] = u[i]
    OBVIOUS
  <2>2. Len(s) + i \in 1 .. Len(s) + Len(u) /\ ~(Len(s) + i <= Len(s)) /\ (Len(s) + i) - Len(s) = i
    BY <1>1
  <2>3. QED
    BY <1>3, <2>2
<1>6. \A i \in 1 .. Len(s) : (s \o u)[i] = s[i]
  BY <1>1, <1>3
<1>7. QED
  BY <1>1, <1>2, <1>4, <1>5, <1>6

\* The numbers in two streams joined, and when they rise.
LEMMA JoinedNumbers ==
  ASSUME NEW s \in Seq(Nat), NEW u \in Seq(Nat)
  PROVE  /\ Vals(s \o u) = Vals(s) \cup Vals(u)
         /\ Rising(s \o u) <=> Rising(s) /\ Rising(u) /\ Below(Vals(s), Vals(u))
<1> DEFINE su == s \o u l == Len(s) m == Len(u)
<1>1. /\ l \in Nat /\ m \in Nat
      /\ DOMAIN s = 1 .. l /\ DOMAIN u = 1 .. m /\ DOMAIN su = 1 .. l + m
      /\ \A i \in 1 .. l : su[i] = s[i]
      /\ \A i \in 1 .. m : su[l + i] = u[i]
      /\ \A i \in 1 .. l + m : i \in 1 .. l \/ \E j \in 1 .. m : i = l + j
  BY Joined
<1>2. /\ \A i \in 1 .. l : i \in 1 .. l + m
      /\ \A i \in 1 .. m : l + i \in 1 .. l + m
      /\ \A i \in 1 .. l, j \in 1 .. m : i < l + j /\ ~(l + j < i)
      /\ \A i, j \in 1 .. m : i < j <=> l + i < l + j
  BY <1>1
<1> HIDE DEF su, l, m
<1>3. Vals(su) = Vals(s) \cup Vals(u)
  <2>1. ASSUME NEW v \in Vals(s) PROVE v \in Vals(su)
    <3>1. PICK i \in 1 .. l : v = s[i] /\ v # 0
      BY <1>1 DEF Vals
    <3>2. i \in DOMAIN su /\ su[i] = v
      BY <1>1, <1>2, <3>1
    <3>3. QED
      BY <3>1, <3>2 DEF Vals
  <2>2. ASSUME NEW v \in Vals(u) PROVE v \in Vals(su)
    <3>1. PICK i \in 1 .. m : v = u[i] /\ v # 0
      BY <1>1 DEF Vals
    <3>2. l + i \in DOMAIN su /\ su[l + i] = v
      BY <1>1, <1>2, <3>1
    <3>3. QED
      BY <3>1, <3>2 DEF Vals
  <2>3. ASSUME NEW v \in Vals(su) PROVE v \in Vals(s) \cup Vals(u)
    <3>1. PICK k \in 1 .. l + m : v = su[k] /\ v # 0
      BY <1>1 DEF Vals
    <3>2. (\E i \in 1 .. l : v = s[i]) \/ (\E i \in 1 .. m : v = u[i])
      BY <1>1, <3>1
    <3>3. QED
      BY <1>1, <3>1, <3>2 DEF Vals
  <2>4. QED
    BY <2>1, <2>2, <2>3
<1>4. ASSUME Rising(su) PROVE Rising(s) /\ Rising(u) /\ Below(Vals(s), Vals(u))
  <2>1. Rising(s)
    BY <1>1, <1>2, <1>4 DEF Rising
  <2>2. Rising(u)
    BY <1>1, <1>2, <1>4 DEF Rising
  <2>3. Below(Vals(s), Vals(u))
    <3>1. SUFFICES ASSUME NEW i \in 1 .. l, s[i] # 0, NEW j \in 1 .. m, u[j] # 0 PROVE s[i] < u[j]
      BY <1>1 DEF Below, Vals
    <3>2. i \in DOMAIN su /\ l + j \in DOMAIN su /\ i < l + j /\ su[i] = s[i] /\ su[l + j] = u[j]
      BY <1>1, <1>2
    <3>3. QED
      BY <1>4, <3>1, <3>2 DEF Rising
  <2>4. QED
    BY <2>1, <2>2, <2>3
<1>5. ASSUME Rising(s), Rising(u), Below(Vals(s), Vals(u)) PROVE Rising(su)
  <2>1. SUFFICES ASSUME NEW i \in 1 .. l + m, NEW j \in 1 .. l + m, i < j, su[i] # 0, su[j] # 0
                 PROVE  su[i] < su[j]
    BY <1>1 DEF Rising
  <2>2. CASE i \in 1 .. l /\ j \in 1 .. l
    BY <1>1, <1>5, <2>1, <2>2 DEF Rising
  <2>3. ASSUME i \in 1 .. l, NEW k \in 1 .. m, j = l + k PROVE su[i] < su[j]
    <3>1. s[i] \in Vals(s) /\ u[k] \in Vals(u) /\ su[i] = s[i] /\ su[j] = u[k]
      BY <1>1, <2>1, <2>3 DEF Vals
    <3>2. QED
      BY <1>5, <3>1 DEF Below
  <2>4. ASSUME NEW h \in 1 .. m, i = l + h, NEW k \in 1 .. m, j = l + k PROVE su[i] < su[j]
    <3>1. h < k /\ su[i] = u[h] /\ su[j] = u[k]
      BY <1>1, <1>2, <2>1, <2>4
    <3>2. QED
      BY <1>1, <1>5, <2>1, <3>1 DEF Rising
  <2>5. ASSUME NEW h \in 1 .. m, i = l + h, j \in 1 .. l PROVE FALSE
    BY <1>2, <2>1, <2>5
  <2>6. QED
    BY <1>1, <2>1, <2>2, <2>3, <2>4, <2>5
<1>6. QED
  BY <1>3, <1>4, <1>5 DEF su

LEMMA NoNumbers ==
  /\ <<>> \in Seq(Nat) /\ Vals(<<>>) = {} /\ Rising(<<>>)
  /\ \A n \in Nat : PU!Silence(n) \in Seq(Nat) /\ Vals(PU!Silence(n)) = {} /\ Rising(PU!Silence(n))
<1>1. <<>> \in Seq(Nat) /\ DOMAIN <<>> = {}
  OBVIOUS
<1>2. ASSUME NEW n \in Nat
      PROVE  PU!Silence(n) \in Seq(Nat) /\ Vals(PU!Silence(n)) = {} /\ Rising(PU!Silence(n))
  BY SilenceSeq DEF PU!Silence, Vals, Rising
<1>3. QED
  BY <1>1, <1>2 DEF Vals, Rising

LEMMA Regrouped ==
  ASSUME NEW s \in Seq(Nat), NEW u \in Seq(Nat), NEW v \in Seq(Nat)
  PROVE  (s \o u) \o v = s \o (u \o v)
BY ConcatAssociative

LEMMA RegroupedSums ==
  ASSUME NEW s \in Seq(SUBSET Frames), NEW u \in Seq(SUBSET Frames), NEW v \in Seq(SUBSET Frames)
  PROVE  (s \o u) \o v = s \o (u \o v)
BY ConcatAssociative

LEMMA RestTyped ==
  ASSUME SimTypeOK, NEW t \in Tx
  PROVE  tmpbuf[t] \in Seq(Nat) /\ input[t] \in Seq(Nat) /\ Rest(t) \in Seq(Nat)
<1>1. tmpbuf[t] \in Seq(Nat) /\ input[t] \in Seq(Nat)
  BY DEF SimTypeOK
<1>2. QED
  BY <1>1, ConcatProperties DEF Rest

(***************************************************************************)
(* What the steps do to them.                                              *)
(***************************************************************************)
LEMMA TransmitRest ==
  ASSUME SimTypeOK, NEW t \in Tx, Transmit(t)
  PROVE  /\ \A u \in Tx \ {t} : Rest(u)' = Rest(u) /\ written'[u] = written[u]
         /\ written'[t] \in Nat /\ written[t] <= written'[t]
         /\ \E n \in Nat : n <= BurstLen - (written[t] % BurstLen) /\ written'[t] = written[t] + n
         /\ Written(written[t]) <= Written(written'[t])
         /\ Written(written[t]) \in Nat /\ Written(written'[t]) \in Nat
         /\ \E new \in Seq(Nat) :
              /\ Rest(t)' = Rest(t) \o new
              /\ Vals(new) = Written(written[t]) + 1 .. Written(written'[t])
              /\ Rising(new)
              /\ written'[t] = written[t] + Len(new)
              /\ \A i \in 1 .. Len(new) : new[i] = SampleAt(written[t] + i)
<1> DEFINE w == written[t]
           n == SmallerOf(Capacity - Len(input[t]), BurstLen - (w % BurstLen))
           new == [i \in 1 .. n |-> SampleAt(w + i)]
<1>1. input[t] \in Seq(Nat) /\ tmpbuf[t] \in Seq(Nat) /\ Len(input[t]) \in Nat /\ w \in Nat
  <2>1. input \in [Tx -> Seq(Nat)] /\ tmpbuf \in [Tx -> Seq(Nat)] /\ written \in [Tx -> Nat]
    BY DEF SimTypeOK
  <2>2. QED
    BY <2>1
<1>2. BurstLen \in Nat \ {0} /\ Capacity \in Nat /\ Signal \in Nat
  BY SimulatorAssumption DEF BurstLen
<1>3. w % BurstLen \in 0 .. (BurstLen - 1)
  BY <1>1, <1>2
<1>4. n \in Nat /\ n <= BurstLen - (w % BurstLen)
  BY <1>1, <1>2, <1>3 DEF Transmit, SmallerOf
<1>5. /\ input' = [input EXCEPT ![t] = input[t] \o new]
      /\ written' = [written EXCEPT ![t] = w + n]
      /\ tmpbuf' = tmpbuf
  BY DEF Transmit
<1> HIDE DEF n, new
<1>6. /\ input'[t] = input[t] \o new /\ written'[t] = w + n
      /\ \A u \in Tx \ {t} : input'[u] = input[u] /\ written'[u] = written[u]
  BY <1>5 DEF SimTypeOK
<1>7. /\ Written(w) \in Nat /\ Written(w + n) \in Nat /\ Written(w) <= Written(w + n)
      /\ \E c \in Nat, r \in Nat :
           /\ Written(w) = c + SmallerOf(r, Signal)
           /\ Written(w + n) = c + SmallerOf(r + n, Signal)
           /\ \A i \in 1 .. n : SampleAt(w + i) = IF r + i <= Signal THEN c + r + i ELSE 0
  <2>1. WritesNext(w, n)
    BY <1>1, <1>4, NextNumbers
  <2>2. QED
    BY <2>1 DEF WritesNext
<1>8. PICK c \in Nat, r \in Nat :
        /\ Written(w) = c + SmallerOf(r, Signal)
        /\ Written(w + n) = c + SmallerOf(r + n, Signal)
        /\ \A i \in 1 .. n : SampleAt(w + i) = IF r + i <= Signal THEN c + r + i ELSE 0
  BY <1>7
<1>9. DOMAIN new = 1 .. n /\ \A i \in 1 .. n : new[i] = IF r + i <= Signal THEN c + r + i ELSE 0
  BY <1>8 DEF new
<1>10. new \in Seq(Nat)
  <2>1. new \in [1 .. n -> Nat]
    <3>1. \A i \in 1 .. n : SampleAt(w + i) \in Nat
      BY <1>4, <1>8
    <3>2. QED
      BY <3>1 DEF new
  <2>2. QED
    BY <1>4, <2>1, SeqDef
<1>11. Rising(new)
  BY <1>4, <1>9 DEF Rising
<1>12. Vals(new) = Written(w) + 1 .. Written(w + n)
  <2>1. ASSUME NEW v \in Vals(new) PROVE v \in Written(w) + 1 .. Written(w + n)
    <3>1. PICK i \in 1 .. n : v = new[i] /\ v # 0
      BY <1>9 DEF Vals
    <3>2. r + i <= Signal /\ v = c + r + i
      BY <1>9, <3>1
    <3>3. SmallerOf(r, Signal) = r /\ r + i <= SmallerOf(r + n, Signal) /\ SmallerOf(r + n, Signal) \in Nat
      BY <1>2, <1>4, <3>2 DEF SmallerOf
    <3>4. QED
      BY <1>4, <1>8, <3>2, <3>3
  <2>2. ASSUME NEW v \in Written(w) + 1 .. Written(w + n) PROVE v \in Vals(new)
    <3>1. r < Signal
      <4>1. SmallerOf(r, Signal) < SmallerOf(r + n, Signal)
            /\ SmallerOf(r, Signal) \in Nat /\ SmallerOf(r + n, Signal) \in Nat
        <5>1. SmallerOf(r, Signal) \in Nat /\ SmallerOf(r + n, Signal) \in Nat
          BY <1>2, <1>4 DEF SmallerOf
        <5>2. QED
          BY <1>8, <2>2, <5>1
      <4>2. QED
        BY <1>2, <1>4, <4>1 DEF SmallerOf
    <3>2. SmallerOf(r, Signal) = r /\ SmallerOf(r + n, Signal) <= r + n
          /\ SmallerOf(r + n, Signal) <= Signal /\ SmallerOf(r + n, Signal) \in Nat
      BY <1>2, <1>4, <3>1 DEF SmallerOf
    <3> DEFINE i == v - c - r
    <3>3. i \in 1 .. n /\ r + i <= Signal /\ c + r + i = v /\ v # 0
      BY <1>2, <1>4, <1>8, <2>2, <3>2
    <3>4. new[i] = v
      BY <1>9, <3>3
    <3>5. QED
      BY <1>9, <3>3, <3>4 DEF Vals
  <2>3. QED
    BY <2>1, <2>2
<1>13. Rest(t)' = Rest(t) \o new
  <2>1. Rest(t)' = tmpbuf[t] \o (input[t] \o new)
    BY <1>5, <1>6 DEF Rest
  <2>2. (tmpbuf[t] \o input[t]) \o new = tmpbuf[t] \o (input[t] \o new)
    BY <1>1, <1>10, Regrouped, Zenon
  <2>3. QED
    BY <2>1, <2>2 DEF Rest
<1>14. \A u \in Tx \ {t} : Rest(u)' = Rest(u)
  BY <1>5, <1>6 DEF Rest
<1>15. w + n \in Nat /\ w <= w + n
  BY <1>1, <1>4
<1>16. Len(new) = n /\ \A i \in 1 .. n : new[i] = SampleAt(w + i)
  BY <1>4 DEF new
<1>17. QED
  BY <1>4, <1>6, <1>7, <1>10, <1>11, <1>12, <1>13, <1>14, <1>15, <1>16

\* Without any input the frame begun is filled.
LEMMA FilledWhole ==
  ASSUME SimTypeOK, NEW t \in Tx, input[t] = <<>>
  PROVE  /\ Len(PU!Filled(t)) >= FrameLen
         /\ PU!Taken(t) = 0 /\ FrameLen - Len(tmpbuf[t]) \in Nat
         /\ PU!Filled(t) = tmpbuf[t] \o PU!Silence(FrameLen - Len(tmpbuf[t]))
<1>1. tmpbuf[t] \in Seq(Nat) /\ Len(tmpbuf[t]) \in Nat /\ Len(tmpbuf[t]) < FrameLen /\ FrameLen \in Nat
  BY SimulatorAssumption, RestTyped DEF SimTypeOK
<1>2. PU!Taken(t) = 0
  BY <1>1 DEF PU!Taken
<1>3. tmpbuf[t] \o SubSeq(input[t], 1, PU!Taken(t)) = tmpbuf[t]
  <2>1. SubSeq(input[t], 1, PU!Taken(t)) = <<>>
    BY <1>2, SubSeqEmpty
  <2>2. QED
    BY <1>1, <2>1, ConcatEmptySeq
<1>4. PU!Filled(t) = tmpbuf[t] \o PU!Silence(FrameLen - Len(tmpbuf[t]))
  BY <1>3 DEF PU!Filled
<1>5. FrameLen - Len(tmpbuf[t]) \in Nat
  BY <1>1
<1>6. PU!Silence(FrameLen - Len(tmpbuf[t])) \in Seq(Nat)
      /\ Len(PU!Silence(FrameLen - Len(tmpbuf[t]))) = FrameLen - Len(tmpbuf[t])
  BY <1>5, SilenceSeq
<1>7. Len(PU!Filled(t)) >= FrameLen
  <2> DEFINE b == tmpbuf[t] quiet == PU!Silence(FrameLen - Len(b))
  <2>1. /\ b \in Seq(Nat) /\ quiet \in Seq(Nat) /\ Len(b) \in Nat /\ FrameLen \in Nat
        /\ Len(quiet) = FrameLen - Len(b) /\ PU!Filled(t) = b \o quiet
    BY <1>1, <1>4, <1>6
  <2> HIDE DEF b, quiet
  <2>2. Len(b \o quiet) = Len(b) + Len(quiet)
    BY <2>1, ConcatProperties
  <2>3. QED
    BY <2>1, <2>2
<1>8. QED
  BY <1>2, <1>4, <1>5, <1>7

Signals(w) == {k \in 1 .. w : SampleAt(k) # 0}

LEMMA CountNext ==
  ASSUME NEW w \in Nat, NEW n \in Nat, n <= BurstLen - (w % BurstLen),
         Cardinality(Signals(w)) = Written(w)
  PROVE  Cardinality(Signals(w + n)) = Written(w + n)
<1>1. WritesNext(w, n)
  BY NextNumbers
<1>2. PICK c \in Nat, r \in Nat :
        /\ Written(w) = c + SmallerOf(r, Signal)
        /\ Written(w + n) = c + SmallerOf(r + n, Signal)
        /\ \A i \in 1 .. n : SampleAt(w + i) = IF r + i <= Signal THEN c + r + i ELSE 0
  BY <1>1 DEF WritesNext
<1> DEFINE d == SmallerOf(r + n, Signal) - SmallerOf(r, Signal)
           T == w + 1 .. w + d
<1>3. Signal \in Nat /\ d \in Nat /\ d <= n /\ Written(w + n) = Written(w) + d /\ Written(w) \in Nat
  <2>1. Signal \in Nat
    BY SimulatorAssumption
  <2>2. d \in Nat /\ d <= n
    BY <2>1 DEF SmallerOf
  <2>3. SmallerOf(r, Signal) \in Nat /\ SmallerOf(r + n, Signal) \in Nat
    BY <2>1 DEF SmallerOf
  <2>4. QED
    BY <1>2, <2>1, <2>2, <2>3
<1>4. \A i \in 1 .. n : i <= d <=> SampleAt(w + i) # 0
  <2>1. SUFFICES ASSUME NEW i \in 1 .. n PROVE i <= d <=> r + i <= Signal
    <3>1. \A i \in 1 .. n : c + r + i # 0
      OBVIOUS
    <3> HIDE DEF d
    <3>2. QED
      BY <1>2, <3>1
  <2>2. QED
    BY <1>3 DEF SmallerOf
<1> HIDE DEF d
<1>5. Signals(w + n) = Signals(w) \cup T
  <2>1. ASSUME NEW k \in 1 .. w + n, k \notin 1 .. w
        PROVE  SampleAt(k) # 0 <=> k \in T
    <3> DEFINE i == k - w
    <3>1. i \in 1 .. n /\ w + i = k
      BY <2>1
    <3>2. i <= d <=> SampleAt(k) # 0
      BY <1>4, <3>1
    <3>3. i <= d <=> k \in T
      BY <1>3, <3>1
    <3>4. QED
      BY <3>2, <3>3
  <2>2. T \subseteq 1 .. w + n /\ \A k \in T : k \notin 1 .. w
    BY <1>3
  <2>3. 1 .. w \subseteq 1 .. w + n
    OBVIOUS
  <2> HIDE DEF T
  <2>4. QED
    BY <2>1, <2>2, <2>3 DEF Signals
<1>6. IsFiniteSet(Signals(w)) /\ IsFiniteSet(T) /\ Cardinality(T) = d
  <2>1. IsFiniteSet(1 .. w)
    BY FS_Interval
  <2>2. Signals(w) \in SUBSET (1 .. w)
    BY DEF Signals
  <2>3. IsFiniteSet(Signals(w))
    BY <2>1, <2>2, FS_Subset
  <2>4. w + 1 \in Int /\ w + d \in Int
    BY <1>3
  <2>5. IsFiniteSet(T) /\ Cardinality(T) = IF w + 1 > w + d THEN 0 ELSE (w + d) - (w + 1) + 1
    BY <2>4, FS_Interval
  <2>6. QED
    BY <1>3, <2>3, <2>5
<1>7. Signals(w) \cap T = {}
  BY <1>3 DEF Signals
<1> HIDE DEF T
<1>8. Cardinality(Signals(w) \cup T) = Cardinality(Signals(w)) + Cardinality(T)
  <2>1. Cardinality(Signals(w) \cup T)
          = Cardinality(Signals(w)) + Cardinality(T) - Cardinality(Signals(w) \cap T)
    BY <1>6, FS_Union
  <2>2. Cardinality(Signals(w) \cap T) = 0
    BY <1>7, FS_EmptySet
  <2>3. Cardinality(Signals(w)) \in Nat
    BY <1>3
  <2>4. QED
    BY <1>3, <1>6, <2>1, <2>2, <2>3
<1>9. Cardinality(Signals(w) \cup T) = Written(w) + d
  BY <1>6, <1>8
<1>10. QED
  BY <1>3, <1>5, <1>9

LEMMA InFlightTyped ==
  ASSUME SimTypeOK
  PROVE  /\ InFlight \subseteq Frames
         /\ \A f \in InFlight : f.tx \in Tx /\ f.start_index \in Nat /\ f.samples \in Seq(Nat)
<1>1. tx_out \in [Nodes -> Seq(Frames)] /\ pending_frames \subseteq Frames
  BY DEF SimTypeOK
<1>2. \A n \in Nodes : Queued(n) \subseteq Frames
  BY <1>1, ElementOfSeq, LenProperties DEF Queued
<1>3. InFlight \subseteq Frames
  BY <1>1, <1>2 DEF InFlight
<1>4. [1 .. FrameLen -> Nat] \subseteq Seq(Nat)
  BY SimulatorAssumption, SeqDef
<1>5. QED
  BY <1>3, <1>4 DEF Frames

\* A call of the publisher either only moves samples into the frame begun, or sends
\* off the first of them.
PublishSends(t, f) ==
  /\ f \in Frames /\ f.tx = t /\ f.start_index = start_index[t]
  /\ InFlight' = InFlight \cup {f}
  /\ Vals(Rest(t)) = Vals(f.samples) \cup Vals(Rest(t)')
  /\ Rising(Rest(t)) => /\ Rising(f.samples) /\ Rising(Rest(t)')
                        /\ Below(Vals(f.samples), Vals(Rest(t)'))

LEMMA PublishRest ==
  ASSUME SimTypeOK, NEW t \in Tx, Publish(t)
  PROVE  /\ \A u \in Tx \ {t} : Rest(u)' = Rest(u)
         /\ \/ Rest(t)' = Rest(t) /\ InFlight' = InFlight
            \/ \E f \in Frames : PublishSends(t, f)
         /\ \E gone \in Seq(Nat), left \in Seq(Nat) : Rest(t) = gone \o left /\ Rest(t)' = left
<1> DEFINE k == PU!Taken(t)
           b == tmpbuf[t]
           front == SubSeq(input[t], 1, k)
           back == SubSeq(input[t], k + 1, Len(input[t]))
           quiet == PU!Silence(FrameLen - Len(b \o front))
<1>1. PU!PublisherWork(t) /\ UNCHANGED pending_frames
  BY DEF Publish, procState
<1>2. /\ input' = [input EXCEPT ![t] = back]
      /\ PU!Filled(t) = IF input[t] = <<>> THEN (b \o front) \o quiet ELSE b \o front
  BY <1>1 DEF PU!PublisherWork, PU!Filled
<1>3. /\ b \in Seq(Nat) /\ input[t] \in Seq(Nat) /\ Len(input[t]) \in Nat
      /\ k \in 0 .. Len(input[t])
      /\ input \in [Tx -> Seq(Nat)] /\ tmpbuf \in [Tx -> Seq(Nat)]
  <2>1. b \in Seq(Nat) /\ input[t] \in Seq(Nat)
    BY RestTyped
  <2>2. k \in 0 .. Len(input[t])
    BY FilledFrame
  <2>3. Len(input[t]) \in Nat
    BY <2>1
  <2>4. QED
    BY <2>1, <2>2, <2>3 DEF SimTypeOK
<1> HIDE DEF k
<1>4. front \in Seq(Nat) /\ back \in Seq(Nat) /\ input[t] = front \o back
  <2>1. \A i \in 1 .. Len(input[t]) : input[t][i] \in Nat
    BY <1>3
  <2>2. front \in Seq(Nat) /\ back \in Seq(Nat)
    BY <1>3, <2>1, SubSeqProperties
  <2>3. 1 \in 1 .. Len(input[t]) + 1 /\ k \in (1 - 1) .. Len(input[t])
        /\ Len(input[t]) \in k .. Len(input[t])
    BY <1>3
  <2>4. front \o back = SubSeq(input[t], 1, Len(input[t]))
    BY <1>3, <2>3, ConcatAdjacentSubSeq
  <2>5. QED
    BY <1>3, <2>2, <2>4, SubSeqFull
<1>5. input'[t] = back /\ \A u \in Tx \ {t} : input'[u] = input[u]
  BY <1>2, <1>3
<1> HIDE DEF b, front, back, quiet
<1>6. Rest(t) = (b \o front) \o back /\ b \o front \in Seq(Nat)
  <2>1. Rest(t) = b \o (front \o back)
    BY <1>4 DEF Rest, b
  <2>2. b \o front \in Seq(Nat)
    BY <1>3, <1>4, ConcatProperties
  <2>3. QED
    BY <1>3, <1>4, <2>1, <2>2, Regrouped, Zenon
<1>7. CASE Len(PU!Filled(t)) >= FrameLen
  <2>1. tmpbuf' = [tmpbuf EXCEPT ![t] = <<>>] /\ PU!SendFrame(t, PU!Filled(t))
    BY <1>1, <1>7 DEF PU!PublisherWork
  <2>2. tmpbuf'[t] = <<>> /\ \A u \in Tx \ {t} : tmpbuf'[u] = tmpbuf[u]
    BY <1>3, <2>1
  <2>3. \A u \in Tx \ {t} : Rest(u)' = Rest(u)
    BY <1>5, <2>2 DEF Rest
  <2>4. Rest(t)' = back
    <3>1. Rest(t)' = <<>> \o back
      BY <1>5, <2>2 DEF Rest
    <3>2. QED
      BY <1>4, <3>1, ConcatEmptySeq
  <2>5. SentFrame(t) \in Frames
    BY <1>7, SentFrameTyped
  <2>6. tx_out' = [tx_out EXCEPT ![NodeOf[t]] = Append(tx_out[NodeOf[t]], SentFrame(t))]
    BY <2>1 DEF PU!SendFrame, SentFrame
  <2>7. InFlight' = InFlight \cup {SentFrame(t)}
    BY <1>1, <2>5, <2>6, SendJoinsFlight
  <2>8. SentFrame(t).tx = t /\ SentFrame(t).start_index = start_index[t]
        /\ SentFrame(t).samples = PU!Filled(t)
    BY DEF SentFrame
  <2>9. /\ Vals(Rest(t)) = Vals(PU!Filled(t)) \cup Vals(Rest(t)')
        /\ Rising(Rest(t)) => /\ Rising(PU!Filled(t)) /\ Rising(Rest(t)')
                              /\ Below(Vals(PU!Filled(t)), Vals(Rest(t)'))
    <3>1. CASE input[t] # <<>>
      <4>1. PU!Filled(t) = b \o front
        BY <1>2, <3>1
      <4>2. /\ Vals((b \o front) \o back) = Vals(b \o front) \cup Vals(back)
            /\ Rising((b \o front) \o back) <=>
                 Rising(b \o front) /\ Rising(back) /\ Below(Vals(b \o front), Vals(back))
        BY <1>4, <1>6, JoinedNumbers, Zenon
      <4>3. QED
        BY <1>6, <2>4, <4>1, <4>2, Zenon
    <3>2. CASE input[t] = <<>>
      <4>1. /\ PU!Filled(t) = b \o quiet /\ k = 0 /\ FrameLen - Len(b) \in Nat
            /\ quiet = PU!Silence(FrameLen - Len(b))
        <5>1. PU!Filled(t) = b \o PU!Silence(FrameLen - Len(b)) /\ k = 0 /\ FrameLen - Len(b) \in Nat
          BY <3>2, FilledWhole DEF b, k
        <5>2. front = <<>>
          BY <5>1, SubSeqEmpty DEF front
        <5>3. b \o front = b
          BY <1>3, <5>2, ConcatEmptySeq
        <5>4. QED
          BY <5>1, <5>3 DEF quiet
      <4>2. quiet \in Seq(Nat) /\ Vals(quiet) = {} /\ Rising(quiet)
        BY <4>1, NoNumbers
      <4>3. back = <<>>
        <5>1. Len(input[t]) = 0
          BY <3>2
        <5>2. QED
          BY <4>1, <5>1, SubSeqEmpty DEF back
      <4>4. Vals(back) = {} /\ Rising(back)
        BY <4>3, NoNumbers
      <4>5. Rest(t) = b
        BY <1>3, <3>2, ConcatEmptySeq DEF Rest, b
      <4>6. Vals(b \o quiet) = Vals(b) \cup Vals(quiet)
            /\ (Rising(b \o quiet) <=> Rising(b) /\ Rising(quiet) /\ Below(Vals(b), Vals(quiet)))
        BY <1>3, <4>2, JoinedNumbers, Zenon
      <4>7. \A X : Below(X, {})
        BY DEF Below
      <4>8. QED
        BY <2>4, <4>1, <4>2, <4>4, <4>5, <4>6, <4>7
    <3>3. QED
      BY <3>1, <3>2
  <2>10. PublishSends(t, SentFrame(t))
    BY <2>5, <2>7, <2>8, <2>9 DEF PublishSends
  <2>11. QED
    BY <1>4, <1>6, <2>3, <2>4, <2>5, <2>10
<1>8. CASE ~(Len(PU!Filled(t)) >= FrameLen)
  <2>1. tmpbuf' = [tmpbuf EXCEPT ![t] = PU!Filled(t)] /\ UNCHANGED tx_out
    BY <1>1, <1>8 DEF PU!PublisherWork
  <2>2. tmpbuf'[t] = PU!Filled(t) /\ \A u \in Tx \ {t} : tmpbuf'[u] = tmpbuf[u]
    BY <1>3, <2>1
  <2>3. \A u \in Tx \ {t} : Rest(u)' = Rest(u)
    BY <1>5, <2>2 DEF Rest
  <2>4. InFlight' = InFlight
    <3>1. \A n \in Nodes : Queued(n)' = Queued(n)
      BY <2>1 DEF Queued
    <3>2. QED
      BY <1>1, <3>1 DEF InFlight
  <2>5. input[t] # <<>>
    <3>1. SUFFICES ASSUME input[t] = <<>> PROVE Len(PU!Filled(t)) >= FrameLen
      BY <1>8
    <3>2. QED
      BY <3>1, FilledWhole
  <2>6. Rest(t)' = Rest(t)
    BY <1>2, <1>5, <1>6, <2>2, <2>5 DEF Rest
  <2>7. Rest(t) \in Seq(Nat) /\ <<>> \in Seq(Nat) /\ <<>> \o Rest(t) = Rest(t)
    BY RestTyped, ConcatEmptySeq, EmptySeq
  <2>8. QED
    BY <2>3, <2>4, <2>6, <2>7
<1>9. QED
  BY <1>7, <1>8

\* A round of the processor takes some frames out of flight, at most one of every
\* transmitter and those before all others, and every node hears some of them.
MixTakes(group) ==
  /\ InFlight = InFlight' \cup group /\ group \subseteq Frames
  /\ \A f \in group, g \in InFlight' : f.tx = g.tx => f.start_index < g.start_index
  /\ \A f, g \in group : f.tx = g.tx => f = g
  /\ \A n \in Nodes : rx_in'[n] = Append(rx_in[n], {f \in group : PR!Hears(n, f)})

LEMMA MixFlight ==
  ASSUME SimTypeOK, FramesInFlight, FrameOrder, Mix
  PROVE  \E group : MixTakes(group)
<1> DEFINE frames == pending_frames \cup PR!Polled
           group == PR!FirstGroup(frames)
           later == UNION {Queued(n)' : n \in Nodes}
<1>1. /\ frames \subseteq Frames /\ group \subseteq frames
      /\ \A n \in Nodes : Queued(n)' \subseteq Queued(n)
      /\ InFlight = frames \cup later
      /\ InFlight' = (frames \ group) \cup later
      /\ \A n \in Nodes : \A f \in frames, g \in Queued(n)' :
           f.tx = g.tx => f.start_index < g.start_index
      /\ \A f \in group : f.start_index = mixed[f.tx]
      /\ \A f \in group, g \in frames \ group : f.start_index < g.start_index
  BY MixFrames
<1>2. rx_in' = [n \in Nodes |-> Append(rx_in[n], {f \in group : PR!Hears(n, f)})]
  BY DEF Mix, PR!ProcessorRound, Nodes
<1> HIDE DEF frames, group
<1>3. \A f \in group, g \in InFlight' : f.tx = g.tx => f.start_index < g.start_index
  BY <1>1
<1>4. ASSUME NEW f \in group, NEW g \in group, f.tx = g.tx PROVE f = g
  <2>1. f \in InFlight /\ g \in InFlight /\ f.start_index = g.start_index
    BY <1>1, <1>4
  <2>2. f.tx \in Tx
    BY <2>1, InFlightTyped
  <2>3. QED
    BY <1>4, <2>1, <2>2 DEF FrameOrder, Flying
<1>5. InFlight = InFlight' \cup group /\ group \subseteq Frames
  BY <1>1
<1>6. MixTakes(group)
  BY <1>2, <1>3, <1>4, <1>5 DEF MixTakes
<1>7. QED
  BY <1>6

(***************************************************************************)
(* Places in the sums.                                                     *)
(***************************************************************************)
LEMMA SumsOf ==
  ASSUME NEW c \in SUBSET Frames, NEW r \in Seq(SUBSET Frames)
  PROVE  /\ <<c>> \o r \in Seq(SUBSET Frames) /\ Len(r) \in Nat /\ Len(<<c>> \o r) = Len(r) + 1
         /\ (<<c>> \o r)[1] = c
         /\ \A i \in 1 .. Len(r) : (<<c>> \o r)[i + 1] = r[i]
<1> DEFINE b == <<c>>
<1>1. b \in Seq(SUBSET Frames) /\ Len(b) = 1 /\ b[1] = c
  OBVIOUS
<1> HIDE DEF b
<1>0. b \in Seq(SUBSET Frames)
  BY <1>1
<1>2. /\ b \o r \in Seq(SUBSET Frames) /\ Len(b \o r) = Len(b) + Len(r) /\ Len(r) \in Nat
      /\ \A i \in 1 .. Len(b) : (b \o r)[i] = b[i]
      /\ \A i \in 1 .. Len(r) : (b \o r)[Len(b) + i] = r[i]
  BY <1>0, Joined
<1>3. 1 \in 1 .. Len(b) /\ \A i \in 1 .. Len(r) : Len(b) + i = i + 1
  BY <1>1, <1>2
<1>4. /\ b \o r \in Seq(SUBSET Frames) /\ Len(r) \in Nat /\ Len(b \o r) = Len(r) + 1
      /\ (b \o r)[1] = c /\ \A i \in 1 .. Len(r) : (b \o r)[i + 1] = r[i]
  BY <1>1, <1>2, <1>3
<1>5. QED
  BY <1>4 DEF b

LEMMA SumsTyped ==
  ASSUME SimTypeOK, NEW n \in Nodes
  PROVE  /\ SU!Sums(n) \in Seq(SUBSET Frames) /\ rx_in[n] \in Seq(SUBSET Frames)
         /\ Len(rx_in[n]) \in Nat /\ Len(SU!Sums(n)) = Len(rx_in[n]) + 1
         /\ SU!Sums(n)[1] = current[n]
         /\ \A i \in 1 .. Len(rx_in[n]) : SU!Sums(n)[i + 1] = rx_in[n][i]
         /\ FrameLen * Len(SU!Sums(n)) \in Nat
         /\ pos[n] \in 1 .. FrameLen /\ pos[n] <= FrameLen * Len(SU!Sums(n))
<1> DEFINE r == rx_in[n] l == Len(r)
<1>1. r \in Seq(SUBSET Frames) /\ current[n] \in SUBSET Frames /\ pos[n] \in 1 .. FrameLen
      /\ FrameLen \in Nat \ {0}
  BY SimulatorAssumption DEF SimTypeOK
<1>2. SU!Sums(n) = <<current[n]>> \o r
  BY DEF SU!Sums
<1> HIDE DEF r
<1>3. /\ SU!Sums(n) \in Seq(SUBSET Frames) /\ l \in Nat /\ Len(SU!Sums(n)) = l + 1
      /\ SU!Sums(n)[1] = current[n]
      /\ \A i \in 1 .. l : SU!Sums(n)[i + 1] = r[i]
  BY <1>1, <1>2, SumsOf
<1>4. FrameLen * (l + 1) \in Nat /\ FrameLen * (l + 1) = FrameLen + FrameLen * l /\ FrameLen * l \in Nat
  BY <1>1, <1>3
<1>5. FrameLen * Len(SU!Sums(n)) = FrameLen * (l + 1)
  BY <1>3
<1>6. pos[n] <= FrameLen * Len(SU!Sums(n)) /\ FrameLen * Len(SU!Sums(n)) \in Nat
  <2> DEFINE a == FrameLen * l b == FrameLen * Len(SU!Sums(n))
  <2>1. b = FrameLen + a /\ a \in Nat
    BY <1>4, <1>5
  <2> HIDE DEF a, b
  <2>2. pos[n] <= b /\ b \in Nat
    BY <1>1, <2>1
  <2>3. QED
    BY <2>2 DEF b
<1>7. QED
  BY <1>1, <1>3, <1>6 DEF r

LEMMA PlaceInSums ==
  ASSUME NEW k \in Nat, NEW x \in Nat \ {0}, x <= FrameLen * k
  PROVE  /\ ((x - 1) \div FrameLen) + 1 \in 1 .. k
         /\ ((x - 1) % FrameLen) + 1 \in 1 .. FrameLen
<1>1. FrameLen \in Nat \ {0}
  BY SimulatorAssumption
<1>2. (x - 1) \div FrameLen \in Nat /\ ((x - 1) \div FrameLen) + 1 <= k
  BY <1>1, Division
<1>3. (x - 1) % FrameLen \in 0 .. (FrameLen - 1)
  BY <1>1
<1>4. QED
  BY <1>1, <1>2, <1>3

LEMMA PlaceAfterSums ==
  ASSUME NEW k \in Nat, NEW i \in 1 .. FrameLen
  PROVE  ((FrameLen * k + i) - 1) \div FrameLen = k /\ ((FrameLen * k + i) - 1) % FrameLen = i - 1
<1>1. FrameLen \in Nat \ {0} /\ FrameLen * k \in Nat
  BY SimulatorAssumption
<1>2. (FrameLen * k + i) - 1 = FrameLen * k + (i - 1) /\ i - 1 \in Nat /\ i - 1 < FrameLen
  BY <1>1
<1>3. Divides((FrameLen * k + i) - 1, FrameLen, k, i - 1)
  BY <1>1, <1>2 DEF Divides
<1>4. QED
  BY <1>3, DivisionIsUnique

LEMMA PlaceOffset ==
  ASSUME NEW l \in Nat, NEW m \in Nat
  PROVE  \A x \in l + 1 .. l + m : \E i \in 1 .. m : x = l + i
<1>1. SUFFICES ASSUME NEW x \in l + 1 .. l + m PROVE \E i \in 1 .. m : x = l + i
  OBVIOUS
<1>2. x - l \in 1 .. m /\ x = l + (x - l)
  OBVIOUS
<1>3. QED
  BY <1>2

\* What one more sum adds to what a node has still to put out: sample i of a frame of
\* t that is in it, at the i-th place after those that were there before.
Added(X, t, i) == {f.samples[i] : f \in {g \in X : g.tx = t}} \ {0}
SumAdds(n, X, l) ==
  /\ l \in Nat /\ Ready(n) \subseteq 1 .. l /\ Ready(n) \subseteq Ready(n)'
  /\ \A y \in Ready(n)' : y \in Ready(n) \/ \E i \in 1 .. FrameLen : y = l + i
  /\ \A i \in 1 .. FrameLen : l + i \in Ready(n)'
  /\ \A t \in Tx : \A x \in Ready(n) : Out(n, t, x)' = Out(n, t, x)
  /\ \A t \in Tx : \A i \in 1 .. FrameLen : Out(n, t, l + i)' = Added(X, t, i)

LEMMA SumAdded ==
  ASSUME SimTypeOK, NEW n \in Nodes, NEW X \in SUBSET Frames,
         rx_in'[n] = Append(rx_in[n], X), current'[n] = current[n], pos'[n] = pos[n]
  PROVE  \E l : SumAdds(n, X, l)
<1> DEFINE s == SU!Sums(n) k == Len(s)
<1>0. PICK l : l = FrameLen * k
  OBVIOUS
<1>1. /\ s \in Seq(SUBSET Frames) /\ rx_in[n] \in Seq(SUBSET Frames) /\ Len(rx_in[n]) \in Nat
      /\ k = Len(rx_in[n]) + 1 /\ FrameLen * k \in Nat
      /\ pos[n] \in 1 .. FrameLen /\ pos[n] <= FrameLen * k
  BY SumsTyped
<1>2. SU!Sums(n)' = Append(s, X)
  <2>1. SU!Sums(n)' = <<current[n]>> \o Append(rx_in[n], X)
    BY DEF SU!Sums
  <2>2. Append(rx_in[n], X) = rx_in[n] \o <<X>>
    BY <1>1, AppendIsConcat
  <2>3. (<<current[n]>> \o rx_in[n]) \o <<X>> = <<current[n]>> \o (rx_in[n] \o <<X>>)
    <3>1. <<current[n]>> \in Seq(SUBSET Frames) /\ <<X>> \in Seq(SUBSET Frames)
      BY DEF SimTypeOK
    <3>2. QED
      BY <1>1, <3>1, RegroupedSums
  <2>4. Append(s, X) = s \o <<X>>
    BY <1>1, AppendIsConcat
  <2>5. QED
    BY <2>1, <2>2, <2>3, <2>4 DEF SU!Sums
<1> HIDE DEF s
<1>3. /\ k \in Nat /\ Len(SU!Sums(n)') = k + 1
      /\ \A i \in 1 .. k : SU!Sums(n)'[i] = s[i]
      /\ SU!Sums(n)'[k + 1] = X
  <2>1. Len(Append(s, X)) = Len(s) + 1 /\ Append(s, X)[Len(s) + 1] = X
        /\ \A i \in 1 .. Len(s) : Append(s, X)[i] = s[i]
    BY <1>1, AppendProperties
  <2>2. QED
    BY <1>1, <1>2, <2>1
<1> HIDE DEF k
<1>4. l = FrameLen * k /\ l \in Nat /\ FrameLen \in Nat \ {0}
  BY <1>0, <1>1, SimulatorAssumption DEF s, k
<1>5. FrameLen * (k + 1) = l + FrameLen
  <2>1. FrameLen * (k + 1) = FrameLen * k + FrameLen
    BY <1>3, SimulatorAssumption
  <2>2. QED
    BY <1>4, <2>1
<1>6. Ready(n) = pos[n] + 1 .. l
  BY <1>4 DEF Ready, k, s
<1>7. Ready(n)' = pos[n] + 1 .. l + FrameLen
  <2>1. Ready(n)' = pos'[n] + 1 .. FrameLen * Len(SU!Sums(n)')
    BY DEF Ready
  <2>2. FrameLen * Len(SU!Sums(n)') = l + FrameLen
    BY <1>3, <1>5
  <2>3. QED
    BY <2>1, <2>2
<1>8. pos[n] \in Nat /\ pos[n] <= l
  BY <1>1, <1>4
<1>9. Ready(n) \subseteq 1 .. l /\ Ready(n)' = Ready(n) \cup (l + 1 .. l + FrameLen)
  <2>1. Ready(n) \subseteq 1 .. l
    BY <1>4, <1>6, <1>8
  <2>2. pos[n] + 1 .. l + FrameLen = (pos[n] + 1 .. l) \cup (l + 1 .. l + FrameLen)
    BY <1>4, <1>8
  <2>3. QED
    BY <1>6, <1>7, <2>1, <2>2
<1>10. ASSUME NEW t \in Tx, NEW x \in Ready(n)
       PROVE  Out(n, t, x)' = Out(n, t, x)
  <2>1. x \in Nat \ {0} /\ x <= FrameLen * k
    BY <1>4, <1>9
  <2>2. ((x - 1) \div FrameLen) + 1 \in 1 .. k
    BY <1>3, <2>1, PlaceInSums
  <2>3. SU!Sums(n)'[((x - 1) \div FrameLen) + 1] = SU!Sums(n)[((x - 1) \div FrameLen) + 1]
    BY <1>3, <2>2 DEF s
  <2>4. SU!SumAt(n, x)' = SU!SumAt(n, x)
    BY <2>3 DEF SU!SumAt
  <2>5. QED
    BY <2>4 DEF Out, SU!From
<1>11. ASSUME NEW t \in Tx, NEW i \in 1 .. FrameLen
       PROVE  Out(n, t, l + i)' = Added(X, t, i)
  <2>1. ((l + i) - 1) \div FrameLen = k /\ ((l + i) - 1) % FrameLen = i - 1
    BY <1>3, <1>4, PlaceAfterSums
  <2>2. (i - 1) + 1 = i
    BY <1>4
  <2>3. SU!SumAt(n, l + i)' = X
    BY <1>3, <2>1 DEF SU!SumAt
  <2>4. SU!From(n, t, l + i)' = {f.samples[i] : f \in {g \in X : g.tx = t}}
    BY <2>1, <2>2, <2>3 DEF SU!From
  <2>5. QED
    BY <2>4 DEF Out, Added
<1>12. /\ \A y \in Ready(n)' : y \in Ready(n) \/ \E i \in 1 .. FrameLen : y = l + i
       /\ \A i \in 1 .. FrameLen : l + i \in l + 1 .. l + FrameLen
  <2>1. \A x \in l + 1 .. l + FrameLen : \E i \in 1 .. FrameLen : x = l + i
    BY <1>4, PlaceOffset
  <2>2. \A i \in 1 .. FrameLen : l + i \in l + 1 .. l + FrameLen
    BY <1>4
  <2>3. QED
    BY <1>9, <2>1, <2>2
<1>13. SumAdds(n, X, l)
  BY <1>4, <1>9, <1>10, <1>11, <1>12 DEF SumAdds
<1>14. QED
  BY <1>13

\* A call of the subscriber puts the next places out; the others get lower numbers as
\* the sums that are through go.
Takes(n, out, shift) ==
  /\ out # 0 /\ pos[n] + out <= FrameLen * Len(SU!Sums(n))
  /\ heard' = [heard EXCEPT ![n] = [t \in Tx |-> heard[n][t] \o SU!HeardNow(n, t, out)]]
  /\ \A x \in Ready(n)' :
       /\ x + shift \in Ready(n) /\ pos[n] + out < x + shift
       /\ \A t \in Tx : Out(n, t, x)' = Out(n, t, x + shift)
  /\ \A x \in Ready(n) : pos[n] + out < x => x - shift \in Ready(n)'

LEMMA SubscriberTakes ==
  ASSUME SimTypeOK, NEW n \in Nodes, Subscribe(n)
  PROVE  \E out \in Nat, shift \in Nat : Takes(n, out, shift)
<1>1. PICK room \in Rooms : SU!SubscriberWork(n, room)
  BY DEF Subscribe
<1> DEFINE s == SU!Sums(n) k == Len(s) l == FrameLen * k
           out  == SU!SmallerOf(room, l - pos[n])
           end  == pos[n] + out
           done == (end - 1) \div FrameLen
           shift == FrameLen * done
           s2 == SU!Sums(n)'
<1>2. /\ FrameLen \in Nat \ {0} /\ room \in Nat
      /\ rx_in \in [Nodes -> Seq(SUBSET Frames)] /\ current \in [Nodes -> SUBSET Frames]
      /\ pos \in [Nodes -> 1 .. FrameLen]
  BY SimulatorAssumption DEF SimTypeOK
<1>3. /\ s \in Seq(SUBSET Frames) /\ rx_in[n] \in Seq(SUBSET Frames) /\ Len(rx_in[n]) \in Nat
      /\ k = Len(rx_in[n]) + 1 /\ l \in Nat
      /\ pos[n] \in 1 .. FrameLen /\ pos[n] <= l
      /\ \A i \in 1 .. Len(rx_in[n]) : s[i + 1] = rx_in[n][i]
  BY SumsTyped
<1>4. /\ out > 0
      /\ heard' = [heard EXCEPT ![n] = [t \in Tx |-> heard[n][t] \o SU!HeardNow(n, t, out)]]
      /\ rx_in' = [rx_in EXCEPT ![n] = SubSeq(rx_in[n], done + 1, Len(rx_in[n]))]
      /\ current' = [current EXCEPT ![n] = IF end % FrameLen = 0 THEN SU!NoSum ELSE s[done + 1]]
      /\ pos' = [pos EXCEPT ![n] = end - done * FrameLen]
  BY <1>1 DEF SU!SubscriberWork, SU!EndOfCall
<1> HIDE DEF s, k, l
<1>5. out \in Nat /\ out <= l - pos[n]
  BY <1>2, <1>3, <1>4 DEF SU!SmallerOf
<1> HIDE DEF out
<1>6. end \in Nat \ {0} /\ end <= l
  BY <1>3, <1>4, <1>5
<1> HIDE DEF end
<1>7. done \in Nat /\ end - done * FrameLen \in 1 .. FrameLen /\ done + 1 <= k /\ k \in Nat
  <2>1. end <= FrameLen * k
    BY <1>6 DEF l
  <2>2. k \in Nat
    BY <1>3
  <2>3. QED
    BY <1>2, <1>6, <2>1, <2>2, Division
<1> HIDE DEF done
<1>8. shift \in Nat /\ shift = done * FrameLen /\ FrameLen * (k - done) = l - shift /\ k - done \in Nat \ {0}
  <2>1. k - done \in Nat \ {0}
    BY <1>7
  <2>2. FrameLen * (k - done) = FrameLen * k - FrameLen * done
    BY <1>2, <1>7
  <2>3. shift \in Nat /\ shift = done * FrameLen
    BY <1>2, <1>7
  <2>4. QED
    BY <2>1, <2>2, <2>3 DEF l
<1>9. pos'[n] = end - shift /\ rx_in'[n] = SubSeq(rx_in[n], done + 1, Len(rx_in[n]))
      /\ current'[n] = IF end % FrameLen = 0 THEN SU!NoSum ELSE s[done + 1]
  BY <1>2, <1>4, <1>8
<1>10. /\ Len(s2) = k - done /\ s2[1] = current'[n]
       /\ \A i \in 1 .. (k - done) - 1 : s2[i + 1] = s[done + i + 1]
  <2> DEFINE r == rx_in[n] m == Len(r)
  <2>1. current'[n] \in SUBSET Frames /\ rx_in'[n] \in Seq(SUBSET Frames)
    BY TypeSubscribe DEF SimTypeOK
  <2>2. /\ Len(rx_in'[n]) \in Nat /\ Len(s2) = Len(rx_in'[n]) + 1 /\ s2[1] = current'[n]
        /\ \A i \in 1 .. Len(rx_in'[n]) : s2[i + 1] = rx_in'[n][i]
    <3>1. s2 = <<current'[n]>> \o rx_in'[n]
      BY DEF SU!Sums
    <3> HIDE DEF s2
    <3>2. QED
      BY <2>1, <3>1, SumsOf
  <2>3. \A i \in done + 1 .. m : r[i] \in SUBSET Frames
    <3>1. \A i \in done + 1 .. m : i \in 1 .. m
      BY <1>3, <1>7
    <3>2. QED
      BY <1>3, <3>1, ElementOfSeq
  <2>4. m \in Nat /\ k = m + 1
    BY <1>3
  <2> HIDE DEF r, m
  <2>5. done + 1 \in Int /\ m \in Int
    BY <1>7, <2>4
  <2>6. /\ Len(SubSeq(r, done + 1, m)) = IF done + 1 <= m THEN m - (done + 1) + 1 ELSE 0
        /\ \A i \in 1 .. m - (done + 1) + 1 : SubSeq(r, done + 1, m)[i] = r[(done + 1) + i - 1]
    BY <2>3, <2>5, SubSeqProperties
  <2>7. Len(SubSeq(r, done + 1, m)) = (k - done) - 1
    BY <1>7, <2>4, <2>6
  <2>8. ASSUME NEW i \in 1 .. (k - done) - 1
        PROVE  SubSeq(r, done + 1, m)[i] = s[done + i + 1]
    <3>1. i \in 1 .. m - (done + 1) + 1 /\ (done + 1) + i - 1 = done + i /\ done + i \in 1 .. m
      BY <1>7, <2>4
    <3>2. SubSeq(r, done + 1, m)[i] = r[done + i]
      BY <2>6, <3>1
    <3>3. s[done + i + 1] = r[done + i]
      BY <1>3, <3>1 DEF r, m
    <3>4. QED
      BY <3>2, <3>3
  <2>9. rx_in'[n] = SubSeq(r, done + 1, m)
    BY <1>9 DEF r, m
  <2> HIDE DEF s2
  <2>10. Len(s2) = k - done
    <3>1. Len(rx_in'[n]) = (k - done) - 1
      BY <2>7, <2>9
    <3>2. QED
      BY <1>7, <2>2, <3>1
  <2>11. \A i \in 1 .. (k - done) - 1 : s2[i + 1] = s[done + i + 1]
    <3>1. SUFFICES ASSUME NEW i \in 1 .. (k - done) - 1 PROVE s2[i + 1] = s[done + i + 1]
      OBVIOUS
    <3>2. Len(rx_in'[n]) = (k - done) - 1 /\ rx_in'[n][i] = s[done + i + 1]
      BY <2>7, <2>8, <2>9
    <3>3. QED
      BY <2>2, <3>1, <3>2
  <2>12. QED
    BY <2>2, <2>10, <2>11
<1>11. Ready(n) = pos[n] + 1 .. l
  BY DEF Ready, s, k, l
<1>12. Ready(n)' = (end - shift) + 1 .. l - shift
  <2>1. Ready(n)' = pos'[n] + 1 .. FrameLen * Len(s2)
    BY DEF Ready
  <2> HIDE DEF s2, shift
  <2>2. QED
    BY <1>8, <1>9, <1>10, <2>1
<1> HIDE DEF s2, shift
<1>13. ASSUME NEW x \in Ready(n)'
       PROVE  x \in Nat \ {0} /\ x + shift \in Ready(n) /\ end < x + shift /\ x <= FrameLen * (k - done)
              /\ end - shift < x
  <2>1. end - shift \in Nat /\ x \in Int /\ end - shift < x /\ x <= l - shift
    BY <1>6, <1>7, <1>8, <1>12, <1>13
  <2>2. end >= pos[n] /\ pos[n] \in Nat /\ end \in Nat
    BY <1>3, <1>4, <1>5 DEF end
  <2>3. x \in Nat \ {0} /\ end < x + shift /\ x + shift <= l /\ pos[n] + 1 <= x + shift
    <3>1. l \in Nat /\ shift \in Nat
      BY <1>3, <1>8
    <3>2. QED
      BY <2>1, <2>2, <3>1
  <2>4. x + shift \in Ready(n)
    BY <1>3, <1>8, <1>11, <2>3
  <2>5. x <= FrameLen * (k - done)
    BY <1>8, <2>1
  <2>6. QED
    BY <2>1, <2>3, <2>4, <2>5
<1>14. ASSUME NEW x \in Ready(n)', NEW t \in Tx
       PROVE  Out(n, t, x)' = Out(n, t, x + shift)
  <2> DEFINE q == (x - 1) \div FrameLen r == (x - 1) % FrameLen
  <2>1. q \in Nat /\ r \in 0 .. (FrameLen - 1) /\ x - 1 = FrameLen * q + r /\ x \in Nat \ {0}
    <3>1. x \in Nat \ {0} /\ x - 1 \in Nat
      BY <1>13
    <3>2. QED
      BY <1>2, <3>1, QuotientAndRest
  <2>2. q + 1 \in 1 .. (k - done)
    BY <1>8, <1>13, PlaceInSums
  <2> HIDE DEF q, r
  <2>3. ((x + shift) - 1) \div FrameLen = q + done /\ ((x + shift) - 1) % FrameLen = r
    <3>1. FrameLen * (q + done) = FrameLen * q + FrameLen * done /\ FrameLen * q \in Nat
      BY <1>2, <1>7, <2>1
    <3>2. (x + shift) - 1 = FrameLen * (q + done) + r
      BY <1>8, <2>1, <3>1 DEF shift
    <3>3. Divides((x + shift) - 1, FrameLen, q + done, r)
      BY <1>2, <1>7, <2>1, <3>2 DEF Divides
    <3>4. QED
      BY <3>3, DivisionIsUnique
  <2>4. s2[q + 1] = s[(q + done) + 1]
    <3>1. CASE q = 0
      <4>1. x <= FrameLen
        BY <1>2, <2>1, <3>1
      <4>2. end - shift \in Nat /\ end - shift # 0 /\ end - shift < FrameLen
        BY <1>2, <1>7, <1>8, <1>13, <4>1
      <4>3. end = FrameLen * done + (end - shift)
        BY <1>6, <1>8 DEF shift
      <4>4. Divides(end, FrameLen, done, end - shift)
        BY <1>2, <1>7, <4>2, <4>3 DEF Divides
      <4>5. end % FrameLen # 0
        BY <4>2, <4>4, DivisionIsUnique
      <4>6. s2[1] = s[done + 1]
        BY <1>9, <1>10, <4>5
      <4>7. 0 + done = done
        BY <1>7
      <4>8. QED
        BY <3>1, <4>6, <4>7
    <3>2. CASE q # 0
      <4>1. q \in 1 .. (k - done) - 1 /\ done + q + 1 = (q + done) + 1
        BY <1>7, <1>8, <2>1, <2>2, <3>2
      <4>2. QED
        BY <1>10, <4>1
    <3>3. QED
      BY <3>1, <3>2
  <2>5. SU!SumAt(n, x)' = s2[q + 1]
    BY DEF SU!SumAt, s2, q
  <2>6. SU!SumAt(n, x + shift) = s[(q + done) + 1]
    BY <2>3 DEF SU!SumAt, s
  <2>7. SU!SumAt(n, x)' = SU!SumAt(n, x + shift)
    BY <2>4, <2>5, <2>6
  <2>8. (x - 1) % FrameLen = ((x + shift) - 1) % FrameLen
    BY <2>3 DEF r
  <2>9. SU!From(n, t, x)' = SU!From(n, t, x + shift)
    BY <2>7, <2>8 DEF SU!From
  <2>10. QED
    BY <2>9 DEF Out
<1>15. ASSUME NEW x \in Ready(n), end < x
       PROVE  x - shift \in Ready(n)'
  BY <1>3, <1>6, <1>8, <1>11, <1>12, <1>15
<1>16. Takes(n, out, shift)
  <2>1. out # 0 /\ pos[n] + out <= FrameLen * Len(SU!Sums(n))
    BY <1>4, <1>6 DEF end, l, k, s
  <2>2. QED
    BY <1>4, <1>13, <1>14, <1>15, <2>1 DEF Takes, end
<1>17. QED
  BY <1>5, <1>8, <1>16

(***************************************************************************)
(* What a call puts out, one place after the other.                        *)
(***************************************************************************)
LEMMA SmallestExists ==
  ASSUME NEW S, S \subseteq Nat, S # {}
  PROVE  \E i \in S : \A j \in S : i <= j
<1>1. PICK x \in S : \A y \in S : ~ (<<y, x>> \in OpToRel(<, Nat))
  BY NatLessThanWellFounded, WFMin, Zenon
<1>2. \A y \in S : ~(y < x)
  BY <1>1 DEF OpToRel
<1>3. QED
  BY <1>2

\* The recursive function with which FlattenSeq is defined exists.
FlattensTo(f, ss, k) == f = [i \in 1 .. k |-> IF i = 1 THEN ss[i] ELSE f[i - 1] \o ss[i]]

LEMMA FlatteningExists ==
  ASSUME NEW ss, NEW k \in Nat
  PROVE  \E f : FlattensTo(f, ss, k)
<1> DEFINE bad == {m \in Nat : ~\E f : FlattensTo(f, ss, m)}
<1>1. SUFFICES ASSUME bad # {} PROVE FALSE
  OBVIOUS
<1>2. PICK m \in bad : \A j \in bad : m <= j
  <2>1. bad \subseteq Nat
    OBVIOUS
  <2> HIDE DEF bad
  <2>2. QED
    BY <1>1, <2>1, SmallestExists
<1>3. m # 0
  <2>1. SUFFICES ASSUME m = 0 PROVE \E f : FlattensTo(f, ss, 0)
    BY <1>2
  <2>2. FlattensTo(<<>>, ss, 0)
    BY DEF FlattensTo
  <2>3. QED
    BY <2>2
<1>4. m \in Nat /\ m - 1 \in Nat /\ m - 1 \notin bad
  BY <1>2, <1>3
<1>5. PICK f : FlattensTo(f, ss, m - 1)
  BY <1>4
<1> DEFINE g == [i \in 1 .. m |-> IF i = 1 THEN ss[i] ELSE f[i - 1] \o ss[i]]
<1>6. \A i \in 1 .. m - 1 : f[i] = IF i = 1 THEN ss[i] ELSE f[i - 1] \o ss[i]
  BY <1>5 DEF FlattensTo
<1>7. \A i \in 1 .. m - 1 : g[i] = f[i]
  BY <1>4, <1>6
<1>8. \A i \in 1 .. m : i # 1 => g[i - 1] = f[i - 1]
  <2>1. \A i \in 1 .. m : i # 1 => i - 1 \in 1 .. m - 1
    BY <1>4
  <2> HIDE DEF g
  <2>2. QED
    BY <1>7, <2>1
<1>9. g = [i \in 1 .. m |-> IF i = 1 THEN ss[i] ELSE g[i - 1] \o ss[i]]
  <2> HIDE DEF g
  <2>1. \A i \in 1 .. m : (IF i = 1 THEN ss[i] ELSE g[i - 1] \o ss[i])
                            = (IF i = 1 THEN ss[i] ELSE f[i - 1] \o ss[i])
    BY <1>8
  <2>2. [i \in 1 .. m |-> IF i = 1 THEN ss[i] ELSE g[i - 1] \o ss[i]]
          = [i \in 1 .. m |-> IF i = 1 THEN ss[i] ELSE f[i - 1] \o ss[i]]
    BY <2>1
  <2>3. QED
    BY <2>2 DEF g
<1>10. FlattensTo(g, ss, m)
  BY <1>9 DEF FlattensTo
<1>11. QED
  BY <1>2, <1>10

LEMMA Flattening ==
  ASSUME NEW ss, NEW k \in Nat \ {0}, Len(ss) = k
  PROVE  \E f : FlattensTo(f, ss, k) /\ FlattenSeq(ss) = f[k]
<1> DEFINE flatten == CHOOSE f : FlattensTo(f, ss, k)
<1>1. FlattensTo(flatten, ss, k)
  BY FlatteningExists
<1>2. FlattenSeq(ss) = flatten[k]
  BY DEF FlattenSeq, FlattensTo
<1>3. QED
  BY <1>1, <1>2

Lists(h, N, X) == h \in Seq(N) /\ Radio!InOrder(h) /\ {h[i] : i \in DOMAIN h} = X

LEMMA ListsOne ==
  ASSUME NEW N, N \subseteq Nat, NEW A, A \subseteq N, \A u, v \in A : u = v
  PROVE  Lists(SetToSeq(A), N, A)
<1> DEFINE h == SetToSeq(A)
<1>1. h = CHOOSE f \in [1 .. Cardinality(A) -> A] : IsInjective(f)
  BY DEF SetToSeq
<1>2. CASE A = {}
  <2>1. Cardinality(A) = 0
    BY <1>2, FS_EmptySet
  <2>2. <<>> \in [1 .. 0 -> A] /\ IsInjective(<<>>)
    BY DEF IsInjective
  <2>3. h \in [1 .. 0 -> A]
    BY <1>1, <2>1, <2>2
  <2>4. DOMAIN h = {} /\ h \in Seq(N)
    <3>1. h \in [1 .. 0 -> N] /\ DOMAIN h = {}
      BY <1>2, <2>3
    <3>2. QED
      BY <3>1, SeqDef
  <2>5. QED
    BY <1>2, <2>4 DEF Lists, Radio!InOrder
<1>3. ASSUME NEW a, A = {a}
      PROVE  Lists(SetToSeq(A), N, A)
  <2>1. Cardinality(A) = 1
    BY <1>3, FS_Singleton
  <2>2. [i \in 1 .. 1 |-> a] \in [1 .. 1 -> A] /\ IsInjective([i \in 1 .. 1 |-> a])
    BY <1>3 DEF IsInjective
  <2>3. h \in [1 .. 1 -> A]
    BY <1>1, <2>1, <2>2
  <2>4. h \in Seq(N)
    <3>1. h \in [1 .. 1 -> N]
      BY <2>3
    <3>2. QED
      BY <3>1, SeqDef
  <2>5. DOMAIN h = 1 .. 1 /\ h[1] = a
    BY <1>3, <2>3
  <2> HIDE DEF h
  <2>6. Radio!InOrder(h) /\ {h[i] : i \in DOMAIN h} = A
    BY <1>3, <2>5 DEF Radio!InOrder
  <2>7. QED
    BY <2>4, <2>6 DEF Lists, h
<1>4. A = {} \/ \E a : A = {a}
  <2>1. SUFFICES ASSUME A # {} PROVE \E a : A = {a}
    OBVIOUS
  <2>2. PICK a \in A : TRUE
    BY <2>1
  <2>3. A = {a}
    BY <2>2
  <2>4. QED
    BY <2>3
<1>5. QED
  BY <1>2, <1>3, <1>4

LEMMA ListsJoined ==
  ASSUME NEW N, N \subseteq Nat, NEW g, NEW X, NEW h, NEW Y,
         Lists(g, N, X), Lists(h, N, Y), Below(X, Y)
  PROVE  Lists(g \o h, N, X \cup Y)
<1> DEFINE gh == g \o h l == Len(g) m == Len(h)
<1>1. /\ gh \in Seq(N) /\ l \in Nat /\ m \in Nat
      /\ DOMAIN g = 1 .. l /\ DOMAIN h = 1 .. m /\ DOMAIN gh = 1 .. l + m
      /\ \A i \in 1 .. l : gh[i] = g[i]
      /\ \A i \in 1 .. m : gh[l + i] = h[i]
      /\ \A i \in 1 .. l + m : i \in 1 .. l \/ \E j \in 1 .. m : i = l + j
  <2>1. g \in Seq(N) /\ h \in Seq(N)
    BY DEF Lists
  <2>2. QED
    BY <2>1, Joined
<1>2. /\ \A i \in 1 .. l : i \in 1 .. l + m
      /\ \A i \in 1 .. m : l + i \in 1 .. l + m
      /\ \A i \in 1 .. l, j \in 1 .. m : i < l + j /\ ~(l + j < i)
      /\ \A i, j \in 1 .. m : i < j <=> l + i < l + j
  BY <1>1
<1> HIDE DEF gh, l, m
<1>3. {gh[i] : i \in DOMAIN gh} = X \cup Y
  <2>1. X = {g[i] : i \in 1 .. l} /\ Y = {h[i] : i \in 1 .. m}
    BY <1>1 DEF Lists
  <2>2. ASSUME NEW v \in X PROVE v \in {gh[i] : i \in DOMAIN gh}
    <3>1. PICK i \in 1 .. l : v = g[i]
      BY <2>1, <2>2
    <3>2. i \in DOMAIN gh /\ gh[i] = v
      BY <1>1, <1>2, <3>1
    <3>3. QED
      BY <3>2
  <2>3. ASSUME NEW v \in Y PROVE v \in {gh[i] : i \in DOMAIN gh}
    <3>1. PICK i \in 1 .. m : v = h[i]
      BY <2>1, <2>3
    <3>2. l + i \in DOMAIN gh /\ gh[l + i] = v
      BY <1>1, <1>2, <3>1
    <3>3. QED
      BY <3>2
  <2>4. ASSUME NEW k \in 1 .. l + m PROVE gh[k] \in X \cup Y
    BY <1>1, <2>1, <2>4
  <2>5. QED
    BY <1>1, <2>2, <2>3, <2>4
<1>4. Radio!InOrder(gh)
  <2>1. SUFFICES ASSUME NEW i \in 1 .. l + m, NEW j \in 1 .. l + m, i < j
                 PROVE  gh[i] < gh[j]
    BY <1>1 DEF Radio!InOrder
  <2>2. CASE i \in 1 .. l /\ j \in 1 .. l
    BY <1>1, <2>1, <2>2 DEF Lists, Radio!InOrder
  <2>3. ASSUME i \in 1 .. l, NEW k \in 1 .. m, j = l + k PROVE gh[i] < gh[j]
    <3>1. g[i] \in X /\ h[k] \in Y /\ gh[i] = g[i] /\ gh[j] = h[k]
      BY <1>1, <2>3 DEF Lists
    <3>2. QED
      BY <3>1 DEF Below
  <2>4. ASSUME NEW p \in 1 .. m, i = l + p, NEW k \in 1 .. m, j = l + k PROVE gh[i] < gh[j]
    <3>1. p < k /\ gh[i] = h[p] /\ gh[j] = h[k]
      BY <1>1, <1>2, <2>1, <2>4
    <3>2. QED
      BY <1>1, <3>1 DEF Lists, Radio!InOrder
  <2>5. ASSUME NEW p \in 1 .. m, i = l + p, j \in 1 .. l PROVE FALSE
    BY <1>2, <2>1, <2>5
  <2>6. QED
    BY <1>1, <2>1, <2>2, <2>3, <2>4, <2>5
<1>5. QED
  BY <1>1, <1>3, <1>4 DEF Lists, gh

UpTo(A, m) == UNION {A[i] : i \in 1 .. m}
ListedUpTo(f, N, A, m) == Lists(f[m], N, UpTo(A, m))

LEMMA ListsAll ==
  ASSUME NEW N, N \subseteq Nat, NEW k \in Nat \ {0}, NEW A \in [1 .. k -> SUBSET N],
         \A i \in 1 .. k : \A u, v \in A[i] : u = v,
         \A i, j \in 1 .. k : i < j => Below(A[i], A[j])
  PROVE  Lists(FlattenSeq([i \in 1 .. k |-> SetToSeq(A[i])]), N, UpTo(A, k))
<1> DEFINE ss == [i \in 1 .. k |-> SetToSeq(A[i])]
<1>1. Len(ss) = k /\ \A i \in 1 .. k : ss[i] = SetToSeq(A[i])
  OBVIOUS
<1>2. \A i \in 1 .. k : Lists(SetToSeq(A[i]), N, A[i])
  BY ListsOne
<1> HIDE DEF ss
<1>3. PICK f : FlattensTo(f, ss, k) /\ FlattenSeq(ss) = f[k]
  BY <1>1, Flattening
<1>4. \A i \in 1 .. k : f[i] = IF i = 1 THEN ss[i] ELSE f[i - 1] \o ss[i]
  BY <1>3 DEF FlattensTo
<1> DEFINE bad == {m \in 1 .. k : ~ListedUpTo(f, N, A, m)}
<1>5. ASSUME bad # {} PROVE FALSE
  <2>1. PICK m \in bad : \A j \in bad : m <= j
    <3>1. bad \subseteq Nat
      OBVIOUS
    <3> HIDE DEF bad
    <3>2. QED
      BY <1>5, <3>1, SmallestExists
  <2>2. m \in 1 .. k /\ ~ListedUpTo(f, N, A, m) /\ Lists(ss[m], N, A[m])
    BY <1>1, <1>2, <2>1
  <2>3. CASE m = 1
    <3>1. UpTo(A, m) = A[m]
      BY <2>3 DEF UpTo
    <3>2. f[m] = ss[m]
      BY <1>4, <2>2, <2>3
    <3>3. QED
      BY <2>2, <3>1, <3>2 DEF ListedUpTo
  <2>4. CASE m # 1
    <3>1. m - 1 \in 1 .. k /\ m - 1 < m /\ m \in Nat
      BY <2>2, <2>4
    <3>2. ListedUpTo(f, N, A, m - 1)
      <4>1. ~(m <= m - 1)
        BY <3>1
      <4>2. m - 1 \notin bad
        BY <2>1, <4>1
      <4>3. QED
        BY <3>1, <4>2
    <3>3. f[m] = f[m - 1] \o ss[m]
      BY <1>4, <2>2, <2>4
    <3>4. Below(UpTo(A, m - 1), A[m])
      <4>1. SUFFICES ASSUME NEW x \in UpTo(A, m - 1), NEW y \in A[m] PROVE x < y
        BY DEF Below
      <4>0. PICK i \in 1 .. m - 1 : x \in A[i]
        BY DEF UpTo
      <4>2. i \in 1 .. k /\ i < m
        BY <3>1
      <4>3. Below(A[i], A[m])
        BY <2>2, <4>2
      <4>4. QED
        BY <4>0, <4>3 DEF Below
    <3>5. UpTo(A, m) = UpTo(A, m - 1) \cup A[m]
      <4>1. \A i : i \in 1 .. m <=> (i \in 1 .. m - 1 \/ i = m)
        BY <3>1
      <4>2. QED
        BY <4>1 DEF UpTo
    <3>6. Lists(f[m - 1] \o ss[m], N, UpTo(A, m - 1) \cup A[m])
      BY <2>2, <3>2, <3>4, ListsJoined DEF ListedUpTo
    <3>7. QED
      BY <2>2, <3>3, <3>5, <3>6 DEF ListedUpTo
  <2>5. QED
    BY <2>3, <2>4
<1>6. ListedUpTo(f, N, A, k)
  <2>1. k \in 1 .. k
    OBVIOUS
  <2>2. QED
    BY <1>5, <2>1
<1>7. QED
  BY <1>3, <1>6 DEF ss, ListedUpTo

LEMMA SameSums ==
  ASSUME UNCHANGED <<rx_in, current, pos>>
  PROVE  \A n \in Nodes : Ready(n)' = Ready(n) /\ \A t \in Tx : \A x : Out(n, t, x)' = Out(n, t, x)
<1>1. \A n \in Nodes : SU!Sums(n)' = SU!Sums(n)
  BY DEF SU!Sums
<1>2. QED
  BY <1>1 DEF Ready, Out, SU!From, SU!SumAt

LEMMA SameFlight ==
  ASSUME UNCHANGED <<tx_out, pending_frames>>
  PROVE  InFlight' = InFlight /\ \A t \in Tx : Flying(t)' = Flying(t)
<1>1. \A n \in Nodes : Queued(n)' = Queued(n)
  BY DEF Queued
<1>2. InFlight' = InFlight
  BY <1>1 DEF InFlight
<1>3. QED
  BY <1>2 DEF Flying

LEMMA SameRest ==
  ASSUME UNCHANGED <<tmpbuf, input>>
  PROVE  \A t \in Tx : Rest(t)' = Rest(t)
BY DEF Rest

LEMMA SameWritten ==
  ASSUME UNCHANGED written
  PROVE  /\ \A t \in Tx : Numbers(t)' = Numbers(t)
         /\ SentCounted => SentCounted'
BY DEF Numbers, SentCounted

\* A step that touches none of this.
CarryUnchanged ==
  UNCHANGED <<written, input, tmpbuf, tx_out, pending_frames, positions, rx_in, current, pos, heard,
              apart>>

LEMMA CarryKept ==
  ASSUME CarryInv, CarryUnchanged
  PROVE  CarryInv'
<1>1. /\ \A n \in Nodes : Ready(n)' = Ready(n) /\ \A t \in Tx : \A x : Out(n, t, x)' = Out(n, t, x)
      /\ \A t \in Tx : Flying(t)' = Flying(t) /\ Rest(t)' = Rest(t) /\ Numbers(t)' = Numbers(t)
      /\ SentCounted'
  BY SameSums, SameFlight, SameRest, SameWritten DEF CarryInv, CarryUnchanged
<1>2. heard' = heard /\ apart' = apart
  BY DEF CarryUnchanged
<1>3. RestInv' /\ FrameInv' /\ FrameOrder'
  BY <1>1 DEF CarryInv, RestInv, FrameInv, FrameOrder
<1>4. OutInv' /\ OutOrder'
  BY <1>1 DEF CarryInv, OutInv, OutOrder
<1>5. HeardTyped' /\ HeardInv' /\ HeardOrder'
  BY <1>1, <1>2 DEF CarryInv, HeardTyped, HeardInv, HeardOrder
<1>6. NoneGone'
  BY <1>1, <1>2 DEF CarryInv, NoneGone, Somewhere
<1>7. ApartNow'
  BY <1>2 DEF CarryInv, ApartNow, PairsApart, CarryUnchanged
<1>8. QED
  BY <1>1, <1>3, <1>4, <1>5, <1>6, <1>7 DEF CarryInv

LEMMA CarryMove ==
  ASSUME CarryInv, NEW n \in Nodes, Move(n)
  PROVE  CarryInv' /\ apart' \subseteq apart
<1>1. /\ UNCHANGED <<written, input, tmpbuf, tx_out, pending_frames, rx_in, current, pos, heard>>
      /\ apart' = apart \cap PairsApart'
  BY DEF Move, PR!MoveNode, pubState, subState
<1>2. /\ \A m \in Nodes : Ready(m)' = Ready(m) /\ \A t \in Tx : \A x : Out(m, t, x)' = Out(m, t, x)
      /\ \A t \in Tx : Flying(t)' = Flying(t) /\ Rest(t)' = Rest(t) /\ Numbers(t)' = Numbers(t)
      /\ SentCounted'
  BY <1>1, SameSums, SameFlight, SameRest, SameWritten DEF CarryInv
<1>3. heard' = heard /\ apart' \subseteq apart
  BY <1>1
<1>4. RestInv' /\ FrameInv' /\ FrameOrder'
  BY <1>2 DEF CarryInv, RestInv, FrameInv, FrameOrder
<1>5. OutInv' /\ OutOrder'
  BY <1>2 DEF CarryInv, OutInv, OutOrder
<1>6. HeardTyped' /\ HeardInv' /\ HeardOrder'
  BY <1>2, <1>3 DEF CarryInv, HeardTyped, HeardInv, HeardOrder
<1>7. NoneGone'
  BY <1>2, <1>3 DEF CarryInv, NoneGone, Somewhere
<1>8. ApartNow'
  BY <1>1 DEF ApartNow
<1>9. QED
  BY <1>2, <1>3, <1>4, <1>5, <1>6, <1>7, <1>8 DEF CarryInv

(***************************************************************************)
(* Every step keeps the samples on their way in order.                     *)
(***************************************************************************)
LEMMA RestSeq ==
  ASSUME SimTypeOK
  PROVE  \A t \in Tx : Rest(t) \in Seq(Nat)
BY RestTyped

\* The numbers that a call of the transmitter adds are higher than all others.
NewNumbers(t) == Numbers(t)' \ Numbers(t)
LEMMA TransmitAdds ==
  ASSUME SimTypeOK, RestInv, SentCounted, NEW t \in Tx, Transmit(t)
  PROVE  /\ \A u \in Tx : /\ Numbers(u) \subseteq Numbers(u)'
                          /\ Vals(Rest(u)') = Vals(Rest(u)) \cup NewNumbers(u)
                          /\ Below(Numbers(u), NewNumbers(u))
                          /\ Rising(Rest(u)')
         /\ SentCounted'
<1>1. /\ \A u \in Tx \ {t} : Rest(u)' = Rest(u) /\ written'[u] = written[u]
      /\ Written(written[t]) <= Written(written'[t])
      /\ Written(written[t]) \in Nat /\ Written(written'[t]) \in Nat
  BY TransmitRest
<1>2. PICK new \in Seq(Nat) :
        /\ Rest(t)' = Rest(t) \o new
        /\ Vals(new) = Written(written[t]) + 1 .. Written(written'[t])
        /\ Rising(new)
  BY TransmitRest
<1>3. Numbers(t) = 1 .. Written(written[t]) /\ Numbers(t)' = 1 .. Written(written'[t])
  BY DEF Numbers
<1>4. Numbers(t) \subseteq Numbers(t)' /\ NewNumbers(t) = Vals(new)
      /\ Below(Numbers(t), NewNumbers(t))
  <2>1. NewNumbers(t) = Written(written[t]) + 1 .. Written(written'[t])
    BY <1>1, <1>3 DEF NewNumbers
  <2>2. Below(Numbers(t), NewNumbers(t))
    BY <1>1, <1>3, <2>1 DEF Below
  <2>3. Numbers(t) \subseteq Numbers(t)'
    BY <1>1, <1>3
  <2>4. QED
    BY <1>2, <2>1, <2>2, <2>3
<1>5. /\ Vals(Rest(t)') = Vals(Rest(t)) \cup NewNumbers(t)
      /\ Rising(Rest(t)')
  <2>1. Rest(t) \in Seq(Nat) /\ Rising(Rest(t)) /\ Vals(Rest(t)) \subseteq Numbers(t)
    BY RestSeq DEF RestInv
  <2>2. Below(Vals(Rest(t)), Vals(new))
    BY <1>4, <2>1 DEF Below
  <2>3. /\ Vals(Rest(t) \o new) = Vals(Rest(t)) \cup Vals(new)
        /\ Rising(Rest(t) \o new) <=> Rising(Rest(t)) /\ Rising(new) /\ Below(Vals(Rest(t)), Vals(new))
    BY <2>1, JoinedNumbers, Zenon
  <2>4. QED
    BY <1>2, <1>4, <2>1, <2>2, <2>3, Zenon
<1>6. ASSUME NEW u \in Tx \ {t}
      PROVE  /\ Numbers(u) \subseteq Numbers(u)'
             /\ Vals(Rest(u)') = Vals(Rest(u)) \cup NewNumbers(u)
             /\ Below(Numbers(u), NewNumbers(u))
             /\ Rising(Rest(u)')
  <2>1. Numbers(u)' = Numbers(u) /\ Rest(u)' = Rest(u)
    BY <1>1 DEF Numbers
  <2>2. NewNumbers(u) = {}
    BY <2>1 DEF NewNumbers
  <2>3. QED
    BY <2>1, <2>2 DEF Below, RestInv
<1>7. SentCounted'
  <2>1. SUFFICES ASSUME NEW u \in Tx PROVE Cardinality(Signals(written'[u])) = Written(written'[u])
    BY DEF SentCounted, Signals
  <2>2. Cardinality(Signals(written[u])) = Written(written[u]) /\ written[u] \in Nat
    BY DEF SentCounted, Signals, SimTypeOK
  <2>3. CASE u # t
    BY <1>1, <2>2, <2>3
  <2>4. CASE u = t
    <3>1. PICK n \in Nat : n <= BurstLen - (written[t] % BurstLen) /\ written'[t] = written[t] + n
      BY TransmitRest
    <3>2. Cardinality(Signals(written[t] + n)) = Written(written[t] + n)
      BY <2>2, <2>4, <3>1, CountNext
    <3>3. QED
      BY <2>4, <3>1, <3>2
  <2>5. QED
    BY <2>3, <2>4
<1>8. QED
  BY <1>4, <1>5, <1>6, <1>7

LEMMA CarryTransmit ==
  ASSUME SimTypeOK, CarryInv, NEW t \in Tx, Transmit(t)
  PROVE  CarryInv'
<1>1. UNCHANGED <<tx_out, pending_frames, rx_in, current, pos, heard, positions, apart>>
  BY DEF Transmit, procState, subState, moveState
<1>2. /\ \A n \in Nodes : Ready(n)' = Ready(n) /\ \A u \in Tx : \A x : Out(n, u, x)' = Out(n, u, x)
      /\ \A u \in Tx : Flying(u)' = Flying(u)
      /\ heard' = heard /\ apart' = apart
  BY <1>1, SameSums, SameFlight
<1>3. /\ \A u \in Tx : /\ Numbers(u) \subseteq Numbers(u)'
                       /\ Vals(Rest(u)') = Vals(Rest(u)) \cup NewNumbers(u)
                       /\ Below(Numbers(u), NewNumbers(u))
                       /\ Rising(Rest(u)')
      /\ SentCounted'
  BY TransmitAdds DEF CarryInv
<1>4. \A u \in Tx : \A X : X \subseteq Numbers(u) /\ Below(X, Vals(Rest(u))) =>
        X \subseteq Numbers(u)' /\ Below(X, Vals(Rest(u)'))
  BY <1>3 DEF Below
<1>5. RestInv'
  <2>1. \A u \in Tx : Vals(Rest(u)') \subseteq Numbers(u)'
    BY <1>3 DEF CarryInv, RestInv, NewNumbers
  <2>2. QED
    BY <1>3, <2>1 DEF RestInv
<1>6. FrameInv' /\ FrameOrder'
  BY <1>2, <1>4 DEF CarryInv, FrameInv, FrameOrder
<1>7. OutInv' /\ OutOrder'
  BY <1>2, <1>4 DEF CarryInv, OutInv, OutOrder
<1>8. \A n \in Nodes, u \in Tx : heard[n][u] \in Seq(Numbers(u)) /\ Vals(heard[n][u]) \subseteq Numbers(u)
  <2>1. \A n \in Nodes, u \in Tx : heard[n][u] \in Seq(Numbers(u))
    BY DEF CarryInv, HeardInv
  <2>2. QED
    BY <2>1, ElementOfSeq, LenProperties DEF Vals
<1>9. HeardTyped' /\ HeardInv' /\ HeardOrder'
  <2>1. \A n \in Nodes, u \in Tx : heard[n][u] \in Seq(Numbers(u)')
    BY <1>3, <1>8, SeqMonotonic
  <2>2. HeardInv' /\ HeardTyped'
    BY <1>2, <2>1 DEF CarryInv, HeardInv, HeardTyped
  <2>3. HeardOrder'
    BY <1>2, <1>4, <1>8 DEF CarryInv, HeardOrder
  <2>4. QED
    BY <2>2, <2>3
<1>10. NoneGone'
  <2>1. SUFFICES ASSUME NEW n \in Nodes, NEW u \in Tx, <<n, NodeOf[u]>> \in apart, NEW v \in Numbers(u)'
                 PROVE  Somewhere(n, u, v)'
    BY <1>2 DEF NoneGone
  <2>2. CASE v \in Numbers(u)
    <3>1. Somewhere(n, u, v)
      BY <2>1, <2>2 DEF CarryInv, NoneGone
    <3>2. QED
      BY <1>2, <1>3, <3>1 DEF Somewhere
  <2>3. CASE v \notin Numbers(u)
    BY <1>3, <2>1, <2>3 DEF Somewhere, NewNumbers
  <2>4. QED
    BY <2>2, <2>3
<1>11. ApartNow'
  BY <1>1 DEF CarryInv, ApartNow, PairsApart
<1>12. QED
  BY <1>3, <1>5, <1>6, <1>7, <1>9, <1>10, <1>11 DEF CarryInv

LEMMA CarryPublish ==
  ASSUME SimTypeOK, FramesInFlight, CarryInv, NEW t \in Tx, Publish(t)
  PROVE  CarryInv'
<1>1. UNCHANGED <<written, pending_frames, rx_in, current, pos, heard, positions, apart>>
  BY DEF Publish, procState, subState, moveState
<1>2. /\ \A n \in Nodes : Ready(n)' = Ready(n) /\ \A u \in Tx : \A x : Out(n, u, x)' = Out(n, u, x)
      /\ \A u \in Tx : Numbers(u)' = Numbers(u)
      /\ heard' = heard /\ apart' = apart /\ SentCounted'
  BY <1>1, SameSums, SameWritten DEF CarryInv
<1>3. ApartNow'
  BY <1>1 DEF CarryInv, ApartNow, PairsApart
<1>4. HeardTyped' /\ HeardInv'
  BY <1>2 DEF CarryInv, HeardTyped, HeardInv
<1>5. OutInv'
  BY <1>2 DEF CarryInv, OutInv
<1>6. \A u \in Tx \ {t} : Rest(u)' = Rest(u)
  BY PublishRest
<1>7. CASE Rest(t)' = Rest(t) /\ InFlight' = InFlight
  <2>1. \A u \in Tx : Rest(u)' = Rest(u) /\ Flying(u)' = Flying(u)
    BY <1>6, <1>7 DEF Flying
  <2>2. RestInv' /\ FrameInv' /\ FrameOrder'
    BY <1>2, <2>1 DEF CarryInv, RestInv, FrameInv, FrameOrder
  <2>3. OutOrder' /\ HeardOrder'
    BY <1>2, <2>1 DEF CarryInv, OutOrder, HeardOrder
  <2>4. NoneGone'
    BY <1>2, <2>1 DEF CarryInv, NoneGone, Somewhere
  <2>5. QED
    BY <1>2, <1>3, <1>4, <1>5, <2>2, <2>3, <2>4 DEF CarryInv
<1>8. ASSUME NEW f \in Frames, PublishSends(t, f) PROVE CarryInv'
  <2>1. /\ f.tx = t /\ f.start_index = start_index[t] /\ InFlight' = InFlight \cup {f}
        /\ Vals(Rest(t)) = Vals(f.samples) \cup Vals(Rest(t)')
        /\ Rising(f.samples) /\ Rising(Rest(t)') /\ Below(Vals(f.samples), Vals(Rest(t)'))
    BY <1>8 DEF PublishSends, CarryInv, RestInv
  <2>2. Flying(t)' = Flying(t) \cup {f} /\ \A u \in Tx \ {t} : Flying(u)' = Flying(u)
    BY <2>1 DEF Flying
  <2>3. /\ Vals(f.samples) \subseteq Numbers(t) /\ Vals(Rest(t)') \subseteq Numbers(t)
        /\ Vals(Rest(t)') \subseteq Vals(Rest(t))
    BY <2>1 DEF CarryInv, RestInv
  <2>4. \A X : Below(X, Vals(Rest(t))) => Below(X, Vals(f.samples)) /\ Below(X, Vals(Rest(t)'))
    BY <2>1 DEF Below
  <2>5. \A g \in Flying(t) : g.start_index < f.start_index /\ f.start_index \in Nat /\ g.start_index \in Nat
    <3>1. \A g \in Flying(t) : g.start_index < start_index[t] /\ g.start_index \in Nat
      BY InFlightTyped DEF FramesInFlight, IndexInRange, Flying
    <3>2. start_index[t] \in Nat
      BY DEF SimTypeOK
    <3>3. QED
      BY <2>1, <3>1, <3>2
  <2>6. RestInv'
    BY <1>2, <1>6, <2>1, <2>3 DEF CarryInv, RestInv
  <2>7. FrameInv'
    <3>1. SUFFICES ASSUME NEW u \in Tx, NEW g \in Flying(u)'
                   PROVE  /\ Rising(g.samples) /\ Vals(g.samples) \subseteq Numbers(u)
                          /\ Below(Vals(g.samples), Vals(Rest(u)'))
      BY <1>2 DEF FrameInv
    <3>2. CASE g \in Flying(u)
      <4>1. /\ Rising(g.samples) /\ Vals(g.samples) \subseteq Numbers(u)
            /\ Below(Vals(g.samples), Vals(Rest(u)))
        BY <3>2 DEF CarryInv, FrameInv
      <4>2. QED
        BY <1>6, <2>4, <4>1
    <3>3. CASE g \notin Flying(u)
      BY <2>1, <2>2, <2>3, <3>1, <3>3
    <3>4. QED
      BY <3>2, <3>3
  <2>8. FrameOrder'
    <3>1. SUFFICES ASSUME NEW u \in Tx, NEW g \in Flying(u)', NEW h \in Flying(u)'
                   PROVE  /\ g.start_index = h.start_index => g = h
                          /\ g.start_index < h.start_index => Below(Vals(g.samples), Vals(h.samples))
      BY DEF FrameOrder
    <3>2. CASE g \in Flying(u) /\ h \in Flying(u)
      BY <3>2 DEF CarryInv, FrameOrder
    <3>3. CASE g \notin Flying(u) /\ h \notin Flying(u)
      <4>1. g = f /\ h = f /\ f.start_index \in Nat
        BY <2>1, <2>2, <3>1, <3>3 DEF Frames
      <4>2. QED
        BY <4>1
    <3>4. CASE g \in Flying(u) /\ h \notin Flying(u)
      <4>1. u = t /\ h = f
        BY <2>2, <3>1, <3>4
      <4>2. g.start_index < h.start_index /\ g.start_index \in Nat /\ h.start_index \in Nat
        BY <2>5, <3>4, <4>1
      <4>3. Below(Vals(g.samples), Vals(h.samples))
        BY <2>4, <3>4, <4>1 DEF CarryInv, FrameInv
      <4>4. QED
        BY <4>2, <4>3
    <3>5. CASE g \notin Flying(u) /\ h \in Flying(u)
      <4>1. u = t /\ g = f
        BY <2>2, <3>1, <3>5
      <4>2. h.start_index < g.start_index /\ g.start_index \in Nat /\ h.start_index \in Nat
        BY <2>5, <3>5, <4>1
      <4>3. QED
        BY <4>2
    <3>6. QED
      BY <3>2, <3>3, <3>4, <3>5
\* Whatever was below the unsent samples is below the frame and below what is left.
  <2>9. \A u \in Tx : \A X : Below(X, Vals(Rest(u))) /\ (\A g \in Flying(u) : Below(X, Vals(g.samples))) =>
          Below(X, Vals(Rest(u)')) /\ (\A g \in Flying(u)' : Below(X, Vals(g.samples)))
    BY <1>6, <2>2, <2>4
  <2>10. OutOrder'
    BY <1>2, <2>9 DEF CarryInv, OutOrder
  <2>11. HeardOrder'
    BY <1>2, <2>9 DEF CarryInv, HeardOrder
  <2>12. NoneGone'
    <3>1. SUFFICES ASSUME NEW n \in Nodes, NEW u \in Tx, NEW v, Somewhere(n, u, v)
                   PROVE  Somewhere(n, u, v)'
      BY <1>2 DEF CarryInv, NoneGone
    <3>2. (v \in Vals(Rest(u)) \/ \E g \in Flying(u) : v \in Vals(g.samples)) =>
            (v \in Vals(Rest(u)') \/ \E g \in Flying(u)' : v \in Vals(g.samples))
      BY <1>6, <2>1, <2>2
    <3>3. QED
      BY <1>2, <3>1, <3>2 DEF Somewhere
  <2>13. QED
    BY <1>2, <1>3, <1>4, <1>5, <2>6, <2>7, <2>8, <2>10, <2>11, <2>12 DEF CarryInv
<1>9. QED
  BY <1>7, <1>8, PublishRest

\* A round gives every node the sum of the frames it hears.
HeardOf(group, n) == {f \in group : PR!Hears(n, f)}

LEMMA MixAdds ==
  ASSUME SimTypeOK, Mix, NEW group, MixTakes(group), NEW n \in Nodes
  PROVE  \E l : SumAdds(n, HeardOf(group, n), l)
<1>1. HeardOf(group, n) \in SUBSET Frames /\ rx_in'[n] = Append(rx_in[n], HeardOf(group, n))
  BY DEF MixTakes, HeardOf
<1>2. current'[n] = current[n] /\ pos'[n] = pos[n]
  BY DEF Mix, subState
<1>3. QED
  BY <1>1, <1>2, SumAdded

LEMMA CarryMix ==
  ASSUME SimTypeOK, FramesInFlight, CarryInv, Mix
  PROVE  CarryInv'
<1>1. UNCHANGED <<written, tmpbuf, input, heard, positions, apart>>
  BY DEF Mix, PR!ProcessorRound, pubState, subState
<1>2. /\ \A t \in Tx : Rest(t)' = Rest(t) /\ Numbers(t)' = Numbers(t)
      /\ heard' = heard /\ apart' = apart /\ SentCounted'
  BY <1>1, SameRest, SameWritten DEF CarryInv
<1>3. ApartNow'
  BY <1>1 DEF CarryInv, ApartNow, PairsApart
<1>4. HeardTyped' /\ HeardInv'
  BY <1>2 DEF CarryInv, HeardTyped, HeardInv
<1>5. RestInv'
  BY <1>2 DEF CarryInv, RestInv
<1>6. PICK group : MixTakes(group)
  BY MixFlight DEF CarryInv
<1>7. /\ InFlight' \subseteq InFlight /\ group \subseteq InFlight
      /\ \A f \in group, g \in InFlight' : f.tx = g.tx => f.start_index < g.start_index
      /\ \A f, g \in group : f.tx = g.tx => f = g
      /\ group \subseteq Frames
  BY <1>6 DEF MixTakes
<1>8. /\ \A t \in Tx : Flying(t)' \subseteq Flying(t)
      /\ \A t \in Tx : \A f \in group : f.tx = t => f \in Flying(t)
      /\ \A t \in Tx : \A f \in Flying(t) : f \in group \/ f \in Flying(t)'
      /\ \A f \in group : DOMAIN f.samples = 1 .. FrameLen
  BY <1>6, <1>7 DEF Flying, MixTakes, Frames
<1>9. FrameInv' /\ FrameOrder'
  BY <1>2, <1>8 DEF CarryInv, FrameInv, FrameOrder
\* The places of the new sum, and what is there.
<1>10. ASSUME NEW n \in Nodes
       PROVE  \E l : SumAdds(n, HeardOf(group, n), l)
  BY <1>6, MixAdds
<1>11. ASSUME NEW n \in Nodes, NEW t \in Tx, NEW i \in 1 .. FrameLen, NEW v \in Added(HeardOf(group, n), t, i)
       PROVE  \E f \in group : /\ f.tx = t /\ PR!Hears(n, f) /\ v = f.samples[i] /\ v # 0
                               /\ v \in Vals(f.samples) /\ f \in Flying(t)
  <2>1. PICK f \in group : f.tx = t /\ PR!Hears(n, f) /\ v = f.samples[i] /\ v # 0
    BY <1>11 DEF Added, HeardOf
  <2>2. v \in Vals(f.samples)
    BY <1>8, <2>1 DEF Vals
  <2>3. QED
    BY <1>8, <2>1, <2>2
<1>12. OutInv'
  <2>1. SUFFICES ASSUME NEW n \in Nodes, NEW t \in Tx, NEW x \in Ready(n)'
                 PROVE  /\ \A u, v \in Out(n, t, x)' : u = v
                        /\ Out(n, t, x)' \subseteq Numbers(t)
                        /\ NodeOf[t] = n => Out(n, t, x)' = {}
    BY <1>2 DEF OutInv
  <2>2. PICK l : SumAdds(n, HeardOf(group, n), l)
    BY <1>10
  <2>3. CASE x \in Ready(n)
    BY <2>2, <2>3 DEF CarryInv, OutInv, SumAdds
  <2>4. ASSUME NEW i \in 1 .. FrameLen, x = l + i
        PROVE  /\ \A u, v \in Out(n, t, x)' : u = v
               /\ Out(n, t, x)' \subseteq Numbers(t)
               /\ NodeOf[t] = n => Out(n, t, x)' = {}
    <3>1. Out(n, t, x)' = Added(HeardOf(group, n), t, i)
      BY <2>2, <2>4 DEF SumAdds
    <3>2. \A u, v \in Added(HeardOf(group, n), t, i) : u = v
      BY <1>7, <1>11
    <3>3. Added(HeardOf(group, n), t, i) \subseteq Numbers(t)
      BY <1>11 DEF CarryInv, FrameInv
    <3>4. NodeOf[t] = n => Added(HeardOf(group, n), t, i) = {}
      BY <1>11 DEF PR!Hears
    <3>5. QED
      BY <3>1, <3>2, <3>3, <3>4
  <2>5. x \in Ready(n) \/ \E i \in 1 .. FrameLen : x = l + i
    BY <2>1, <2>2 DEF SumAdds
  <2>6. QED
    BY <2>3, <2>4, <2>5
<1>13. OutOrder'
  <2>1. SUFFICES ASSUME NEW n \in Nodes, NEW t \in Tx, NEW x \in Ready(n)'
                 PROVE  /\ \A y \in Ready(n)' : x < y => Below(Out(n, t, x)', Out(n, t, y)')
                        /\ \A f \in Flying(t)' : Below(Out(n, t, x)', Vals(f.samples))
                        /\ Below(Out(n, t, x)', Vals(Rest(t)))
    BY <1>2 DEF OutOrder
  <2>2. PICK l : SumAdds(n, HeardOf(group, n), l)
    BY <1>10
  <2>3. \A y \in Ready(n)' : y \in Ready(n) \/ \E i \in 1 .. FrameLen : y = l + i
    BY <2>2 DEF SumAdds
  <2>4. CASE x \in Ready(n)
    <3>1. /\ \A y \in Ready(n) : x < y => Below(Out(n, t, x), Out(n, t, y))
          /\ \A f \in Flying(t) : Below(Out(n, t, x), Vals(f.samples))
          /\ Below(Out(n, t, x), Vals(Rest(t)))
      BY <2>4 DEF CarryInv, OutOrder
    <3>2. ASSUME NEW i \in 1 .. FrameLen PROVE Below(Out(n, t, x), Added(HeardOf(group, n), t, i))
      BY <1>11, <3>1 DEF Below
    <3>3. QED
      BY <1>8, <2>2, <2>3, <2>4, <3>1, <3>2 DEF SumAdds
  <2>5. ASSUME NEW i \in 1 .. FrameLen, x = l + i
        PROVE  /\ \A y \in Ready(n)' : x < y => Below(Out(n, t, x)', Out(n, t, y)')
               /\ \A f \in Flying(t)' : Below(Out(n, t, x)', Vals(f.samples))
               /\ Below(Out(n, t, x)', Vals(Rest(t)))
    <3>1. Out(n, t, x)' = Added(HeardOf(group, n), t, i)
      BY <2>2, <2>5 DEF SumAdds
    <3>2. ASSUME NEW j \in 1 .. FrameLen, i < j
          PROVE  Below(Added(HeardOf(group, n), t, i), Added(HeardOf(group, n), t, j))
      <4>1. SUFFICES ASSUME NEW u \in Added(HeardOf(group, n), t, i), NEW v \in Added(HeardOf(group, n), t, j)
                     PROVE  u < v
        BY DEF Below
      <4>2. PICK f \in group : f.tx = t /\ u = f.samples[i] /\ u # 0 /\ f \in Flying(t)
        BY <1>11
      <4>3. PICK g \in group : g.tx = t /\ v = g.samples[j] /\ v # 0
        BY <1>11
      <4>4. f = g
        BY <1>7, <4>2, <4>3
      <4>5. Rising(f.samples) /\ DOMAIN f.samples = 1 .. FrameLen
        BY <1>8, <4>2 DEF CarryInv, FrameInv
      <4>6. QED
        BY <3>2, <4>2, <4>3, <4>4, <4>5 DEF Rising
    <3>3. ASSUME NEW g \in Flying(t)' PROVE Below(Added(HeardOf(group, n), t, i), Vals(g.samples))
      <4>1. SUFFICES ASSUME NEW u \in Added(HeardOf(group, n), t, i) PROVE \A v \in Vals(g.samples) : u < v
        BY DEF Below
      <4>2. PICK f \in group : f.tx = t /\ u \in Vals(f.samples) /\ f \in Flying(t)
        BY <1>11
      <4>3. g \in Flying(t) /\ g \in InFlight' /\ g.tx = t
        BY <1>8, <3>3 DEF Flying
      <4>4. f.start_index < g.start_index
        BY <1>7, <4>2, <4>3
      <4>5. Below(Vals(f.samples), Vals(g.samples))
        BY <4>2, <4>3, <4>4 DEF CarryInv, FrameOrder
      <4>6. QED
        BY <4>2, <4>5 DEF Below
    <3>4. Below(Added(HeardOf(group, n), t, i), Vals(Rest(t)))
      BY <1>11 DEF CarryInv, FrameInv, Below
    <3>5. ASSUME NEW y \in Ready(n)', x < y PROVE Below(Added(HeardOf(group, n), t, i), Out(n, t, y)')
      <4>1. y \notin Ready(n)
        <5>1. SUFFICES ASSUME y \in Ready(n) PROVE FALSE
          OBVIOUS
        <5>2. y \in 1 .. l
          BY <2>2, <5>1 DEF SumAdds
        <5>3. QED
          BY <2>2, <2>5, <3>5, <5>2 DEF SumAdds
      <4>2. PICK j \in 1 .. FrameLen : y = l + j
        BY <2>3, <4>1
      <4>3. i < j
        <5>1. l \in Nat
          BY <2>2 DEF SumAdds
        <5>2. QED
          BY <2>5, <3>5, <4>2, <5>1
      <4>4. QED
        BY <2>2, <3>2, <4>2, <4>3 DEF SumAdds
    <3>6. QED
      BY <3>1, <3>3, <3>4, <3>5
  <2>6. QED
    BY <2>1, <2>3, <2>4, <2>5
<1>14. HeardOrder'
  <2>1. SUFFICES ASSUME NEW n \in Nodes, NEW t \in Tx
                 PROVE  /\ \A x \in Ready(n)' : Below(Vals(heard[n][t]), Out(n, t, x)')
                        /\ \A f \in Flying(t)' : Below(Vals(heard[n][t]), Vals(f.samples))
                        /\ Below(Vals(heard[n][t]), Vals(Rest(t)))
    BY <1>2 DEF HeardOrder
  <2>2. /\ \A x \in Ready(n) : Below(Vals(heard[n][t]), Out(n, t, x))
        /\ \A f \in Flying(t) : Below(Vals(heard[n][t]), Vals(f.samples))
        /\ Below(Vals(heard[n][t]), Vals(Rest(t)))
    BY DEF CarryInv, HeardOrder
  <2>3. PICK l : SumAdds(n, HeardOf(group, n), l)
    BY <1>10
  <2>4. ASSUME NEW i \in 1 .. FrameLen PROVE Below(Vals(heard[n][t]), Added(HeardOf(group, n), t, i))
    BY <1>11, <2>2 DEF Below
  <2>5. \A y \in Ready(n)' : y \in Ready(n) \/ \E i \in 1 .. FrameLen : y = l + i
    BY <2>3 DEF SumAdds
  <2>6. QED
    BY <1>8, <2>2, <2>3, <2>4, <2>5 DEF SumAdds
<1>15. NoneGone'
  <2>1. SUFFICES ASSUME NEW n \in Nodes, NEW t \in Tx, <<n, NodeOf[t]>> \in apart,
                        NEW v, Somewhere(n, t, v)
                 PROVE  Somewhere(n, t, v)'
    BY <1>2 DEF CarryInv, NoneGone
  <2>2. PICK l : SumAdds(n, HeardOf(group, n), l)
    BY <1>10
  <2>3. CASE v \in Vals(heard[n][t]) \/ v \in Vals(Rest(t))
    BY <1>2, <2>3 DEF Somewhere
  <2>4. CASE \E x \in Ready(n) : v \in Out(n, t, x)
    BY <2>2, <2>4 DEF Somewhere, SumAdds
  <2>5. ASSUME NEW f \in Flying(t), v \in Vals(f.samples) PROVE Somewhere(n, t, v)'
    <3>1. CASE f \in Flying(t)'
      BY <2>5, <3>1 DEF Somewhere
    <3>2. CASE f \in group
      <4>1. f.tx = t
        BY DEF Flying
      <4>2. PICK i \in 1 .. FrameLen : v = f.samples[i] /\ v # 0
        BY <1>8, <2>5, <3>2 DEF Vals
      <4>3. PR!Hears(n, f)
        <5>1. positions[n] # positions[NodeOf[t]]
          BY <2>1 DEF CarryInv, ApartNow, PairsApart
        <5>2. QED
          BY <4>1, <5>1 DEF PR!Hears
      <4>4. v \in Added(HeardOf(group, n), t, i)
        BY <3>2, <4>1, <4>2, <4>3 DEF Added, HeardOf
      <4>5. l + i \in Ready(n)'
        BY <2>2 DEF SumAdds
      <4>6. QED
        BY <2>2, <4>4, <4>5 DEF Somewhere, SumAdds
    <3>3. QED
      BY <1>8, <3>1, <3>2
  <2>6. QED
    BY <2>1, <2>3, <2>4, <2>5 DEF Somewhere
<1>16. QED
  BY <1>2, <1>3, <1>4, <1>5, <1>9, <1>12, <1>13, <1>14, <1>15 DEF CarryInv

LEMMA SameFlatten ==
  ASSUME NEW ss
  PROVE  SU!FlattenSeq(ss) = FlattenSeq(ss)
BY DEF SU!FlattenSeq, FlattenSeq

LEMMA SameSetToSeq ==
  ASSUME NEW S
  PROVE  SU!SetToSeq(S) = SetToSeq(S)
<1>1. SU!Cardinality(S) = Cardinality(S)
  BY DEF SU!Cardinality, Cardinality
<1>2. QED
  BY <1>1 DEF SU!SetToSeq, SetToSeq, SU!IsInjective, IsInjective

\* What a call puts out is the numbers of the places it takes, in order.
OutNow(n, t, out) == UNION {Out(n, t, pos[n] + i) : i \in 1 .. out}

LEMMA HearsNext ==
  ASSUME SimTypeOK, CarryInv, NEW n \in Nodes, NEW t \in Tx, NEW out \in Nat \ {0},
         pos[n] + out <= FrameLen * Len(SU!Sums(n))
  PROVE  /\ Lists(SU!HeardNow(n, t, out), Numbers(t), OutNow(n, t, out))
         /\ Lists(heard[n][t] \o SU!HeardNow(n, t, out), Numbers(t), Vals(heard[n][t]) \cup OutNow(n, t, out))
         /\ NodeOf[t] = n => heard[n][t] \o SU!HeardNow(n, t, out) = <<>>
<1> DEFINE A == [i \in 1 .. out |-> Out(n, t, pos[n] + i)]  N == Numbers(t)
           l == FrameLen * Len(SU!Sums(n))
<1>1. pos[n] \in Nat /\ l \in Nat /\ N \subseteq Nat \ {0}
  BY SumsTyped DEF Numbers
<1>2. \A i \in 1 .. out : pos[n] + i \in Ready(n)
  <2>1. Ready(n) = pos[n] + 1 .. l
    BY DEF Ready
  <2> HIDE DEF l
  <2>2. pos[n] + out <= l
    BY DEF l
  <2>3. QED
    BY <1>1, <2>1, <2>2
<1>3. \A i, j \in 1 .. out : i < j => pos[n] + i < pos[n] + j
  BY <1>1
<1> HIDE DEF N, l
<1>4. A \in [1 .. out -> SUBSET N]
  BY <1>2 DEF CarryInv, OutInv, N
<1>5. \A i \in 1 .. out : A[i] = Out(n, t, pos[n] + i)
  OBVIOUS
<1>6. \A i \in 1 .. out : \A u, v \in A[i] : u = v
  BY <1>2, <1>5 DEF CarryInv, OutInv
<1>7. \A i, j \in 1 .. out : i < j => Below(A[i], A[j])
  <2> HIDE DEF A
  <2>1. SUFFICES ASSUME NEW i \in 1 .. out, NEW j \in 1 .. out, i < j PROVE Below(A[i], A[j])
    OBVIOUS
  <2>2. pos[n] + i \in Ready(n) /\ pos[n] + j \in Ready(n) /\ pos[n] + i < pos[n] + j
    BY <1>2, <1>3, <2>1
  <2>3. Below(Out(n, t, pos[n] + i), Out(n, t, pos[n] + j))
    BY <2>2 DEF CarryInv, OutOrder
  <2>4. QED
    BY <1>5, <2>3
<1>8. SU!HeardNow(n, t, out) = FlattenSeq([i \in 1 .. out |-> SetToSeq(A[i])])
  <2> HIDE DEF A
  <2>1. \A i \in 1 .. out : SU!SetToSeq(SU!From(n, t, pos[n] + i) \ {0}) = SetToSeq(A[i])
    BY <1>5, SameSetToSeq DEF Out
  <2>2. [i \in 1 .. out |-> SU!SetToSeq(SU!From(n, t, pos[n] + i) \ {0})] = [i \in 1 .. out |-> SetToSeq(A[i])]
    BY <2>1
  <2>3. QED
    BY <2>2, SameFlatten DEF SU!HeardNow
<1>9. UpTo(A, out) = OutNow(n, t, out)
  BY <1>5 DEF UpTo, OutNow
<1> HIDE DEF A
<1>10. Lists(SU!HeardNow(n, t, out), N, OutNow(n, t, out))
  <2>1. Lists(FlattenSeq([i \in 1 .. out |-> SetToSeq(A[i])]), N, UpTo(A, out))
    <3>1. N \subseteq Nat
      BY <1>1
    <3>2. QED
      BY <1>4, <1>6, <1>7, <3>1, ListsAll
  <2>2. QED
    BY <1>8, <1>9, <2>1
<1>11. Lists(heard[n][t], N, Vals(heard[n][t]))
  <2>1. heard[n][t] \in Seq(N) /\ Radio!InOrder(heard[n][t])
    BY DEF CarryInv, HeardInv, N
  <2>2. \A i \in DOMAIN heard[n][t] : heard[n][t][i] \in N
    BY <2>1
  <2>3. {heard[n][t][i] : i \in DOMAIN heard[n][t]} = Vals(heard[n][t])
    BY <1>1, <2>2 DEF Vals
  <2>4. QED
    BY <2>1, <2>3 DEF Lists
<1>12. Below(Vals(heard[n][t]), OutNow(n, t, out))
  <2>1. SUFFICES ASSUME NEW u \in Vals(heard[n][t]), NEW v \in OutNow(n, t, out) PROVE u < v
    BY DEF Below
  <2>2. PICK i \in 1 .. out : v \in Out(n, t, pos[n] + i)
    BY DEF OutNow
  <2>3. Below(Vals(heard[n][t]), Out(n, t, pos[n] + i))
    BY <1>2 DEF CarryInv, HeardOrder
  <2>4. QED
    BY <2>2, <2>3 DEF Below
<1>13. Lists(heard[n][t] \o SU!HeardNow(n, t, out), N, Vals(heard[n][t]) \cup OutNow(n, t, out))
  <2>1. N \subseteq Nat
    BY <1>1
  <2>2. QED
    BY <1>10, <1>11, <1>12, <2>1, ListsJoined
<1>14. ASSUME NodeOf[t] = n PROVE heard[n][t] \o SU!HeardNow(n, t, out) = <<>>
  <2>1. heard[n][t] = <<>>
    BY <1>14 DEF CarryInv, HeardInv
  <2>2. OutNow(n, t, out) = {}
    BY <1>2, <1>14 DEF CarryInv, OutInv, OutNow
  <2>3. Vals(<<>>) = {}
    BY DEF Vals
  <2> DEFINE g == heard[n][t] \o SU!HeardNow(n, t, out)
  <2>4. Lists(g, N, {})
    BY <1>13, <2>1, <2>2, <2>3
  <2> HIDE DEF g
  <2>5. g \in Seq(N) /\ DOMAIN g = {}
    BY <2>4 DEF Lists
  <2>6. Len(g) = 0
    BY <2>5
  <2>7. QED
    BY <2>5, <2>6, EmptySeq DEF g
<1>15. QED
  BY <1>10, <1>13, <1>14 DEF N

LEMMA SubscribeElsewhere ==
  ASSUME SimTypeOK, CarryInv, NEW n \in Nodes, Subscribe(n)
  PROVE  /\ UNCHANGED <<written, input, tmpbuf, tx_out, pending_frames, positions, apart>>
         /\ \A m \in Nodes \ {n} :
              /\ heard'[m] = heard[m] /\ Ready(m)' = Ready(m)
              /\ \A t \in Tx : \A x : Out(m, t, x)' = Out(m, t, x)
<1>1. PICK room \in Rooms : SU!SubscriberWork(n, room)
  BY DEF Subscribe
<1>2. UNCHANGED <<written, input, tmpbuf, tx_out, pending_frames, positions, apart>>
  BY DEF Subscribe, pubState, procState, moveState
<1>3. ASSUME NEW m \in Nodes \ {n}
      PROVE  heard'[m] = heard[m] /\ rx_in'[m] = rx_in[m] /\ current'[m] = current[m] /\ pos'[m] = pos[m]
  BY <1>1, <1>3 DEF SU!SubscriberWork, SimTypeOK, CarryInv, HeardTyped
<1>4. ASSUME NEW m \in Nodes \ {n}
      PROVE  Ready(m)' = Ready(m) /\ \A t \in Tx : \A x : Out(m, t, x)' = Out(m, t, x)
  <2>1. SU!Sums(m)' = SU!Sums(m)
    BY <1>3 DEF SU!Sums
  <2>2. QED
    BY <1>3, <2>1 DEF Ready, Out, SU!From, SU!SumAt
<1>5. QED
  BY <1>2, <1>3, <1>4

LEMMA CarrySubscribe ==
  ASSUME SimTypeOK, CarryInv, NEW n \in Nodes, Subscribe(n)
  PROVE  /\ CarryInv'
         /\ UNCHANGED <<written, apart>>
         /\ \A m \in Nodes \ {n} : heard'[m] = heard[m]
         /\ \A t \in Tx : \E h \in Seq(Nat) : heard'[n][t] = heard[n][t] \o h
<1>1. /\ UNCHANGED <<written, input, tmpbuf, tx_out, pending_frames, positions, apart>>
      /\ \A m \in Nodes \ {n} :
           /\ heard'[m] = heard[m] /\ Ready(m)' = Ready(m)
           /\ \A t \in Tx : \A x : Out(m, t, x)' = Out(m, t, x)
  BY SubscribeElsewhere
<1>2. /\ \A t \in Tx : Rest(t)' = Rest(t) /\ Numbers(t)' = Numbers(t) /\ Flying(t)' = Flying(t)
      /\ apart' = apart /\ SentCounted'
  BY <1>1, SameRest, SameWritten, SameFlight DEF CarryInv
<1>3. RestInv' /\ FrameInv' /\ FrameOrder'
  BY <1>2 DEF CarryInv, RestInv, FrameInv, FrameOrder
<1>4. ApartNow'
  BY <1>1 DEF CarryInv, ApartNow, PairsApart
<1>5. PICK out \in Nat, shift \in Nat : Takes(n, out, shift)
  BY SubscriberTakes
<1>6. out \in Nat \ {0} /\ pos[n] + out <= FrameLen * Len(SU!Sums(n)) /\ pos[n] \in Nat
  BY <1>5, SumsTyped DEF Takes
<1>7. /\ \A x \in Ready(n)' : /\ x + shift \in Ready(n) /\ pos[n] + out < x + shift
                              /\ \A t \in Tx : Out(n, t, x)' = Out(n, t, x + shift)
      /\ \A x \in Ready(n) : pos[n] + out < x => x - shift \in Ready(n)'
  BY <1>5 DEF Takes
<1>8. \A x \in Ready(n) : x \in Int
  BY DEF Ready
<1>9. \A x \in Ready(n)' : x \in Int
  BY DEF Ready
\* What is heard now, and what is left.
<1>10. heard' = [heard EXCEPT ![n] = [t \in Tx |-> heard[n][t] \o SU!HeardNow(n, t, out)]]
  BY <1>5 DEF Takes
<1>11. \A t \in Tx : heard'[n][t] = heard[n][t] \o SU!HeardNow(n, t, out)
  <2>1. heard \in [Nodes -> [Tx -> Seq(Nat)]]
    BY DEF CarryInv, HeardTyped
  <2>2. heard'[n] = [t \in Tx |-> heard[n][t] \o SU!HeardNow(n, t, out)]
    BY <1>10, <2>1
  <2>3. QED
    BY <2>2
<1>12. ASSUME NEW t \in Tx
       PROVE  /\ Lists(heard'[n][t], Numbers(t), Vals(heard[n][t]) \cup OutNow(n, t, out))
              /\ NodeOf[t] = n => heard'[n][t] = <<>>
  BY <1>6, <1>11, HearsNext
<1>13. ASSUME NEW t \in Tx
       PROVE  Vals(heard'[n][t]) = Vals(heard[n][t]) \cup OutNow(n, t, out)
  <2>1. heard'[n][t] \in Seq(Numbers(t)) /\ 0 \notin Numbers(t)
    BY <1>12 DEF Lists, Numbers
  <2>2. \A i \in DOMAIN heard'[n][t] : heard'[n][t][i] # 0
    BY <2>1
  <2>3. {heard'[n][t][i] : i \in DOMAIN heard'[n][t]} = Vals(heard[n][t]) \cup OutNow(n, t, out)
    BY <1>12 DEF Lists
  <2>4. QED
    BY <2>2, <2>3 DEF Vals
<1>14. ASSUME NEW t \in Tx, NEW u \in OutNow(n, t, out)
       PROVE  \E x \in Ready(n) : u \in Out(n, t, x) /\ x <= pos[n] + out
  <2>1. PICK i \in 1 .. out : u \in Out(n, t, pos[n] + i)
    BY <1>14 DEF OutNow
  <2> DEFINE l == FrameLen * Len(SU!Sums(n))
  <2>2. Ready(n) = pos[n] + 1 .. l /\ pos[n] + out <= l /\ l \in Nat
    BY <1>6, SumsTyped DEF Ready
  <2> HIDE DEF l
  <2>3. pos[n] + i \in Ready(n) /\ pos[n] + i <= pos[n] + out
    BY <1>6, <2>2
  <2>4. QED
    BY <2>1, <2>3
<1>15. ASSUME NEW t \in Tx, NEW x \in Ready(n), NEW u \in Out(n, t, x)
       PROVE  u \in OutNow(n, t, out) \/ pos[n] + out < x
  <2> DEFINE l == FrameLen * Len(SU!Sums(n))
  <2>1. Ready(n) = pos[n] + 1 .. l /\ l \in Nat
    BY SumsTyped DEF Ready
  <2> HIDE DEF l
  <2>2. CASE x <= pos[n] + out
    <3>1. x - pos[n] \in 1 .. out /\ pos[n] + (x - pos[n]) = x
      BY <1>6, <2>1, <2>2
    <3>2. u \in Out(n, t, pos[n] + (x - pos[n]))
      BY <1>15, <3>1
    <3>3. QED
      BY <3>1, <3>2 DEF OutNow
  <2>3. QED
    BY <1>6, <2>1, <2>2
<1>16. HeardTyped'
  <2>1. \A t \in Tx : heard'[n][t] \in Seq(Nat)
    <3>1. \A t \in Tx : heard'[n][t] \in Seq(Numbers(t)) /\ Numbers(t) \subseteq Nat
      BY <1>12 DEF Lists, Numbers
    <3>2. QED
      BY <3>1
  <2>2. [t \in Tx |-> heard[n][t] \o SU!HeardNow(n, t, out)] \in [Tx -> Seq(Nat)]
    BY <1>11, <2>1
  <2>3. QED
    BY <1>10, <2>2 DEF CarryInv, HeardTyped
<1>17. HeardInv'
  <2>1. ASSUME NEW m \in Nodes, NEW t \in Tx
        PROVE  /\ heard'[m][t] \in Seq(Numbers(t))
               /\ Radio!InOrder(heard'[m][t])
               /\ NodeOf[t] = m => heard'[m][t] = <<>>
    <3>1. CASE m = n
      BY <1>12, <3>1 DEF Lists
    <3>2. CASE m # n
      BY <1>1, <3>2 DEF CarryInv, HeardInv
    <3>3. QED
      BY <3>1, <3>2
  <2>2. QED
    BY <1>2, <2>1 DEF HeardInv, Radio!InOrder
<1>18. OutInv'
  <2>1. ASSUME NEW m \in Nodes, NEW t \in Tx, NEW x \in Ready(m)'
        PROVE  /\ \A u, v \in Out(m, t, x)' : u = v
               /\ Out(m, t, x)' \subseteq Numbers(t)
               /\ NodeOf[t] = m => Out(m, t, x)' = {}
    <3>1. CASE m = n
      <4>1. x + shift \in Ready(n) /\ Out(n, t, x)' = Out(n, t, x + shift)
        BY <1>7, <2>1, <3>1
      <4>2. QED
        BY <3>1, <4>1 DEF CarryInv, OutInv
    <3>2. CASE m # n
      BY <1>1, <2>1, <3>2 DEF CarryInv, OutInv
    <3>3. QED
      BY <3>1, <3>2
  <2>2. QED
    BY <1>2, <2>1 DEF OutInv
<1>19. OutOrder'
  <2>1. ASSUME NEW m \in Nodes, NEW t \in Tx, NEW x \in Ready(m)'
        PROVE  /\ \A y \in Ready(m)' : x < y => Below(Out(m, t, x)', Out(m, t, y)')
               /\ \A f \in Flying(t) : Below(Out(m, t, x)', Vals(f.samples))
               /\ Below(Out(m, t, x)', Vals(Rest(t)))
    <3>1. CASE m = n
      <4>1. x + shift \in Ready(n) /\ Out(n, t, x)' = Out(n, t, x + shift) /\ x \in Int
        BY <1>7, <1>9, <2>1, <3>1
      <4>2. ASSUME NEW y \in Ready(n)', x < y PROVE Below(Out(n, t, x)', Out(n, t, y)')
        <5>1. y + shift \in Ready(n) /\ Out(n, t, y)' = Out(n, t, y + shift) /\ y \in Int
          BY <1>7, <1>9, <4>2
        <5>2. x + shift < y + shift
          BY <4>1, <4>2, <5>1
        <5>3. Below(Out(n, t, x + shift), Out(n, t, y + shift))
          BY <4>1, <5>1, <5>2 DEF CarryInv, OutOrder
        <5>4. QED
          BY <4>1, <5>1, <5>3
      <4>3. /\ \A f \in Flying(t) : Below(Out(n, t, x + shift), Vals(f.samples))
            /\ Below(Out(n, t, x + shift), Vals(Rest(t)))
        BY <4>1 DEF CarryInv, OutOrder
      <4>4. QED
        BY <3>1, <4>1, <4>2, <4>3
    <3>2. CASE m # n
      BY <1>1, <2>1, <3>2 DEF CarryInv, OutOrder
    <3>3. QED
      BY <3>1, <3>2
  <2>2. QED
    BY <1>2, <2>1 DEF OutOrder
<1>20. HeardOrder'
  <2>1. ASSUME NEW m \in Nodes, NEW t \in Tx
        PROVE  /\ \A x \in Ready(m)' : Below(Vals(heard'[m][t]), Out(m, t, x)')
               /\ \A f \in Flying(t) : Below(Vals(heard'[m][t]), Vals(f.samples))
               /\ Below(Vals(heard'[m][t]), Vals(Rest(t)))
    <3>1. CASE m # n
      BY <1>1, <3>1 DEF CarryInv, HeardOrder
    <3>2. CASE m = n
      <4>1. ASSUME NEW u \in Vals(heard'[n][t])
            PROVE  u \in Vals(heard[n][t]) \/ \E z \in Ready(n) : u \in Out(n, t, z) /\ z <= pos[n] + out
        BY <1>13, <1>14, <4>1
      <4>2. ASSUME NEW x \in Ready(n)' PROVE Below(Vals(heard'[n][t]), Out(n, t, x)')
        <5>1. /\ x + shift \in Ready(n) /\ Out(n, t, x)' = Out(n, t, x + shift)
              /\ pos[n] + out < x + shift /\ x + shift \in Int
          BY <1>7, <1>8, <4>2
        <5>2. Below(Vals(heard[n][t]), Out(n, t, x + shift))
          BY <5>1 DEF CarryInv, HeardOrder
        <5>3. ASSUME NEW z \in Ready(n), z <= pos[n] + out PROVE Below(Out(n, t, z), Out(n, t, x + shift))
          <6>1. z < x + shift
            BY <1>6, <1>8, <5>1, <5>3
          <6>2. QED
            BY <5>1, <6>1 DEF CarryInv, OutOrder
        <5>4. QED
          BY <4>1, <5>1, <5>2, <5>3 DEF Below
      <4>3. ASSUME NEW f \in Flying(t) PROVE Below(Vals(heard'[n][t]), Vals(f.samples))
        <5>1. /\ Below(Vals(heard[n][t]), Vals(f.samples))
              /\ \A z \in Ready(n) : Below(Out(n, t, z), Vals(f.samples))
          BY <4>3 DEF CarryInv, HeardOrder, OutOrder
        <5>2. QED
          BY <4>1, <5>1 DEF Below
      <4>4. Below(Vals(heard'[n][t]), Vals(Rest(t)))
        <5>1. /\ Below(Vals(heard[n][t]), Vals(Rest(t)))
              /\ \A z \in Ready(n) : Below(Out(n, t, z), Vals(Rest(t)))
          BY DEF CarryInv, HeardOrder, OutOrder
        <5>2. QED
          BY <4>1, <5>1 DEF Below
      <4>5. QED
        BY <3>2, <4>2, <4>3, <4>4
    <3>3. QED
      BY <3>1, <3>2
  <2>2. \A m \in Nodes, t \in Tx : Vals(heard[m][t])' = Vals(heard'[m][t])
    BY DEF Vals
  <2>3. QED
    BY <1>2, <2>1, <2>2 DEF HeardOrder
<1>21. NoneGone'
  <2>1. SUFFICES ASSUME NEW m \in Nodes, NEW t \in Tx, NEW v, Somewhere(m, t, v)
                 PROVE  Somewhere(m, t, v)'
    BY <1>2 DEF CarryInv, NoneGone
  <2>2. Vals(heard[m][t])' = Vals(heard'[m][t])
    BY DEF Vals
  <2>3. CASE m # n
    BY <1>1, <1>2, <2>1, <2>2, <2>3 DEF Somewhere
  <2>4. CASE m = n
    <3>1. CASE v \in Vals(heard[n][t])
      BY <1>13, <2>2, <2>4, <3>1 DEF Somewhere
    <3>2. ASSUME NEW x \in Ready(n), v \in Out(n, t, x) PROVE Somewhere(n, t, v)'
      <4>1. CASE v \in OutNow(n, t, out)
        BY <1>13, <2>2, <2>4, <4>1 DEF Somewhere
      <4>2. CASE pos[n] + out < x
        <5>1. x - shift \in Ready(n)' /\ x \in Int
          BY <1>7, <1>8, <4>2
        <5>2. (x - shift) + shift = x
          BY <5>1
        <5>3. Out(n, t, x - shift)' = Out(n, t, (x - shift) + shift)
          BY <1>7, <5>1
        <5>4. v \in Out(n, t, x - shift)'
          BY <3>2, <5>2, <5>3
        <5>5. QED
          BY <5>1, <5>4 DEF Somewhere
      <4>3. QED
        BY <1>15, <3>2, <4>1, <4>2
    <3>3. CASE (\E f \in Flying(t) : v \in Vals(f.samples)) \/ v \in Vals(Rest(t))
      BY <1>2, <3>3 DEF Somewhere
    <3>4. QED
      BY <2>1, <2>4, <3>1, <3>2, <3>3 DEF Somewhere
  <2>5. QED
    BY <2>3, <2>4
<1>22. \A t \in Tx : \E h \in Seq(Nat) : heard'[n][t] = heard[n][t] \o h
  <2>1. SUFFICES ASSUME NEW t \in Tx PROVE \E h \in Seq(Nat) : heard'[n][t] = heard[n][t] \o h
    OBVIOUS
  <2>2. SU!HeardNow(n, t, out) \in Seq(Nat)
    <3>1. Lists(SU!HeardNow(n, t, out), Numbers(t), OutNow(n, t, out))
      BY <1>6, HearsNext
    <3>2. Numbers(t) \subseteq Nat
      BY DEF Numbers
    <3>3. QED
      BY <3>1, <3>2 DEF Lists
  <2>3. QED
    BY <1>11, <2>2
<1>23. CarryInv'
  BY <1>2, <1>3, <1>4, <1>16, <1>17, <1>18, <1>19, <1>20, <1>21 DEF CarryInv
<1>24. QED
  BY <1>1, <1>22, <1>23

LEMMA WrittenNothing == Written(0) = 0 /\ Cardinality(Signals(0)) = 0
<1>1. BurstLen \in Nat \ {0} /\ Signal \in Nat
  BY SimulatorAssumption DEF BurstLen
<1>2. 0 \div BurstLen = 0 /\ 0 % BurstLen = 0
  <2>1. Divides(0, BurstLen, 0, 0)
    BY <1>1 DEF Divides
  <2>2. QED
    BY <2>1, DivisionIsUnique
<1>3. Written(0) = 0
  BY <1>1, <1>2 DEF Written, SmallerOf
<1>4. Signals(0) = {}
  BY DEF Signals
<1>5. QED
  BY <1>3, <1>4, FS_EmptySet

LEMMA CarryInit == SimInit => CarryInv
<1> SUFFICES ASSUME SimInit PROVE CarryInv
  OBVIOUS
<1>1. /\ \A t \in Tx : written[t] = 0 /\ input[t] = <<>> /\ tmpbuf[t] = <<>>
      /\ tx_out = [n \in Nodes |-> <<>>] /\ pending_frames = {}
      /\ \A n \in Nodes : rx_in[n] = <<>> /\ current[n] = {} /\ pos[n] = FrameLen
      /\ heard = [n \in Nodes |-> [t \in Tx |-> <<>>]]
      /\ apart = PairsApart
  BY DEF SimInit, PU!PublisherInit, PR!ProcessorInit, SU!SubscriberInit, SU!NoSum, Nodes
<1>2. \A t \in Tx : Rest(t) = <<>>
  BY <1>1 DEF Rest
<1>3. \A t \in Tx : Numbers(t) = {}
  BY <1>1, WrittenNothing DEF Numbers
<1>4. \A t \in Tx : Flying(t) = {}
  BY <1>1 DEF Flying, InFlight, Queued
<1>5. ASSUME NEW n \in Nodes PROVE Ready(n) = {}
  <2>1. Len(SU!Sums(n)) = 1
    BY <1>1 DEF SU!Sums
  <2>2. FrameLen * 1 = FrameLen /\ FrameLen \in Nat
    BY SimulatorAssumption
  <2>3. QED
    BY <1>1, <2>1, <2>2 DEF Ready
<1>6. \A n \in Nodes, t \in Tx : heard[n][t] = <<>>
  BY <1>1
<1>7. Vals(<<>>) = {}
  BY DEF Vals
<1>8. RestInv
  BY <1>2, <1>7 DEF RestInv, Rising
<1>9. FrameInv /\ FrameOrder
  BY <1>4 DEF FrameInv, FrameOrder
<1>10. OutInv /\ OutOrder
  BY <1>5 DEF OutInv, OutOrder
<1>11. HeardTyped /\ HeardInv
  BY <1>1, <1>6, EmptySeq DEF HeardTyped, HeardInv, Radio!InOrder
<1>12. HeardOrder
  BY <1>6, <1>7 DEF HeardOrder, Below
<1>13. NoneGone
  BY <1>3 DEF NoneGone
<1>14. ApartNow
  BY <1>1 DEF ApartNow
<1>15. SentCounted
  BY <1>1, WrittenNothing DEF SentCounted, Signals
<1>16. QED
  BY <1>8, <1>9, <1>10, <1>11, <1>12, <1>13, <1>14, <1>15 DEF CarryInv

LEMMA CarryStep ==
  ASSUME SimTypeOK, FramesInFlight, CarryInv, [SimNext]_simVars
  PROVE  CarryInv'
<1>1. CASE UNCHANGED simVars
  <2>1. CarryUnchanged
    BY <1>1 DEF simVars, pubState, procState, subState, moveState, CarryUnchanged
  <2>2. QED
    BY <2>1, CarryKept
<1>2. ASSUME NEW n \in Nodes, Serve(n) PROVE CarryInv'
  <2>1. CarryUnchanged
    BY <1>2 DEF Serve, pubState, procState, subState, moveState, CarryUnchanged
  <2>2. QED
    BY <2>1, CarryKept
<1>3. ASSUME NEW t \in Tx, WakePublisher(t) PROVE CarryInv'
  <2>1. CarryUnchanged
    BY <1>3 DEF WakePublisher, PU!PublisherWake, procState, subState, moveState, CarryUnchanged
  <2>2. QED
    BY <2>1, CarryKept
<1>4. ASSUME NEW n \in Nodes, Subscribe(n) PROVE CarryInv'
  BY <1>4, CarrySubscribe
<1>5. ASSUME NEW n \in Nodes, Move(n) PROVE CarryInv'
  BY <1>5, CarryMove
<1>6. ASSUME NEW t \in Tx, Transmit(t) PROVE CarryInv'
  BY <1>6, CarryTransmit
<1>7. ASSUME NEW t \in Tx, Publish(t) PROVE CarryInv'
  BY <1>7, CarryPublish
<1>8. CASE Mix
  BY <1>8, CarryMix
<1>9. QED
  BY <1>1, <1>2, <1>3, <1>4, <1>5, <1>6, <1>7, <1>8 DEF SimNext

\* On the way from a transmitter to a node no sample is lost between nodes that always
\* were apart, none is in two places, and none overtakes another: not in the publisher's
\* buffers, in the channels and the processor, or in the subscriber's sums.
THEOREM SamplesStayInOrder == SimSpec => []CarryInv
<1>1. SimTypeOK /\ FramesInFlight /\ CarryInv /\ [SimNext]_simVars => CarryInv'
  BY CarryStep
<1>2. QED
  BY CarryInit, SimTypeCorrect, FramesStayInFlight, <1>1, PTL DEF SimSpec

(***************************************************************************)
(* The simulator implements Medium.                                        *)
(***************************************************************************)
\* Ascending numbers of which none is missing among the lower ones count from 1.
LEMMA CountsFromOne ==
  ASSUME NEW w \in Nat, NEW h \in Seq(1 .. w), Radio!InOrder(h),
         \A v \in 1 .. w : v \in Vals(h) \/ \A u \in Vals(h) : u < v
  PROVE  Radio!NoneMissing(h)
<1> DEFINE bad == {i \in DOMAIN h : h[i] # i}
<1>1. SUFFICES ASSUME bad # {} PROVE FALSE
  BY DEF Radio!NoneMissing
<1>2. Len(h) \in Nat /\ DOMAIN h = 1 .. Len(h) /\ \A i \in DOMAIN h : h[i] \in 1 .. w
  BY LenProperties, ElementOfSeq
<1>3. bad \subseteq Nat
  BY <1>2
<1>4. PICK i \in bad : \A j \in bad : i <= j
  <2> HIDE DEF bad
  <2>1. QED
    BY <1>1, <1>3, SmallestExists
<1>5. i \in DOMAIN h /\ h[i] # i /\ i \in Nat \ {0} /\ i <= Len(h) /\ h[i] \in 1 .. w
  BY <1>2, <1>4
<1>6. \A j \in DOMAIN h : j < i => h[j] = j
  BY <1>2, <1>4
<1>7. i < h[i]
  <2>1. CASE i = 1
    BY <1>5, <2>1
  <2>2. CASE i # 1
    <3>1. i - 1 \in DOMAIN h /\ i - 1 < i
      BY <1>2, <1>5, <2>2
    <3>2. h[i - 1] = i - 1 /\ h[i - 1] < h[i]
      BY <1>5, <1>6, <3>1 DEF Radio!InOrder
    <3>3. QED
      BY <1>5, <3>2
  <2>3. QED
    BY <2>1, <2>2
<1>8. i \in 1 .. w
  BY <1>5, <1>7
<1>9. h[i] \in Vals(h)
  BY <1>5 DEF Vals
<1>10. i \in Vals(h)
  BY <1>5, <1>7, <1>8, <1>9
<1>11. PICK k \in DOMAIN h : h[k] = i
  BY <1>10 DEF Vals
<1>12. k \in Nat /\ k # i
  BY <1>2, <1>5, <1>11
<1>13. CASE k < i
  BY <1>6, <1>11, <1>12, <1>13
<1>14. CASE i < k
  <2>1. h[i] < h[k]
    BY <1>5, <1>14 DEF Radio!InOrder
  <2>2. QED
    BY <1>5, <1>7, <1>11, <2>1
<1>15. QED
  BY <1>5, <1>12, <1>13, <1>14

\* What the nodes have heard is what Medium allows.
HeardWell ==
  \A n \in Nodes, t \in Tx :
    /\ heard[n][t] \in Seq(Numbers(t)) /\ Radio!InOrder(heard[n][t])
    /\ <<n, NodeOf[t]>> \in apart => Radio!NoneMissing(heard[n][t])
    /\ NodeOf[t] = n => heard[n][t] = <<>>

LEMMA WrittenNat ==
  ASSUME SimTypeOK, NEW t \in Tx
  PROVE  Written(written[t]) \in Nat
<1>1. written[t] \in Nat
  BY DEF SimTypeOK
<1>2. 0 <= BurstLen - (written[t] % BurstLen)
  BY <1>1, SimulatorAssumption DEF BurstLen
<1>3. WritesNext(written[t], 0)
  BY <1>1, <1>2, NextNumbers
<1>4. QED
  BY <1>3 DEF WritesNext

LEMMA CarriedWell == SimTypeOK /\ CarryInv => HeardWell
<1> SUFFICES ASSUME SimTypeOK, CarryInv, NEW n \in Nodes, NEW t \in Tx, <<n, NodeOf[t]>> \in apart
             PROVE  Radio!NoneMissing(heard[n][t])
  BY DEF HeardWell, CarryInv, HeardInv
<1> DEFINE w == Written(written[t])
<1>1. heard[n][t] \in Seq(1 .. w) /\ Radio!InOrder(heard[n][t]) /\ Numbers(t) = 1 .. w
  BY DEF CarryInv, HeardInv, Numbers
<1>2. w \in Nat
  BY WrittenNat
<1>3. ASSUME NEW v \in 1 .. w, v \notin Vals(heard[n][t])
      PROVE  \A u \in Vals(heard[n][t]) : u < v
  <2>1. Somewhere(n, t, v)
    BY <1>1, <1>3 DEF CarryInv, NoneGone
  <2>2. /\ \A x \in Ready(n) : Below(Vals(heard[n][t]), Out(n, t, x))
        /\ \A f \in Flying(t) : Below(Vals(heard[n][t]), Vals(f.samples))
        /\ Below(Vals(heard[n][t]), Vals(Rest(t)))
    BY DEF CarryInv, HeardOrder
  <2>3. QED
    BY <1>3, <2>1, <2>2 DEF Somewhere, Below
<1> HIDE DEF w
<1>4. QED
  BY <1>1, <1>2, <1>3, CountsFromOne

LEMMA HeardPrefix ==
  ASSUME NEW S, NEW s \in Seq(S), NEW t \in Seq(S)
  PROVE  Radio!IsPrefix(s, s \o t) /\ Radio!IsPrefix(s, s)
<1>1. /\ s \o t \in Seq(S) /\ Len(s \o t) = Len(s) + Len(t)
      /\ \A i \in 1 .. Len(s) : (s \o t)[i] = s[i]
  BY ConcatProperties
<1>2. Len(s) \in Nat /\ Len(s) <= Len(s \o t)
  BY <1>1
<1>3. \A u \in Seq(S) : Len(s) <= Len(u) => SubSeq(u, 1, Len(s)) = [i \in 1 .. Len(s) |-> u[i]]
  BY <1>2, SubSeqProperties
<1>4. QED
  BY <1>1, <1>2, <1>3 DEF Radio!IsPrefix

\* A call of a subscriber is a Hear of Medium, a call of a transmitter a Send.
LEMMA SubscribeHears ==
  ASSUME SimTypeOK, CarryInv, HeardWell', NEW n \in Nodes, Subscribe(n)
  PROVE  Radio!Hear(n)
<1>1. /\ UNCHANGED <<written, apart>>
      /\ \A m \in Nodes \ {n} : heard'[m] = heard[m]
      /\ \A t \in Tx : \E h \in Seq(Nat) : heard'[n][t] = heard[n][t] \o h
  BY CarrySubscribe
<1>2. ASSUME NEW t \in Tx
      PROVE  /\ Radio!IsPrefix(heard[n][t], heard'[n][t])
             /\ Radio!InOrder(heard'[n][t])
             /\ <<n, NodeOf[t]>> \in apart => Radio!NoneMissing(heard'[n][t])
             /\ NodeOf[t] = n => heard'[n][t] = <<>>
             /\ \A i \in DOMAIN heard'[n][t] :
                  heard'[n][t][i] <= Cardinality({k \in 1 .. written[t] : SampleAt(k) # 0})
  <2>1. PICK h \in Seq(Nat) : heard'[n][t] = heard[n][t] \o h
    BY <1>1
  <2>2. heard[n][t] \in Seq(Nat)
    BY DEF CarryInv, HeardTyped
  <2>3. Radio!IsPrefix(heard[n][t], heard'[n][t])
    BY <2>1, <2>2, HeardPrefix
  <2>4. /\ heard'[n][t] \in Seq(Numbers(t)) /\ Radio!InOrder(heard'[n][t])
        /\ <<n, NodeOf[t]>> \in apart => Radio!NoneMissing(heard'[n][t])
        /\ NodeOf[t] = n => heard'[n][t] = <<>>
    BY <1>1, SameWritten DEF HeardWell, Radio!InOrder, Radio!NoneMissing
  <2>5. Cardinality({k \in 1 .. written[t] : SampleAt(k) # 0}) = Written(written[t])
    BY DEF CarryInv, SentCounted
  <2>6. \A i \in DOMAIN heard'[n][t] : heard'[n][t][i] <= Written(written[t])
    <3>1. heard'[n][t] \in Seq(1 .. Written(written[t])) /\ Written(written[t]) \in Nat
      BY <2>4, WrittenNat DEF Numbers
    <3>2. \A i \in DOMAIN heard'[n][t] : heard'[n][t][i] \in 1 .. Written(written[t])
      BY <3>1, ElementOfSeq, LenProperties
    <3>3. QED
      BY <3>1, <3>2
  <2>7. QED
    BY <2>3, <2>4, <2>5, <2>6
<1>3. QED
  BY <1>1, <1>2 DEF Radio!Hear

LEMMA TransmitSends ==
  ASSUME SimTypeOK, CarryInv, CarryInv', NEW t \in Tx, Transmit(t)
  PROVE  Radio!Send
<1>1. UNCHANGED <<heard, apart>>
  BY DEF Transmit, subState, moveState
<1>2. \A u \in Tx :
        /\ Cardinality({k \in 1 .. written[u] : SampleAt(k) # 0}) = Written(written[u])
        /\ Cardinality({k \in 1 .. written'[u] : SampleAt(k) # 0}) = Written(written'[u])
  BY DEF CarryInv, SentCounted
<1>3. ASSUME NEW u \in Tx PROVE Written(written'[u]) >= Written(written[u])
  <2>1. CASE u = t
    <3>1. /\ Written(written[t]) <= Written(written'[t])
          /\ Written(written[t]) \in Nat /\ Written(written'[t]) \in Nat
      BY TransmitRest
    <3>2. QED
      BY <2>1, <3>1
  <2>2. CASE u # t
    <3>1. written'[u] = written[u]
      BY <2>2, TransmitRest
    <3>2. Written(written[u]) \in Nat
      BY WrittenNat
    <3>3. QED
      BY <3>1, <3>2
  <2>3. QED
    BY <2>1, <2>2
<1>4. QED
  BY <1>1, <1>2, <1>3 DEF Radio!Send

mediumVars == <<written, heard, apart>>

LEMMA MediumUnchanged ==
  ASSUME UNCHANGED mediumVars
  PROVE  UNCHANGED <<[t \in Tx |-> Cardinality({k \in 1 .. written[t] : SampleAt(k) # 0})], heard, apart>>
BY DEF mediumVars

\* Nodes that are in different places all the time hear every sample of each other's
\* transmitters in order, none lost, doubled or cut off, through buffers, publishers,
\* processor and subscribers of any size and however the tasks take turns; the others
\* may miss some of them (Publisher::work, ChannelProcessor::run, ChannelSubscriber::work).
THEOREM SimulatorImplementsMedium == SimSpec => CarriesSignals
<1>1. SimInit => Radio!Init
  <2>1. SUFFICES ASSUME SimInit PROVE Radio!Init
    OBVIOUS
  <2>2. \A t \in Tx : {k \in 1 .. written[t] : SampleAt(k) # 0} = {}
    BY <2>1 DEF SimInit
  <2>3. heard = [n \in Nodes |-> [t \in Tx |-> <<>>]] /\ apart \subseteq Nodes \X Nodes
    BY <2>1 DEF SimInit, SU!SubscriberInit, PairsApart
  <2>4. QED
    BY <2>2, <2>3, FS_EmptySet DEF Radio!Init
<1>2. ASSUME SimTypeOK, CarryInv, CarryInv', HeardWell', [SimNext]_simVars
      PROVE  [Radio!Next]_<<[t \in Tx |-> Cardinality({k \in 1 .. written[t] : SampleAt(k) # 0})],
                            heard, apart>>
  <2>1. ASSUME NEW n \in Nodes, Subscribe(n) PROVE Radio!Next
    BY <1>2, <2>1, SubscribeHears DEF Radio!Next
  <2>2. ASSUME NEW t \in Tx, Transmit(t) PROVE Radio!Next
    BY <1>2, <2>2, TransmitSends DEF Radio!Next
  <2>3. ASSUME NEW n \in Nodes, Move(n) PROVE Radio!Next
    <3>1. apart' \subseteq apart /\ UNCHANGED <<written, heard>>
      BY <2>3 DEF Move, subState
    <3>2. QED
      BY <3>1 DEF Radio!Next, Radio!Meet
  <2>4. CASE \/ UNCHANGED simVars
             \/ \E n \in Nodes : Serve(n)
             \/ \E t \in Tx : WakePublisher(t) \/ Publish(t)
             \/ Mix
    <3>1. UNCHANGED mediumVars
      BY <2>4 DEF simVars, Serve, WakePublisher, Publish, Mix, subState, moveState, mediumVars
    <3>2. QED
      BY <3>1, MediumUnchanged
  <2>5. QED
    BY <1>2, <2>1, <2>2, <2>3, <2>4 DEF SimNext
<1>3. SimTypeOK /\ CarryInv => HeardWell
  BY CarriedWell
<1>4. QED
  BY <1>1, <1>2, <1>3, SimTypeCorrect, SamplesStayInOrder, PTL DEF SimSpec, CarriesSignals, Radio!Spec

(***************************************************************************)
(* What is left when every task waits.                                     *)
(***************************************************************************)
\* What the publisher of t has not sent is the last that was written, and when nobody
\* will call it there is less than a buffer or less than a frame of it.
EndsAt(s, w) == Len(s) <= w /\ \A i \in 1 .. Len(s) : s[i] = SampleAt(w - Len(s) + i)
EndInv == \A t \in Tx : EndsAt(Rest(t), written[t])
WakeInv ==
  \A t \in Tx :
    /\ Len(input[t]) <= Capacity
    /\ ~pub_notified[t] /\ ~pub_awake[t] =>
         Len(input[t]) < Capacity /\ (input[t] = <<>> \/ tmpbuf[t] = <<>>)

LEMMA EndsMore ==
  ASSUME NEW w \in Nat, NEW s \in Seq(Nat), NEW new \in Seq(Nat), EndsAt(s, w),
         \A i \in 1 .. Len(new) : new[i] = SampleAt(w + i)
  PROVE  EndsAt(s \o new, w + Len(new))
<1> DEFINE l == Len(s) m == Len(new)
<1>1. /\ l \in Nat /\ m \in Nat /\ Len(s \o new) = l + m /\ l <= w
      /\ \A i \in 1 .. l : (s \o new)[i] = s[i] /\ s[i] = SampleAt(w - l + i)
      /\ \A i \in 1 .. m : (s \o new)[l + i] = new[i]
  BY ConcatProperties, LenProperties DEF EndsAt
<1>2. \A i \in 1 .. m : new[i] = SampleAt(w + i)
  OBVIOUS
<1> HIDE DEF l, m
<1>3. l + m <= w + m
  BY <1>1
<1>4. ASSUME NEW i \in 1 .. l + m
      PROVE  (s \o new)[i] = SampleAt((w + m) - (l + m) + i)
  <2>1. (w + m) - (l + m) + i = w - l + i
    BY <1>1
  <2>2. CASE i \in 1 .. l
    BY <1>1, <2>1, <2>2
  <2>3. CASE i \notin 1 .. l
    <3>1. i - l \in 1 .. m /\ l + (i - l) = i /\ w + (i - l) = w - l + i
      BY <1>1, <2>3
    <3>2. (s \o new)[l + (i - l)] = new[i - l] /\ new[i - l] = SampleAt(w + (i - l))
      BY <1>1, <1>2, <3>1
    <3>3. QED
      BY <2>1, <3>1, <3>2
  <2>4. QED
    BY <2>2, <2>3
<1>5. QED
  BY <1>1, <1>3, <1>4 DEF EndsAt, l, m

LEMMA EndsLess ==
  ASSUME NEW w \in Nat, NEW gone \in Seq(Nat), NEW left \in Seq(Nat), EndsAt(gone \o left, w)
  PROVE  EndsAt(left, w)
<1> DEFINE g == Len(gone) l == Len(left) s == gone \o left
<1>1. /\ g \in Nat /\ l \in Nat /\ Len(s) = g + l
      /\ \A i \in 1 .. l : s[g + i] = left[i]
  BY ConcatProperties, LenProperties
<1>2. Len(s) <= w /\ \A i \in 1 .. Len(s) : s[i] = SampleAt(w - Len(s) + i)
  BY DEF EndsAt
<1> HIDE DEF g, l, s
<1>3. g + l <= w /\ \A i \in 1 .. g + l : s[i] = SampleAt(w - (g + l) + i)
  BY <1>1, <1>2
<1>4. ASSUME NEW i \in 1 .. l PROVE left[i] = SampleAt(w - l + i)
  <2>1. g + i \in 1 .. g + l /\ w - (g + l) + (g + i) = w - l + i
    BY <1>1
  <2>2. s[g + i] = SampleAt(w - (g + l) + (g + i))
    BY <1>3, <2>1
  <2>3. QED
    BY <1>1, <2>1, <2>2
<1>5. l <= w
  BY <1>1, <1>3
<1>6. QED
  BY <1>4, <1>5 DEF EndsAt, l

LEMMA EndStep ==
  ASSUME SimTypeOK, EndInv, [SimNext]_simVars
  PROVE  EndInv'
<1>1. ASSUME UNCHANGED <<written, tmpbuf, input>> PROVE EndInv'
  BY <1>1, SameRest DEF EndInv
<1>2. ASSUME NEW t \in Tx, Transmit(t) PROVE EndInv'
  <2>1. \A u \in Tx \ {t} : Rest(u)' = Rest(u) /\ written'[u] = written[u]
    BY <1>2, TransmitRest
  <2>2. PICK new \in Seq(Nat) :
          /\ Rest(t)' = Rest(t) \o new
          /\ written'[t] = written[t] + Len(new)
          /\ \A i \in 1 .. Len(new) : new[i] = SampleAt(written[t] + i)
    BY <1>2, TransmitRest
  <2>3. Rest(t) \in Seq(Nat) /\ written[t] \in Nat /\ EndsAt(Rest(t), written[t])
    BY RestTyped DEF SimTypeOK, EndInv
  <2>4. EndsAt(Rest(t) \o new, written[t] + Len(new))
    BY <2>2, <2>3, EndsMore
  <2>5. ASSUME NEW u \in Tx PROVE EndsAt(Rest(u)', written'[u])
    <3>1. CASE u = t
      BY <2>2, <2>4, <3>1
    <3>2. CASE u # t
      BY <2>1, <3>2 DEF EndInv
    <3>3. QED
      BY <3>1, <3>2
  <2>6. QED
    BY <2>5 DEF EndInv, EndsAt
<1>3. ASSUME NEW t \in Tx, Publish(t) PROVE EndInv'
  <2>1. /\ \A u \in Tx \ {t} : Rest(u)' = Rest(u)
        /\ \E gone \in Seq(Nat), left \in Seq(Nat) : Rest(t) = gone \o left /\ Rest(t)' = left
    BY <1>3, PublishRest
  <2>2. written' = written
    BY <1>3 DEF Publish
  <2>3. written[t] \in Nat /\ EndsAt(Rest(t), written[t])
    BY DEF SimTypeOK, EndInv
  <2>4. EndsAt(Rest(t)', written[t])
    BY <2>1, <2>3, EndsLess
  <2>5. \A u \in Tx : EndsAt(Rest(u)', written'[u])
    BY <2>1, <2>2, <2>4 DEF EndInv
  <2>6. QED
    BY <2>5 DEF EndInv, EndsAt
<1>4. CASE UNCHANGED simVars
  BY <1>1, <1>4 DEF simVars, pubState
<1>5. ASSUME NEW n \in Nodes, Serve(n) \/ Subscribe(n) \/ Move(n) PROVE EndInv'
  BY <1>1, <1>5 DEF Serve, Subscribe, Move, pubState
<1>6. ASSUME NEW t \in Tx, WakePublisher(t) PROVE EndInv'
  BY <1>1, <1>6 DEF WakePublisher, PU!PublisherWake
<1>7. CASE Mix
  BY <1>1, <1>7 DEF Mix, pubState
<1>8. QED
  BY <1>2, <1>3, <1>4, <1>5, <1>6, <1>7 DEF SimNext

\* A call of the publisher takes all there is, or fills the frame and sends it off.
LEMMA PublishDrains ==
  ASSUME SimTypeOK, NEW t \in Tx, Publish(t)
  PROVE  /\ input'[t] = <<>> \/ (tmpbuf'[t] = <<>> /\ Len(input'[t]) < Len(input[t]))
         /\ \A u \in Tx \ {t} : input'[u] = input[u] /\ tmpbuf'[u] = tmpbuf[u]
<1> DEFINE k == PU!Taken(t) l == Len(input[t]) b == Len(tmpbuf[t])
<1>1. PU!PublisherWork(t)
  BY DEF Publish
<1>2. /\ input[t] \in Seq(Nat) /\ tmpbuf[t] \in Seq(Nat) /\ l \in Nat /\ b \in Nat /\ b < FrameLen
      /\ FrameLen \in Nat /\ input \in [Tx -> Seq(Nat)] /\ tmpbuf \in [Tx -> Seq(Nat)]
  <2>1. /\ input \in [Tx -> Seq(Nat)] /\ tmpbuf \in [Tx -> Seq(Nat)] /\ b < FrameLen
        /\ FrameLen \in Nat
    BY SimulatorAssumption DEF SimTypeOK
  <2>2. QED
    BY <2>1, LenProperties
<1>3. k = IF l <= FrameLen - b THEN l ELSE FrameLen - b
  BY DEF PU!Taken
<1>4. /\ input'[t] = SubSeq(input[t], k + 1, l)
      /\ \A u \in Tx \ {t} : input'[u] = input[u] /\ tmpbuf'[u] = tmpbuf[u]
  <2>1. input' = [input EXCEPT ![t] = SubSeq(input[t], k + 1, l)]
    BY <1>1 DEF PU!PublisherWork
  <2>2. \A u \in Tx \ {t} : tmpbuf'[u] = tmpbuf[u]
    BY <1>1, <1>2 DEF PU!PublisherWork
  <2>3. QED
    BY <1>2, <2>1, <2>2
<1>5. CASE k = l
  <2>1. SubSeq(input[t], l + 1, l) = <<>>
    BY <1>2, SubSeqEmpty
  <2>2. QED
    BY <1>4, <1>5, <2>1
<1>6. CASE k # l
  <2> DEFINE front == SubSeq(input[t], 1, k)
  <2> HIDE DEF k
  <2>1. k = FrameLen - b /\ k < l /\ k \in Nat \ {0}
    BY <1>2, <1>3, <1>6
  <2>2. input[t] # <<>>
    BY <1>2, <2>1
  <2>3. PU!Filled(t) = tmpbuf[t] \o front
    BY <2>2 DEF PU!Filled, k
  <2>4. front \in Seq(Nat) /\ Len(front) = k
    <3>1. \A i \in 1 .. k : input[t][i] \in Nat
      BY <1>2, <2>1
    <3>2. QED
      BY <1>2, <2>1, <3>1, SubSeqProperties
  <2> HIDE DEF front
  <2>5. Len(PU!Filled(t)) = b + k
    BY <1>2, <2>3, <2>4, ConcatProperties
  <2>6. Len(PU!Filled(t)) >= FrameLen
    BY <1>2, <2>1, <2>5
  <2>7. tmpbuf' = [tmpbuf EXCEPT ![t] = <<>>]
    BY <1>1, <2>6 DEF PU!PublisherWork
  <2>8. tmpbuf'[t] = <<>>
    BY <1>2, <2>7
  <2>9. Len(SubSeq(input[t], k + 1, l)) = l - k
    <3>1. \A i \in 1 .. l : input[t][i] \in Nat
      BY <1>2
    <3>2. QED
      BY <1>2, <2>1, <3>1, SubSeqProperties
  <2>10. QED
    BY <1>2, <1>4, <2>1, <2>8, <2>9
<1>7. QED
  BY <1>4, <1>5, <1>6

LEMMA WakeStep ==
  ASSUME SimTypeOK, WakeInv, [SimNext]_simVars
  PROVE  WakeInv'
<1>0. /\ Capacity \in Nat \ {0} /\ Len(<<>>) = 0
      /\ \A t \in Tx : Len(input[t]) \in Nat
  BY SimulatorAssumption DEF SimTypeOK
<1>1. ASSUME UNCHANGED <<tmpbuf, input, pub_notified, pub_awake>> PROVE WakeInv'
  BY <1>1 DEF WakeInv
<1>2. ASSUME NEW t \in Tx, Transmit(t) PROVE WakeInv'
  <2> DEFINE n == SmallerOf(Capacity - Len(input[t]), BurstLen - (written[t] % BurstLen))
             new == [i \in 1 .. n |-> SampleAt(written[t] + i)]
  <2>1. /\ input' = [input EXCEPT ![t] = input[t] \o new]
        /\ pub_notified' = [pub_notified EXCEPT ![t] = TRUE]
        /\ UNCHANGED <<tmpbuf, pub_awake>>
        /\ Len(input[t]) < Capacity
    BY <1>2 DEF Transmit
  <2>2. BurstLen \in Nat \ {0} /\ written[t] \in Nat /\ input[t] \in Seq(Nat)
    <3>1. BurstLen \in Nat \ {0}
      BY SimulatorAssumption DEF BurstLen
    <3>2. written[t] \in Nat /\ input[t] \in Seq(Nat)
      BY DEF SimTypeOK
    <3>3. QED
      BY <3>1, <3>2
  <2>3. BurstLen - (written[t] % BurstLen) \in Nat
    BY <2>2
  <2>4. n \in Nat /\ n <= Capacity - Len(input[t])
    BY <1>0, <2>1, <2>3 DEF SmallerOf
  <2> HIDE DEF n
  <2>5. Len(input[t] \o new) = Len(input[t]) + n
    <3>1. new \in Seq(Nat) /\ Len(new) = n
      <4>1. \A i \in 1 .. n : SampleAt(written[t] + i) \in Nat
        BY <2>2, <2>4, SampleNat
      <4>2. new \in [1 .. n -> Nat]
        BY <4>1
      <4>3. QED
        BY <2>4, <4>2, SeqDef
    <3> HIDE DEF new
    <3>2. QED
      BY <2>2, <3>1, ConcatProperties
  <2> HIDE DEF new
  <2>6. Len(input'[t]) <= Capacity /\ pub_notified'[t] = TRUE
    BY <1>0, <2>1, <2>4, <2>5 DEF SimTypeOK
  <2>7. \A u \in Tx \ {t} : input'[u] = input[u] /\ pub_notified'[u] = pub_notified[u]
    BY <2>1 DEF SimTypeOK
  <2>8. ASSUME NEW u \in Tx
        PROVE  /\ Len(input'[u]) <= Capacity
               /\ ~pub_notified'[u] /\ ~pub_awake'[u] =>
                    Len(input'[u]) < Capacity /\ (input'[u] = <<>> \/ tmpbuf'[u] = <<>>)
    <3>1. CASE u = t
      BY <2>6, <3>1
    <3>2. CASE u # t
      BY <2>1, <2>7, <3>2 DEF WakeInv
    <3>3. QED
      BY <3>1, <3>2
  <2>9. QED
    BY <2>8 DEF WakeInv
<1>3. ASSUME NEW t \in Tx, Publish(t) PROVE WakeInv'
  <2>1. /\ input'[t] = <<>> \/ (tmpbuf'[t] = <<>> /\ Len(input'[t]) < Len(input[t]))
        /\ \A u \in Tx \ {t} : input'[u] = input[u] /\ tmpbuf'[u] = tmpbuf[u]
    BY <1>3, PublishDrains
  <2>2. UNCHANGED pub_notified /\ pub_awake' = [pub_awake EXCEPT ![t] = FALSE]
    BY <1>3 DEF Publish, PU!PublisherWork
  <2>3. \A u \in Tx \ {t} : pub_awake'[u] = pub_awake[u]
    BY <2>2 DEF SimTypeOK
  <2>4. Len(input[t]) <= Capacity /\ Len(input[t]) \in Nat
    BY <1>0 DEF WakeInv
  <2>5. CASE input'[t] = <<>>
    BY <1>0, <2>1, <2>2, <2>3, <2>5 DEF WakeInv
  <2>6. CASE input'[t] # <<>>
    <3>1. Len(input'[t]) < Capacity /\ tmpbuf'[t] = <<>>
      <4>1. Len(input'[t]) \in Nat
        <5>1. input'[t] \in Seq(Nat)
          <6>1. SimTypeOK'
            BY <1>3, TypePublish
          <6>2. QED
            BY <6>1 DEF SimTypeOK
        <5>2. QED
          BY <5>1
      <4>2. QED
        BY <1>0, <2>1, <2>4, <2>6, <4>1
    <3>2. QED
      BY <1>0, <2>1, <2>2, <2>3, <3>1 DEF WakeInv
  <2>7. QED
    BY <2>5, <2>6
<1>4. ASSUME NEW t \in Tx, WakePublisher(t) PROVE WakeInv'
  <2>1. /\ UNCHANGED <<input, tmpbuf>>
        /\ pub_notified' = [pub_notified EXCEPT ![t] = FALSE]
        /\ pub_awake' = [pub_awake EXCEPT ![t] = TRUE]
    BY <1>4 DEF WakePublisher, PU!PublisherWake
  <2>2. pub_awake'[t] = TRUE
        /\ \A u \in Tx \ {t} : pub_awake'[u] = pub_awake[u] /\ pub_notified'[u] = pub_notified[u]
    BY <2>1 DEF SimTypeOK
  <2>3. QED
    BY <2>1, <2>2 DEF WakeInv
<1>5. CASE UNCHANGED simVars
  BY <1>1, <1>5 DEF simVars, pubState
<1>6. ASSUME NEW n \in Nodes, Serve(n) \/ Subscribe(n) \/ Move(n) PROVE WakeInv'
  BY <1>1, <1>6 DEF Serve, Subscribe, Move, pubState
<1>7. CASE Mix
  BY <1>1, <1>7 DEF Mix, pubState
<1>8. QED
  BY <1>2, <1>3, <1>4, <1>5, <1>6, <1>7 DEF SimNext

LEMMA QuietAlways == SimSpec => [](EndInv /\ WakeInv)
<1>1. SimInit => EndInv /\ WakeInv
  <2>1. SUFFICES ASSUME SimInit PROVE EndInv /\ WakeInv
    OBVIOUS
  <2>2. \A t \in Tx : /\ written[t] = 0 /\ input[t] = <<>> /\ tmpbuf[t] = <<>>
                      /\ Rest(t) = <<>> /\ pub_notified[t] = TRUE
    BY <2>1 DEF SimInit, PU!PublisherInit, Rest
  <2>3. Capacity \in Nat
    BY SimulatorAssumption
  <2>4. QED
    BY <2>2, <2>3 DEF EndInv, EndsAt, WakeInv
<1>2. SimTypeOK /\ EndInv /\ WakeInv /\ [SimNext]_simVars => EndInv' /\ WakeInv'
  BY EndStep, WakeStep
<1>3. QED
  BY <1>1, <1>2, SimTypeCorrect, PTL DEF SimSpec

\* The last samples of whole bursts are silence, as many as the pad is long.
LEMMA PadIsSilent ==
  ASSUME NEW a \in Nat, NEW l \in Nat, l <= Pad, l <= a * BurstLen, NEW i \in 1 .. l
  PROVE  SampleAt(a * BurstLen - l + i) = 0
<1> DEFINE B == BurstLen k == a * B - l + i
<1>1. B \in Nat \ {0} /\ Signal \in Nat /\ Pad \in Nat /\ B = Signal + Pad
  BY SimulatorAssumption DEF BurstLen
<1>2. l <= a * B /\ SampleAt(k) = IF ((k - 1) % B) + 1 <= Signal
                                   THEN ((k - 1) \div B) * Signal + (((k - 1) % B) + 1) ELSE 0
  BY DEF SampleAt
<1> HIDE DEF B
<1>3. a # 0
  <2>1. 0 * B = 0
    BY <1>1
  <2>2. QED
    BY <1>2, <2>1
<1>4. a - 1 \in Nat /\ a * B = B * (a - 1) + B /\ B * (a - 1) \in Nat
  <2>1. a - 1 \in Nat
    BY <1>3
  <2>2. a * B = B * ((a - 1) + 1)
    BY <1>1
  <2>3. B * ((a - 1) + 1) = B * (a - 1) + B
    BY <1>1, <2>1
  <2>4. B * (a - 1) \in Nat
    BY <1>1, <2>1
  <2>5. QED
    BY <2>1, <2>2, <2>3, <2>4
<1> DEFINE r == B - (l - i) - 1
<1>5. r \in Nat /\ r < B /\ k - 1 = B * (a - 1) + r /\ r + 1 > Signal
  BY <1>1, <1>4
<1> HIDE DEF k, r
<1>6. Divides(k - 1, B, a - 1, r)
  BY <1>1, <1>4, <1>5 DEF Divides
<1>7. (k - 1) % B = r
  BY <1>6, DivisionIsUnique
<1>8. ~(r + 1 <= Signal)
  BY <1>1, <1>5
<1>9. SampleAt(k) = 0
  BY <1>2, <1>7, <1>8
<1>10. QED
  BY <1>9 DEF k, B

LEMMA WholeBurstsWritten ==
  ASSUME NEW a \in Nat
  PROVE  Written(a * BurstLen) = a * Signal
<1> DEFINE B == BurstLen
<1>1. B \in Nat \ {0} /\ Signal \in Nat
  BY SimulatorAssumption DEF BurstLen
<1>2. Written(a * B) = ((a * B) \div B) * Signal + SmallerOf((a * B) % B, Signal)
  BY DEF Written
<1> HIDE DEF B
<1>3. a * B = B * a + 0
  BY <1>1
<1>4. Divides(a * B, B, a, 0)
  BY <1>1, <1>3 DEF Divides
<1>5. (a * B) \div B = a /\ (a * B) % B = 0
  BY <1>4, DivisionIsUnique
<1>6. a * Signal \in Nat /\ SmallerOf(0, Signal) = 0
  BY <1>1 DEF SmallerOf
<1>7. Written(a * B) = a * Signal
  BY <1>2, <1>5, <1>6
<1>8. QED
  BY <1>7 DEF B

LEMMA CountsAll ==
  ASSUME NEW w \in Nat, NEW h \in Seq(1 .. w), Radio!NoneMissing(h), 1 .. w \subseteq Vals(h)
  PROVE  Len(h) = w
<1>1. Len(h) \in Nat /\ DOMAIN h = 1 .. Len(h) /\ \A i \in 1 .. Len(h) : h[i] \in 1 .. w /\ h[i] = i
  BY LenProperties, ElementOfSeq DEF Radio!NoneMissing
<1>2. Len(h) <= w
  <2>1. CASE Len(h) = 0
    BY <2>1
  <2>2. CASE Len(h) # 0
    <3>1. Len(h) \in 1 .. Len(h)
      BY <1>1, <2>2
    <3>2. Len(h) \in 1 .. w
      BY <1>1, <3>1
    <3>3. QED
      BY <3>2
  <2>3. QED
    BY <2>1, <2>2
<1>3. w <= Len(h)
  <2>1. CASE w = 0
    BY <1>1, <2>1
  <2>2. CASE w # 0
    <3>1. w \in Vals(h)
      BY <2>2
    <3>2. PICK i \in 1 .. Len(h) : h[i] = w
      BY <1>1, <3>1 DEF Vals
    <3>3. QED
      BY <1>1, <3>2
  <2>3. QED
    BY <2>1, <2>2
<1>4. Len(h) \in Nat
  BY <1>1
<1> DEFINE l == Len(h)
<1>5. l \in Nat /\ l <= w /\ w <= l
  BY <1>2, <1>3, <1>4
<1> HIDE DEF l
<1>6. l = w
  BY <1>5
<1>7. QED
  BY <1>6 DEF l

LEMMA AtRestAllHeard ==
  ASSUME PadCoversRest, SimTypeOK, CarryInv, HeardWell, EndInv, WakeInv
  PROVE  RestsWhenHeard
<1>1. SUFFICES ASSUME AtRest, NEW p \in apart, NEW t \in Tx, NodeOf[t] = p[2]
               PROVE  Len(heard[p[1]][t]) = accepted[t] * Signal
  BY DEF RestsWhenHeard, AllHeard
<1> DEFINE n == p[1] a == accepted[t] w == written[t] l == Len(Rest(t))
<1>2. n \in Nodes /\ <<n, NodeOf[t]>> \in apart
  <2>1. apart \subseteq Nodes \X Nodes
    BY DEF SimTypeOK
  <2>2. QED
    BY <1>1, <2>1
<1>3. a \in Nat /\ w \in Nat /\ Rest(t) \in Seq(Nat) /\ input[t] \in Seq(Nat) /\ tmpbuf[t] \in Seq(Nat)
  BY RestTyped DEF SimTypeOK
<1>4. /\ Capacity \in Nat /\ FrameLen \in Nat /\ Pad \in Nat
      /\ Capacity <= Pad + 1 /\ FrameLen <= Pad + 1
  BY SimulatorAssumption DEF PadCoversRest
<1>5. Len(input[t]) < Capacity /\ (input[t] = <<>> \/ tmpbuf[t] = <<>>)
  BY <1>1 DEF AtRest, WakeInv
<1>6. w = a * BurstLen
  <2>1. Len(input[t]) # Capacity
    BY <1>3, <1>4, <1>5
  <2>2. QED
    BY <1>1, <2>1 DEF AtRest
<1>7. l <= Pad
  <2>1. CASE input[t] = <<>>
    <3>1. Rest(t) = tmpbuf[t]
      BY <1>3, <2>1, ConcatEmptySeq DEF Rest
    <3>2. Len(tmpbuf[t]) < FrameLen /\ Len(tmpbuf[t]) \in Nat
      BY <1>3 DEF SimTypeOK
    <3>3. QED
      BY <1>4, <3>1, <3>2
  <2>2. CASE tmpbuf[t] = <<>>
    <3>1. Rest(t) = input[t]
      BY <1>3, <2>2, ConcatEmptySeq DEF Rest
    <3>2. Len(input[t]) \in Nat
      BY <1>3
    <3>3. QED
      BY <1>4, <1>5, <3>1, <3>2
  <2>3. QED
    BY <1>5, <2>1, <2>2
\* What the publisher keeps is silence, and nothing is on its way.
<1>8. Vals(Rest(t)) = {}
  <2>1. l \in Nat /\ DOMAIN Rest(t) = 1 .. l
    BY <1>3, LenProperties
  <2>2. l <= w /\ \A i \in 1 .. l : Rest(t)[i] = SampleAt(w - l + i)
    BY DEF EndInv, EndsAt
  <2> HIDE DEF l, w, a
  <2>3. \A i \in 1 .. l : SampleAt(a * BurstLen - l + i) = 0
    BY <1>3, <1>6, <1>7, <2>1, <2>2, PadIsSilent
  <2>4. \A i \in DOMAIN Rest(t) : Rest(t)[i] = 0
    BY <1>6, <2>1, <2>2, <2>3
  <2>5. QED
    BY <2>4 DEF Vals
<1>9. Flying(t) = {} /\ Ready(n) = {}
  <2>1. InFlight = {} /\ rx_in[n] = <<>> /\ pos[n] = FrameLen
    BY <1>1, <1>2 DEF AtRest
  <2>2. Len(SU!Sums(n)) = 1
    BY <2>1 DEF SU!Sums
  <2>3. FrameLen * 1 = FrameLen
    BY <1>4
  <2>4. Ready(n) = {}
    BY <1>4, <2>1, <2>2, <2>3 DEF Ready
  <2>5. QED
    BY <2>1, <2>4 DEF Flying
<1>10. Numbers(t) \subseteq Vals(heard[n][t])
  BY <1>2, <1>8, <1>9 DEF CarryInv, NoneGone, Somewhere
<1>11. Written(w) = a * Signal /\ Written(w) \in Nat
  <2>1. Written(a * BurstLen) = a * Signal
    BY <1>3, WholeBurstsWritten
  <2>2. Written(w) \in Nat
    BY WrittenNat
  <2>3. QED
    BY <1>6, <2>1, <2>2
<1>12. /\ heard[n][t] \in Seq(1 .. Written(w)) /\ Radio!NoneMissing(heard[n][t])
       /\ 1 .. Written(w) \subseteq Vals(heard[n][t])
  BY <1>2, <1>10 DEF HeardWell, Numbers
<1> HIDE DEF w, a, n
<1>13. Len(heard[n][t]) = Written(w)
  BY <1>11, <1>12, CountsAll
<1>14. QED
  BY <1>11, <1>13 DEF a, n

\* However the tasks take turns: when none of them has anything to do, every node that
\* always was apart from a transmitter has heard every sample of every burst of it, and
\* what the publisher, which nobody will wake, keeps in its buffer is silence
\* (Publisher::work).
THEOREM NothingIsLeftAtRest ==
  ASSUME PadCoversRest PROVE SimSpec => []RestsWhenHeard
<1>1. SimTypeOK /\ CarryInv /\ HeardWell /\ EndInv /\ WakeInv => RestsWhenHeard
  BY AtRestAllHeard
<1>2. SimTypeOK /\ CarryInv => HeardWell
  BY CarriedWell
<1>3. QED
  BY <1>1, <1>2, SimTypeCorrect, SamplesStayInOrder, QuietAlways, PTL

=============================================================================
