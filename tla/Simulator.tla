----------------------------- MODULE Simulator -----------------------------
(***************************************************************************)
(* The channel simulator (src/bin/channel_process.rs): nodes with a server *)
(* and one transmitter and publisher for each preset, the processor, and a *)
(* subscriber in each node.                                                *)
(*                                                                         *)
(*   server | transmitter > publisher -- tx_out --> processor              *)
(*          processor -- rx_in --> subscriber > receive chains             *)
(*                                                                         *)
(* Every server, block and task runs on its own.  The transmitters are the *)
(* ones of module Transmitter reduced to what BurstStream promises: bursts *)
(* written in order, as much at a time as there is room.                   *)
(***************************************************************************)
EXTENDS Naturals, SequencesExt

CONSTANTS
  NumNodes, Tx, NodeOf, SelectedTx, FrameLen, Places, Home, Rooms, Datagrams,
  Capacity,         (* items in the buffer from transmitter to publisher   *)
  Signal, Pad,      (* samples of a burst, and of the silence after it     *)
  MaxDatagrams,     (* bound: datagrams for every node                     *)
  MaxMoves          (* bound: position updates                             *)

Nodes == 1 .. NumNodes

ASSUME SimulatorAssumption ==
  /\ NumNodes \in Nat
  /\ NodeOf \in [Tx -> Nodes]
  /\ SelectedTx \in [Nodes -> Tx]
  /\ FrameLen \in Nat \ {0}
  /\ Home \in [Nodes -> Places]
  /\ Rooms \subseteq Nat
  /\ {Capacity, Signal} \subseteq Nat \ {0}
  /\ {Pad, MaxMoves} \subseteq Nat
  /\ MaxDatagrams \in [Nodes -> Nat]

VARIABLES
  accepted, ready,                                              (* servers      *)
  written,      (* samples a transmitter has written                       *)
  input, tmpbuf, start_index, pub_notified, pub_awake, tx_out,  (* publishers   *)
  pending_frames, positions, rx_in, mixed,              (* processor    *)
  current, pos, heard,                                          (* subscribers  *)
  moves,        (* ghost: position updates so far                          *)
  apart         (* ghost: pairs of nodes that always were apart            *)

serverVars == <<accepted, ready>>
pubState == <<input, tmpbuf, start_index, pub_notified, pub_awake>>
procState == <<pending_frames, mixed>>
subState == <<current, pos, heard>>
moveState == <<positions, moves, apart>>
simVars == <<serverVars, written, pubState, tx_out, procState, rx_in, subState, moveState>>

NS == INSTANCE NodeServer
PU == INSTANCE ChannelPublisher
PR == INSTANCE ChannelProcessor
SU == INSTANCE ChannelSubscriber

PairsApart == {p \in Nodes \X Nodes : positions[p[1]] # positions[p[2]]}

SimInit ==
  /\ NS!ServerInit
  /\ written = [t \in Tx |-> 0]
  /\ PU!PublisherInit
  /\ PR!ProcessorInit
  /\ SU!SubscriberInit
  /\ moves = 0
  /\ apart = PairsApart

Serve(n) ==
  /\ ready[n] < MaxDatagrams[n]
  /\ \E d \in Datagrams : NS!ServeDatagram(n, d)
  /\ UNCHANGED <<written, pubState, tx_out, procState, rx_in, subState, moveState>>

\* The samples of a transmitter's bursts, numbered; the pad is silence.
BurstLen == Signal + Pad
SampleAt(k) ==
  LET i == ((k - 1) % BurstLen) + 1
  IN  IF i <= Signal THEN ((k - 1) \div BurstLen) * Signal + i ELSE 0

SmallerOf(a, b) == IF a <= b THEN a ELSE b

\* Write as much of a burst as there is room for, and notify the publisher.
Transmit(t) ==
  /\ written[t] < accepted[t] * BurstLen
  /\ Len(input[t]) < Capacity
  /\ LET n == SmallerOf(Capacity - Len(input[t]), BurstLen - (written[t] % BurstLen))
     IN  /\ input' = [input EXCEPT ![t] = @ \o [i \in 1 .. n |-> SampleAt(written[t] + i)]]
         /\ written' = [written EXCEPT ![t] = @ + n]
  /\ pub_notified' = [pub_notified EXCEPT ![t] = TRUE]
  /\ UNCHANGED <<serverVars, tmpbuf, start_index, pub_awake, tx_out, procState, rx_in,
                 subState, moveState>>

WakePublisher(t) ==
  /\ PU!PublisherWake(t)
  /\ UNCHANGED <<serverVars, written, procState, rx_in, subState, moveState>>

Publish(t) ==
  /\ PU!PublisherWork(t)
  /\ UNCHANGED <<serverVars, written, procState, rx_in, subState, moveState>>

Mix ==
  /\ PR!ProcessorRound
  /\ UNCHANGED <<serverVars, written, pubState, subState, moves, apart>>

Subscribe(n) ==
  /\ \E room \in Rooms : SU!SubscriberWork(n, room)
  /\ UNCHANGED <<serverVars, written, pubState, tx_out, procState, moveState>>

Move(n) ==
  /\ moves < MaxMoves
  /\ moves' = moves + 1
  /\ \E place \in Places \ {positions[n]} : PR!MoveNode(n, place)
  /\ apart' = apart \cap PairsApart'
  /\ UNCHANGED <<serverVars, written, pubState, subState>>

SimNext ==
  \/ \E n \in Nodes : Serve(n) \/ Subscribe(n) \/ Move(n)
  \/ \E t \in Tx : Transmit(t) \/ WakePublisher(t) \/ Publish(t)
  \/ Mix

SimSpec == SimInit /\ [][SimNext]_simVars

(***************************************************************************)
(* Properties.                                                             *)
(***************************************************************************)
Frames == [start_index : Nat, tx : Tx, samples : [1 .. FrameLen -> Nat]]

SimTypeOK ==
  /\ accepted \in [Tx -> Nat] /\ ready \in [Nodes -> Nat]
  /\ written \in [Tx -> Nat]
  /\ input \in [Tx -> Seq(Nat)]
  /\ tmpbuf \in [Tx -> Seq(Nat)] /\ \A t \in Tx : Len(tmpbuf[t]) < FrameLen
  /\ start_index \in [Tx -> Nat]
  /\ pub_notified \in [Tx -> BOOLEAN] /\ pub_awake \in [Tx -> BOOLEAN]
  /\ tx_out \in [Nodes -> Seq(Frames)]
  /\ pending_frames \subseteq Frames
  /\ positions \in [Nodes -> Places]
  /\ rx_in \in [Nodes -> Seq(SUBSET Frames)]
  /\ mixed \in [Tx -> Nat]
  /\ current \in [Nodes -> SUBSET Frames]
  /\ pos \in [Nodes -> 1 .. FrameLen]
  /\ moves \in Nat /\ apart \subseteq Nodes \X Nodes

Queued(n) == {tx_out[n][i] : i \in DOMAIN tx_out[n]}
InFlight == pending_frames \cup UNION {Queued(n) : n \in Nodes}

\* The parts of FramesInFlight: numbers in range, none missing, and earlier ones
\* ahead of later ones, in the processor and in the channels.
IndexInRange ==
  /\ \A t \in Tx : mixed[t] <= start_index[t]
  /\ \A f \in InFlight : mixed[f.tx] <= f.start_index /\ f.start_index < start_index[f.tx]
NoneLost ==
  \A t \in Tx : \A k \in mixed[t] .. (start_index[t] - 1) :
    \E f \in InFlight : f.tx = t /\ f.start_index = k
ProcessorAhead ==
  \A f \in pending_frames, n \in Nodes : \A g \in Queued(n) :
    f.tx = g.tx => f.start_index < g.start_index
ChannelInOrder ==
  \A n \in Nodes : \A i, j \in DOMAIN tx_out[n] :
    i < j /\ tx_out[n][i].tx = tx_out[n][j].tx =>
      tx_out[n][i].start_index < tx_out[n][j].start_index
OwnChannel == \A n \in Nodes : \A f \in Queued(n) : NodeOf[f.tx] = n

\* Between the publishers and the sum no frame is lost, doubled or overtaken,
\* however far the frame counters of the transmitters are apart and however many
\* rounds a node's channel is behind.
FramesInFlight ==
  IndexInRange /\ NoneLost /\ ProcessorAhead /\ ChannelInOrder /\ OwnChannel

\* Although the processor sums by the smallest index it happens to hold, and
\* sums a late frame by itself, it takes every transmitter's frames in sequence.
SumsInSequence ==
  [][\A f \in InFlight \ InFlight' : f.start_index = mixed[f.tx]]_simVars

\* The simulator implements Medium.
Radio == INSTANCE Medium WITH
  sent <- [t \in Tx |-> Cardinality({k \in 1 .. written[t] : SampleAt(k) # 0})]
CarriesSignals == Radio!Spec

\* No wakeup is lost: when every task waits, the signal of every accepted burst
\* has reached every node that never was in the sender's place, although the
\* publisher is only woken by its transmitter and leaves the end of the last
\* burst in its buffer: less than the buffer holds, or less than a frame.  That
\* is silence, as long as the pad is no shorter (PadCoversRest).
PadCoversRest == Capacity <= Pad + 1 /\ FrameLen <= Pad + 1
AtRest ==
  /\ \A t \in Tx :
       /\ ~pub_notified[t] /\ ~pub_awake[t]
       /\ written[t] = accepted[t] * BurstLen \/ Len(input[t]) = Capacity
  /\ InFlight = {}
  /\ \A n \in Nodes : rx_in[n] = <<>> /\ pos[n] = FrameLen
AllHeard ==
  \A p \in apart, t \in Tx :
    NodeOf[t] = p[2] => Len(heard[p[1]][t]) = accepted[t] * Signal
RestsWhenHeard == AtRest => AllHeard

=============================================================================
