------------------------- MODULE ChannelProcessor --------------------------
(***************************************************************************)
(* The ChannelProcessor task (src/channel.rs) and the task that moves the  *)
(* nodes (src/bin/channel_process.rs): takes frames from the nodes, one at *)
(* most from each in a round, sums those with the smallest start index,    *)
(* and sends every node what it hears of them.                             *)
(*                                                                         *)
(* A sum is the set of the frames in it; attenuation is only told apart    *)
(* from silence.                                                           *)
(***************************************************************************)
EXTENDS Naturals, Sequences

CONSTANTS
  NumNodes,       (* the nodes are 1 .. NumNodes                           *)
  Tx, NodeOf,     (* transmitters and their nodes                          *)
  Places, Home    (* where nodes can be, and where they start              *)

VARIABLES
  tx_out,           (* frames from the nodes                               *)
  pending_frames,   (* frames taken and not yet summed                     *)
  positions,        (* where the nodes are                                 *)
  rx_in,            (* sums for the nodes                                  *)
  mixed             (* ghost: frames of a transmitter summed so far        *)

ProcessorInit ==
  /\ pending_frames = {}
  /\ positions = Home
  /\ rx_in = [n \in 1 .. NumNodes |-> <<>>]
  /\ mixed = [t \in Tx |-> 0]

\* What one try_recv() on every node finds.
Polled == {Head(tx_out[n]) : n \in {m \in 1 .. NumNodes : tx_out[m] # <<>>}}

\* The frames with the smallest index, in the variant with the largest.
LastGroup(frames) == {f \in frames : \A g \in frames : g.start_index <= f.start_index}
FirstGroup(frames) == {f \in frames : \A g \in frames : f.start_index <= g.start_index}

\* What stays for later rounds.  The variant forgets it.
LeftNothing(frames) == {}
Left(frames) == frames \ FirstGroup(frames)

\* A node hears nothing of transmitters at its own place, its own included.
Hears(n, f) == positions[NodeOf[f.tx]] # positions[n]

\* One round of the loop.  The channels are independent of each other and the
\* positions are read once, so that nothing can tell its parts from one step.
ProcessorRound ==
  LET frames == pending_frames \cup Polled
      group  == FirstGroup(frames)
  IN  /\ frames # {}
      /\ tx_out' = [n \in 1 .. NumNodes |-> IF tx_out[n] = <<>> THEN <<>> ELSE Tail(tx_out[n])]
      /\ pending_frames' = Left(frames)
      /\ rx_in' = [n \in 1 .. NumNodes |-> Append(rx_in[n], {f \in group : Hears(n, f)})]
      /\ mixed' = [t \in Tx |-> IF \E f \in group : f.tx = t THEN mixed[t] + 1 ELSE mixed[t]]
  /\ UNCHANGED positions

\* A position update from the graphical interface.
MoveNode(n, place) ==
  /\ positions' = [positions EXCEPT ![n] = place]
  /\ UNCHANGED <<tx_out, pending_frames, rx_in, mixed>>

=============================================================================
