------------------------- MODULE ChannelPublisher --------------------------
(***************************************************************************)
(* The ChannelPublisher block (src/shmem.rs), one for every transmitter of *)
(* every node: cuts the samples of its transmitter into frames of FrameLen *)
(* samples, numbers them, and sends them to the node's channel tx_out,     *)
(* which all publishers of the node share.                                 *)
(*                                                                         *)
(* A sample is a positive number, silence is zero.  The runtime takes the  *)
(* notifications out of the inbox first and calls work() afterwards; the   *)
(* transmitter can write in between.                                       *)
(***************************************************************************)
EXTENDS Naturals, Sequences

CONSTANTS
  Nodes,          (* the nodes                                             *)
  Tx,             (* the transmitters: one for each preset of each node    *)
  NodeOf,         (* the node a transmitter belongs to                     *)
  FrameLen        (* samples in a frame, 1024 in the code                  *)

VARIABLES
  input,          (* samples written by the transmitter and not yet read   *)
  tmpbuf,         (* the samples of the frame begun: tmpbuf[..n]           *)
  start_index,    (* number of the next frame                              *)
  pub_notified,   (* the inbox holds a notification                        *)
  pub_awake,      (* work() is called next                                 *)
  tx_out          (* frames sent by the publishers of a node               *)

publisherVars == <<input, tmpbuf, start_index, pub_notified, pub_awake, tx_out>>

Silence(n) == [i \in 1 .. n |-> 0]

PublisherInit ==
  /\ input = [t \in Tx |-> <<>>] /\ tmpbuf = [t \in Tx |-> <<>>]
  /\ start_index = [t \in Tx |-> 0]
  /\ pub_notified = [t \in Tx |-> TRUE] /\ pub_awake = [t \in Tx |-> FALSE]
  /\ tx_out = [n \in Nodes |-> <<>>]

PublisherWake(t) ==
  /\ pub_notified[t]
  /\ pub_notified' = [pub_notified EXCEPT ![t] = FALSE]
  /\ pub_awake' = [pub_awake EXCEPT ![t] = TRUE]
  /\ UNCHANGED <<input, tmpbuf, start_index, tx_out>>

\* What one call takes: no more than completes the frame.  The variant takes
\* everything there is.
TakenAll(t) == Len(input[t])
Taken(t) ==
  LET space == FrameLen - Len(tmpbuf[t])
  IN  IF Len(input[t]) <= space THEN Len(input[t]) ELSE space

\* The frame with the samples taken; one that gets none is filled with silence.
Filled(t) ==
  LET samples == tmpbuf[t] \o SubSeq(input[t], 1, Taken(t))
  IN  IF input[t] = <<>> THEN samples \o Silence(FrameLen - Len(samples)) ELSE samples

\* The variant numbers the frames by the call, not by the frame sent.
SendFrameUnnumbered(t, samples) ==
  /\ tx_out' = [tx_out EXCEPT ![NodeOf[t]] =
                  Append(@, [start_index |-> start_index[t], tx |-> t, samples |-> samples])]
  /\ UNCHANGED start_index
SendFrame(t, samples) ==
  /\ tx_out' = [tx_out EXCEPT ![NodeOf[t]] =
                  Append(@, [start_index |-> start_index[t], tx |-> t, samples |-> samples])]
  /\ start_index' = [start_index EXCEPT ![t] = @ + 1]

PublisherWork(t) ==
  /\ pub_awake[t]
  /\ pub_awake' = [pub_awake EXCEPT ![t] = FALSE]
  /\ input' = [input EXCEPT ![t] = SubSeq(@, Taken(t) + 1, Len(@))]
  /\ IF Len(Filled(t)) >= FrameLen
       THEN /\ SendFrame(t, Filled(t))
            /\ tmpbuf' = [tmpbuf EXCEPT ![t] = <<>>]
       ELSE /\ tmpbuf' = [tmpbuf EXCEPT ![t] = Filled(t)]
            /\ UNCHANGED <<tx_out, start_index>>
  /\ UNCHANGED pub_notified

=============================================================================
