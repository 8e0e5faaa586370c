---------------------------- MODULE Transmitter ----------------------------
(***************************************************************************)
(* The Transmitter block (src/transmitter.rs): takes payloads as messages  *)
(* and writes the samples of their bursts to a bounded output buffer.      *)
(*                                                                         *)
(* The block runs when it is notified: by a message, by the reader of its  *)
(* output, or by itself (call_again).  A payload is represented by the     *)
(* length of the burst it is modulated to, zero standing for one that the  *)
(* encoder panics on.                                                      *)
(***************************************************************************)
EXTENDS Integers, Sequences

CONSTANTS
  BurstLens,     (* lengths of bursts, in units of samples                 *)
  Capacity,      (* size of the output buffer                              *)
  MaxFrames      (* bound: payloads submitted                              *)

ASSUME TransmitterAssumption ==
  /\ BurstLens \subseteq Nat
  /\ Capacity \in Nat \ {0}
  /\ MaxFrames \in Nat

VARIABLES
  frames,          (* payloads waiting: their positions in submitted       *)
  current_frame,   (* the frame being sent, 0 before the first             *)
  current_len,     (* current_frame.len()                                  *)
  current_offset,  (* samples of it written                                *)
  tag_pending,     (* length to announce with the next sample, or 0        *)
  finished,        (* a Finished message has arrived                       *)
  io_finished,     (* the block has left the flowgraph                     *)
  panicked,        (* the encoder panicked                                 *)
  room,            (* free part of the output buffer                       *)
  notified,        (* the runtime will call work()                         *)
  submitted,       (* ghost: all payloads accepted                         *)
  air              (* ghost: all samples written                           *)

queueVars == <<frames, finished, submitted>>
burstVars == <<current_frame, current_len, current_offset, tag_pending>>
txVars == <<queueVars, burstVars, io_finished, panicked, room, notified, air>>

Running == ~io_finished /\ ~panicked

Init ==
  /\ frames = <<>> /\ submitted = <<>> /\ air = <<>>
  /\ current_frame = 0 /\ current_len = 0 /\ current_offset = 0
  /\ tag_pending = 0
  /\ finished = FALSE /\ io_finished = FALSE /\ panicked = FALSE
  /\ room = Capacity
  /\ notified = TRUE

(***************************************************************************)
(* The handler msg().                                                      *)
(***************************************************************************)
\* Variants of the two messages: work() is not called after them.
MsgPayloadNoWakeup ==
  /\ Running
  /\ Len(submitted) < MaxFrames
  /\ \E len \in BurstLens : submitted' = Append(submitted, len)
  /\ frames' = Append(frames, Len(submitted'))
  /\ UNCHANGED <<burstVars, finished, io_finished, panicked, room, notified, air>>
MsgFinishedNoWakeup ==
  /\ Running
  /\ finished' = TRUE
  /\ UNCHANGED <<frames, submitted, burstVars, io_finished, panicked, room, notified, air>>

MsgPayload ==
  /\ Running
  /\ Len(submitted) < MaxFrames
  /\ \E len \in BurstLens : submitted' = Append(submitted, len)
  /\ frames' = Append(frames, Len(submitted'))
  /\ notified' = TRUE
  /\ UNCHANGED <<burstVars, finished, io_finished, panicked, room, air>>

MsgFinished ==
  /\ Running
  /\ finished' = TRUE
  /\ notified' = TRUE
  /\ UNCHANGED <<frames, submitted, burstVars, io_finished, panicked, room, air>>

(***************************************************************************)
(* work()                                                                  *)
(***************************************************************************)
SmallerOf(a, b) == IF a <= b THEN a ELSE b

\* Variants of Produce: more than the output has room for, and a tag that is
\* gone when there is no room for its sample.
ProduceTooMuch(f, len, offset, tag) ==
  LET n == len - offset
  IN  /\ air' = air \o [i \in 1 .. n |-> [frame |-> f, pos |-> offset + i,
                                          burst_start |-> IF i = 1 THEN tag ELSE 0]]
      /\ current_frame' = f
      /\ current_len' = len
      /\ current_offset' = offset + n
      /\ tag_pending' = IF n > 0 THEN 0 ELSE tag
      /\ room' = room - n
      /\ notified' = (room > n)
ProduceLosesTag(f, len, offset, tag) ==
  LET n == SmallerOf(room, len - offset)
  IN  /\ air' = air \o [i \in 1 .. n |-> [frame |-> f, pos |-> offset + i,
                                          burst_start |-> IF i = 1 THEN tag ELSE 0]]
      /\ current_frame' = f
      /\ current_len' = len
      /\ current_offset' = offset + n
      /\ tag_pending' = 0
      /\ room' = room - n
      /\ notified' = (room > n)

\* Write what fits of frame f, with the tag on the first sample written.
Produce(f, len, offset, tag) ==
  LET n == SmallerOf(room, len - offset)
  IN  /\ air' = air \o [i \in 1 .. n |-> [frame |-> f, pos |-> offset + i,
                                          burst_start |-> IF i = 1 THEN tag ELSE 0]]
      /\ current_frame' = f
      /\ current_len' = len
      /\ current_offset' = offset + n
      /\ tag_pending' = IF n > 0 THEN 0 ELSE tag
      /\ room' = room - n
      /\ notified' = (room > n)

Continue ==
  /\ current_offset < current_len
  /\ Produce(current_frame, current_len, current_offset, tag_pending)
  /\ UNCHANGED <<frames, io_finished, panicked>>

NextFrame ==
  /\ current_offset = current_len
  /\ frames # <<>> /\ submitted[Head(frames)] > 0
  /\ frames' = Tail(frames)
  /\ LET len == submitted[Head(frames)]
     IN  Produce(Head(frames), len, 0, len)
  /\ UNCHANGED <<io_finished, panicked>>

EncoderPanics ==
  /\ current_offset = current_len
  /\ frames # <<>> /\ submitted[Head(frames)] = 0
  /\ frames' = Tail(frames)
  /\ panicked' = TRUE
  /\ notified' = FALSE
  /\ UNCHANGED <<burstVars, io_finished, room, air>>

\* The variant asks for finished before it asks for frames.
IdleEarly ==
  /\ current_offset = current_len
  /\ frames = <<>> \/ finished
  /\ io_finished' = finished
  /\ notified' = FALSE
  /\ UNCHANGED <<burstVars, frames, panicked, room, air>>

Idle ==
  /\ current_offset = current_len
  /\ frames = <<>>
  /\ io_finished' = finished
  /\ notified' = FALSE
  /\ UNCHANGED <<burstVars, frames, panicked, room, air>>

Work ==
  /\ Running /\ notified
  /\ Continue \/ NextFrame \/ EncoderPanics \/ Idle
  /\ UNCHANGED <<finished, submitted>>

\* The reader of the output takes samples and notifies the block.
Consume ==
  /\ \E n \in 1 .. (Capacity - room) : room' = room + n
  /\ notified' = TRUE
  /\ UNCHANGED <<queueVars, burstVars, io_finished, panicked, air>>

Next == MsgPayload \/ MsgFinished \/ Work \/ Consume

Spec == Init /\ [][Next]_txVars

\* A notified block is run, and the rest of the flowgraph keeps reading.
FairSpec == Spec /\ WF_txVars(Work) /\ WF_txVars(Consume)

(***************************************************************************)
(* Properties.                                                             *)
(***************************************************************************)
TypeOK ==
  /\ frames \in Seq(1 .. Len(submitted))
  /\ submitted \in Seq(Nat)
  /\ current_frame \in 0 .. Len(submitted)
  /\ current_len \in Nat /\ current_offset \in 0 .. current_len
  /\ tag_pending \in Nat
  /\ {finished, io_finished, panicked, notified} \subseteq BOOLEAN
  /\ room \in 0 .. Capacity

\* However the output buffer cuts the bursts into pieces, the stream is made of
\* whole bursts in the order of submission, with their tag on the first sample.
Promise == INSTANCE BurstStream
SendsBursts == Promise!Spec

\* The block only leaves the flowgraph once everything submitted is written, even
\* if payloads and Finished arrive in any order during a burst.
FinishesDrained == io_finished => Promise!AllWritten

\* No wakeup is lost between call_again, messages and the reader: every payload
\* is sent, unless one before it made the encoder panic.
Written(f) == \E i \in DOMAIN air : air[i].frame = f /\ air[i].pos = submitted[f]
EveryPayloadIsSent ==
  \A f \in 1 .. MaxFrames : f <= Len(submitted) ~> panicked \/ Written(f)

\* ... and a Finished message ends the block.
FinishedStops == finished ~> io_finished \/ panicked

=============================================================================
