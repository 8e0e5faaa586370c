---------------------------- MODULE BurstStream ----------------------------
(***************************************************************************)
(* What the transmitter promises: the sample stream is made of the bursts  *)
(* of the submitted frames, in the order of submission, each whole, not    *)
(* interrupted, and announced by a tag with its length on its first        *)
(* sample.  A frame is represented by the length of its burst.             *)
(***************************************************************************)
EXTENDS Naturals, SequencesExt

CONSTANT BurstLens        (* lengths of bursts                             *)

VARIABLES
  submitted,    (* the frames submitted so far                             *)
  air           (* the samples produced so far                             *)

Sample == [frame : Nat, pos : Nat, burst_start : Nat]

\* With bursts of these lengths: s is a sample of one of them, with the tag if it is
\* the first.
IsSample(lens, s) ==
  /\ s.frame \in 1 .. Len(lens)
  /\ s.pos \in 1 .. lens[s.frame]
  /\ s.burst_start = IF s.pos = 1 THEN lens[s.frame] ELSE 0

\* The sample t follows s: in the same burst, or as the first of the next.
Follows(lens, s, t) ==
  IF s.pos < lens[s.frame]
    THEN t.frame = s.frame /\ t.pos = s.pos + 1
    ELSE t.frame = s.frame + 1 /\ t.pos = 1

\* The stream begins with the first sample of the first burst and goes on without
\* a gap, a repetition, or a tag in the wrong place.
WholeBursts ==
  /\ air \in Seq(Sample)
  /\ \A i \in 1 .. Len(air) : IsSample(submitted, air[i])
  /\ air # <<>> => air[1].frame = 1 /\ air[1].pos = 1
  /\ \A i \in 1 .. Len(air) - 1 : Follows(submitted, air[i], air[i + 1])

\* The stream ends with the last sample of the last frame.
AllWritten ==
  IF submitted = <<>> THEN air = <<>>
  ELSE /\ air # <<>>
       /\ air[Len(air)].frame = Len(submitted)
       /\ air[Len(air)].pos = submitted[Len(submitted)]

Init == submitted = <<>> /\ air = <<>>

Submit ==
  /\ \E len \in BurstLens : submitted' = Append(submitted, len)
  /\ UNCHANGED air

\* Any number of samples more; what was produced stays.
Transmit ==
  /\ IsPrefix(air, air')
  /\ WholeBursts'
  /\ UNCHANGED submitted

Next == Submit \/ Transmit

Spec == Init /\ [][Next]_<<submitted, air>>

=============================================================================
