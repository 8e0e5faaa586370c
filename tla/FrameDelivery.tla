--------------------------- MODULE FrameDelivery ---------------------------
(***************************************************************************)
(* What the receive chain promises: a frame found on the air reaches the   *)
(* decoder at most once, and frames reach it in the order in which they    *)
(* were found.  Frames may be lost (a bad header, a bad CRC).              *)
(***************************************************************************)
EXTENDS Naturals, Sequences

VARIABLES
  found,       (* number of frames found so far                            *)
  delivered    (* the frames handed over, by number                        *)

Init == found = 0 /\ delivered = <<>>

Find == found' = found + 1 /\ UNCHANGED delivered

Deliver ==
  /\ \E f \in 1 .. found :
       /\ delivered # <<>> => delivered[Len(delivered)] < f
       /\ delivered' = Append(delivered, f)
  /\ UNCHANGED found

Next == Find \/ Deliver

Spec == Init /\ [][Next]_<<found, delivered>>

=============================================================================
