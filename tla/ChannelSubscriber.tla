------------------------- MODULE ChannelSubscriber -------------------------
(***************************************************************************)
(* The ChannelSubscriber block (src/shmem.rs), one in every node: fills    *)
(* whatever room its output has with the samples of the frames that came,  *)
(* and with silence when there are none.                                   *)
(***************************************************************************)
EXTENDS Naturals, SequencesExt

CONSTANTS Nodes, Tx, FrameLen, Rooms    (* Rooms: free parts of the output *)

VARIABLES
  rx_in,      (* sums from the processor, see ChannelProcessor             *)
  current,    (* the frame begun                                           *)
  pos,        (* samples of it that are out; FrameLen if there is none     *)
  heard       (* ghost: the samples of each transmitter that were put out  *)

NoSum == {}

SubscriberInit ==
  /\ current = [n \in Nodes |-> NoSum]
  /\ pos = [n \in Nodes |-> FrameLen]
  /\ heard = [n \in Nodes |-> [t \in Tx |-> <<>>]]

\* The sums that are there, current first, and where in them the next sample is.
Sums(n) == <<current[n]>> \o rx_in[n]

\* Sample i of the sums one after the other, and what of it is from t.
SumAt(n, i) == Sums(n)[(i - 1) \div FrameLen + 1]
From(n, t, i) == {f.samples[((i - 1) % FrameLen) + 1] : f \in {g \in SumAt(n, i) : g.tx = t}}

\* What of t is in the next room samples of node n, silence left out.
HeardNow(n, t, room) ==
  FlattenSeq([i \in 1 .. room |-> SetToSeq(From(n, t, pos[n] + i) \ {0})])

SmallerOf(a, b) == IF a <= b THEN a ELSE b

\* Where the reading ends.  The variant goes back to the start of a frame that
\* did not fit.
EndOfCallRestart(n, room) == (pos[n] + room) - ((pos[n] + room) % FrameLen)
EndOfCall(n, room) == pos[n] + room

\* One call with room for so many samples.  After them, or when the frames end,
\* comes silence.
SubscriberWork(n, room) ==
  LET left == FrameLen * Len(Sums(n)) - pos[n]
      out  == SmallerOf(room, left)
      end  == EndOfCall(n, out)
      done == (end - 1) \div FrameLen
  IN  /\ out > 0
      /\ heard' = [heard EXCEPT ![n] = [t \in Tx |-> heard[n][t] \o HeardNow(n, t, out)]]
      /\ current' = [current EXCEPT ![n] =
                        IF end % FrameLen = 0 THEN NoSum ELSE Sums(n)[done + 1]]
      /\ rx_in' = [rx_in EXCEPT ![n] = SubSeq(@, done + 1, Len(@))]
      /\ pos' = [pos EXCEPT ![n] = end - done * FrameLen]

=============================================================================
