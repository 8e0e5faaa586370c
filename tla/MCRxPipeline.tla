---------------------------- MODULE MCRxPipeline ----------------------------
(***************************************************************************)
(* Instances of RxPipeline for TLC.                                        *)
(***************************************************************************)
EXTENDS RxPipeline

MCBad == [err |-> TRUE, cr |-> 0, pay_len |-> 0, crc |-> FALSE, frame |-> 0]

\* At SF7 a payload of one block, and of two blocks.
MCSingle == [err |-> FALSE, cr |-> 1, pay_len |-> 1, crc |-> FALSE, frame |-> 0]
MCDouble == [err |-> FALSE, cr |-> 2, pay_len |-> 2, crc |-> TRUE, frame |-> 0]
MCHeaderMsgs == {MCBad, MCSingle, MCDouble}

\* The buffers are the smallest that the theorems speak of.
ASSUME MCAssumption ==
  RoomForFrames /\ HeadersAskForNibbles

=============================================================================
