---------------------------- MODULE MCSimulator ----------------------------
(***************************************************************************)
(* Instances of Simulator for TLC.                                         *)
(***************************************************************************)
EXTENDS Simulator

\* Two nodes with one preset each.
MCTx == {"tx1", "tx2"}
MCNodeOf == [t \in MCTx |-> IF t = "tx1" THEN 1 ELSE 2]
MCSelectedTx == <<"tx1", "tx2">>
MCPlaces == {"hill", "valley"}
MCHome == <<"hill", "valley">>
MCRooms == {3}
MCMaxDatagrams == <<1, 1>>

\* A command, or a payload that looks like one, and a payload.
MCDatagrams ==
  {[len |-> 4, fend |-> TRUE, data |-> FALSE], [len |-> 4, fend |-> FALSE, data |-> FALSE]}

ASSUME MCAssumption == PadCoversRest

=============================================================================
