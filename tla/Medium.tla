------------------------------ MODULE Medium -------------------------------
(***************************************************************************)
(* What the channel simulator promises.  Nodes that are in different       *)
(* places all the time hear every sample of each other's transmitters, in  *)
(* order, none lost, doubled or cut off by silence of other transmitters;  *)
(* a node never hears itself; and one that once was in the same place as   *)
(* another may have missed some of its samples, but never hears one out of *)
(* order.                                                                  *)
(***************************************************************************)
EXTENDS Naturals, SequencesExt

CONSTANTS Nodes, Tx, NodeOf

VARIABLES
  sent,      (* samples the transmitters have sent, counted                *)
  heard,     (* the samples every node has heard of every transmitter      *)
  apart      (* pairs of nodes that always were in different places        *)

Init ==
  /\ sent = [t \in Tx |-> 0]
  /\ heard = [n \in Nodes |-> [t \in Tx |-> <<>>]]
  /\ apart \subseteq Nodes \X Nodes

Send ==
  /\ \A t \in Tx : sent'[t] >= sent[t]
  /\ UNCHANGED <<heard, apart>>

Meet ==
  /\ apart' \subseteq apart
  /\ UNCHANGED <<sent, heard>>

InOrder(samples) == \A i, j \in DOMAIN samples : i < j => samples[i] < samples[j]
NoneMissing(samples) == \A i \in DOMAIN samples : samples[i] = i

Hear(n) ==
  /\ \A t \in Tx :
       LET now == heard'[n][t]
       IN  /\ IsPrefix(heard[n][t], now)
           /\ \A i \in DOMAIN now : now[i] <= sent[t]
           /\ InOrder(now)
           /\ <<n, NodeOf[t]>> \in apart => NoneMissing(now)
           /\ NodeOf[t] = n => now = <<>>
  /\ \A m \in Nodes \ {n} : heard'[m] = heard[m]
  /\ UNCHANGED <<sent, apart>>

Next == Send \/ Meet \/ \E n \in Nodes : Hear(n)

Spec == Init /\ [][Next]_<<sent, heard, apart>>

=============================================================================
