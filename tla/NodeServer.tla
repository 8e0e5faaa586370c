---------------------------- MODULE NodeServer -----------------------------
(***************************************************************************)
(* The UDP server of a node (src/node.rs): hands a datagram to the         *)
(* transmitter of the selected preset, unless it takes it for a command    *)
(* that configures a modem, and answers READY either way.                  *)
(*                                                                         *)
(* A datagram is a record: how it begins (fend, data), and its length.     *)
(***************************************************************************)
EXTENDS Naturals

CONSTANTS
  Nodes, Tx,
  SelectedTx,      (* the transmitter of the preset selected for a node    *)
  Datagrams        (* what clients send                                    *)

VARIABLES
  accepted,     (* payloads handed to a transmitter                        *)
  ready         (* READY answers                                           *)

ServerInit ==
  /\ accepted = [t \in Tx |-> 0]
  /\ ready = [n \in Nodes |-> 0]

IsConfigCmd(d) == d.len >= 2 /\ d.fend /\ ~d.data

Forwards(d) == ~IsConfigCmd(d)

ServeDatagram(n, d) ==
  /\ accepted' = IF Forwards(d) THEN [accepted EXCEPT ![SelectedTx[n]] = @ + 1] ELSE accepted
  /\ ready' = [ready EXCEPT ![n] = @ + 1]

=============================================================================
