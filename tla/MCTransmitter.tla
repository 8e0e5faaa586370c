--------------------------- MODULE MCTransmitter ---------------------------
(***************************************************************************)
(* Instances of Transmitter for TLC.                                       *)
(***************************************************************************)
EXTENDS Transmitter

\* Bursts that fit exactly, are longer than the buffer, and a bad payload.
MCBurstLens == {0, 2, 3}

=============================================================================
