----------------------------- MODULE MCNodeSetup -----------------------------
(***************************************************************************)
(* Instance of NodeSetup for TLC.                                          *)
(***************************************************************************)
EXTENDS NodeSetup

\* CountedSlotServes for one of the regions that map_region() of the simulator
\* knows: it has slots of 125 and 250 kHz, and none of 500 kHz.
EU868Serves == region = "EU868" => CountedSlotServes

=============================================================================
