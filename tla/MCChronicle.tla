---------------------------- MODULE MCChronicle ----------------------------
(* One worker and two requests or generations in flight.                   *)
EXTENDS Chronicle, TLC
=============================================================================
