---------------------------- MODULE MCEventSync ----------------------------
(* A log shorter than the changes, so that cursors fall out of it.         *)
EXTENDS EventSync, TLC
=============================================================================
