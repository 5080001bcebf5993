--------------------------- MODULE MCSignalBurst ---------------------------
(* Instances of SignalBurst for TLC. *)
EXTENDS SignalBurst
=============================================================================
