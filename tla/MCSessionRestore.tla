-------------------------- MODULE MCSessionRestore --------------------------
(* TLC instances of SessionRestore. *)
EXTENDS SessionRestore, TLC

MonitorSymmetry == Permutations(Monitor)
=============================================================================
