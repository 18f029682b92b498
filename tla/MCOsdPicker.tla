---------------------------- MODULE MCOsdPicker ----------------------------
(* TLC instances of OsdPicker. *)
EXTENDS OsdPicker, TLC

MonitorSymmetry == Permutations(Monitor)
=============================================================================
