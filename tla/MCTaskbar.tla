---------------------------- MODULE MCTaskbar ----------------------------
(* Taskbar with a few windows, apps and outputs. *)
EXTENDS Taskbar

MCCompositors == {{"wlr", "ext"}, {"ext"}}

Symmetry == Permutations(Apps) \union Permutations(Outputs)
=============================================================================
