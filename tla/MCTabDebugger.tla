---------------------------- MODULE MCTabDebugger ----------------------------
(* TabDebugger on small sets of tabs and commands for TLC.                   *)
EXTENDS TabDebugger

Symmetry == Permutations(Cmds) \cup Permutations(Tabs)
=============================================================================
