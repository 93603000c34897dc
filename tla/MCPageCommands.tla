---------------------------- MODULE MCPageCommands ----------------------------
(* PageCommands for TLC: every command may be of every kind.                   *)
EXTENDS PageCommands
=============================================================================
