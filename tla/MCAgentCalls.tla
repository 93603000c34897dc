----------------------------- MODULE MCAgentCalls -----------------------------
(* AgentCalls on small sets of calls for TLC.                                 *)
EXTENDS AgentCalls

Symmetry == Permutations(Calls \ Shots) \cup Permutations(Shots)
=============================================================================
