-------------------------- MODULE MCSessionRegistry --------------------------
(* Model values for checking SessionRegistry; the ids of a kind are         *)
(* interchangeable, so the runs without liveness reduce by symmetry.        *)
EXTENDS SessionRegistry, TLC

Symmetric == Permutations(Sessions) \cup Permutations(Tabs) \cup Permutations(Windows)
=============================================================================
