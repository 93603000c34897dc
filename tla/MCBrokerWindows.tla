-------------------------- MODULE MCBrokerWindows --------------------------
(* Model values for checking BrokerWindows; the ids of a kind are             *)
(* interchangeable, so the runs without liveness reduce by symmetry.         *)
EXTENDS BrokerWindows

Symmetric == Permutations(Sessions) \cup Permutations(Tabs) \cup Permutations(Windows)
             \cup Permutations(Requests)
=============================================================================
