---------------------------- MODULE MCBrokerTabs ----------------------------
(* Model values for checking BrokerTabs; Agents, tabs and request slots are  *)
(* interchangeable, so the runs without liveness reduce by symmetry.         *)
EXTENDS BrokerTabs

Symmetric == Permutations(Sessions) \cup Permutations(Tabs) \cup Permutations(Requests)
=============================================================================
