--------------------------- MODULE MCBrokerLauncher ---------------------------
(* BrokerLauncher on small sets of processes, pids and ports for TLC.        *)
EXTENDS BrokerLauncher, TLC

\* Used where no temporal property is checked.
Symmetry == Permutations(Starters) \cup Permutations(Stoppers) \cup Permutations(Children)
=============================================================================
