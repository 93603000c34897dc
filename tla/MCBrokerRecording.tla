------------------------- MODULE MCBrokerRecording -------------------------
(* Model values for checking BrokerRecording; sessions, which also name the   *)
(* recordings, request slots and cleanup ids are interchangeable, so the runs  *)
(* without liveness reduce by symmetry.                                        *)
EXTENDS BrokerRecording

Symmetric == Permutations(Sessions) \cup Permutations(Requests)
=============================================================================
