---------------------------- MODULE TabOwnership ----------------------------
(***************************************************************************)
(* What the Broker promises about tabs, without saying how: a tab has at   *)
(* most one owner, only an unowned tab can be acquired, and a tab changes  *)
(* hands only through a state in which nobody owns it.                     *)
(***************************************************************************)
CONSTANTS Sessions, Tabs, None

VARIABLE owner

Init == owner = [t \in Tabs |-> None]

\* A session takes unowned tabs and may give up tabs of its own at once.
Exchange(s) ==
  \E gain \in SUBSET {t \in Tabs : owner[t] = None},
     lose \in SUBSET {t \in Tabs : owner[t] = s} :
       owner' = [t \in Tabs |-> IF t \in gain THEN s
                                ELSE IF t \in lose THEN None ELSE owner[t]]

\* Any set of tabs becomes unowned: release, removal, resync or expiry.
Release ==
  \E lose \in SUBSET Tabs :
       owner' = [t \in Tabs |-> IF t \in lose THEN None ELSE owner[t]]

Next == Release \/ \E s \in Sessions : Exchange(s)

Spec == Init /\ [][Next]_owner
=============================================================================
