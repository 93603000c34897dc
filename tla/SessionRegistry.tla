-------------------------- MODULE SessionRegistry --------------------------
(***************************************************************************)
(* The SessionRegistry object of the Broker, driven the way BrokerServer   *)
(* drives it: one action per method, called for the sessions and with the  *)
(* arguments BrokerServer can pass, plus the grace timers it starts when an *)
(* Agent disconnects.  Calls are atomic: the Broker is one Node.js event    *)
(* loop and no method awaits.  A call that throws changes nothing and is a  *)
(* stuttering step, so the checks of the methods are guards here.           *)
(***************************************************************************)
EXTENDS RegistryOps

CONSTANT EarlyBy  \* how many ticks before Grace a grace timer may fire

ASSUME EarlyAssumption == EarlyBy \in 0..Grace

VARIABLES
  reg,         \* the two maps
  graceTimers  \* ownershipTimers: the sessions with a pending grace timer

vars == <<reg, graceTimers>>

Init == reg = EmptyRegistry /\ graceTimers = {}

-----------------------------------------------------------------------------
\* The actions of an Agent's connection.

\* An id returns only when nothing refers to the session that had it.
Create(s) ==
  /\ s \notin reg.live \cup graceTimers
  /\ reg' = CreateSession(reg, s)
  /\ UNCHANGED graceTimers

\* claim_tab and the tab of create_tab (one tab), restore_session (several).
Claim(s, ts) ==
  /\ Connected(reg, s)
  /\ MayClaim(reg, s, ts)
  /\ reg' = ClaimTabs(reg, s, ts)
  /\ UNCHANGED graceTimers

\* The answer to create_window: a new window, asked for by a session without one.
GetWindow(s, w, ts) ==
  /\ Connected(reg, s)
  /\ reg.windowId[s] = None
  /\ \A other \in reg.live : reg.windowId[other] # w
  /\ MayClaim(reg, s, ts)
  /\ reg' = AssignWindow(reg, s, w, ts)
  /\ UNCHANGED graceTimers

ReleaseTab(s, t) ==
  /\ Connected(reg, s)
  /\ Owns(reg, s, t)
  /\ reg' = ReleaseTabs(reg, {t})
  /\ UNCHANGED graceTimers

SaveSession(s, a) ==
  /\ Connected(reg, s)
  /\ reg' = AddSavedSession(reg, s, a)
  /\ UNCHANGED graceTimers

\* The start of a recording may be answered after its Agent disconnected.
StartRecording(s, rec) ==
  /\ s \in reg.live
  /\ ~RecordingActive(reg)
  /\ reg' = AddRecording(reg, s, rec)
  /\ UNCHANGED graceTimers

StopRecording(s) ==
  /\ s \in reg.live
  /\ reg' = ClearRecordings(reg, s)
  /\ UNCHANGED graceTimers

\* Mutant: one timer for all Agents instead of one each.
AgentDisconnectsOneTimer(s) ==
  /\ Connected(reg, s)
  /\ reg' = Disconnect(reg, s)
  /\ graceTimers' = {s}

AgentDisconnects(s) ==
  /\ Connected(reg, s)
  /\ reg' = Disconnect(reg, s)
  /\ graceTimers' = graceTimers \cup {s}

-----------------------------------------------------------------------------
\* The actions of the browser: events and the inventory after a reconnect.

TabRemoved(t) ==
  /\ reg' = ReleaseTabs(reg, {t})
  /\ UNCHANGED graceTimers

WindowRemoved(w) ==
  /\ reg' = ReleaseWindow(reg, w)
  /\ UNCHANGED graceTimers

Reconcile(existing) ==
  /\ reg' = ReconcileTabs(reg, existing)
  /\ UNCHANGED graceTimers

-----------------------------------------------------------------------------
\* Time.

Tick ==
  /\ Elapsing(reg) # {}
  /\ reg' = Elapse(reg)
  /\ UNCHANGED graceTimers

\* The callback of s's grace timer: expireDisconnected, then pruneDisconnected
\* keeping the sessions an unfinished recording still needs.
GraceTimerFires(s, retained) ==
  /\ s \in graceTimers
  /\ s \in reg.live => reg.disconnectedFor[s] + EarlyBy >= Grace
  /\ reg' = PruneDisconnected(ExpireDisconnected(reg), retained)
  /\ graceTimers' = graceTimers \ {s}

\* pruneExpiredSessions when a recording cleanup is over.
Prune(retained) ==
  /\ reg' = PruneDisconnected(reg, retained)
  /\ UNCHANGED graceTimers

-----------------------------------------------------------------------------
AgentStep(s) ==
  \/ Create(s)
  \/ \E ts \in SUBSET Tabs : Claim(s, ts)
  \/ \E w \in Windows, ts \in SUBSET Tabs : GetWindow(s, w, ts)
  \/ \E t \in Tabs : ReleaseTab(s, t)
  \/ \E a \in Archives : SaveSession(s, a)
  \/ \E rec \in Recordings : StartRecording(s, rec)
  \/ StopRecording(s)
  \/ AgentDisconnects(s)

BrowserStep ==
  \/ \E t \in Tabs : TabRemoved(t)
  \/ \E w \in Windows : WindowRemoved(w)
  \/ \E existing \in SUBSET Tabs : Reconcile(existing)

TimeStep ==
  \/ Tick
  \/ \E s \in Sessions, retained \in SUBSET Sessions : GraceTimerFires(s, retained)
  \/ \E retained \in SUBSET Sessions : Prune(retained)

Next == (\E s \in Sessions : AgentStep(s)) \/ BrowserStep \/ TimeStep

Spec == Init /\ [][Next]_vars

\* Time passes, and the event loop runs a timer that is due.
Fairness ==
  /\ WF_vars(Tick)
  /\ \A s \in Sessions :
       WF_vars(\E retained \in SUBSET Sessions : GraceTimerFires(s, retained))

FairSpec == Spec /\ Fairness

-----------------------------------------------------------------------------
\* Properties

TypeOK == reg \in Registry /\ graceTimers \in SUBSET Sessions

(* The two maps of the registry never disagree about a tab, whatever order  *)
(* the methods are called in (session-registry.ts keeps them by hand).      *)
MapsConsistent == MapsAgree(reg)

(* Both: the registry is a registry, and its two maps are one.              *)
RegistryConsistent == TypeOK /\ MapsConsistent

(* What is left of a session after its grace period or its deletion: no     *)
(* tab, window or saved session a later session could inherit.              *)
NothingOutlivesGrace == ExpiredHoldNothing(reg) /\ AbsentAreFresh(reg)

(* A session whose replay rights are lost is not recorded as recording.     *)
RecordingKnown == ActiveRecordingKnown(reg)

(* Every disconnected session is on its way out: until its tabs are released *)
(* its own timer is pending.  (With timers that never fire early.)          *)
TimerUntilExpired ==
  \A s \in reg.live :
     ~reg.connected[s] /\ ~reg.graceExpired[s] => s \in graceTimers

(* A timer never cuts short the grace period of another session: a session  *)
(* younger than 30 s keeps its tabs and its window when any timer fires.    *)
GraceNeverCutShort ==
  [][(graceTimers' # graceTimers /\ graceTimers' \subseteq graceTimers) =>
       \A s \in reg.live : reg.disconnectedFor[s] < Grace =>
          /\ reg'.tabIds[s] = reg.tabIds[s]
          /\ reg'.windowId[s] = reg.windowId[s]]_vars

(* Getting its window takes no tab away from a session: the tabs it claimed *)
(* before stay its own until it releases them.                              *)
WindowKeepsClaims ==
  [][\A s \in reg.live \cap reg'.live :
       reg.windowId[s] = None /\ reg'.windowId[s] # None =>
          reg.tabIds[s] \subseteq reg'.tabIds[s]]_vars

(* The tabs of a disconnected Agent are released in the end. *)
GraceReleases ==
  \A s \in Sessions :
     (s \in reg.live /\ ~reg.connected[s]) ~>
        (s \notin reg.live \/ reg.tabIds[s] = {})

(* Ownership seen from outside behaves as TabOwnership says. *)
Abstract == INSTANCE TabOwnership WITH owner <- reg.owner
ImplementsTabOwnership == Abstract!Spec
=============================================================================
