------------------------ MODULE SessionRegistryProofs ------------------------
(***************************************************************************)
(* Theorems about SessionRegistry, for every set of sessions, tabs and     *)
(* windows and every grace period.  The inductive invariant is that the    *)
(* registry is Good; each action is one operation of RegistryOps, or two   *)
(* in a row, and RegistryLemmas has one lemma per operation.               *)
(***************************************************************************)
EXTENDS SessionRegistry, RegistryLemmas

Inv == Good(reg) /\ graceTimers \in SUBSET Sessions

\* The registry a new Broker starts with.
LEMMA InitInv == Init => Inv
BY EmptyGood DEF Init, Inv

\* Every call of the registry and every grace timer preserve the invariant.
LEMMA NextInv == Inv /\ [Next]_vars => Inv'
<1> SUFFICES ASSUME Inv, [Next]_vars
             PROVE  Inv'
  OBVIOUS
<1>1. Good(reg) /\ reg.live \in SUBSET Sessions
  BY DEF Inv, Good, Registry
<1>2. ASSUME NEW s \in Sessions, AgentStep(s)
      PROVE  Inv'
  <2>1. CASE Create(s)
    BY <1>1, <2>1, CreateSessionGood DEF Create, Inv
  <2>2. ASSUME NEW ts \in SUBSET Tabs, Claim(s, ts)
        PROVE  Inv'
    BY <1>1, <2>2, ClaimTabsGood DEF Claim, Inv
  <2>3. ASSUME NEW w \in Windows, NEW ts \in SUBSET Tabs, GetWindow(s, w, ts)
        PROVE  Inv'
    BY <1>1, <2>3, AssignWindowGood DEF GetWindow, Inv
  <2>4. ASSUME NEW t \in Tabs, ReleaseTab(s, t)
        PROVE  Inv'
    <3>1. {t} \in SUBSET Tabs
      OBVIOUS
    <3> QED
      BY <1>1, <2>4, <3>1, ReleaseTabsGood DEF ReleaseTab, Inv
  <2>5. ASSUME NEW a \in Archives, SaveSession(s, a)
        PROVE  Inv'
    BY <1>1, <2>5, AddSavedSessionGood DEF SaveSession, Inv
  <2>6. ASSUME NEW rec \in Recordings, StartRecording(s, rec)
        PROVE  Inv'
    BY <1>1, <2>6, AddRecordingGood DEF StartRecording, Inv
  <2>7. CASE StopRecording(s)
    BY <1>1, <2>7, ClearRecordingsGood DEF StopRecording, Inv
  <2>8. CASE AgentDisconnects(s)
    BY <1>1, <2>8, DisconnectGood DEF AgentDisconnects, Inv
  <2> QED
    BY <1>2, <2>1, <2>2, <2>3, <2>4, <2>5, <2>6, <2>7, <2>8 DEF AgentStep
<1>3. CASE BrowserStep
  <2>1. ASSUME NEW t \in Tabs, TabRemoved(t)
        PROVE  Inv'
    <3>1. {t} \in SUBSET Tabs
      OBVIOUS
    <3> QED
      BY <1>1, <2>1, <3>1, ReleaseTabsGood DEF TabRemoved, Inv
  <2>2. ASSUME NEW w \in Windows, WindowRemoved(w)
        PROVE  Inv'
    BY <1>1, <2>2, ReleaseWindowGood DEF WindowRemoved, Inv
  <2>3. ASSUME NEW existing \in SUBSET Tabs, Reconcile(existing)
        PROVE  Inv'
    <3>1. Tabs \ existing \in SUBSET Tabs
      OBVIOUS
    <3> QED
      BY <1>1, <2>3, <3>1, ReleaseTabsGood DEF Reconcile, ReconcileTabs, Inv
  <2> QED
    BY <1>3, <2>1, <2>2, <2>3 DEF BrowserStep
<1>4. CASE TimeStep
  <2>1. CASE Tick
    BY <1>1, <2>1, ElapseGood DEF Tick, Inv
  <2>2. ASSUME NEW s \in Sessions, NEW retained \in SUBSET Sessions,
               GraceTimerFires(s, retained)
        PROVE  Inv'
    <3>1. Good(ExpireDisconnected(reg))
      BY <1>1, ExpireDisconnectedGood
    <3> QED
      BY <2>2, <3>1, PruneDisconnectedGood DEF GraceTimerFires, Inv
  <2>3. ASSUME NEW retained \in SUBSET Sessions, Prune(retained)
        PROVE  Inv'
    BY <1>1, <2>3, PruneDisconnectedGood DEF Prune, Inv
  <2> QED
    BY <1>4, <2>1, <2>2, <2>3 DEF TimeStep
<1>5. CASE UNCHANGED vars
  BY <1>5 DEF vars, Inv
<1> QED
  BY <1>2, <1>3, <1>4, <1>5 DEF Next

\* The registry is Good in every state the Broker can reach.
THEOREM RegistryGood == Spec => []Inv
BY InitInv, NextInv, PTL DEF Spec

\* The records of session-registry.ts keep their types, and `sessions` and
\* `tabOwners` never disagree about a tab.
THEOREM RegistryAlwaysConsistent == Spec => []RegistryConsistent
<1>1. Inv => TypeOK
  BY DEF Inv, Good, TypeOK
<1>2. Inv => MapsConsistent
  BY DEF Inv, Good, MapsConsistent
<1>3. Inv => RegistryConsistent
  BY <1>1, <1>2 DEF RegistryConsistent
<1> QED
  BY <1>3, RegistryGood, PTL

\* Nothing of a session outlives its grace period or its deletion.
THEOREM GraceLeavesNothing == Spec => []NothingOutlivesGrace
<1>1. Inv => NothingOutlivesGrace
  BY DEF Inv, Good, NothingOutlivesGrace
<1> QED
  BY <1>1, RegistryGood, PTL

\* The running recording of a session is one of its recordings.
THEOREM ActiveRecordingsKnown == Spec => []RecordingKnown
<1>1. Inv => RecordingKnown
  BY DEF Inv, Good, RecordingKnown
<1> QED
  BY <1>1, RegistryGood, PTL

-----------------------------------------------------------------------------
(* Grace timers.                                                             *)

\* What a grace timer leaves of the sessions that stay in the map.
LEMMA GraceTimerFields ==
  ASSUME Inv, NEW s \in Sessions, NEW retained \in SUBSET Sessions, GraceTimerFires(s, retained)
  PROVE  /\ reg'.live = reg.live \ Prunable(ExpireDisconnected(reg), retained)
         /\ \A x \in reg'.live :
              /\ reg'.connected[x] = reg.connected[x]
              /\ reg'.graceExpired[x] = (reg.graceExpired[x] \/ x \in Overdue(reg))
              /\ x \notin Overdue(reg) => /\ reg'.tabIds[x] = reg.tabIds[x]
                                          /\ reg'.windowId[x] = reg.windowId[x]
<1> DEFINE e == ExpireDisconnected(reg)
<1>1. reg \in Registry
  BY DEF Inv, Good
<1>2. /\ e \in Registry /\ e.live = reg.live /\ e.connected = reg.connected
      /\ e.graceExpired = SetTo(reg.graceExpired, Overdue(reg), TRUE)
      /\ e.tabIds = SetTo(reg.tabIds, Overdue(reg), {})
      /\ e.windowId = SetTo(reg.windowId, Overdue(reg), None)
  <2>1. e \in Registry
    BY ExpireDisconnectedGood DEF Inv, Good
  <2> QED
    BY <1>1, <2>1 DEF Registry, ExpireDisconnected
<1> HIDE DEF e
<1>3. reg' = PruneDisconnected(e, retained)
  BY DEF GraceTimerFires, e
<1> DEFINE gone == Prunable(e, retained)
<1>4. /\ reg'.live = e.live \ gone /\ reg'.connected = SetTo(e.connected, gone, TRUE)
      /\ reg'.graceExpired = SetTo(e.graceExpired, gone, FALSE)
      /\ reg'.tabIds = e.tabIds /\ reg'.windowId = e.windowId
  BY <1>2, <1>3 DEF Registry, PruneDisconnected
<1> HIDE DEF gone
<1>5. /\ reg.live \in SUBSET Sessions
      /\ reg.graceExpired \in [Sessions -> BOOLEAN]
  BY <1>1 DEF Registry
<1>6. \A x \in reg'.live : x \in Sessions \ gone
  BY <1>2, <1>4, <1>5
<1>7. \A x \in reg'.live : /\ reg'.connected[x] = reg.connected[x]
                           /\ reg'.graceExpired[x] = e.graceExpired[x]
  <2> TAKE x \in reg'.live
  <2>1. x \in Sessions /\ x \notin gone
    BY <1>6
  <2>2. reg'.connected[x] = e.connected[x]
    BY <1>4, <2>1 DEF SetTo
  <2>3. reg'.graceExpired[x] = e.graceExpired[x]
    BY <1>4, <2>1 DEF SetTo
  <2> QED
    BY <1>2, <2>2, <2>3
<1>8. \A x \in reg'.live : e.graceExpired[x] = (reg.graceExpired[x] \/ x \in Overdue(reg))
  BY <1>2, <1>5, <1>6 DEF SetTo
<1>9. \A x \in reg'.live : x \notin Overdue(reg) =>
         reg'.tabIds[x] = reg.tabIds[x] /\ reg'.windowId[x] = reg.windowId[x]
  BY <1>2, <1>4, <1>6 DEF SetTo
<1> QED
  BY <1>2, <1>4, <1>7, <1>8, <1>9 DEF e, gone

\* No timer shortens the grace period of a session it was not started for.
THEOREM GraceNotCutShort == Spec => GraceNeverCutShort
<1>1. ASSUME Inv, Next, graceTimers' # graceTimers, graceTimers' \subseteq graceTimers,
             NEW x \in reg.live, reg.disconnectedFor[x] < Grace
      PROVE  reg'.tabIds[x] = reg.tabIds[x] /\ reg'.windowId[x] = reg.windowId[x]
  <2>1. PICK s \in Sessions, retained \in SUBSET Sessions : GraceTimerFires(s, retained)
    BY <1>1 DEF Next, AgentStep, BrowserStep, TimeStep, Create, Claim, GetWindow, ReleaseTab,
       SaveSession, StartRecording, StopRecording, AgentDisconnects, TabRemoved, WindowRemoved,
       Reconcile, Tick, Prune
  <2>2. reg \in Registry /\ x \in Sessions
    BY <1>1 DEF Inv, Good, Registry
  <2>3. reg.disconnectedFor[x] \in 0..Grace
    BY <2>2 DEF Registry
  <2>4. x \notin Overdue(reg)
    BY <1>1, <2>3, GraceAssumption DEF Overdue
  <2>5. x \notin Overdue(ExpireDisconnected(reg))
    <3>1. /\ ExpireDisconnected(reg).live = reg.live
          /\ ExpireDisconnected(reg).connected = reg.connected
          /\ ExpireDisconnected(reg).disconnectedFor = reg.disconnectedFor
      BY <2>2 DEF ExpireDisconnected, Registry
    <3> QED
      BY <2>4, <3>1 DEF Overdue
  <2>6. x \in reg'.live
    BY <1>1, <2>1, <2>5, GraceTimerFields DEF Prunable
  <2> QED
    BY <1>1, <2>1, <2>4, <2>6, GraceTimerFields
<1>2. Inv /\ [Next]_vars =>
        [(graceTimers' # graceTimers /\ graceTimers' \subseteq graceTimers) =>
          \A s \in reg.live : reg.disconnectedFor[s] < Grace =>
             /\ reg'.tabIds[s] = reg.tabIds[s]
             /\ reg'.windowId[s] = reg.windowId[s]]_vars
  BY <1>1 DEF vars
<1> QED
  BY <1>2, RegistryGood, PTL DEF Spec, GraceNeverCutShort

\* Until its tabs are released, a disconnected session has a pending timer,
\* provided that no timer fires before its time.
THEOREM TimersPending == EarlyBy = 0 => (Spec => []TimerUntilExpired)
<1> SUFFICES ASSUME EarlyBy = 0
             PROVE  Spec => []TimerUntilExpired
  OBVIOUS
<1>1. Init => TimerUntilExpired
  BY DEF Init, EmptyRegistry, TimerUntilExpired
<1>2. Inv /\ TimerUntilExpired /\ [Next]_vars => TimerUntilExpired'
  <2> SUFFICES ASSUME Inv, TimerUntilExpired, [Next]_vars,
                      NEW x \in reg'.live, ~reg'.connected[x], ~reg'.graceExpired[x]
               PROVE  x \in graceTimers'
    BY DEF TimerUntilExpired
  <2>1. reg \in Registry /\ AbsentAreFresh(reg)
    BY DEF Inv, Good
  <2>2. ASSUME reg'.live = reg.live, reg'.connected = reg.connected,
               reg'.graceExpired = reg.graceExpired, graceTimers' = graceTimers
        PROVE  x \in graceTimers'
    BY <2>2 DEF TimerUntilExpired
  <2>3. ASSUME NEW s \in Sessions, AgentStep(s)
        PROVE  x \in graceTimers'
    <3>1. CASE Create(s)
      <4>1. /\ reg'.live = reg.live \cup {s} /\ reg'.connected = reg.connected
            /\ reg'.graceExpired = reg.graceExpired /\ graceTimers' = graceTimers
        BY <2>1, <3>1 DEF Create, CreateSession, Registry
      <4>2. reg.connected[s]
        BY <2>1, <3>1 DEF Create, AbsentAreFresh, Fresh
      <4> QED
        BY <4>1, <4>2 DEF TimerUntilExpired
    <3>2. CASE AgentDisconnects(s)
      <4>1. /\ reg'.live = reg.live /\ graceTimers' = graceTimers \cup {s}
            /\ reg'.connected = [reg.connected EXCEPT ![s] = FALSE]
            /\ reg'.graceExpired = [reg.graceExpired EXCEPT ![s] = FALSE]
        BY <2>1, <3>2 DEF AgentDisconnects, Disconnect, Registry
      <4>2. /\ reg.connected \in [Sessions -> BOOLEAN]
            /\ reg.graceExpired \in [Sessions -> BOOLEAN] /\ x \in Sessions
        BY <2>1, <4>1 DEF Registry
      <4>3. CASE x = s
        BY <4>1, <4>3
      <4>4. CASE x # s
        <5>1. reg'.connected[x] = reg.connected[x]
          BY <4>1, <4>2, <4>4
        <5>2. reg'.graceExpired[x] = reg.graceExpired[x]
          BY <4>1, <4>2, <4>4
        <5> QED
          BY <4>1, <5>1, <5>2 DEF TimerUntilExpired
      <4> QED
        BY <4>3, <4>4
    <3>3. CASE \E ts \in SUBSET Tabs : Claim(s, ts)
      BY <2>1, <2>2, <3>3 DEF Claim, ClaimTabs, Registry
    <3>4. CASE \E w \in Windows, ts \in SUBSET Tabs : GetWindow(s, w, ts)
      BY <2>1, <2>2, <3>4 DEF GetWindow, AssignWindow, Registry
    <3>5. CASE \E t \in Tabs : ReleaseTab(s, t)
      BY <2>1, <2>2, <3>5 DEF ReleaseTab, ReleaseTabs, Registry
    <3>6. CASE \E a \in Archives : SaveSession(s, a)
      BY <2>1, <2>2, <3>6 DEF SaveSession, AddSavedSession, Registry
    <3>7. CASE \E rec \in Recordings : StartRecording(s, rec)
      BY <2>1, <2>2, <3>7 DEF StartRecording, AddRecording, Registry
    <3>8. CASE StopRecording(s)
      BY <2>1, <2>2, <3>8 DEF StopRecording, ClearRecordings, Registry
    <3> QED
      BY <2>3, <3>1, <3>2, <3>3, <3>4, <3>5, <3>6, <3>7, <3>8 DEF AgentStep
  <2>4. CASE BrowserStep
    <3>1. CASE \E t \in Tabs : TabRemoved(t)
      BY <2>1, <2>2, <3>1 DEF TabRemoved, ReleaseTabs, Registry
    <3>2. CASE \E w \in Windows : WindowRemoved(w)
      BY <2>1, <2>2, <3>2 DEF WindowRemoved, ReleaseWindow, Registry
    <3>3. CASE \E existing \in SUBSET Tabs : Reconcile(existing)
      BY <2>1, <2>2, <3>3 DEF Reconcile, ReconcileTabs, ReleaseTabs, Registry
    <3> QED
      BY <2>4, <3>1, <3>2, <3>3 DEF BrowserStep
  <2>5. CASE TimeStep
    <3>1. CASE Tick
      BY <2>1, <2>2, <3>1 DEF Tick, Elapse, Registry
    <3>2. ASSUME NEW s \in Sessions, NEW retained \in SUBSET Sessions,
                 GraceTimerFires(s, retained)
          PROVE  x \in graceTimers'
      <4>1. /\ x \in reg.live /\ x \notin Overdue(reg)
            /\ ~reg.connected[x] /\ ~reg.graceExpired[x]
        BY <3>2, GraceTimerFields
      <4>2. x \in graceTimers
        BY <4>1 DEF TimerUntilExpired
      <4>3. x # s
        <5>1. reg.disconnectedFor \in [Sessions -> 0..Grace] /\ x \in Sessions
          BY <2>1, <4>1 DEF Registry
        <5> QED
          BY <3>2, <4>1, <5>1, GraceAssumption DEF GraceTimerFires, Overdue
      <4> QED
        BY <3>2, <4>2, <4>3 DEF GraceTimerFires
    <3>3. ASSUME NEW retained \in SUBSET Sessions, Prune(retained)
          PROVE  x \in graceTimers'
      <4> DEFINE gone == Prunable(reg, retained)
      <4>1. /\ reg'.live = reg.live \ gone /\ graceTimers' = graceTimers
            /\ reg'.connected = SetTo(reg.connected, gone, TRUE)
            /\ reg'.graceExpired = SetTo(reg.graceExpired, gone, FALSE)
        BY <2>1, <3>3 DEF Prune, PruneDisconnected, Registry
      <4> HIDE DEF gone
      <4>2. x \in reg.live /\ x \in Sessions /\ x \notin gone
        BY <2>1, <4>1 DEF Registry
      <4>3. reg'.connected[x] = reg.connected[x]
        BY <4>1, <4>2 DEF SetTo
      <4>4. reg'.graceExpired[x] = reg.graceExpired[x]
        BY <4>1, <4>2 DEF SetTo
      <4> QED
        BY <4>1, <4>2, <4>3, <4>4 DEF TimerUntilExpired
    <3> QED
      BY <2>5, <3>1, <3>2, <3>3 DEF TimeStep
  <2>6. CASE UNCHANGED vars
    BY <2>6 DEF vars, TimerUntilExpired
  <2> QED
    BY <2>3, <2>4, <2>5, <2>6 DEF Next
<1> QED
  BY <1>1, <1>2, RegistryGood, PTL DEF Spec

-----------------------------------------------------------------------------
(* Ownership.                                                                *)

\* The registry implements TabOwnership: a tab changes hands only through a
\* state in which nobody owns it.
THEOREM OwnershipImplemented == Spec => ImplementsTabOwnership
<1>1. Init => Abstract!Init
  BY DEF Init, EmptyRegistry, Abstract!Init
<1>2. Inv /\ [Next]_vars => [Abstract!Next]_(reg.owner)
  <2> SUFFICES ASSUME Inv, [Next]_vars
               PROVE  Abstract!Next \/ reg'.owner = reg.owner
    OBVIOUS
  <2>1. reg \in Registry /\ MapsAgree(reg)
    BY DEF Inv, Good
  <2>2. reg.owner \in [Tabs -> Sessions \cup {None}]
    BY <2>1 DEF Registry
  <2>3. ASSUME NEW lose \in SUBSET Tabs,
               reg'.owner = [t \in Tabs |-> IF t \in lose THEN None ELSE reg.owner[t]]
        PROVE  Abstract!Next
    BY <2>3 DEF Abstract!Next, Abstract!Release
  <2>4. ASSUME NEW s \in Sessions, AgentStep(s)
        PROVE  Abstract!Next \/ reg'.owner = reg.owner
    <3>1. ASSUME NEW ts \in SUBSET Tabs, Claim(s, ts)
          PROVE  Abstract!Next
      <4> DEFINE gain == {t \in ts : reg.owner[t] = None}
      <4>1. reg'.owner = [t \in Tabs |-> IF t \in ts THEN s ELSE reg.owner[t]]
        BY <2>1, <3>1 DEF Claim, ClaimTabs, Registry
      <4>2. /\ gain \in SUBSET {t \in Tabs : reg.owner[t] = None}
            /\ {} \in SUBSET {t \in Tabs : reg.owner[t] = s}
        OBVIOUS
      <4>3. reg'.owner = [t \in Tabs |-> IF t \in gain THEN s
                                         ELSE IF t \in {} THEN None ELSE reg.owner[t]]
        BY <2>2, <3>1, <4>1 DEF Claim, MayClaim
      <4> QED
        BY <4>2, <4>3 DEF Abstract!Next, Abstract!Exchange
    <3>2. ASSUME NEW w \in Windows, NEW ts \in SUBSET Tabs, GetWindow(s, w, ts)
          PROVE  Abstract!Next
      <4> DEFINE gain == {t \in ts : reg.owner[t] = None}
                 lose == {t \in Tabs : reg.owner[t] = s /\ t \notin ts}
      <4>1. reg'.owner = [t \in Tabs |-> IF t \in ts THEN s
                                         ELSE IF t \in reg.tabIds[s] THEN None
                                         ELSE reg.owner[t]]
        BY <2>1, <3>2 DEF GetWindow, AssignWindow, Registry
      <4>2. /\ gain \in SUBSET {t \in Tabs : reg.owner[t] = None}
            /\ lose \in SUBSET {t \in Tabs : reg.owner[t] = s}
        OBVIOUS
      <4>3. \A t \in Tabs : t \in reg.tabIds[s] <=> reg.owner[t] = s
        BY <2>1, <3>2 DEF MapsAgree, GetWindow, Connected
      <4>4. reg'.owner = [t \in Tabs |-> IF t \in gain THEN s
                                         ELSE IF t \in lose THEN None ELSE reg.owner[t]]
        BY <2>2, <3>2, <4>1, <4>3 DEF GetWindow, MayClaim
      <4> HIDE DEF gain, lose
      <4>5. Abstract!Exchange(s)
        BY <4>2, <4>4 DEF Abstract!Exchange
      <4> QED
        BY <4>5 DEF Abstract!Next
    <3>3. ASSUME NEW t \in Tabs, ReleaseTab(s, t)
          PROVE  Abstract!Next
      <4>1. reg'.owner = [x \in Tabs |-> IF x \in {t} THEN None ELSE reg.owner[x]]
        BY <2>1, <3>3 DEF ReleaseTab, ReleaseTabs, Registry
      <4> QED
        BY <2>3, <4>1
    <3>4. CASE Create(s)
      BY <2>1, <3>4 DEF Create, CreateSession, Registry
    <3>5. CASE \E a \in Archives : SaveSession(s, a)
      BY <2>1, <3>5 DEF SaveSession, AddSavedSession, Registry
    <3>6. CASE \E rec \in Recordings : StartRecording(s, rec)
      BY <2>1, <3>6 DEF StartRecording, AddRecording, Registry
    <3>7. CASE StopRecording(s)
      BY <2>1, <3>7 DEF StopRecording, ClearRecordings, Registry
    <3>8. CASE AgentDisconnects(s)
      BY <2>1, <3>8 DEF AgentDisconnects, Disconnect, Registry
    <3> QED
      BY <2>4, <3>1, <3>2, <3>3, <3>4, <3>5, <3>6, <3>7, <3>8 DEF AgentStep
  <2>5. CASE BrowserStep
    <3>1. ASSUME NEW t \in Tabs, TabRemoved(t)
          PROVE  Abstract!Next
      <4>1. reg'.owner = [x \in Tabs |-> IF x \in {t} THEN None ELSE reg.owner[x]]
        BY <2>1, <3>1 DEF TabRemoved, ReleaseTabs, Registry
      <4> QED
        BY <2>3, <4>1
    <3>2. ASSUME NEW w \in Windows, WindowRemoved(w)
          PROVE  Abstract!Next
      <4>1. /\ TabsReleasedWith(reg, w) \in SUBSET Tabs
            /\ reg'.owner = [x \in Tabs |-> IF x \in TabsReleasedWith(reg, w) THEN None
                                            ELSE reg.owner[x]]
        BY <2>1, <3>2 DEF WindowRemoved, ReleaseWindow, TabsReleasedWith, Registry
      <4> QED
        BY <2>3, <4>1
    <3>3. ASSUME NEW existing \in SUBSET Tabs, Reconcile(existing)
          PROVE  Abstract!Next
      <4>1. /\ Tabs \ existing \in SUBSET Tabs
            /\ reg'.owner = [x \in Tabs |-> IF x \in Tabs \ existing THEN None
                                            ELSE reg.owner[x]]
        BY <2>1, <3>3 DEF Reconcile, ReconcileTabs, ReleaseTabs, Registry
      <4> QED
        BY <2>3, <4>1
    <3> QED
      BY <2>5, <3>1, <3>2, <3>3 DEF BrowserStep
  <2>6. CASE TimeStep
    <3>1. CASE Tick
      BY <2>1, <3>1 DEF Tick, Elapse, Registry
    <3>2. ASSUME NEW s \in Sessions, NEW retained \in SUBSET Sessions,
                 GraceTimerFires(s, retained)
          PROVE  Abstract!Next
      <4> DEFINE e == ExpireDisconnected(reg)
                 lose == {t \in Tabs : \E x \in Overdue(reg) : t \in reg.tabIds[x]}
      <4>1. e \in Registry
        BY ExpireDisconnectedGood DEF Inv, Good
      <4>2. e.owner = [t \in Tabs |-> IF t \in lose THEN None ELSE reg.owner[t]]
        BY <2>1 DEF ExpireDisconnected, Registry
      <4> HIDE DEF e
      <4>3. reg'.owner = e.owner
        BY <3>2, <4>1 DEF GraceTimerFires, PruneDisconnected, Registry, e
      <4> QED
        BY <2>3, <4>2, <4>3
    <3>3. ASSUME NEW retained \in SUBSET Sessions, Prune(retained)
          PROVE  reg'.owner = reg.owner
      BY <2>1, <3>3 DEF Prune, PruneDisconnected, Registry
    <3> QED
      BY <2>6, <3>1, <3>2, <3>3 DEF TimeStep
  <2>7. CASE UNCHANGED vars
    BY <2>7 DEF vars
  <2> QED
    BY <2>4, <2>5, <2>6, <2>7 DEF Next
<1> QED
  BY <1>1, <1>2, RegistryGood, PTL DEF Spec, ImplementsTabOwnership, Abstract!Spec

=============================================================================
