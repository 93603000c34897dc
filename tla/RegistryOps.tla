---------------------------- MODULE RegistryOps ----------------------------
(***************************************************************************)
(* The ownership registry of the Broker as a value, and its operations as  *)
(* functions from registry to registry (mcp-server/src/broker/             *)
(* session-registry.ts).  The class keeps two maps that must agree:        *)
(* `sessions`, whose records hold the set of tabs each session owns, and   *)
(* `tabOwners`, from a tab to its owning session.  The state machines of   *)
(* the Broker EXTEND this module and keep one such value in a variable.    *)
(*                                                                         *)
(* The wall clock appears only in `now - disconnectedAt < 30_000`, so a    *)
(* record keeps the elapsed time since the disconnect instead, counted in  *)
(* ticks and capped at Grace, the number of ticks 30 s are made of.        *)
(***************************************************************************)
EXTENDS Naturals

CONSTANTS
  Sessions,    \* session ids; an id may return after its session was pruned
  Tabs,        \* browser tab ids
  Windows,     \* browser window ids
  Recordings,  \* recording ids
  Archives,    \* saved session ids
  Grace,       \* the grace period, in ticks
  None         \* the absent owner, window or recording

ASSUME GraceAssumption == Grace \in Nat \ {0}
ASSUME NoneAssumption == None \notin Sessions \cup Windows \cup Recordings

\* The fields of AgentSession, each as a function from sessions, and tabOwners.
Registry == [live: SUBSET Sessions,
             connected: [Sessions -> BOOLEAN],
             disconnectedFor: [Sessions -> 0..Grace],
             graceExpired: [Sessions -> BOOLEAN],
             windowId: [Sessions -> Windows \cup {None}],
             tabIds: [Sessions -> SUBSET Tabs],
             recordingIds: [Sessions -> SUBSET Recordings],
             activeRecordingId: [Sessions -> Recordings \cup {None}],
             savedSessionIds: [Sessions -> SUBSET Archives],
             owner: [Tabs -> Sessions \cup {None}]]

EmptyRegistry == [live |-> {},
                  connected |-> [s \in Sessions |-> TRUE],
                  disconnectedFor |-> [s \in Sessions |-> 0],
                  graceExpired |-> [s \in Sessions |-> FALSE],
                  windowId |-> [s \in Sessions |-> None],
                  tabIds |-> [s \in Sessions |-> {}],
                  recordingIds |-> [s \in Sessions |-> {}],
                  activeRecordingId |-> [s \in Sessions |-> None],
                  savedSessionIds |-> [s \in Sessions |-> {}],
                  owner |-> [t \in Tabs |-> None]]

\* Ids that are not in the map keep the values a new session starts with.
Fresh(r, s) == /\ r.connected[s] /\ r.disconnectedFor[s] = 0 /\ ~r.graceExpired[s]
               /\ r.windowId[s] = None /\ r.tabIds[s] = {}
               /\ r.recordingIds[s] = {} /\ r.activeRecordingId[s] = None
               /\ r.savedSessionIds[s] = {}

-----------------------------------------------------------------------------
(* Questions about a registry *)

Connected(r, s) == s \in r.live /\ r.connected[s]
Owns(r, s, t) == r.owner[t] = s
\* Mutant: the owner is not looked at.
MayClaimAnything(r, s, ts) == TRUE
\* The check of claimTab, claimTabsAtomically and assignWindow.
MayClaim(r, s, ts) == \A t \in ts : r.owner[t] \in {None, s}
RecordingActive(r) == \E s \in r.live : r.activeRecordingId[s] # None
\* The tabs releaseWindow returns.
TabsReleasedWith(r, w) ==
  {t \in Tabs : \E s \in r.live : /\ r.windowId[s] = w
                                  /\ t \in r.tabIds[s]
                                  /\ r.owner[t] = s}
\* Mutants: a timer expires every disconnected session; <= for <.
OverdueAtOnce(r) == {s \in r.live : ~r.connected[s]}
OverdueTooLate(r) == {s \in r.live : /\ ~r.connected[s]
                                     /\ r.disconnectedFor[s] > Grace}
\* The sessions whose grace period is over.
Overdue(r) == {s \in r.live : /\ ~r.connected[s]
                              /\ r.disconnectedFor[s] >= Grace}

-----------------------------------------------------------------------------
(* Operations *)

CreateSession(r, s) == [r EXCEPT !.live = @ \cup {s}]

AddRecording(r, s, rec) == [r EXCEPT !.recordingIds[s] = @ \cup {rec},
                                     !.activeRecordingId[s] = rec]

ClearRecordings(r, s) == [r EXCEPT !.activeRecordingId[s] = None]

AddSavedSession(r, s, a) == [r EXCEPT !.savedSessionIds[s] = @ \cup {a}]

\* claimTab is the case of one tab.
ClaimTabs(r, s, ts) ==
  [r EXCEPT !.tabIds[s] = @ \cup ts,
            !.owner = [t \in Tabs |-> IF t \in ts THEN s ELSE r.owner[t]]]

\* The tabs of the window replace every tab the session had.
AssignWindow(r, s, w, ts) ==
  [r EXCEPT !.windowId[s] = w,
            !.tabIds[s] = ts,
            !.owner = [t \in Tabs |-> IF t \in ts THEN s
                                      ELSE IF t \in r.tabIds[s] THEN None
                                      ELSE r.owner[t]]]

\* Mutant: the tab stays in the set of its former owner.
ReleaseOwnersOnly(r, ts) ==
  [r EXCEPT !.owner = [t \in Tabs |-> IF t \in ts THEN None ELSE r.owner[t]]]

\* releaseTab of every tab of ts.
ReleaseTabs(r, ts) ==
  [r EXCEPT !.tabIds = [s \in Sessions |->
                          r.tabIds[s] \ {t \in ts : r.owner[t] = s}],
            !.owner = [t \in Tabs |-> IF t \in ts THEN None ELSE r.owner[t]]]

ReconcileTabs(r, existing) == ReleaseTabs(r, Tabs \ existing)

ReleaseWindow(r, w) ==
  LET having == {s \in r.live : r.windowId[s] = w}
  IN [r EXCEPT !.tabIds = [s \in Sessions |-> IF s \in having THEN {} ELSE r.tabIds[s]],
               !.windowId = [s \in Sessions |-> IF s \in having THEN None
                                                ELSE r.windowId[s]],
               !.owner = [t \in Tabs |-> IF t \in TabsReleasedWith(r, w) THEN None
                                         ELSE r.owner[t]]]

Disconnect(r, s) == [r EXCEPT !.connected[s] = FALSE,
                              !.disconnectedFor[s] = 0,
                              !.graceExpired[s] = FALSE]

\* f with the value v for the sessions of ss.
SetTo(f, ss, v) == [s \in Sessions |-> IF s \in ss THEN v ELSE f[s]]

\* Mutant: the window is not cleared.
ExpireKeepingWindow(r) ==
  [r EXCEPT !.tabIds = SetTo(@, Overdue(r), {}),
            !.recordingIds = SetTo(@, Overdue(r), {}),
            !.activeRecordingId = SetTo(@, Overdue(r), None),
            !.savedSessionIds = SetTo(@, Overdue(r), {}),
            !.graceExpired = SetTo(@, Overdue(r), TRUE),
            !.owner = [t \in Tabs |-> IF \E s \in Overdue(r) : t \in r.tabIds[s]
                                      THEN None ELSE r.owner[t]]]

ExpireDisconnected(r) ==
  [r EXCEPT !.tabIds = SetTo(r.tabIds, Overdue(r), {}),
            !.windowId = SetTo(r.windowId, Overdue(r), None),
            !.recordingIds = SetTo(r.recordingIds, Overdue(r), {}),
            !.activeRecordingId = SetTo(r.activeRecordingId, Overdue(r), None),
            !.savedSessionIds = SetTo(r.savedSessionIds, Overdue(r), {}),
            !.graceExpired = SetTo(r.graceExpired, Overdue(r), TRUE),
            !.owner = [t \in Tabs |-> IF \E s \in Overdue(r) : t \in r.tabIds[s]
                                      THEN None ELSE r.owner[t]]]

\* The sessions pruneDisconnected deletes from the map.
Prunable(r, retained) == {s \in Overdue(r) \ retained : r.tabIds[s] = {} /\ r.windowId[s] = None}

PruneDisconnected(r, retained) ==
  LET gone == Prunable(r, retained)
  IN [r EXCEPT !.live = r.live \ gone,
               !.connected = SetTo(r.connected, gone, TRUE),
               !.disconnectedFor = SetTo(r.disconnectedFor, gone, 0),
               !.graceExpired = SetTo(r.graceExpired, gone, FALSE),
               !.recordingIds = SetTo(r.recordingIds, gone, {}),
               !.activeRecordingId = SetTo(r.activeRecordingId, gone, None),
               !.savedSessionIds = SetTo(r.savedSessionIds, gone, {})]

\* Time is counted for the sessions that wait out their grace period.
Elapsing(r) == {s \in r.live : ~r.connected[s] /\ r.disconnectedFor[s] < Grace}

\* One tick of the clock.
Elapse(r) ==
  [r EXCEPT !.disconnectedFor = [s \in Sessions |-> r.disconnectedFor[s]
                                   + (IF s \in Elapsing(r) THEN 1 ELSE 0)]]

-----------------------------------------------------------------------------
(* What both maps must agree on: a tab's owner is a session in the map that *)
(* lists the tab among its own, and every listed tab has that owner.        *)
MapsAgree(r) ==
  \A s \in Sessions, t \in Tabs :
     (r.owner[t] = s) <=> (s \in r.live /\ t \in r.tabIds[s])

(* A deleted session leaves nothing behind. *)
AbsentAreFresh(r) == \A s \in Sessions \ r.live : Fresh(r, s)

(* A session past its grace period holds no tab, window or saved session.   *)
(* (A recording whose start was answered late may still reach it.)          *)
ExpiredHoldNothing(r) ==
  \A s \in r.live : r.graceExpired[s] =>
     /\ ~r.connected[s]
     /\ r.tabIds[s] = {}
     /\ r.windowId[s] = None
     /\ r.savedSessionIds[s] = {}

(* The running recording is one the session may replay. *)
ActiveRecordingKnown(r) ==
  \A s \in r.live : r.activeRecordingId[s] # None =>
     r.activeRecordingId[s] \in r.recordingIds[s]
=============================================================================
