--------------------------- MODULE RegistryLemmas ---------------------------
(***************************************************************************)
(* What every operation of RegistryOps preserves.  Good is the inductive   *)
(* invariant of the registry: the type, the agreement of the two maps, and *)
(* what is left of absent and expired sessions.  Agreement alone is not    *)
(* inductive: creating a session is safe only because an absent record     *)
(* owns nothing.                                                           *)
(*                                                                         *)
(* Each proof lists the fields of the new registry first (<1>3) and derives *)
(* the parts of Good from the list.  What the operations do to owners and   *)
(* connected sessions comes last: the modules of the Broker's commands ask  *)
(* for nothing else.                                                        *)
(***************************************************************************)
EXTENDS RegistryOps, TLAPS

Good(r) == /\ r \in Registry
           /\ MapsAgree(r)
           /\ AbsentAreFresh(r)
           /\ ExpiredHoldNothing(r)
           /\ ActiveRecordingKnown(r)

\* The empty registry the Broker starts with.
LEMMA EmptyGood == Good(EmptyRegistry)
BY GraceAssumption, NoneAssumption DEF Good, EmptyRegistry, Registry, Fresh,
   MapsAgree, AbsentAreFresh, ExpiredHoldNothing, ActiveRecordingKnown

\* createSession, for an id that is not in the map.
LEMMA CreateSessionGood ==
  ASSUME NEW r, Good(r), NEW s \in Sessions \ r.live
  PROVE  Good(CreateSession(r, s))
<1> DEFINE n == CreateSession(r, s)
<1> USE GraceAssumption, NoneAssumption
<1>1. r \in Registry
  BY DEF Good
<1>2. n \in Registry
  BY <1>1 DEF Registry, CreateSession
<1>3. /\ n.connected = r.connected /\ n.disconnectedFor = r.disconnectedFor
      /\ n.graceExpired = r.graceExpired /\ n.windowId = r.windowId
      /\ n.tabIds = r.tabIds /\ n.recordingIds = r.recordingIds
      /\ n.activeRecordingId = r.activeRecordingId
      /\ n.savedSessionIds = r.savedSessionIds /\ n.owner = r.owner
      /\ n.live = r.live \cup {s}
  BY <1>1 DEF Registry, CreateSession
<1> HIDE DEF n
<1>4. MapsAgree(n)
  BY <1>1, <1>3 DEF Good, MapsAgree, AbsentAreFresh, Fresh, Registry
<1>5. AbsentAreFresh(n)
  BY <1>1, <1>3 DEF Good, AbsentAreFresh, Fresh, Registry
<1>6. ExpiredHoldNothing(n)
  BY <1>1, <1>3 DEF Good, ExpiredHoldNothing, AbsentAreFresh, Fresh, Registry
<1>7. ActiveRecordingKnown(n)
  BY <1>1, <1>3 DEF Good, ActiveRecordingKnown, AbsentAreFresh, Fresh, Registry
<1> QED
  BY <1>2, <1>4, <1>5, <1>6, <1>7 DEF n, Good

\* addRecording.
LEMMA AddRecordingGood ==
  ASSUME NEW r, Good(r), NEW s \in r.live, NEW rec \in Recordings
  PROVE  Good(AddRecording(r, s, rec))
<1> DEFINE n == AddRecording(r, s, rec)
<1> USE GraceAssumption, NoneAssumption
<1>1. r \in Registry
  BY DEF Good
<1>2. n \in Registry
  BY <1>1 DEF Registry, AddRecording
<1>3. /\ n.live = r.live /\ n.connected = r.connected
      /\ n.disconnectedFor = r.disconnectedFor
      /\ n.graceExpired = r.graceExpired /\ n.windowId = r.windowId
      /\ n.tabIds = r.tabIds /\ n.savedSessionIds = r.savedSessionIds
      /\ n.owner = r.owner
      /\ n.recordingIds = [r.recordingIds EXCEPT ![s] = @ \cup {rec}]
      /\ n.activeRecordingId = [r.activeRecordingId EXCEPT ![s] = rec]
  BY <1>1 DEF Registry, AddRecording
<1> HIDE DEF n
<1>4. MapsAgree(n)
  BY <1>1, <1>3 DEF Good, MapsAgree, AbsentAreFresh, Fresh, Registry
<1>5. AbsentAreFresh(n)
  BY <1>1, <1>3 DEF Good, AbsentAreFresh, Fresh, Registry
<1>6. ExpiredHoldNothing(n)
  BY <1>1, <1>3 DEF Good, ExpiredHoldNothing, AbsentAreFresh, Fresh, Registry
<1>7. ActiveRecordingKnown(n)
  BY <1>1, <1>3 DEF Good, ActiveRecordingKnown, AbsentAreFresh, Fresh, Registry
<1> QED
  BY <1>2, <1>4, <1>5, <1>6, <1>7 DEF n, Good

\* clearRecordings.
LEMMA ClearRecordingsGood ==
  ASSUME NEW r, Good(r), NEW s \in r.live
  PROVE  Good(ClearRecordings(r, s))
<1> DEFINE n == ClearRecordings(r, s)
<1> USE GraceAssumption, NoneAssumption
<1>1. r \in Registry
  BY DEF Good
<1>2. n \in Registry
  BY <1>1 DEF Registry, ClearRecordings
<1>3. /\ n.live = r.live /\ n.connected = r.connected
      /\ n.disconnectedFor = r.disconnectedFor
      /\ n.graceExpired = r.graceExpired /\ n.windowId = r.windowId
      /\ n.tabIds = r.tabIds /\ n.recordingIds = r.recordingIds
      /\ n.savedSessionIds = r.savedSessionIds /\ n.owner = r.owner
      /\ n.activeRecordingId = [r.activeRecordingId EXCEPT ![s] = None]
  BY <1>1 DEF Registry, ClearRecordings
<1> HIDE DEF n
<1>4. MapsAgree(n)
  BY <1>1, <1>3 DEF Good, MapsAgree, AbsentAreFresh, Fresh, Registry
<1>5. AbsentAreFresh(n)
  BY <1>1, <1>3 DEF Good, AbsentAreFresh, Fresh, Registry
<1>6. ExpiredHoldNothing(n)
  BY <1>1, <1>3 DEF Good, ExpiredHoldNothing, AbsentAreFresh, Fresh, Registry
<1>7. ActiveRecordingKnown(n)
  BY <1>1, <1>3 DEF Good, ActiveRecordingKnown, AbsentAreFresh, Fresh, Registry
<1> QED
  BY <1>2, <1>4, <1>5, <1>6, <1>7 DEF n, Good

\* addSavedSession, for a session that is still connected.
LEMMA AddSavedSessionGood ==
  ASSUME NEW r, Good(r), NEW s \in Sessions, Connected(r, s),
         NEW a \in Archives
  PROVE  Good(AddSavedSession(r, s, a))
<1> DEFINE n == AddSavedSession(r, s, a)
<1> USE GraceAssumption, NoneAssumption
<1>1. r \in Registry
  BY DEF Good
<1>2. n \in Registry
  BY <1>1 DEF Registry, AddSavedSession, Connected
<1>3. /\ n.live = r.live /\ n.connected = r.connected
      /\ n.disconnectedFor = r.disconnectedFor
      /\ n.graceExpired = r.graceExpired /\ n.windowId = r.windowId
      /\ n.tabIds = r.tabIds /\ n.recordingIds = r.recordingIds
      /\ n.activeRecordingId = r.activeRecordingId /\ n.owner = r.owner
      /\ n.savedSessionIds = [r.savedSessionIds EXCEPT ![s] = @ \cup {a}]
  BY <1>1 DEF Registry, AddSavedSession
<1> HIDE DEF n
<1>4. MapsAgree(n)
  BY <1>1, <1>3 DEF Good, MapsAgree, AbsentAreFresh, Fresh, Registry, Connected
<1>5. AbsentAreFresh(n)
  BY <1>1, <1>3 DEF Good, AbsentAreFresh, Fresh, Registry, Connected
<1>6. ExpiredHoldNothing(n)
  BY <1>1, <1>3 DEF Good, ExpiredHoldNothing, AbsentAreFresh, Fresh, Registry, Connected
<1>7. ActiveRecordingKnown(n)
  BY <1>1, <1>3 DEF Good, ActiveRecordingKnown, AbsentAreFresh, Fresh, Registry, Connected
<1> QED
  BY <1>2, <1>4, <1>5, <1>6, <1>7 DEF n, Good

\* claimTab and claimTabsAtomically, after their check.
LEMMA ClaimTabsGood ==
  ASSUME NEW r, Good(r), NEW s \in Sessions, Connected(r, s),
         NEW ts \in SUBSET Tabs, MayClaim(r, s, ts)
  PROVE  Good(ClaimTabs(r, s, ts))
<1> DEFINE n == ClaimTabs(r, s, ts)
<1> USE GraceAssumption, NoneAssumption
<1>1. r \in Registry
  BY DEF Good
<1>2. n \in Registry
  BY <1>1 DEF Registry, ClaimTabs, Connected, MayClaim
<1>3. /\ n.live = r.live /\ n.connected = r.connected
      /\ n.disconnectedFor = r.disconnectedFor
      /\ n.graceExpired = r.graceExpired /\ n.windowId = r.windowId
      /\ n.recordingIds = r.recordingIds
      /\ n.activeRecordingId = r.activeRecordingId
      /\ n.savedSessionIds = r.savedSessionIds
      /\ n.tabIds = [r.tabIds EXCEPT ![s] = @ \cup ts]
      /\ n.owner = [t \in Tabs |-> IF t \in ts THEN s ELSE r.owner[t]]
  BY <1>1 DEF Registry, ClaimTabs
<1> HIDE DEF n
<1>4. MapsAgree(n)
  BY <1>1, <1>3 DEF Good, MapsAgree, AbsentAreFresh, Fresh, Registry, Connected, MayClaim
<1>5. AbsentAreFresh(n)
  BY <1>1, <1>3 DEF Good, AbsentAreFresh, Fresh, Registry, Connected, MayClaim
<1>6. ExpiredHoldNothing(n)
  BY <1>1, <1>3 DEF Good, ExpiredHoldNothing, AbsentAreFresh, Fresh, Registry, Connected, MayClaim
<1>7. ActiveRecordingKnown(n)
  BY <1>1, <1>3 DEF Good, ActiveRecordingKnown, AbsentAreFresh, Fresh, Registry, Connected, MayClaim
<1> QED
  BY <1>2, <1>4, <1>5, <1>6, <1>7 DEF n, Good

\* assignWindow, after its check.
LEMMA AssignWindowGood ==
  ASSUME NEW r, Good(r), NEW s \in Sessions, Connected(r, s), NEW w \in Windows,
         NEW ts \in SUBSET Tabs, MayClaim(r, s, ts)
  PROVE  Good(AssignWindow(r, s, w, ts))
<1> DEFINE n == AssignWindow(r, s, w, ts)
<1> USE GraceAssumption, NoneAssumption
<1>1. r \in Registry
  BY DEF Good
<1>2. n \in Registry
  BY <1>1 DEF Registry, AssignWindow, Connected, MayClaim
<1>3. /\ n.live = r.live /\ n.connected = r.connected
      /\ n.disconnectedFor = r.disconnectedFor
      /\ n.graceExpired = r.graceExpired /\ n.recordingIds = r.recordingIds
      /\ n.activeRecordingId = r.activeRecordingId
      /\ n.savedSessionIds = r.savedSessionIds
      /\ n.windowId = [r.windowId EXCEPT ![s] = w]
      /\ n.tabIds = [r.tabIds EXCEPT ![s] = ts]
      /\ n.owner = [t \in Tabs |-> IF t \in ts THEN s
                                ELSE IF t \in r.tabIds[s] THEN None
                                ELSE r.owner[t]]
  BY <1>1 DEF Registry, AssignWindow
<1> HIDE DEF n
<1>4. MapsAgree(n)
  BY <1>1, <1>3 DEF Good, MapsAgree, AbsentAreFresh, Fresh, Registry, Connected, MayClaim
<1>5. AbsentAreFresh(n)
  BY <1>1, <1>3 DEF Good, AbsentAreFresh, Fresh, Registry, Connected, MayClaim
<1>6. ExpiredHoldNothing(n)
  BY <1>1, <1>3 DEF Good, ExpiredHoldNothing, AbsentAreFresh, Fresh, Registry, Connected, MayClaim
<1>7. ActiveRecordingKnown(n)
  BY <1>1, <1>3 DEF Good, ActiveRecordingKnown, AbsentAreFresh, Fresh, Registry, Connected, MayClaim
<1> QED
  BY <1>2, <1>4, <1>5, <1>6, <1>7 DEF n, Good

\* releaseTab, and reconcileTabs, which releases every tab that is gone.
LEMMA ReleaseTabsGood ==
  ASSUME NEW r, Good(r), NEW ts \in SUBSET Tabs
  PROVE  Good(ReleaseTabs(r, ts))
<1> DEFINE n == ReleaseTabs(r, ts)
<1> USE GraceAssumption, NoneAssumption
<1>1. r \in Registry
  BY DEF Good
<1>2. n \in Registry
  BY <1>1 DEF Registry, ReleaseTabs
<1>3. /\ n.live = r.live /\ n.connected = r.connected
      /\ n.disconnectedFor = r.disconnectedFor
      /\ n.graceExpired = r.graceExpired /\ n.windowId = r.windowId
      /\ n.recordingIds = r.recordingIds
      /\ n.activeRecordingId = r.activeRecordingId
      /\ n.savedSessionIds = r.savedSessionIds
      /\ n.tabIds = [s \in Sessions |-> r.tabIds[s] \ {t \in ts : r.owner[t] = s}]
      /\ n.owner = [t \in Tabs |-> IF t \in ts THEN None ELSE r.owner[t]]
  BY <1>1 DEF Registry, ReleaseTabs
<1> HIDE DEF n
<1>4. \A s \in Sessions : r.tabIds[s] = {} => n.tabIds[s] = {}
  BY <1>1, <1>3 DEF Registry
<1>5. /\ n.live = r.live
      /\ \A s \in Sessions :
          /\ n.connected[s] = r.connected[s] /\ n.disconnectedFor[s] = r.disconnectedFor[s]
          /\ n.graceExpired[s] = r.graceExpired[s] /\ n.windowId[s] = r.windowId[s]
          /\ n.recordingIds[s] = r.recordingIds[s] /\ n.activeRecordingId[s] = r.activeRecordingId[s]
          /\ n.savedSessionIds[s] = r.savedSessionIds[s]
  BY <1>3
<1>6. MapsAgree(n)
  BY <1>1, <1>3 DEF Good, MapsAgree, AbsentAreFresh, Fresh, Registry
<1>7. AbsentAreFresh(n)
  BY <1>1, <1>4, <1>5 DEF Good, AbsentAreFresh, Fresh, Registry
<1>8. ExpiredHoldNothing(n)
  BY <1>1, <1>4, <1>5 DEF Good, ExpiredHoldNothing, AbsentAreFresh, Fresh, Registry
<1>9. ActiveRecordingKnown(n)
  BY <1>1, <1>4, <1>5 DEF Good, ActiveRecordingKnown, AbsentAreFresh, Fresh, Registry
<1> QED
  BY <1>2, <1>6, <1>7, <1>8, <1>9 DEF n, Good

\* releaseWindow.
LEMMA ReleaseWindowGood ==
  ASSUME NEW r, Good(r), NEW w \in Windows
  PROVE  Good(ReleaseWindow(r, w))
<1> DEFINE n == ReleaseWindow(r, w)
<1> USE GraceAssumption, NoneAssumption
<1>1. r \in Registry
  BY DEF Good
<1>2. n \in Registry
  BY <1>1 DEF Registry, ReleaseWindow, TabsReleasedWith
<1>3. /\ n.live = r.live /\ n.connected = r.connected
      /\ n.disconnectedFor = r.disconnectedFor
      /\ n.graceExpired = r.graceExpired /\ n.recordingIds = r.recordingIds
      /\ n.activeRecordingId = r.activeRecordingId
      /\ n.savedSessionIds = r.savedSessionIds
      /\ n.tabIds = [s \in Sessions |-> IF s \in {x \in r.live : r.windowId[x] = w}
                                    THEN {} ELSE r.tabIds[s]]
      /\ n.windowId = [s \in Sessions |-> IF s \in {x \in r.live : r.windowId[x] = w}
                                      THEN None ELSE r.windowId[s]]
      /\ n.owner = [t \in Tabs |-> IF t \in TabsReleasedWith(r, w) THEN None
                                ELSE r.owner[t]]
  BY <1>1 DEF Registry, ReleaseWindow
<1> HIDE DEF n
<1>4. \A s \in Sessions : r.tabIds[s] = {} => n.tabIds[s] = {}
  BY <1>1, <1>3 DEF Registry
<1>5. \A s \in Sessions : r.windowId[s] = None => n.windowId[s] = None
  BY <1>1, <1>3 DEF Registry
<1>6. /\ n.live = r.live
      /\ \A s \in Sessions :
          /\ n.connected[s] = r.connected[s] /\ n.disconnectedFor[s] = r.disconnectedFor[s]
          /\ n.graceExpired[s] = r.graceExpired[s] /\ n.recordingIds[s] = r.recordingIds[s]
          /\ n.activeRecordingId[s] = r.activeRecordingId[s] /\ n.savedSessionIds[s] = r.savedSessionIds[s]
  BY <1>3
<1>7. MapsAgree(n)
  BY <1>1, <1>3 DEF Good, MapsAgree, AbsentAreFresh, Fresh, Registry, TabsReleasedWith
<1>8. AbsentAreFresh(n)
  BY <1>1, <1>4, <1>5, <1>6 DEF Good, AbsentAreFresh, Fresh, Registry
<1>9. ExpiredHoldNothing(n)
  BY <1>1, <1>4, <1>5, <1>6 DEF Good, ExpiredHoldNothing, AbsentAreFresh, Fresh, Registry
<1>10. ActiveRecordingKnown(n)
  BY <1>1, <1>4, <1>5, <1>6 DEF Good, ActiveRecordingKnown, AbsentAreFresh, Fresh, Registry
<1> QED
  BY <1>2, <1>7, <1>8, <1>9, <1>10 DEF n, Good

\* disconnect.
LEMMA DisconnectGood ==
  ASSUME NEW r, Good(r), NEW s \in Sessions, Connected(r, s)
  PROVE  Good(Disconnect(r, s))
<1> DEFINE n == Disconnect(r, s)
<1> USE GraceAssumption, NoneAssumption
<1>1. r \in Registry
  BY DEF Good
<1>2. [r.disconnectedFor EXCEPT ![s] = 0] \in [Sessions -> 0..Grace]
  BY <1>1 DEF Registry
<1>3. [r.connected EXCEPT ![s] = FALSE] \in [Sessions -> BOOLEAN]
  BY <1>1 DEF Registry
<1>4. [r.graceExpired EXCEPT ![s] = FALSE] \in [Sessions -> BOOLEAN]
  BY <1>1 DEF Registry
<1>5. n \in Registry
  BY <1>1, <1>2, <1>3, <1>4 DEF Registry, Disconnect
<1>6. /\ n.live = r.live /\ n.windowId = r.windowId /\ n.tabIds = r.tabIds
      /\ n.recordingIds = r.recordingIds
      /\ n.activeRecordingId = r.activeRecordingId
      /\ n.savedSessionIds = r.savedSessionIds /\ n.owner = r.owner
      /\ n.connected = [r.connected EXCEPT ![s] = FALSE]
      /\ n.disconnectedFor = [r.disconnectedFor EXCEPT ![s] = 0]
      /\ n.graceExpired = [r.graceExpired EXCEPT ![s] = FALSE]
  BY <1>1 DEF Registry, Disconnect
<1> HIDE DEF n
<1>7. MapsAgree(n)
  BY <1>1, <1>6 DEF Good, MapsAgree, AbsentAreFresh, Fresh, Registry, Connected
<1>8. AbsentAreFresh(n)
  BY <1>1, <1>6 DEF Good, AbsentAreFresh, Fresh, Registry, Connected
<1>9. ExpiredHoldNothing(n)
  BY <1>1, <1>6 DEF Good, ExpiredHoldNothing, AbsentAreFresh, Fresh, Registry, Connected
<1>10. ActiveRecordingKnown(n)
  BY <1>1, <1>6 DEF Good, ActiveRecordingKnown, AbsentAreFresh, Fresh, Registry, Connected
<1> QED
  BY <1>5, <1>7, <1>8, <1>9, <1>10 DEF n, Good

\* expireDisconnected.
LEMMA ExpireDisconnectedGood ==
  ASSUME NEW r, Good(r)
  PROVE  Good(ExpireDisconnected(r))
<1> DEFINE n == ExpireDisconnected(r)
<1> USE GraceAssumption, NoneAssumption
<1>1. r \in Registry
  BY DEF Good
<1>2. n \in Registry
  BY <1>1 DEF Registry, ExpireDisconnected, SetTo, Overdue
<1>3. /\ n.live = r.live /\ n.connected = r.connected
      /\ n.disconnectedFor = r.disconnectedFor
      /\ n.tabIds = SetTo(r.tabIds, Overdue(r), {})
      /\ n.windowId = SetTo(r.windowId, Overdue(r), None)
      /\ n.recordingIds = SetTo(r.recordingIds, Overdue(r), {})
      /\ n.activeRecordingId = SetTo(r.activeRecordingId, Overdue(r), None)
      /\ n.savedSessionIds = SetTo(r.savedSessionIds, Overdue(r), {})
      /\ n.graceExpired = SetTo(r.graceExpired, Overdue(r), TRUE)
      /\ n.owner = [t \in Tabs |-> IF \E s \in Overdue(r) : t \in r.tabIds[s]
                                THEN None ELSE r.owner[t]]
  BY <1>1 DEF Registry, ExpireDisconnected
<1> HIDE DEF n
<1>4. \A s \in Sessions \cap Overdue(r) :
        /\ ~r.connected[s] /\ s \in r.live
        /\ n.tabIds[s] = {} /\ n.windowId[s] = None /\ n.recordingIds[s] = {}
        /\ n.activeRecordingId[s] = None /\ n.savedSessionIds[s] = {}
  BY <1>1, <1>3 DEF Registry, SetTo, Overdue
<1>5. \A s \in Sessions \ Overdue(r) :
        /\ n.tabIds[s] = r.tabIds[s] /\ n.windowId[s] = r.windowId[s]
        /\ n.recordingIds[s] = r.recordingIds[s]
        /\ n.activeRecordingId[s] = r.activeRecordingId[s]
        /\ n.savedSessionIds[s] = r.savedSessionIds[s]
        /\ n.graceExpired[s] = r.graceExpired[s]
  BY <1>1, <1>3 DEF Registry, SetTo
<1>6. /\ n.live = r.live
      /\ \A s \in Sessions :
          /\ n.connected[s] = r.connected[s] /\ n.disconnectedFor[s] = r.disconnectedFor[s]
  BY <1>3
<1>7. MapsAgree(n)
  BY <1>1, <1>3 DEF Good, MapsAgree, AbsentAreFresh, Fresh, Registry, SetTo, Overdue
<1>8. AbsentAreFresh(n)
  <2>1. SUFFICES ASSUME NEW s \in Sessions \ n.live
                PROVE  Fresh(n, s)
    BY DEF AbsentAreFresh
  <2>2. CASE s \in Overdue(r)
    BY <1>1, <1>4, <1>5, <1>6, <2>1, <2>2 DEF Fresh
  <2>3. CASE s \notin Overdue(r)
    <3>1. s \in Sessions \ r.live
      BY <1>1, <1>4, <1>5, <1>6, <2>1, <2>3
    <3>2. Fresh(r, s)
      BY <3>1 DEF Good, AbsentAreFresh
    <3> QED
      BY <1>1, <1>4, <1>5, <1>6, <3>1, <3>2, <2>3 DEF Fresh
  <2> QED
    BY <2>2, <2>3
<1>9. ExpiredHoldNothing(n)
  BY <1>1, <1>4, <1>5, <1>6 DEF Good, ExpiredHoldNothing, AbsentAreFresh, Fresh, Registry
<1>10. ActiveRecordingKnown(n)
  BY <1>1, <1>4, <1>5, <1>6 DEF Good, ActiveRecordingKnown, AbsentAreFresh, Fresh, Registry
<1> QED
  BY <1>2, <1>7, <1>8, <1>9, <1>10 DEF n, Good

\* pruneDisconnected: the deleted sessions own nothing, so no owner dangles.
LEMMA PruneDisconnectedGood ==
  ASSUME NEW r, Good(r), NEW retained \in SUBSET Sessions
  PROVE  Good(PruneDisconnected(r, retained))
<1> DEFINE n == PruneDisconnected(r, retained)
<1> USE GraceAssumption, NoneAssumption
<1>1. r \in Registry
  BY DEF Good
<1>2. SetTo(r.disconnectedFor, Prunable(r, retained), 0) \in [Sessions -> 0..Grace]
  BY <1>1 DEF Registry, SetTo
<1>3. SetTo(r.connected, Prunable(r, retained), TRUE) \in [Sessions -> BOOLEAN]
  BY <1>1 DEF Registry, SetTo
<1>4. SetTo(r.graceExpired, Prunable(r, retained), FALSE) \in [Sessions -> BOOLEAN]
  BY <1>1 DEF Registry, SetTo
<1>5. SetTo(r.recordingIds, Prunable(r, retained), {}) \in [Sessions -> SUBSET Recordings]
  BY <1>1 DEF Registry, SetTo
<1>6. SetTo(r.activeRecordingId, Prunable(r, retained), None) \in [Sessions -> Recordings \cup {None}]
  BY <1>1 DEF Registry, SetTo
<1>7. SetTo(r.savedSessionIds, Prunable(r, retained), {}) \in [Sessions -> SUBSET Archives]
  BY <1>1 DEF Registry, SetTo
<1>8. n \in Registry
  BY <1>1, <1>2, <1>3, <1>4, <1>5, <1>6, <1>7 DEF Registry, PruneDisconnected
<1>9. /\ n.windowId = r.windowId /\ n.tabIds = r.tabIds
      /\ n.owner = r.owner
      /\ n.live = r.live \ Prunable(r, retained)
      /\ n.connected = SetTo(r.connected, Prunable(r, retained), TRUE)
      /\ n.disconnectedFor = SetTo(r.disconnectedFor, Prunable(r, retained), 0)
      /\ n.graceExpired = SetTo(r.graceExpired, Prunable(r, retained), FALSE)
      /\ n.recordingIds = SetTo(r.recordingIds, Prunable(r, retained), {})
      /\ n.activeRecordingId = SetTo(r.activeRecordingId, Prunable(r, retained), None)
      /\ n.savedSessionIds = SetTo(r.savedSessionIds, Prunable(r, retained), {})
  BY <1>1 DEF Registry, PruneDisconnected
<1> HIDE DEF n
<1>10. \A s \in Sessions \cap Prunable(r, retained) :
        /\ n.connected[s] /\ n.disconnectedFor[s] = 0 /\ ~n.graceExpired[s]
        /\ n.tabIds[s] = {} /\ n.windowId[s] = None /\ n.recordingIds[s] = {}
        /\ n.activeRecordingId[s] = None /\ n.savedSessionIds[s] = {}
  BY <1>1, <1>9 DEF Registry, SetTo, Prunable, Overdue
<1>11. \A s \in Sessions \ Prunable(r, retained) :
        /\ n.connected[s] = r.connected[s] /\ n.disconnectedFor[s] = r.disconnectedFor[s]
        /\ n.graceExpired[s] = r.graceExpired[s]
        /\ n.recordingIds[s] = r.recordingIds[s]
        /\ n.activeRecordingId[s] = r.activeRecordingId[s]
        /\ n.savedSessionIds[s] = r.savedSessionIds[s]
  BY <1>1, <1>9 DEF Registry, SetTo
<1>12. /\ n.live = r.live \ Prunable(r, retained)
       /\ \A s \in Sessions :
          /\ n.windowId[s] = r.windowId[s] /\ n.tabIds[s] = r.tabIds[s]
  BY <1>9
<1>13. MapsAgree(n)
  BY <1>1, <1>9 DEF Good, MapsAgree, AbsentAreFresh, Fresh, Registry, SetTo, Prunable, Overdue
<1>14. AbsentAreFresh(n)
  <2>1. SUFFICES ASSUME NEW s \in Sessions \ n.live
                PROVE  Fresh(n, s)
    BY DEF AbsentAreFresh
  <2>2. CASE s \in Prunable(r, retained)
    BY <1>1, <1>10, <1>11, <1>12, <2>1, <2>2 DEF Fresh
  <2>3. CASE s \notin Prunable(r, retained)
    <3>1. s \in Sessions \ r.live
      BY <1>1, <1>10, <1>11, <1>12, <2>1, <2>3
    <3>2. Fresh(r, s)
      BY <3>1 DEF Good, AbsentAreFresh
    <3> QED
      BY <1>1, <1>10, <1>11, <1>12, <3>1, <3>2, <2>3 DEF Fresh
  <2> QED
    BY <2>2, <2>3
<1>15. ExpiredHoldNothing(n)
  BY <1>1, <1>10, <1>11, <1>12 DEF Good, ExpiredHoldNothing, AbsentAreFresh, Fresh, Registry
<1>16. ActiveRecordingKnown(n)
  BY <1>1, <1>10, <1>11, <1>12 DEF Good, ActiveRecordingKnown, AbsentAreFresh, Fresh, Registry
<1> QED
  BY <1>8, <1>13, <1>14, <1>15, <1>16 DEF n, Good

\* The clock.
LEMMA ElapseGood ==
  ASSUME NEW r, Good(r)
  PROVE  Good(Elapse(r))
<1> DEFINE n == Elapse(r)
<1> USE GraceAssumption, NoneAssumption
<1>1. r \in Registry
  BY DEF Good
<1>2. [s \in Sessions |-> r.disconnectedFor[s] + (IF s \in Elapsing(r) THEN 1 ELSE 0)]
        \in [Sessions -> 0..Grace]
  BY <1>1 DEF Registry, Elapsing
<1>3. n \in Registry
  BY <1>1, <1>2 DEF Registry, Elapse
<1>4. /\ n.live = r.live /\ n.connected = r.connected
      /\ n.graceExpired = r.graceExpired /\ n.windowId = r.windowId
      /\ n.tabIds = r.tabIds /\ n.recordingIds = r.recordingIds
      /\ n.activeRecordingId = r.activeRecordingId
      /\ n.savedSessionIds = r.savedSessionIds /\ n.owner = r.owner
      /\ n.disconnectedFor = [s \in Sessions |-> r.disconnectedFor[s]
                                            + (IF s \in Elapsing(r) THEN 1 ELSE 0)]
  BY <1>1 DEF Registry, Elapse
<1> HIDE DEF n
<1>5. \A s \in Sessions \ r.live :
        r.disconnectedFor[s] = 0 => n.disconnectedFor[s] = 0
  BY <1>1, <1>4 DEF Registry, Elapsing
<1>6. /\ n.live = r.live
      /\ \A s \in Sessions :
          /\ n.connected[s] = r.connected[s] /\ n.graceExpired[s] = r.graceExpired[s]
          /\ n.windowId[s] = r.windowId[s] /\ n.tabIds[s] = r.tabIds[s]
          /\ n.recordingIds[s] = r.recordingIds[s] /\ n.activeRecordingId[s] = r.activeRecordingId[s]
          /\ n.savedSessionIds[s] = r.savedSessionIds[s]
  BY <1>4
<1>7. MapsAgree(n)
  BY <1>1, <1>4 DEF Good, MapsAgree, AbsentAreFresh, Fresh, Registry, Elapsing
<1>8. AbsentAreFresh(n)
  BY <1>1, <1>5, <1>6 DEF Good, AbsentAreFresh, Fresh, Registry
<1>9. ExpiredHoldNothing(n)
  BY <1>1, <1>5, <1>6 DEF Good, ExpiredHoldNothing, AbsentAreFresh, Fresh, Registry
<1>10. ActiveRecordingKnown(n)
  BY <1>1, <1>5, <1>6 DEF Good, ActiveRecordingKnown, AbsentAreFresh, Fresh, Registry
<1> QED
  BY <1>3, <1>7, <1>8, <1>9, <1>10 DEF n, Good

-----------------------------------------------------------------------------
(* Owners and connected sessions                                             *)

\* Nobody gets a tab, and no session leaves.
OnlyReleases(r, n) == \A t \in Tabs : n.owner[t] \in {None, r.owner[t]}
SessionsStay(r, n) == \A s \in Sessions : Connected(r, s) => Connected(n, s)

\* createSession.
LEMMA CreateSessionOwners ==
  ASSUME NEW r \in Registry, NEW s \in Sessions
  PROVE  OnlyReleases(r, CreateSession(r, s)) /\ SessionsStay(r, CreateSession(r, s))
BY DEF Registry, CreateSession, OnlyReleases, SessionsStay, Connected

\* The clock.
LEMMA ElapseOwners ==
  ASSUME NEW r \in Registry
  PROVE  OnlyReleases(r, Elapse(r)) /\ SessionsStay(r, Elapse(r))
BY DEF Registry, Elapse, OnlyReleases, SessionsStay, Connected

\* releaseTab and reconcileTabs.
LEMMA ReleaseTabsOwners ==
  ASSUME NEW r \in Registry, NEW ts \in SUBSET Tabs
  PROVE  /\ OnlyReleases(r, ReleaseTabs(r, ts)) /\ SessionsStay(r, ReleaseTabs(r, ts))
         /\ \A t \in ts : ReleaseTabs(r, ts).owner[t] = None
BY DEF Registry, ReleaseTabs, OnlyReleases, SessionsStay, Connected

\* claimTab and claimTabsAtomically.
LEMMA ClaimTabsOwners ==
  ASSUME NEW r \in Registry, NEW s \in Sessions, NEW ts \in SUBSET Tabs
  PROVE  /\ SessionsStay(r, ClaimTabs(r, s, ts))
         /\ \A t \in Tabs : ClaimTabs(r, s, ts).owner[t] = IF t \in ts THEN s ELSE r.owner[t]
BY DEF Registry, ClaimTabs, SessionsStay, Connected

\* disconnect: only that session leaves.
LEMMA DisconnectOwners ==
  ASSUME NEW r \in Registry, NEW s \in Sessions
  PROVE  /\ OnlyReleases(r, Disconnect(r, s))
         /\ \A x \in Sessions \ {s} : Connected(r, x) => Connected(Disconnect(r, s), x)
BY DEF Registry, Disconnect, OnlyReleases, Connected

\* The ownership timer: expireDisconnected, then pruneDisconnected.
LEMMA GraceOwners ==
  ASSUME NEW r, Good(r), NEW retained \in SUBSET Sessions
  PROVE  /\ OnlyReleases(r, PruneDisconnected(ExpireDisconnected(r), retained))
         /\ SessionsStay(r, PruneDisconnected(ExpireDisconnected(r), retained))
<1> DEFINE e == ExpireDisconnected(r)
           n == PruneDisconnected(e, retained)
<1>1. r \in Registry /\ e \in Registry
  BY ExpireDisconnectedGood DEF Good
<1>2. /\ e.live = r.live /\ e.connected = r.connected
      /\ e.owner = [t \in Tabs |-> IF \E s \in Overdue(r) : t \in r.tabIds[s]
                                  THEN None ELSE r.owner[t]]
  BY <1>1 DEF Registry, ExpireDisconnected
<1>3. OnlyReleases(r, e)
  BY <1>2 DEF OnlyReleases
<1> HIDE DEF e
<1>4. /\ n.live = e.live \ Prunable(e, retained) /\ n.owner = e.owner
      /\ n.connected = SetTo(e.connected, Prunable(e, retained), TRUE)
  BY <1>1 DEF Registry, PruneDisconnected
<1>5. OnlyReleases(r, n)
  BY <1>3, <1>4 DEF OnlyReleases
<1>6. SessionsStay(r, n)
  <2>1. SUFFICES ASSUME NEW s \in Sessions, Connected(r, s)
                 PROVE  Connected(n, s)
    BY DEF SessionsStay
  <2>2. s \in e.live /\ e.connected[s] /\ s \notin Prunable(e, retained)
    BY <1>2, <2>1 DEF Connected, Prunable, Overdue
  <2> QED
    BY <1>4, <2>2 DEF Connected, SetTo
<1> QED
  BY <1>5, <1>6 DEF e
=============================================================================
