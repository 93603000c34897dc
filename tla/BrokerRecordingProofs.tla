----------------------- MODULE BrokerRecordingProofs -----------------------
(***************************************************************************)
(* Theorems about BrokerRecording, for any Agents, requests, connections   *)
(* and grace period: the one reservation of the browser's recorder is held *)
(* by whoever starts or records and by nobody else, and an Agent that      *)
(* disconnects is cleaned up after, whatever times out, disconnects or is  *)
(* replaced on the way.                                                    *)
(*                                                                         *)
(* Neither invariant is inductive. The first half of Inv says who holds    *)
(* the reservation while a start is under way; the second follows the      *)
(* commands and their answers on the link, because that a stop succeeds    *)
(* only while its Agent records, and that a cleanup is answered after the  *)
(* start it meets, follow from the order of the answers alone.             *)
(***************************************************************************)
EXTENDS BrokerRecording, RegistryLemmas, SequenceTheorems

-----------------------------------------------------------------------------
(* The inductive invariant                                                   *)

Records(s) == reg.activeRecordingId[s] # None

\* A start_recording that has reserved the recording and not begun it.
Starter(q) == req[q].kind = "start" /\ req[q].stage \in {"queued", "turn", "routed", "rejected"}

StopRoutes == {q \in Routes : req[q].kind = "stop"}

\* A request knows who sent it; only a start waits for a tab; nothing is known by the id
\* of a request that has not been sent; the Agent of a stop under way is connected.
RequestsComplete ==
  /\ \A q \in Requests : /\ req[q].stage # "free" => req[q].agent \in Sessions
                         /\ req[q].stage \in {"queued", "turn"} => req[q].kind = "start"
                         /\ req[q].stage \in {"sync", "queued", "turn"} => UnusedId(q)
  /\ \A q \in StopRoutes : Connected(reg, req[q].agent)

LinkInOrder == sync.stage # "idle" \/ cleanups # {} => conn # 0

\* Whoever is to be cleaned up is gone; a connection is closed only after a late answer.
CleanupsForTheGone ==
  /\ cleaning # None => ~Connected(reg, cleaning)
  /\ \A c \in cleanups : ~Connected(reg, c.session) /\ (c.stage = "rejected" => late)
  /\ closing => late

\* An Agent has one start on its way, and none while it records.
OneStarter ==
  /\ \A p, q \in Requests : Starter(p) /\ Starter(q) /\ req[p].agent = req[q].agent => p = q
  /\ \A q \in Requests : Starter(q) => ~Records(req[q].agent)

StartersHoldReservation ==
  /\ \A q \in Requests : Starter(q) /\ Connected(reg, req[q].agent) => reservation = req[q].agent
  /\ \A q \in StartRoutes : reservation = req[q].agent \/ closing
  /\ \A p, q \in StartRoutes : p = q

\* Who holds the reservation.
HolderKnown ==
  reservation # None =>
    /\ reservation \in reg.live
    /\ \/ \E q \in Requests : /\ Starter(q) /\ req[q].agent = reservation
                              /\ Connected(reg, reservation) \/ req[q].stage = "rejected"
       \/ IF Connected(reg, reservation) THEN Records(reservation) ELSE cleaning = reservation

RecordersHoldReservation ==
  \A s \in reg.live : Records(s) =>
     /\ Connected(reg, s) \/ ~late => reservation = s
     /\ ~Connected(reg, s) /\ ~late => cleaning = s

\* Where an answer is.
RepliedAt(i, id) == inbox[i].type = "reply" /\ inbox[i].id = id
Replied(id) == \E i \in 1..Len(inbox) : RepliedAt(i, id)
SentAt(i, id) == lifecycle[i].id = id /\ lifecycle[i].on = conn

\* The command of a route has its answer on the way or is on its way.
RoutesUnderWay ==
  \A q \in Routes : /\ Replied(q) \/ \E i \in 1..Len(lifecycle) : SentAt(i, q)
                    /\ \A i \in 1..Len(lifecycle) : lifecycle[i].id = q =>
                         lifecycle[i].kind = req[q].kind

\* The answer to p comes before the one to id.
Before(p, id) ==
  /\ \A j \in 1..Len(inbox) : RepliedAt(j, id) => \E i \in 1..(j - 1) : RepliedAt(i, p)
  /\ \A j \in 1..Len(lifecycle) : lifecycle[j].id = id =>
       Replied(p) \/ \E i \in 1..(j - 1) : SentAt(i, p)

\* An Agent that starts has sent its stops before; a cleanup that meets a start of its
\* session has been sent after it.
AnswersInOrder ==
  \A q \in StartRoutes :
    /\ \A p \in StopRoutes : req[p].agent = req[q].agent => Before(p, q)
    /\ \A c \in cleanups : c.session = req[q].agent => c.stage # "resolved" /\ Before(q, c.id)

StoppedAt(i) == /\ inbox[i].type = "reply" /\ inbox[i].ok /\ inbox[i].id \in StopRoutes

\* A stop succeeds only while its Agent records.
StopsEndRecordings ==
  /\ \A i \in 1..Len(inbox) : StoppedAt(i) =>
       /\ Records(req[inbox[i].id].agent) /\ recording = None
       /\ \A j \in 1..Len(lifecycle) : lifecycle[j].kind # "start"
       /\ \A j \in 1..Len(inbox) : StoppedAt(j) => i = j
  /\ \A q \in StopRoutes, i \in 1..Len(lifecycle) : lifecycle[i].id = q =>
       IF Records(req[q].agent)
       THEN \A j \in (i + 1)..Len(lifecycle) : lifecycle[j].kind # "start"
       ELSE recording = None /\ \A j \in 1..(i - 1) : lifecycle[j].kind # "start"

Inv ==
  /\ TypeOK /\ Good(reg) /\ RequestsComplete /\ LinkInOrder /\ CleanupsForTheGone
  /\ OneStarter /\ StartersHoldReservation /\ HolderKnown /\ RecordersHoldReservation
  /\ RoutesUnderWay /\ AnswersInOrder /\ StopsEndRecordings

-----------------------------------------------------------------------------
(* What the operations of the registry do to recordings and connected Agents *)

\* Nobody comes or goes and nobody records who did not; the Agents that are connected
\* record as before, and the sessions of kept stay in the map.
Forgets(r, n, kept) ==
  /\ n.live \subseteq r.live
  /\ \A s \in kept : s \in r.live => s \in n.live
  /\ \A s \in Sessions :
       /\ Connected(n, s) = Connected(r, s)
       /\ n.activeRecordingId[s] \in {None, r.activeRecordingId[s]}
       /\ Connected(r, s) => n.activeRecordingId[s] = r.activeRecordingId[s]

LEMMA ForgetsNothing ==
  ASSUME NEW r, NEW kept
  PROVE  Forgets(r, r, kept)
BY DEF Forgets

LEMMA ForgetsTwice ==
  ASSUME NEW r, NEW m, NEW n, NEW kept, Forgets(r, m, kept), Forgets(m, n, kept)
  PROVE  Forgets(r, n, kept)
BY DEF Forgets

\* The clock and reconcileTabs.
LEMMA ElapseForgets ==
  ASSUME NEW r \in Registry, NEW kept
  PROVE  Forgets(r, Elapse(r), kept)
BY DEF Forgets, Registry, Elapse, Connected

LEMMA ReconcileForgets ==
  ASSUME NEW r \in Registry, NEW existing, NEW kept
  PROVE  Forgets(r, ReconcileTabs(r, existing), kept)
BY DEF Forgets, Registry, ReconcileTabs, ReleaseTabs, Connected

\* expireDisconnected, pruneDisconnected and clearRecordings of a session that is gone.
LEMMA ExpireForgets ==
  ASSUME NEW r \in Registry, NEW kept
  PROVE  Forgets(r, ExpireDisconnected(r), kept)
<1> DEFINE n == ExpireDisconnected(r)
<1>1. /\ n.live = r.live /\ n.connected = r.connected
      /\ n.activeRecordingId = SetTo(r.activeRecordingId, Overdue(r), None)
  BY DEF Registry, ExpireDisconnected
<1> HIDE DEF n
<1> QED
  BY <1>1 DEF n, Forgets, SetTo, Connected, Overdue

LEMMA PruneForgets ==
  ASSUME NEW r \in Registry, NEW kept
  PROVE  Forgets(r, PruneDisconnected(r, kept), kept)
<1> DEFINE n == PruneDisconnected(r, kept)
<1>1. /\ n.live = r.live \ Prunable(r, kept)
      /\ n.connected = SetTo(r.connected, Prunable(r, kept), TRUE)
      /\ n.activeRecordingId = SetTo(r.activeRecordingId, Prunable(r, kept), None)
  BY DEF Registry, PruneDisconnected
<1>2. \A s \in Prunable(r, kept) : s \in r.live /\ ~r.connected[s] /\ s \notin kept
  BY DEF Prunable, Overdue
<1>3. r.live \subseteq Sessions /\ r.connected \in [Sessions -> BOOLEAN]
  BY DEF Registry
<1> HIDE DEF n
<1>4. ASSUME NEW s \in Sessions
      PROVE  /\ Connected(n, s) = Connected(r, s)
             /\ n.activeRecordingId[s] \in {None, r.activeRecordingId[s]}
             /\ Connected(r, s) => n.activeRecordingId[s] = r.activeRecordingId[s]
  <2>1. CASE s \in Prunable(r, kept)
    BY <1>1, <1>2, <2>1 DEF SetTo, Connected
  <2>2. CASE s \notin Prunable(r, kept)
    BY <1>1, <2>2 DEF SetTo, Connected
  <2> QED
    BY <2>1, <2>2
<1> QED
  BY <1>1, <1>2, <1>4 DEF n, Forgets

LEMMA ClearForgets ==
  ASSUME NEW r \in Registry, NEW s \in Sessions, ~Connected(r, s), NEW kept
  PROVE  Forgets(r, ClearRecordings(r, s), kept)
BY DEF Forgets, Registry, ClearRecordings, Connected

\* clearRecordings of any session.
LEMMA ClearFields ==
  ASSUME NEW r \in Registry, NEW s \in Sessions
  PROVE  LET n == ClearRecordings(r, s) IN
         /\ n.live = r.live /\ n.activeRecordingId = [r.activeRecordingId EXCEPT ![s] = None]
         /\ \A x \in Sessions : Connected(n, x) = Connected(r, x)
BY DEF Registry, ClearRecordings, Connected

LEMMA ClearGood ==
  ASSUME NEW r, Good(r), NEW s \in Sessions
  PROVE  Good(ClearRecordings(r, s))
<1>1. CASE s \in r.live
  BY <1>1, ClearRecordingsGood
<1>2. CASE s \notin r.live
  <2>1. r \in Registry /\ r.activeRecordingId[s] = None
    BY <1>2 DEF Good, AbsentAreFresh, Fresh
  <2>2. [r.activeRecordingId EXCEPT ![s] = None] = r.activeRecordingId
    BY <2>1 DEF Registry
  <2>3. ClearRecordings(r, s) = r
    BY <2>1, <2>2 DEF Registry, ClearRecordings
  <2> QED
    BY <2>3
<1> QED
  BY <1>1, <1>2

LEMMA AddFields ==
  ASSUME NEW r \in Registry, NEW s \in Sessions
  PROVE  LET n == AddRecording(r, s, s) IN
         /\ n.live = r.live /\ n.activeRecordingId = [r.activeRecordingId EXCEPT ![s] = s]
         /\ \A x \in Sessions : Connected(n, x) = Connected(r, x)
BY DEF Registry, AddRecording, Connected

LEMMA CreateFields ==
  ASSUME NEW r, Good(r), NEW s \in Sessions \ r.live
  PROVE  LET n == CreateSession(r, s) IN
         /\ n.live = r.live \cup {s} /\ n.activeRecordingId = r.activeRecordingId
         /\ n.activeRecordingId[s] = None
         /\ \A x \in Sessions : Connected(n, x) <=> Connected(r, x) \/ x = s
BY DEF Good, AbsentAreFresh, Fresh, Registry, CreateSession, Connected

LEMMA DisconnectFields ==
  ASSUME NEW r \in Registry, NEW s \in Sessions
  PROVE  LET n == Disconnect(r, s) IN
         /\ n.live = r.live /\ n.activeRecordingId = r.activeRecordingId
         /\ \A x \in Sessions : Connected(n, x) <=> Connected(r, x) /\ x # s
BY DEF Registry, Disconnect, Connected

-----------------------------------------------------------------------------
(* What the actions do to the requests                                       *)

\* The same request at another stage.
Same(old, new) == new.kind = old.kind /\ new.agent = old.agent

LEMMA AnsweredFields ==
  ASSUME TypeOK, NEW q \in Requests
  PROVE  /\ Answered(req, q) \in [Requests -> Request]
         /\ Answered(req, q)[q] = FreeRequest
         /\ \A p \in Requests \ {q} : Answered(req, q)[p] = req[p]
<1>1. FreeRequest \in Request
  BY CoreBoundsAssumption DEF FreeRequest, Request
<1> QED
  BY <1>1 DEF Answered, TypeOK

LEMMA StageFields ==
  ASSUME TypeOK, NEW q \in Requests,
         NEW stage \in {"turn", "routed", "resolved"},
         NEW new, new = [req EXCEPT ![q].stage = stage]
  PROVE  /\ new \in [Requests -> Request]
         /\ Same(req[q], new[q]) /\ new[q].stage = stage
         /\ \A p \in Requests \ {q} : new[p] = req[p]
<1>1. req \in [Requests -> Request] /\ req[q] \in Request
  BY DEF TypeOK
<1>2. [req[q] EXCEPT !.stage = stage] \in Request
  BY <1>1 DEF Request
<1>3. new = [req EXCEPT ![q] = [req[q] EXCEPT !.stage = stage]]
  BY <1>1
<1> QED
  BY <1>1, <1>2, <1>3 DEF Same, Request

LEMMA RejectedFields ==
  ASSUME TypeOK, NEW qs \in SUBSET Requests
  PROVE  /\ Rejected(req, qs) \in [Requests -> Request]
         /\ \A q \in qs : /\ Same(req[q], Rejected(req, qs)[q])
                          /\ Rejected(req, qs)[q].stage = "rejected"
         /\ \A q \in Requests \ qs : Rejected(req, qs)[q] = req[q]
<1>1. ASSUME NEW q \in Requests
      PROVE  /\ req[q] \in Request /\ [req[q] EXCEPT !.stage = "rejected"] \in Request
             /\ Same(req[q], [req[q] EXCEPT !.stage = "rejected"])
             /\ [req[q] EXCEPT !.stage = "rejected"].stage = "rejected"
  BY DEF TypeOK, Request, Same
<1> QED
  BY <1>1 DEF Rejected

\* A request comes.
LEMMA RequestFields ==
  ASSUME TypeOK, NEW q \in Requests, NEW s \in Sessions, NEW kind \in {"start", "stop"},
         AgentRequests(q, s, kind)
  PROVE  /\ req' \in [Requests -> Request]
         /\ req'[q].stage = "sync" /\ req'[q].kind = kind /\ req'[q].agent = s
         /\ \A p \in Requests \ {q} : req'[p] = req[p]
<1>1. conn \in 0..MaxConnections
  BY CoreBoundsAssumption DEF TypeOK, CoreTypeOK
<1>2. FreeRequest \in Request
  BY CoreBoundsAssumption DEF FreeRequest, Request
<1>3. PICK free \in Request : free = FreeRequest
  BY <1>2
<1>4. PICK new : new = [free EXCEPT !.stage = "sync", !.kind = kind, !.agent = s, !.awaits = conn]
  OBVIOUS
<1>5. new \in Request /\ new.stage = "sync" /\ new.kind = kind /\ new.agent = s
  BY <1>1, <1>4 DEF Request
<1>6. req' = [req EXCEPT ![q] = new]
  BY <1>3, <1>4 DEF AgentRequests
<1> QED
  BY <1>5, <1>6 DEF TypeOK

\* A start waits in the queue of its tab.
LEMMA WaitsFields ==
  ASSUME TypeOK, NEW q \in Requests, WaitsInQueue(q)
  PROVE  /\ req' \in [Requests -> Request]
         /\ Same(req[q], req'[q]) /\ req'[q].stage \in {"queued", "turn"}
         /\ \A p \in Requests \ {q} : req'[p] = req[p]
<1>1. PICK stage \in {"turn", "queued"} :
        req' = [req EXCEPT ![q].stage = stage, ![q].awaits = conn]
  BY DEF WaitsInQueue
<1>2. req \in [Requests -> Request] /\ req[q] \in Request /\ conn \in 0..MaxConnections
  BY CoreBoundsAssumption DEF TypeOK, CoreTypeOK
<1>3. [req[q] EXCEPT !.stage = stage, !.awaits = conn] \in Request
  BY <1>2 DEF Request
<1>4. req' = [req EXCEPT ![q] = [req[q] EXCEPT !.stage = stage, !.awaits = conn]]
  BY <1>1, <1>2
<1> QED
  BY <1>2, <1>3, <1>4 DEF Same, Request

\* A cleanup sends its command, under an id that nothing is known by.
CleanupSent(s, chain) ==
  \E id \in UnusedCleanupIds :
    /\ cleanups' = cleanups \cup {[id |-> id, session |-> s, chain |-> chain, stage |-> "routed"]}
    /\ lifecycle' = Append(lifecycle, Command(id, "stop", s))

LEMMA CleanupStartsOrNot ==
  ASSUME NEW s, NEW chain, CleanupStarts(s, chain)
  PROVE  \/ Open /\ CleanupSent(s, chain)
         \/ ~Open /\ UNCHANGED <<cleanups, lifecycle>>
BY DEF CleanupStarts, CleanupSent

LEMMA CleanupStartsType ==
  ASSUME TypeOK, NEW s \in Sessions, NEW chain \in BOOLEAN, CleanupStarts(s, chain)
  PROVE  /\ cleanups' \in SUBSET Cleanup /\ lifecycle' \in Seq(LifecycleCommand)
         /\ cleanups' # cleanups => conn # 0
<1>1. CASE Open /\ CleanupSent(s, chain)
  <2>1. PICK id \in UnusedCleanupIds :
          /\ cleanups' = cleanups \cup
                {[id |-> id, session |-> s, chain |-> chain, stage |-> "routed"]}
          /\ lifecycle' = Append(lifecycle, Command(id, "stop", s))
    BY <1>1 DEF CleanupSent
  <2>2. id \in CleanupIds /\ conn \in Connections /\ conn # 0
    BY <1>1, CoreBoundsAssumption
       DEF UnusedCleanupIds, Open, TypeOK, CoreTypeOK, Connections
  <2>3. [id |-> id, session |-> s, chain |-> chain, stage |-> "routed"] \in Cleanup
    BY <2>2 DEF Cleanup
  <2>4. Command(id, "stop", s) \in LifecycleCommand
    BY <2>2 DEF Command, LifecycleCommand
  <2> QED
    BY <2>1, <2>2, <2>3, <2>4 DEF TypeOK
<1>2. CASE ~Open /\ UNCHANGED <<cleanups, lifecycle>>
  BY <1>2 DEF TypeOK
<1> QED
  BY <1>1, <1>2, CleanupStartsOrNot

-----------------------------------------------------------------------------
(* Types, and the connection                                                 *)

Typed == TypeOK /\ Good(reg) /\ LinkInOrder

\* Agents and time.
LEMMA AgentTypes ==
  ASSUME Typed, NEW s \in Sessions, AgentStep(s) \/ Ticks
  PROVE  Typed'
<1> USE DEF Typed
<1>1. reg \in Registry /\ TypeOK
  BY DEF TypeOK, CoreTypeOK
<1>2. CASE AgentArrives(s)
  <2>1. Good(reg') /\ reg' \in Registry
    BY <1>2, CreateSessionGood DEF AgentArrives, AgentConnects, Good
  <2> QED
    BY <1>2, <2>1 DEF AgentArrives, AgentConnects, Macrotask, TypeOK, CoreTypeOK, LinkInOrder,
       link, extension, brokerVars, engineVars, recorder
<1>3. CASE AgentGoes(s)
  <2>1. Good(reg') /\ reg' \in Registry
    BY <1>3, DisconnectGood DEF AgentGoes, AgentLeaves, Good
  <2>2. req' \in [Requests -> Request]
    BY <1>3, RejectedFields DEF AgentGoes, AgentLeaves, Routes, In
  <2>3. /\ cleanups' \in SUBSET Cleanup /\ lifecycle' \in Seq(LifecycleCommand)
        /\ cleanups' # cleanups => conn # 0
    BY <1>3, CleanupStartsType DEF AgentGoes, TypeOK
  <2> QED
    BY <1>3, <2>1, <2>2, <2>3 DEF AgentGoes, AgentLeaves, Macrotask, TypeOK, CoreTypeOK,
       LinkInOrder, link, extension, recorder
<1>4. CASE GraceTimer(s)
  <2>1. Good(ExpireDisconnected(reg))
    BY ExpireDisconnectedGood
  <2>2. Retained(cleaning, reservation) \in SUBSET Sessions
    BY DEF Retained, TypeOK
  <2>3. Good(reg') /\ reg' \in Registry
    BY <1>4, <2>1, <2>2, PruneDisconnectedGood DEF GraceTimer, GraceEnds, Good
  <2> QED
    BY <1>4, <2>3 DEF GraceTimer, GraceEnds, Macrotask, TypeOK, CoreTypeOK, LinkInOrder,
       link, extension, brokerVars, engineVars, recorder
<1>5. CASE Ticks
  <2>1. Good(reg') /\ reg' \in Registry
    BY <1>5, ElapseGood DEF Ticks, Tick, Good
  <2> QED
    BY <1>5, <2>1 DEF Ticks, Tick, Macrotask, TypeOK, CoreTypeOK, LinkInOrder,
       link, extension, brokerVars, engineVars, recorder
<1> QED
  BY <1>2, <1>3, <1>4, <1>5 DEF AgentStep

\* Requests that come, wait, and are answered without more.
LEMMA RequestTypes ==
  ASSUME Typed, NEW q \in Requests,
         \/ \E s \in Sessions, kind \in {"start", "stop"} : AgentRequests(q, s, kind)
         \/ Refuse(q) \/ TurnComes(q) \/ Finish(q) \/ TabCloses(q) \/ TimesOut(q)
  PROVE  Typed'
<1> USE DEF Typed
<1>1. req' \in [Requests -> Request]
  <2>1. CASE \E s \in Sessions, kind \in {"start", "stop"} : AgentRequests(q, s, kind)
    BY <2>1, RequestFields
  <2>2. CASE Refuse(q) \/ Finish(q)
    BY <2>2, AnsweredFields DEF Refuse, Finish
  <2>3. CASE TurnComes(q)
    BY <2>3, StageFields DEF TurnComes
  <2>4. CASE TabCloses(q) \/ TimesOut(q)
    BY <2>4, RejectedFields DEF TabCloses, TimesOut, Timeout
  <2> QED
    BY <2>1, <2>2, <2>3, <2>4
<1>2. /\ batch' = FALSE
      /\ UNCHANGED <<reg, graceTimers, link, extension, brokerVars, engineVars>>
  BY DEF AgentRequests, Refuse, TurnComes, Finish, TabCloses, TimesOut, Timeout, Macrotask,
     Microtask
<1> QED
  BY <1>1, <1>2
     DEF TypeOK, CoreTypeOK, LinkInOrder, link, extension, brokerVars, engineVars, recorder

\* Requests that reserve, are sent or fail.
LEMMA StartTypes ==
  ASSUME Typed, RequestsComplete, NEW q \in Requests,
         Reserve(q) \/ SendStart(q) \/ SendStop(q) \/ StartFails(q)
  PROVE  Typed'
<1> USE DEF Typed
<1>1. req[q].stage # "free" => req[q].agent \in Sessions
  BY DEF RequestsComplete
<1>2. CASE Reserve(q)
  <2>1. req' \in [Requests -> Request] /\ req[q].agent \in Sessions
    BY <1>1, <1>2, WaitsFields DEF Reserve, Woken
  <2> QED
    BY <1>2, <2>1 DEF Reserve, Microtask, TypeOK, CoreTypeOK, LinkInOrder,
       link, extension, engineVars, recorder
<1>3. CASE SendStart(q) \/ SendStop(q)
  <2>1. Send(q) /\ req[q].stage # "free" /\ Open
    BY <1>3 DEF SendStart, SendStop, Woken
  <2>2. req' \in [Requests -> Request]
    BY <2>1, StageFields DEF Send
  <2>3. conn \in Connections /\ req[q].kind \in {"start", "stop"}
    BY <2>1, CoreBoundsAssumption DEF Open, TypeOK, CoreTypeOK, Connections, Request
  <2>4. Command(q, req[q].kind, req[q].agent) \in LifecycleCommand
    BY <1>1, <2>1, <2>3 DEF Command, LifecycleCommand
  <2>5. lifecycle' \in Seq(LifecycleCommand)
    BY <2>1, <2>4 DEF Send, TypeOK
  <2> QED
    BY <1>3, <2>2, <2>5 DEF SendStart, SendStop, Microtask, TypeOK, CoreTypeOK, LinkInOrder,
       link, extension, brokerVars, recorder
<1>4. CASE StartFails(q)
  <2>1. req' \in [Requests -> Request] /\ req[q].agent \in Sessions
    BY <1>1, <1>4, AnsweredFields DEF StartFails
  <2>2. /\ cleanups' \in SUBSET Cleanup /\ lifecycle' \in Seq(LifecycleCommand)
        /\ cleanups' # cleanups => conn # 0
    BY <1>4, <2>1, CleanupStartsType DEF StartFails, TypeOK
  <2> QED
    BY <1>4, <2>1, <2>2 DEF StartFails, Microtask, TypeOK, CoreTypeOK, LinkInOrder,
       link, extension, recorder
<1> QED
  BY <1>2, <1>3, <1>4

\* Cleanups that end.
LEMMA CleanupTypes ==
  ASSUME Typed, NEW c \in cleanups, CleanupTimesOut(c) \/ CleanupEnds(c)
  PROVE  Typed'
<1> USE DEF Typed
<1>1. c \in Cleanup /\ reg \in Registry
  BY DEF TypeOK, CoreTypeOK
<1>2. CASE CleanupTimesOut(c)
  <2>1. [c EXCEPT !.stage = "rejected"] \in Cleanup
    BY <1>1 DEF Cleanup
  <2>2. cleanups' \in SUBSET Cleanup
    BY <1>2, <2>1 DEF CleanupTimesOut, TypeOK
  <2> QED
    BY <1>2, <2>2 DEF CleanupTimesOut, Macrotask, TypeOK, CoreTypeOK, LinkInOrder,
       link, extension, brokerVars, engineVars, recorder
<1>3. CASE CleanupEnds(c)
  <2>1. conn # 0 /\ conn \in Connections
    BY CoreBoundsAssumption DEF LinkInOrder, TypeOK, CoreTypeOK, Connections
  <2>2. c.session \in Sessions
    BY <1>1 DEF Cleanup
  <2>3. cleaning' \in Sessions \cup {None} /\ reservation' \in Sessions \cup {None}
    BY <1>3 DEF CleanupEnds, TypeOK
  <2>4. Retained(cleaning', reservation') \in SUBSET Sessions
    BY <2>3 DEF Retained
  <2>5. reg' = PruneDisconnected(ClearRecordings(reg, c.session), Retained(cleaning', reservation'))
    BY <1>3 DEF CleanupEnds
  <2>6. Good(reg') /\ reg' \in Registry
    BY <2>2, <2>4, <2>5, ClearGood, PruneDisconnectedGood DEF Good
  <2>7. /\ sync' \in [stage: {"idle", "cleanup", "routed", "resolved", "rejected"},
                      tabs: SUBSET Tabs]
        /\ settled' \in SUBSET Connections
    <3>1. ChainContinues(c.chain, Open /\ ~(c.stage = "rejected"))
      BY <1>3 DEF CleanupEnds
    <3> QED
      BY <2>1, <3>1 DEF ChainContinues, NoSync, TypeOK, CoreTypeOK
  <2> QED
    BY <1>3, <2>1, <2>3, <2>6, <2>7
        DEF CleanupEnds, Microtask, TypeOK, CoreTypeOK, LinkInOrder, extension, engineVars, recorder
<1> QED
  BY <1>2, <1>3

\* What the answer to a command is.
OthersSame == UNCHANGED <<graceTimers, link, closing, browser, executing, recorder>>

StartAnswered(q) ==
  /\ Head(inbox).id = q /\ q \in StartRoutes
  /\ req' = [req EXCEPT ![q].stage = "resolved"]
  /\ reg' = IF req[q].agent \in reg.live THEN AddRecording(reg, req[q].agent, req[q].agent) ELSE reg
  /\ IF cleaning = req[q].agent THEN CleanupStarts(req[q].agent, FALSE)
     ELSE UNCHANGED <<cleanups, lifecycle>>
  /\ UNCHANGED <<reservation, cleaning>>

StartRefused(q) ==
  /\ Head(inbox).id = q /\ q \in StartRoutes
  /\ req' = Rejected(req, {q})
  /\ IF cleaning = req[q].agent
     THEN cleaning' = None /\ reg' = PruneDisconnected(reg, Retained(None, reservation))
     ELSE UNCHANGED <<cleaning, reg>>
  /\ UNCHANGED <<reservation, cleanups, lifecycle>>

StopAnswered(q) ==
  /\ Head(inbox).id = q /\ q \in StopRoutes /\ Head(inbox).ok
  /\ req' = [req EXCEPT ![q].stage = "resolved"]
  /\ reg' = ClearRecordings(reg, req[q].agent)
  /\ reservation' = IF reservation = req[q].agent THEN None ELSE reservation
  /\ UNCHANGED <<cleaning, cleanups, lifecycle>>

StopRefused(q) ==
  /\ Head(inbox).id = q /\ q \in StopRoutes
  /\ req' = Rejected(req, {q})
  /\ UNCHANGED <<reg, reservation, cleaning, cleanups, lifecycle>>

CleanupAnswered(c) ==
  /\ Head(inbox).id = c.id /\ c \in cleanups
  /\ ReplyToCleanup(c, Head(inbox))

ReplyIgnored ==
  /\ Head(inbox).id \notin Routes
  /\ UNCHANGED <<reg, req, reservation, cleaning, cleanups, lifecycle>>

LEMMA ReplyCases ==
  ASSUME TypeOK, HandleReply
  PROVE  /\ Deliver(Runnable) /\ Head(inbox).type = "reply" /\ OthersSame
         /\ \/ \E q \in Requests : \/ StartAnswered(q) \/ StartRefused(q)
                                   \/ StopAnswered(q) \/ StopRefused(q)
            \/ \E c \in cleanups : CleanupAnswered(c)
            \/ ReplyIgnored
<1> DEFINE m == Head(inbox)
<1>1. Deliver(Runnable) /\ m.type = "reply" /\ OthersSame
  BY DEF HandleReply, OthersSame
<1>2. CASE m.id \in Routes /\ ReplyToRequest(m)
  <2>1. PICK q : q = m.id
    OBVIOUS
  <2>2. q \in Requests /\ q \in Routes
    BY <1>2, <2>1 DEF Routes, In
  <2> QED
    BY <1>1, <1>2, <2>1, <2>2
       DEF ReplyToRequest, StartAnswered, StartRefused, StopAnswered, StopRefused,
       StartRoutes, StopRoutes
<1>3. CASE \E c \in cleanups : c.id = m.id /\ ReplyToCleanup(c, m)
  BY <1>1, <1>3 DEF CleanupAnswered
<1>4. CASE m.id \notin Routes /\ UNCHANGED <<reg, req, reservation, cleaning, cleanups, lifecycle>>
  BY <1>1, <1>4 DEF ReplyIgnored
<1> QED
  BY <1>1, <1>2, <1>3, <1>4 DEF HandleReply

\* A message is taken from the inbox.
LEMMA DeliverType ==
  ASSUME TypeOK, Deliver(Runnable)
  PROVE  /\ inbox' \in Seq(Message) /\ Len(inbox') <= MaxInbox + 1
         /\ Len(inbox') = Len(inbox) - 1
         /\ \A i \in 1..Len(inbox') : inbox'[i] = inbox[i + 1]
         /\ inbox # <<>> /\ Head(inbox) = inbox[1] /\ Head(inbox) \in Message
         /\ batch' \in BOOLEAN
<1>1. inbox \in Seq(Message) /\ inbox # <<>> /\ Len(inbox) <= MaxInbox + 1
  BY DEF Deliver, TypeOK, CoreTypeOK
<1>2. /\ Head(inbox) \in Message /\ Tail(inbox) \in Seq(Message)
      /\ Len(Tail(inbox)) = Len(inbox) - 1 /\ Head(inbox) = inbox[1]
      /\ \A i \in 1..Len(Tail(inbox)) : Tail(inbox)[i] = inbox[i + 1]
  BY <1>1
<1> QED
  BY <1>1, <1>2, CoreBoundsAssumption DEF Deliver

LEMMA ReplyTypes ==
  ASSUME Typed, RequestsComplete, HandleReply
  PROVE  Typed'
<1> USE DEF Typed
<1>1. Deliver(Runnable) /\ OthersSame
  BY ReplyCases
<1>2. inbox' \in Seq(Message) /\ Len(inbox') <= MaxInbox + 1 /\ batch' \in BOOLEAN
  BY <1>1, DeliverType
<1>3. \A q \in Routes : req[q].agent \in Sessions
  BY DEF RequestsComplete, Routes, In
<1>4. reg \in Registry /\ req \in [Requests -> Request]
  BY DEF TypeOK, CoreTypeOK
<1>5. ASSUME NEW s \in Sessions, CleanupStarts(s, FALSE) \/ UNCHANGED <<cleanups, lifecycle>>
      PROVE  /\ cleanups' \in SUBSET Cleanup /\ lifecycle' \in Seq(LifecycleCommand)
             /\ cleanups' # cleanups => conn # 0
  BY <1>5, CleanupStartsType DEF TypeOK
<1> DEFINE Goal == /\ Good(reg') /\ req' \in [Requests -> Request]
                   /\ cleanups' \in SUBSET Cleanup /\ lifecycle' \in Seq(LifecycleCommand)
                   /\ cleanups' # {} => conn # 0
                   /\ cleaning' \in Sessions \cup {None} /\ reservation' \in Sessions \cup {None}
<1>6. ASSUME NEW q \in Requests, StartAnswered(q)
      PROVE  Goal
  <2>1. q \in Routes /\ req[q].agent \in Sessions
    BY <1>3, <1>6 DEF StartAnswered, StartRoutes
  <2>2. Good(reg')
    BY <1>6, <2>1, RecordingsAssumption, AddRecordingGood DEF StartAnswered
  <2>3. req' \in [Requests -> Request]
    BY <1>6, StageFields DEF StartAnswered
  <2> QED
    BY <1>5, <1>6, <2>1, <2>2, <2>3 DEF StartAnswered, TypeOK, LinkInOrder
<1>7. ASSUME NEW q \in Requests, StartRefused(q)
      PROVE  Goal
  <2>1. Retained(None, reservation) \in SUBSET Sessions
    BY DEF Retained, TypeOK
  <2>2. Good(reg')
    BY <1>7, <2>1, PruneDisconnectedGood DEF StartRefused
  <2>3. req' \in [Requests -> Request]
    BY <1>7, RejectedFields DEF StartRefused
  <2> QED
    BY <1>7, <2>2, <2>3 DEF StartRefused, TypeOK, LinkInOrder
<1>8. ASSUME NEW q \in Requests, StopAnswered(q)
      PROVE  Goal
  <2>1. q \in Routes /\ req[q].agent \in Sessions
    BY <1>3, <1>8 DEF StopAnswered, StopRoutes
  <2>2. Good(reg')
    BY <1>8, <2>1, ClearGood DEF StopAnswered
  <2>3. req' \in [Requests -> Request]
    BY <1>8, StageFields DEF StopAnswered
  <2> QED
    BY <1>8, <2>2, <2>3 DEF StopAnswered, TypeOK, LinkInOrder
<1>9. ASSUME NEW q \in Requests, StopRefused(q)
      PROVE  Goal
  BY <1>9, RejectedFields DEF StopRefused, TypeOK, LinkInOrder
<1>10. ASSUME NEW c \in cleanups, CleanupAnswered(c)
       PROVE  Goal
  <2>1. c \in Cleanup
    BY DEF TypeOK
  <2>2. c.session \in Sessions /\ [c EXCEPT !.stage = "resolved"] \in Cleanup
    BY <2>1 DEF Cleanup
  <2>3. Good(reg')
    BY <1>10, <2>2, ClearGood DEF CleanupAnswered, ReplyToCleanup
  <2>4. cleanups' \in SUBSET Cleanup
    BY <1>10, <2>2 DEF CleanupAnswered, ReplyToCleanup, TypeOK
  <2> QED
    BY <1>10, <2>3, <2>4 DEF CleanupAnswered, ReplyToCleanup, TypeOK, LinkInOrder
<1>11. ASSUME ReplyIgnored
       PROVE  Goal
  BY <1>11 DEF ReplyIgnored, TypeOK, LinkInOrder
<1>12. Goal
  BY <1>6, <1>7, <1>8, <1>9, <1>10, <1>11, ReplyCases
<1> QED
  BY <1>1, <1>2, <1>12 DEF OthersSame, Good, TypeOK, CoreTypeOK, LinkInOrder, link, recorder

\* The connection is replaced, lost, or given up.
Reconnects ==
  \/ ExtensionArrives \/ ExtensionGoes
  \/ /\ Macrotask /\ ExtensionCloses /\ Dropped
     /\ lifecycle' = <<>> /\ recording' = None /\ UNCHANGED late
  \/ Microtask /\ FailSync /\ Dropped /\ UNCHANGED engineVars

LEMMA ReconnectTypes ==
  ASSUME Typed, Reconnects
  PROVE  Typed'
<1> USE CoreBoundsAssumption DEF Typed
<1>1. sync.stage # "idle" => conn \in Connections
  BY DEF LinkInOrder, TypeOK, CoreTypeOK, Connections
<1>2. SettledWithout \in SUBSET Connections
  BY <1>1 DEF SettledWithout, TypeOK, CoreTypeOK
<1>3. NoSync \in [stage: {"idle", "cleanup", "routed", "resolved", "rejected"}, tabs: SUBSET Tabs]
      /\ NoSync.stage = "idle"
  BY DEF NoSync
<1>4. Routes \in SUBSET Requests
  BY DEF Routes, In
<1>5. req' = Rejected(req, Routes) /\ batch' = FALSE /\ inbox' = <<>> /\ Dropped /\ sync' = NoSync
  BY DEF Reconnects, ExtensionArrives, ExtensionGoes, ExtensionConnects, ExtensionCloses,
     FailSync,
     Macrotask, Microtask
<1>6. req' \in [Requests -> Request]
  BY <1>4, <1>5, RejectedFields
<1>7. UNCHANGED <<reg, graceTimers, browser, executing, late>>
  BY DEF Reconnects, ExtensionArrives, ExtensionGoes, ExtensionConnects, ExtensionCloses,
     FailSync,
     engineVars, recorder
<1>8. /\ conns' \in 0..MaxConnections /\ conn' \in {0, conns'}
      /\ settled' \in SUBSET Connections /\ immediates' \in SUBSET Connections
  <2>1. CASE ExtensionArrives
    BY <1>2, <2>1 DEF ExtensionArrives, ExtensionConnects, TypeOK, CoreTypeOK, Connections
  <2>2. CASE ExtensionGoes \/ ExtensionCloses
    BY <1>2, <2>2 DEF ExtensionGoes, ExtensionCloses, TypeOK, CoreTypeOK
  <2>3. CASE FailSync
    BY <1>1, <2>3 DEF FailSync, TypeOK, CoreTypeOK
  <2> QED
    BY <2>1, <2>2, <2>3 DEF Reconnects
<1>9. /\ <<>> \in Seq(LifecycleCommand)
      /\ <<>> \in Seq(Message) /\ Len(<<>>) <= MaxInbox + 1
  OBVIOUS
<1>10. /\ lifecycle' = lifecycle \/ lifecycle' = <<>>
       /\ recording' = recording \/ recording' = None
  BY DEF Reconnects, ExtensionArrives, ExtensionGoes, engineVars, recorder
<1>11. lifecycle' \in Seq(LifecycleCommand) /\ recording' \in Sessions \cup {None}
  BY <1>9, <1>10 DEF TypeOK
<1>12. TypeOK'
  BY <1>3, <1>5, <1>6, <1>7, <1>8, <1>9, <1>11 DEF Dropped, TypeOK, CoreTypeOK
<1> QED
  BY <1>3, <1>5, <1>7, <1>12 DEF Dropped, LinkInOrder

\* The worker of a lost connection ends.
WorkerEnds ==
  /\ Macrotask /\ conn = 0
  /\ UNCHANGED <<reg, graceTimers, req, link, extension, brokerVars>>
  /\ lifecycle' = <<>> /\ recording' = None /\ UNCHANGED late

LEMMA WorkerTypes ==
  ASSUME Typed, WorkerEnds
  PROVE  Typed'
<1>1. <<>> \in Seq(LifecycleCommand)
  OBVIOUS
<1> QED
  BY <1>1
     DEF Typed, WorkerEnds, Macrotask, TypeOK, CoreTypeOK, LinkInOrder, link, extension, brokerVars

\* The synchronization: what is left of it.
Synchronizes ==
  \/ Microtask /\ FinishSync /\ UNCHANGED <<brokerVars, engineVars>>
  \/ Macrotask /\ SyncTimeout /\ UNCHANGED <<brokerVars, engineVars>>
  \/ Deliver(Runnable) /\ HandleInventory /\ UNCHANGED <<brokerVars, engineVars>>
  \/ SendInventory /\ UNCHANGED <<brokerVars, engineVars>>

LEMMA SyncTypes ==
  ASSUME Typed, Synchronizes
  PROVE  Typed'
<1> USE CoreBoundsAssumption DEF Typed
<1>1. reg \in Registry
  BY DEF TypeOK, CoreTypeOK
<1>2. CASE Microtask /\ FinishSync /\ UNCHANGED <<brokerVars, engineVars>>
  <2>1. Good(reg') /\ reg' \in Registry
    BY <1>2, ReleaseTabsGood DEF FinishSync, ReconcileTabs, Good
  <2>2. conn \in Connections
    BY <1>2 DEF FinishSync, LinkInOrder, TypeOK, CoreTypeOK, Connections
  <2> QED
    BY <1>2, <2>1, <2>2 DEF FinishSync, Microtask, NoSync, TypeOK, CoreTypeOK, LinkInOrder,
       extension, brokerVars, engineVars, recorder
<1>3. CASE Macrotask /\ SyncTimeout /\ UNCHANGED <<brokerVars, engineVars>>
  BY <1>3 DEF SyncTimeout, Macrotask, TypeOK, CoreTypeOK, LinkInOrder,
     extension, brokerVars, engineVars, recorder
<1>4. CASE Deliver(Runnable) /\ HandleInventory /\ UNCHANGED <<brokerVars, engineVars>>
  <2>1. /\ inbox' \in Seq(Message) /\ Len(inbox') <= MaxInbox + 1 /\ batch' \in BOOLEAN
        /\ Head(inbox) \in Message /\ Head(inbox).type = "inventory"
    BY <1>4, DeliverType DEF HandleInventory
  <2>2. Head(inbox).tabs \in SUBSET Tabs
    BY <2>1 DEF Message
  <2>3. /\ sync' \in [stage: {"idle", "cleanup", "routed", "resolved", "rejected"},
                      tabs: SUBSET Tabs]
        /\ sync'.stage # "idle" => sync.stage # "idle"
    BY <1>4, <2>2 DEF HandleInventory, TypeOK, CoreTypeOK
  <2> QED
    BY <1>4, <2>1, <2>3 DEF HandleInventory, TypeOK, CoreTypeOK, LinkInOrder,
       brokerVars, engineVars, recorder
<1>5. CASE SendInventory /\ UNCHANGED <<brokerVars, engineVars>>
  <2>1. PICK tabs \in SUBSET Tabs : Post(<<[type |-> "inventory", tabs |-> tabs]>>)
    BY <1>5 DEF SendInventory, TypeOK, CoreTypeOK
  <2>2. PICK m \in Message : m = [type |-> "inventory", tabs |-> tabs]
    BY DEF Message
  <2>3. inbox \in Seq(Message) /\ Len(inbox) < MaxInbox
    BY <1>5 DEF SendInventory, TypeOK
  <2>4. inbox \o <<m>> = Append(inbox, m)
    BY <2>3
  <2>5. inbox' = inbox \/ inbox' = Append(inbox, m)
    BY <2>1, <2>2, <2>4 DEF Post
  <2>6. inbox' \in Seq(Message) /\ Len(inbox') <= MaxInbox + 1
    BY <2>3, <2>5
  <2> QED
    BY <1>5, <2>6 DEF SendInventory, TypeOK, CoreTypeOK, LinkInOrder,
       link, brokerVars, engineVars, recorder
<1> QED
  BY <1>2, <1>3, <1>4, <1>5 DEF Synchronizes

\* The setImmediate callback.
LEMMA ChainTypes ==
  ASSUME Typed, NEW c \in Connections, ChainStarts(c)
  PROVE  Typed'
<1> USE CoreBoundsAssumption DEF Typed
<1>1. CASE c \in immediates /\ c = conn /\ Open /\ cleaning # None
  <2>1. /\ Macrotask /\ immediates' = immediates \ {c}
        /\ sync' = [stage |-> "cleanup", tabs |-> {}]
        /\ CleanupStarts(cleaning, TRUE)
        /\ UNCHANGED <<reg, graceTimers, req, conn, conns, settled, extension>>
        /\ UNCHANGED <<reservation, cleaning, closing, recorder>>
    BY <1>1 DEF ChainStarts
  <2>2. cleanups' \in SUBSET Cleanup /\ lifecycle' \in Seq(LifecycleCommand) /\ conn # 0
    BY <1>1, <2>1, CleanupStartsType DEF Open, TypeOK
  <2> QED
    BY <2>1, <2>2 DEF Macrotask, TypeOK, CoreTypeOK, LinkInOrder, extension, recorder
<1>2. CASE ~(c \in immediates /\ c = conn /\ Open /\ cleaning # None)
  <2>1. /\ Macrotask /\ StartSync(c) /\ UNCHANGED <<cleanups, lifecycle>>
        /\ UNCHANGED <<reservation, cleaning, closing, recorder>>
    BY <1>2 DEF ChainStarts
  <2>2. settled' \in SUBSET Connections /\ immediates' \in SUBSET Connections
    BY <2>1 DEF StartSync, TypeOK, CoreTypeOK
  <2>4. c # 0
    BY DEF Connections
  <2>5. sync' = sync \/ (conn # 0 /\ sync' = [stage |-> "routed", tabs |-> browser])
    BY <2>1, <2>4 DEF StartSync
  <2>3. sync' \in [stage: {"idle", "cleanup", "routed", "resolved", "rejected"},
                   tabs: SUBSET Tabs]
    BY <2>5 DEF TypeOK, CoreTypeOK
  <2> QED
    BY <2>1, <2>2, <2>3, <2>5
       DEF Macrotask, StartSync, TypeOK, CoreTypeOK, LinkInOrder, extension, recorder
<1> QED
  BY <1>1, <1>2

\* The extension serves a command: the answer goes to the connection it came from.
Served(ok) ==
  /\ lifecycle # <<>> /\ lifecycle' = Tail(lifecycle) /\ Len(inbox) < MaxInbox
  /\ inbox' = IF conn # 0 /\ Head(lifecycle).on = conn
              THEN Append(inbox, [type |-> "reply", id |-> Head(lifecycle).id, ok |-> ok])
              ELSE inbox
  /\ OtherTasks

LEMMA ServesFields ==
  ASSUME TypeOK, NEW ok \in BOOLEAN, NEW e, Serves(e, ok), OtherTasks
  PROVE  e = Head(lifecycle) /\ Served(ok)
<1>1. e = Head(lifecycle) /\ lifecycle # <<>>
  BY DEF Serves
<1>2. e \in LifecycleCommand /\ inbox \in Seq(Message)
  BY <1>1 DEF TypeOK
<1>3. inbox \o <<>> = inbox
  BY <1>2
<1>4. \A x : inbox \o <<x>> = Append(inbox, x)
  BY <1>2
<1> QED
  BY <1>1, <1>3, <1>4 DEF Serves, Served, Post, ReplyTo

LEMMA ServeTypes ==
  ASSUME Typed, NEW ok \in BOOLEAN, Served(ok), recording' \in Sessions \cup {None}
  PROVE  Typed'
<1> USE DEF Typed
<1>1. lifecycle \in Seq(LifecycleCommand) /\ lifecycle # <<>> /\ inbox \in Seq(Message)
  BY DEF TypeOK, Served
<1>2. Head(lifecycle) \in LifecycleCommand /\ Tail(lifecycle) \in Seq(LifecycleCommand)
  BY <1>1
<1>3. [type |-> "reply", id |-> Head(lifecycle).id, ok |-> ok] \in Message
  BY <1>2 DEF Message, LifecycleCommand
<1>4. PICK m \in Message : m = [type |-> "reply", id |-> Head(lifecycle).id, ok |-> ok]
  BY <1>3
<1>5. inbox' \in Seq(Message) /\ Len(inbox') <= MaxInbox + 1
  BY <1>1, <1>4, CoreBoundsAssumption DEF Served
<1> QED
  BY <1>1, <1>2, <1>5 DEF Served, OtherTasks, TypeOK, CoreTypeOK, LinkInOrder, link, brokerVars

-----------------------------------------------------------------------------
(* The reservation                                                           *)

Reservations ==
  /\ CleanupsForTheGone /\ OneStarter /\ StartersHoldReservation
  /\ HolderKnown /\ RecordersHoldReservation

\* Nobody comes or goes, and nobody starts to record; s, which may be None, loses its
\* recording, its reservation and what is left of it.
GivesUp(s) ==
  /\ reg'.live \subseteq reg.live
  /\ \A x \in Sessions :
       /\ Connected(reg', x) = Connected(reg, x)
       /\ reg'.activeRecordingId[x] \in {None, reg.activeRecordingId[x]}
       /\ Connected(reg, x) /\ x # s => reg'.activeRecordingId[x] = reg.activeRecordingId[x]
       /\ x = s => reg'.activeRecordingId[x] = None
  /\ reservation' = IF reservation = s THEN None ELSE reservation
  /\ reservation' \in reg.live => reservation' \in reg'.live
  /\ cleaning' = cleaning \/ (cleaning = s /\ cleaning' = None)

\* No start begins, and those of others than s do not end.
StartsGoOn(s) ==
  /\ \A q \in Requests : Starter(q)' =>
       Starter(q) /\ req'[q].agent = req[q].agent /\ (req[q].agent = s => ~Connected(reg, s))
  /\ \A q \in Requests : Starter(q) /\ req[q].agent # s =>
       /\ Starter(q)' /\ req'[q].agent = req[q].agent
       /\ req[q].stage = "rejected" => req'[q].stage = "rejected"
  /\ \A q \in Requests : q \in StartRoutes' => q \in StartRoutes /\ (req[q].agent = s => closing')

CleanupsGoOn ==
  /\ \A c \in cleanups' : ~Connected(reg', c.session) /\ (c.stage = "rejected" => late')
  /\ (closing' => late') /\ (late => late')
  /\ closing => closing' \/ StartRoutes' = {}

LEMMA AgentsKnown ==
  ASSUME RequestsComplete, NEW q \in Requests, Starter(q) \/ q \in Routes \/ q \in StartRoutes
  PROVE  req[q].agent \in Sessions /\ req[q].agent # None
BY NoneAssumption DEF RequestsComplete, Starter, Routes, In, StartRoutes

LEMMA RoutesAreStarters ==
  ASSUME NEW q
  PROVE  /\ q \in StartRoutes <=> q \in Requests /\ req[q].stage = "routed" /\ req[q].kind = "start"
         /\ q \in StopRoutes <=> q \in Requests /\ req[q].stage = "routed" /\ req[q].kind = "stop"
         /\ q \in StartRoutes => Starter(q)
BY DEF StartRoutes, StopRoutes, Routes, In, Starter

LEMMA ReservationGoesOn ==
  ASSUME Typed, RequestsComplete, Reservations, NEW s \in Sessions \cup {None},
         GivesUp(s), StartsGoOn(s), CleanupsGoOn
  PROVE  Reservations'
<1>1. /\ reservation \in Sessions \cup {None} /\ cleaning \in Sessions \cup {None}
      /\ reg.live \subseteq Sessions /\ None \notin Sessions
  BY NoneAssumption DEF Typed, TypeOK, CoreTypeOK, Registry
<1>2. CleanupsForTheGone'
  BY <1>1 DEF GivesUp, CleanupsGoOn, Reservations, CleanupsForTheGone
<1>3. \A x \in Sessions : Records(x)' => Records(x) /\ x # s
  BY DEF GivesUp, Records
<1>4. OneStarter'
  BY <1>3, AgentsKnown DEF StartsGoOn, Reservations, OneStarter
<1>5. StartersHoldReservation'
  <2>1. ASSUME NEW q \in Requests, Starter(q)', Connected(reg', req'[q].agent)
        PROVE  reservation' = req'[q].agent
    <3>1. Starter(q) /\ req'[q].agent = req[q].agent /\ req[q].agent \in Sessions
      BY <2>1, AgentsKnown DEF StartsGoOn
    <3>2. Connected(reg, req[q].agent) /\ req[q].agent # s
      BY <2>1, <3>1 DEF StartsGoOn, GivesUp
    <3> QED
      BY <3>1, <3>2 DEF GivesUp, Reservations, StartersHoldReservation
  <2>2. ASSUME NEW q \in StartRoutes'
        PROVE  /\ q \in StartRoutes /\ (reservation' = req'[q].agent \/ closing')
    <3>1. q \in Requests /\ Starter(q)'
      BY <2>2 DEF StartRoutes, Routes, In, Starter
    <3>2. q \in StartRoutes /\ req'[q].agent = req[q].agent /\ (req[q].agent = s => closing')
      BY <2>2, <3>1 DEF StartsGoOn
    <3> QED
      BY <2>2, <3>2 DEF GivesUp, CleanupsGoOn, Reservations, StartersHoldReservation
  <2> QED
    BY <2>1, <2>2 DEF Reservations, StartersHoldReservation
<1>6. HolderKnown'
  <2> SUFFICES ASSUME reservation' # None
               PROVE  /\ reservation' \in reg'.live
                      /\ \/ \E q \in Requests :
                              /\ Starter(q)' /\ req'[q].agent = reservation'
                              /\ Connected(reg', reservation') \/ req'[q].stage = "rejected"
                         \/ IF Connected(reg', reservation') THEN Records(reservation)'
                            ELSE cleaning' = reservation'
    BY DEF HolderKnown
  <2>1. reservation' = reservation /\ reservation # s /\ reservation \in Sessions
    BY <1>1 DEF GivesUp
  <2>2. reservation' \in reg'.live
    BY <2>1 DEF GivesUp, Reservations, HolderKnown
  <2>3. CASE \E q \in Requests : /\ Starter(q) /\ req[q].agent = reservation
                                 /\ Connected(reg, reservation) \/ req[q].stage = "rejected"
    BY <2>1, <2>2, <2>3 DEF StartsGoOn, GivesUp
  <2>4. CASE IF Connected(reg, reservation) THEN Records(reservation) ELSE cleaning = reservation
    BY <2>1, <2>2, <2>4 DEF GivesUp, Records
  <2> QED
    BY <2>1, <2>2, <2>3, <2>4 DEF Reservations, HolderKnown
<1>7. RecordersHoldReservation'
  BY <1>1, <1>3 DEF GivesUp, CleanupsGoOn, Reservations, RecordersHoldReservation
<1> QED
  BY <1>2, <1>4, <1>5, <1>6, <1>7 DEF Reservations

LEMMA ForgetsGivesUp ==
  ASSUME Typed, NEW kept, Forgets(reg, reg', kept), reservation # None => reservation \in kept,
         UNCHANGED <<reservation, cleaning>>
  PROVE  GivesUp(None)
BY NoneAssumption DEF Typed, TypeOK, CoreTypeOK, Registry, Forgets, GivesUp

\* Every start goes on.
StartsStay ==
  \A q \in Requests :
    /\ Starter(q)' <=> Starter(q)
    /\ Starter(q) => req'[q].agent = req[q].agent
    /\ Starter(q) /\ req[q].stage = "rejected" => req'[q].stage = "rejected"
    /\ q \in StartRoutes' => q \in StartRoutes

LEMMA StartsStayGoOn ==
  ASSUME RequestsComplete, StartsStay
  PROVE  StartsGoOn(None)
BY AgentsKnown DEF StartsStay, StartsGoOn

\* Requests that come, wait, are sent to stop, or are answered without more.
LEMMA RequestReservations ==
  ASSUME Typed, RequestsComplete, Reservations, NEW q \in Requests,
         \/ \E s \in Sessions, kind \in {"start", "stop"} : AgentRequests(q, s, kind)
         \/ Refuse(q) \/ TurnComes(q) \/ Finish(q) \/ TabCloses(q) \/ TimesOut(q) \/ SendStop(q)
  PROVE  Reservations'
<1>1. TypeOK
  BY DEF Typed
<1>2. StartsStay
  <2>1. CASE \E s \in Sessions, kind \in {"start", "stop"} : AgentRequests(q, s, kind)
    BY <1>1, <2>1, RequestFields DEF AgentRequests, StartsStay, Starter, StartRoutes, Routes, In
  <2>2. CASE Refuse(q)
    BY <1>1, <2>2, AnsweredFields
       DEF Refuse, Woken, FreeRequest, StartsStay, Starter, StartRoutes, Routes, In
  <2>3. CASE Finish(q)
    BY <1>1, <2>3, AnsweredFields
       DEF Finish, FreeRequest, StartsStay, Starter, StartRoutes, Routes, In
  <2>4. CASE TurnComes(q)
    BY <1>1, <2>4, StageFields DEF TurnComes, Same, StartsStay, Starter, StartRoutes, Routes, In
  <2>5. CASE TabCloses(q) \/ TimesOut(q)
    <3>1. q \in Routes /\ req' = Rejected(req, {q})
      BY <2>5 DEF TabCloses, TimesOut, Timeout
    <3> QED
      BY <1>1, <3>1, RejectedFields DEF Same, StartsStay, Starter, StartRoutes, Routes, In
  <2>6. CASE SendStop(q)
    BY <1>1, <2>6, StageFields
       DEF SendStop, Woken, Send, Same, StartsStay, Starter, StartRoutes, Routes, In
  <2> QED
    BY <2>1, <2>2, <2>3, <2>4, <2>5, <2>6
<1>3. UNCHANGED <<reg, reservation, cleaning, cleanups, closing, late>>
  BY DEF AgentRequests, Refuse, TurnComes, Finish, TabCloses, TimesOut, Timeout, SendStop,
     brokerVars, engineVars, recorder
<1>4. GivesUp(None)
  BY <1>3, ForgetsNothing, ForgetsGivesUp
<1>5. CleanupsGoOn
  BY <1>3 DEF CleanupsGoOn, Reservations, CleanupsForTheGone
<1> QED
  BY <1>2, <1>4, <1>5, StartsStayGoOn, ReservationGoesOn

\* Nothing but the registry forgets, and nothing but cleanups change.
LEMMA SameReservations ==
  ASSUME Typed, RequestsComplete, Reservations,
         NEW kept, Forgets(reg, reg', kept), reservation # None => reservation \in kept,
         UNCHANGED <<req, reservation, cleaning>>, CleanupsGoOn
  PROVE  Reservations'
<1>1. StartsStay
  BY DEF StartsStay, Starter, StartRoutes, Routes, In
<1> QED
  BY <1>1, StartsStayGoOn, ForgetsGivesUp, ReservationGoesOn

\* A cleanup is started for an Agent that is gone.
LEMMA CleanupStartsGoOn ==
  ASSUME NEW s \in Sessions, NEW chain, CleanupStarts(s, chain), CleanupsForTheGone,
         ~Connected(reg', s), \A c \in cleanups : ~Connected(reg', c.session),
         UNCHANGED <<closing, late>>
  PROVE  CleanupsGoOn
<1>1. \A c \in cleanups' : c \in cleanups \/ (c.session = s /\ c.stage = "routed")
  BY CleanupStartsOrNot DEF CleanupSent
<1> QED
  BY <1>1 DEF CleanupsGoOn, CleanupsForTheGone

LEMMA CleanupSessions ==
  ASSUME Typed, NEW c \in cleanups
  PROVE  c.session \in Sessions /\ c.id \in CleanupIds
BY DEF Typed, TypeOK, Cleanup

LEMMA TimeReservations ==
  ASSUME Typed, RequestsComplete, Reservations, NEW s \in Sessions, GraceTimer(s) \/ Ticks
  PROVE  Reservations'
<1>1. reg \in Registry /\ Good(reg)
  BY DEF Typed, Good
<1>2. PICK kept : kept = Retained(cleaning, reservation)
  OBVIOUS
<1>3. Forgets(reg, reg', kept)
  <2>1. CASE GraceTimer(s)
    <3>1. PICK mid : mid = ExpireDisconnected(reg)
      OBVIOUS
    <3>2. mid \in Registry /\ Forgets(reg, mid, kept)
      BY <1>1, <3>1, ExpireForgets, ExpireDisconnectedGood DEF Good
    <3>3. Forgets(mid, reg', kept)
      BY <1>2, <2>1, <3>1, <3>2, PruneForgets DEF GraceTimer, GraceEnds
    <3> QED
      BY <3>2, <3>3, ForgetsTwice
  <2>2. CASE Ticks
    BY <1>1, <2>2, ElapseForgets DEF Ticks, Tick
  <2> QED
    BY <2>1, <2>2
<1>4. reservation # None => reservation \in kept
  BY <1>2 DEF Retained
<1>5. UNCHANGED <<req, reservation, cleaning, cleanups, closing, late>>
  BY DEF GraceTimer, GraceEnds, Ticks, Tick, brokerVars, engineVars, recorder
<1>6. CleanupsGoOn
  BY <1>3, <1>5, CleanupSessions DEF Forgets, CleanupsGoOn, Reservations, CleanupsForTheGone
<1> QED
  BY <1>3, <1>4, <1>5, <1>6, SameReservations

\* The connection, its synchronization and the extension.
LEMMA LinkReservations ==
  ASSUME Typed, RequestsComplete, Reservations,
         \/ WorkerEnds \/ Synchronizes \/ (\E ok \in BOOLEAN : Served(ok))
         \/ \E c \in Connections : ChainStarts(c)
         \/ \E c \in cleanups : CleanupTimesOut(c)
  PROVE  Reservations'
<1>1. reg \in Registry
  BY DEF Typed, Good
<1>2. PICK kept : kept = {reservation}
  OBVIOUS
<1>3. UNCHANGED <<req, reservation, cleaning, closing>> /\ (late' = late \/ late')
  <2>1. CASE WorkerEnds
    BY <2>1 DEF WorkerEnds, brokerVars
  <2>2. CASE Synchronizes
    BY <2>2 DEF Synchronizes, FinishSync, SyncTimeout, HandleInventory, SendInventory,
       brokerVars, engineVars, recorder
  <2>3. CASE \E ok \in BOOLEAN : Served(ok)
    BY <2>3 DEF Served, OtherTasks, brokerVars
  <2>4. CASE \E c \in Connections : ChainStarts(c)
    BY <2>4 DEF ChainStarts, StartSync, recorder
  <2>5. CASE \E c \in cleanups : CleanupTimesOut(c)
    BY <2>5 DEF CleanupTimesOut
  <2> QED
    BY <2>1, <2>2, <2>3, <2>4, <2>5
<1>4. Forgets(reg, reg', kept)
  <2>1. CASE Microtask /\ FinishSync
    BY <1>1, <2>1, ReconcileForgets DEF FinishSync
  <2>2. CASE reg' = reg
    BY <2>2, ForgetsNothing
  <2> QED
    BY <2>1, <2>2 DEF WorkerEnds, Synchronizes, SyncTimeout, HandleInventory, SendInventory,
       Served, OtherTasks, ChainStarts, StartSync, CleanupTimesOut
<1>5. CleanupsGoOn
  <2>1. \A x \in Sessions : Connected(reg', x) = Connected(reg, x)
    BY <1>4 DEF Forgets
  <2>2. \A d \in cleanups : ~Connected(reg', d.session)
    BY <2>1, CleanupSessions DEF Reservations, CleanupsForTheGone
  <2>3. CASE cleanups' = cleanups
    BY <1>3, <2>2, <2>3 DEF CleanupsGoOn, Reservations, CleanupsForTheGone
  <2>4. CASE \E c \in Connections :
               ChainStarts(c) /\ CleanupStarts(cleaning, TRUE) /\ cleaning # None
    <3>1. cleaning \in Sessions /\ ~Connected(reg', cleaning) /\ late' = late
      BY <2>1, <2>4 DEF Typed, TypeOK, Reservations, CleanupsForTheGone, ChainStarts, recorder
    <3> QED
      BY <1>3, <2>2, <2>4, <3>1, CleanupStartsGoOn DEF Reservations
  <2>5. CASE \E c \in cleanups : CleanupTimesOut(c)
    <3>1. PICK c \in cleanups : CleanupTimesOut(c)
      BY <2>5
    <3>2. \A d \in cleanups' : d \in cleanups \/ d.session = c.session
      <4>1. c \in Cleanup
        BY DEF Typed, TypeOK
      <4>2. [c EXCEPT !.stage = "rejected"].session = c.session
        BY <4>1 DEF Cleanup
      <4> QED
        BY <3>1, <4>2 DEF CleanupTimesOut
    <3>3. late'
      BY <3>1 DEF CleanupTimesOut
    <3> QED
      BY <1>3, <2>2, <3>2, <3>3 DEF CleanupsGoOn
  <2>6. \/ cleanups' = cleanups \/ \E c \in cleanups : CleanupTimesOut(c)
        \/ \E c \in Connections : ChainStarts(c) /\ CleanupStarts(cleaning, TRUE) /\ cleaning # None
    BY DEF WorkerEnds, Synchronizes, Served, OtherTasks, ChainStarts, brokerVars
  <2> QED
    BY <2>3, <2>4, <2>5, <2>6
<1> QED
  BY <1>2, <1>3, <1>4, <1>5, SameReservations

LEMMA ReconnectReservations ==
  ASSUME Typed, RequestsComplete, Reservations, Reconnects
  PROVE  Reservations'
<1>1. TypeOK /\ Routes \in SUBSET Requests
  BY DEF Typed, Routes, In
<1>2. /\ req' = Rejected(req, Routes) /\ Dropped /\ UNCHANGED <<reg, late>>
  BY DEF Reconnects, ExtensionArrives, ExtensionGoes, ExtensionConnects, ExtensionCloses,
     FailSync,
     engineVars, recorder
<1>3. GivesUp(None)
  BY <1>2, ForgetsNothing, ForgetsGivesUp DEF Dropped
<1>4. \A q \in Requests : /\ q \in Routes => Same(req[q], req'[q]) /\ req'[q].stage = "rejected"
                          /\ q \notin Routes => req'[q] = req[q]
  BY <1>1, <1>2, RejectedFields
<1>5. StartRoutes' = {}
  BY <1>4 DEF StartRoutes, Routes, In
<1>6. StartsStay
  BY <1>4, <1>5 DEF StartsStay, Starter, Same, Routes, In
<1>7. CleanupsGoOn
  BY <1>2, <1>5 DEF CleanupsGoOn, Dropped
<1> QED
  BY <1>3, <1>6, <1>7, StartsStayGoOn, ReservationGoesOn

\* A start that fails.
LEMMA FailReservations ==
  ASSUME Typed, RequestsComplete, Reservations, NEW q \in Requests, StartFails(q)
  PROVE  Reservations'
<1>1. Starter(q) /\ req[q].agent \in Sessions /\ TypeOK
  BY AgentsKnown DEF StartFails, RequestsComplete, Starter, Typed
<1>2. PICK s \in Sessions : s = req[q].agent
  BY <1>1
<1>3. /\ req'[q].stage = "free" /\ \A p \in Requests \ {q} : req'[p] = req[p]
      /\ UNCHANGED <<reg, cleaning, closing, late>>
      /\ reservation' = IF reservation = s THEN None ELSE reservation
  BY <1>1, <1>2, AnsweredFields DEF StartFails, FreeRequest, recorder
<1>4. ~Records(s)
  BY <1>1, <1>2 DEF Reservations, OneStarter
<1>5. GivesUp(s)
  BY <1>3, <1>4 DEF GivesUp, Records
<1>6. \A p \in Requests : Starter(p) /\ req[p].agent = s => p = q
  BY <1>1, <1>2 DEF Reservations, OneStarter
<1>7. StartsGoOn(s)
  <2>1. ~Starter(q)' /\ q \notin StartRoutes'
    BY <1>3 DEF Starter, StartRoutes, Routes, In
  <2>2. \A p \in Requests \ {q} : /\ Starter(p)' <=> Starter(p)
                                  /\ p \in StartRoutes' <=> p \in StartRoutes
    BY <1>3 DEF Starter, StartRoutes, Routes, In
  <2>3. \A p \in StartRoutes : Starter(p)
    BY RoutesAreStarters
  <2> QED
    BY <1>2, <1>1, <1>3, <1>6, <2>1, <2>2, <2>3 DEF StartsGoOn
<1>8. CleanupsGoOn
  <2>1. CASE cleaning = s
    <3>1. CleanupStarts(s, FALSE)
      BY <1>2, <2>1 DEF StartFails
    <3>2. CleanupsForTheGone
      BY DEF Reservations
    <3>3. ~Connected(reg', s) /\ \A c \in cleanups : ~Connected(reg', c.session)
      BY <1>2, <1>3, <2>1, <3>2, NoneAssumption DEF CleanupsForTheGone
    <3> QED
      BY <1>3, <3>1, <3>2, <3>3, CleanupStartsGoOn
  <2>2. CASE cleaning # s
    BY <1>2, <1>3, <2>2 DEF StartFails, CleanupsGoOn, Reservations, CleanupsForTheGone
  <2> QED
    BY <2>1, <2>2
<1> QED
  BY <1>5, <1>7, <1>8, ReservationGoesOn

\* A session whose recording is cleared may not have a start on its way.
LEMMA ClearGivesUp ==
  ASSUME Typed, NEW s \in Sessions, NEW kept,
         reservation' = IF reservation = s THEN None ELSE reservation,
         cleaning' = cleaning \/ (cleaning = s /\ cleaning' = None),
         Forgets(ClearRecordings(reg, s), reg', kept), reservation' # None => reservation' \in kept
  PROVE  GivesUp(s)
<1>1. reg \in Registry /\ None \notin reg.live
  BY NoneAssumption DEF Typed, Good, Registry
<1>2. PICK n : n = ClearRecordings(reg, s)
  OBVIOUS
<1>3. /\ n.live = reg.live /\ n.activeRecordingId = [reg.activeRecordingId EXCEPT ![s] = None]
      /\ \A x \in Sessions : Connected(n, x) = Connected(reg, x)
  BY <1>1, <1>2, ClearFields
<1>4. /\ n.activeRecordingId[s] = None
      /\ \A x \in Sessions : x # s => n.activeRecordingId[x] = reg.activeRecordingId[x]
  BY <1>1, <1>3 DEF Registry
<1>5. Forgets(n, reg', kept)
  BY <1>2
<1>6. /\ reg'.live \subseteq n.live
      /\ \A x \in Sessions : /\ Connected(reg', x) = Connected(n, x)
                             /\ reg'.activeRecordingId[x] \in {None, n.activeRecordingId[x]}
                             /\ Connected(n, x) =>
                                  reg'.activeRecordingId[x] = n.activeRecordingId[x]
      /\ reservation' \in n.live => reservation' \in reg'.live
  BY <1>1, <1>3, <1>5 DEF Forgets
<1> QED
  BY <1>3, <1>4, <1>6 DEF GivesUp

\* A cleanup that has its answer finds no start of its session on the way.
LEMMA CleanupEndReservations ==
  ASSUME Typed, RequestsComplete, Reservations, AnswersInOrder, NEW c \in cleanups, CleanupEnds(c)
  PROVE  Reservations'
<1>1. PICK s \in Sessions : s = c.session
  BY CleanupSessions
<1>2. reg \in Registry /\ Good(reg) /\ ~Connected(reg, s) /\ (c.stage = "rejected" => late)
  BY <1>1 DEF Typed, Good, Reservations, CleanupsForTheGone
<1>3. PICK failed \in BOOLEAN : failed <=> c.stage = "rejected"
  OBVIOUS
<1>4. /\ cleaning' = IF cleaning = s /\ ~failed THEN None ELSE cleaning
      /\ closing' = (closing \/ failed)
      /\ reservation' = IF reservation = s THEN None ELSE reservation
      /\ reg' = PruneDisconnected(ClearRecordings(reg, s), Retained(cleaning', reservation'))
      /\ cleanups' = cleanups \ {c} /\ UNCHANGED <<req, late>>
  BY <1>1, <1>3 DEF CleanupEnds, engineVars, recorder
<1>5. GivesUp(s)
  <2>1. PICK kept : kept = Retained(cleaning', reservation')
    OBVIOUS
  <2>2. PICK n : n = ClearRecordings(reg, s)
    OBVIOUS
  <2>3. n \in Registry
    BY <1>2, <2>2, ClearGood DEF Good
  <2>4. Forgets(n, reg', kept)
    BY <1>4, <2>1, <2>2, <2>3, PruneForgets
  <2>5. reservation' # None => reservation' \in kept
    BY <2>1 DEF Retained
  <2> QED
    BY <1>4, <2>2, <2>4, <2>5, ClearGivesUp
<1>6. \A q \in StartRoutes : req[q].agent = s => closing'
  <2>1. c.stage \in {"resolved", "rejected"}
    BY DEF CleanupEnds, Settled, Typed, TypeOK, Cleanup
  <2> QED
    BY <1>1, <1>3, <1>4, <2>1 DEF AnswersInOrder
<1>7. StartsGoOn(s)
  BY <1>2, <1>4, <1>6 DEF StartsGoOn, Starter, StartRoutes, Routes, In
<1>8. CleanupsGoOn
  <2>1. \A x \in Sessions : Connected(reg', x) = Connected(reg, x)
    BY <1>5 DEF GivesUp
  <2> QED
    BY <1>2, <1>3, <1>4, <2>1, CleanupSessions
       DEF CleanupsGoOn, Reservations, CleanupsForTheGone
<1> QED
  BY <1>5, <1>7, <1>8, ReservationGoesOn

\* The answer to a cleanup.
LEMMA CleanupAnswerReservations ==
  ASSUME Typed, RequestsComplete, Reservations, AnswersInOrder,
         Deliver(Runnable), Head(inbox).type = "reply", OthersSame,
         NEW c \in cleanups, CleanupAnswered(c)
  PROVE  Reservations'
<1>1. PICK s \in Sessions : s = c.session
  BY CleanupSessions
<1>2. ~Connected(reg, s) /\ c \in Cleanup
  BY <1>1 DEF Typed, TypeOK, Reservations, CleanupsForTheGone
<1>3. PICK d : d = [c EXCEPT !.stage = "resolved"]
  OBVIOUS
<1>4. d.session = s /\ d.stage = "resolved"
  BY <1>1, <1>2, <1>3 DEF Cleanup
<1>5. /\ cleanups' = (cleanups \ {c}) \cup {d} /\ UNCHANGED <<req, cleaning, closing, late>>
      /\ reg' = IF Head(inbox).ok THEN ClearRecordings(reg, s) ELSE reg
      /\ reservation' = IF Head(inbox).ok /\ reservation = s THEN None ELSE reservation
  BY <1>1, <1>3 DEF CleanupAnswered, ReplyToCleanup, OthersSame, recorder
<1>6. \A x \in Sessions : Connected(reg', x) = Connected(reg, x)
  BY <1>5, ClearFields DEF Typed, Good
<1>7. CleanupsGoOn
  BY <1>2, <1>4, <1>5, <1>6, CleanupSessions DEF CleanupsGoOn, Reservations, CleanupsForTheGone
<1>8. CASE ~Head(inbox).ok
  BY <1>5, <1>7, <1>8, ForgetsNothing, SameReservations
<1>9. CASE Head(inbox).ok
  <2>1. PICK kept : kept = {reservation'}
    OBVIOUS
  <2>2. GivesUp(s)
    BY <1>5, <1>9, <2>1, ForgetsNothing, ClearGivesUp
  <2>3. ASSUME NEW q \in StartRoutes
        PROVE  req[q].agent # s
    <3>1. Head(inbox) = inbox[1] /\ inbox # <<>> /\ inbox \in Seq(Message)
      BY DeliverType DEF Typed, TypeOK
    <3>2. RepliedAt(1, c.id) /\ 1 \in 1..Len(inbox)
      BY <3>1 DEF RepliedAt, CleanupAnswered
    <3>3. 1..(1 - 1) = {}
      OBVIOUS
    <3>4. ~Before(q, c.id)
      BY <3>2, <3>3 DEF Before
    <3> QED
      BY <1>1, <3>4 DEF AnswersInOrder
  <2>4. StartsGoOn(s)
    BY <1>2, <1>5, <2>3 DEF StartsGoOn, Starter, StartRoutes, Routes, In
  <2> QED
    BY <1>7, <2>2, <2>4, ReservationGoesOn
<1> QED
  BY <1>8, <1>9

\* The answer to a stop: its Agent recorded, so no start of it is on the way.
LEMMA StopAnswerReservations ==
  ASSUME Typed, RequestsComplete, Reservations, StopsEndRecordings,
         Deliver(Runnable), Head(inbox).type = "reply", OthersSame,
         NEW q \in Requests, StopAnswered(q) \/ StopRefused(q)
  PROVE  Reservations'
<1>1. q \in Routes /\ q \in StopRoutes /\ req[q].kind = "stop" /\ TypeOK /\ ~Starter(q)
  BY RoutesAreStarters DEF StopAnswered, StopRefused, StopRoutes, Typed, Starter
<1>2. PICK s \in Sessions : s = req[q].agent
  BY <1>1, AgentsKnown
<1>3. /\ Same(req[q], req'[q]) /\ req'[q].stage \in {"resolved", "rejected"}
      /\ \A p \in Requests \ {q} : req'[p] = req[p]
  <2>1. CASE StopAnswered(q)
    BY <1>1, <2>1, StageFields DEF StopAnswered
  <2>2. CASE StopRefused(q)
    BY <1>1, <2>2, RejectedFields DEF StopRefused
  <2> QED
    BY <2>1, <2>2
<1>4. StartsStay
  BY <1>1, <1>3 DEF StartsStay, Starter, Same, StartRoutes, Routes, In
<1>5. UNCHANGED <<cleaning, cleanups, closing, late>>
  BY DEF StopAnswered, StopRefused, OthersSame, recorder
<1>6. \A x \in Sessions : Connected(reg', x) = Connected(reg, x)
  <2>1. reg' = reg \/ reg' = ClearRecordings(reg, s)
    BY <1>2 DEF StopAnswered, StopRefused
  <2>2. PICK n : n = ClearRecordings(reg, s)
    OBVIOUS
  <2>3. \A x \in Sessions : Connected(n, x) = Connected(reg, x)
    BY <2>2, ClearFields DEF Typed, Good
  <2> QED
    BY <2>1, <2>2, <2>3
<1>7. CleanupsGoOn
  BY <1>5, <1>6, CleanupSessions DEF CleanupsGoOn, Reservations, CleanupsForTheGone
<1>8. CASE StopRefused(q)
  BY <1>4, <1>7, <1>8, StartsStayGoOn, ForgetsNothing, ForgetsGivesUp, ReservationGoesOn
     DEF StopRefused
<1>9. CASE StopAnswered(q)
  <2>1. Records(s)
    <3>1. Head(inbox) = inbox[1] /\ inbox # <<>> /\ inbox \in Seq(Message)
      BY DeliverType DEF Typed, TypeOK
    <3>2. StoppedAt(1) /\ 1 \in 1..Len(inbox) /\ inbox[1].id = q
      BY <1>9, <3>1 DEF StoppedAt, StopAnswered
    <3> QED
      BY <1>2, <3>2 DEF StopsEndRecordings
  <2>2. PICK kept : kept = {reservation'}
    OBVIOUS
  <2>3. GivesUp(s)
    BY <1>2, <1>5, <1>9, <2>2, ForgetsNothing, ClearGivesUp DEF StopAnswered
  <2>4. \A p \in Requests : Starter(p) => req[p].agent # s
    BY <2>1 DEF Reservations, OneStarter
  <2>5. StartsGoOn(s)
    BY <1>4, <2>4, RoutesAreStarters DEF StartsStay, StartsGoOn
  <2> QED
    BY <1>7, <2>3, <2>5, ReservationGoesOn
<1> QED
  BY <1>8, <1>9

LEMMA IgnoredReservations ==
  ASSUME Typed, RequestsComplete, Reservations, OthersSame, ReplyIgnored
  PROVE  Reservations'
<1>1. UNCHANGED <<reg, req, reservation, cleaning, cleanups, closing, late>>
  BY DEF ReplyIgnored, OthersSame, recorder
<1>2. CleanupsGoOn
  BY <1>1 DEF CleanupsGoOn, Reservations, CleanupsForTheGone
<1>3. PICK kept : kept = {reservation}
  OBVIOUS
<1> QED
  BY <1>1, <1>2, <1>3, ForgetsNothing, SameReservations

\* The start is refused: it is still there, and its Agent does not record.
LEMMA RefusedReservations ==
  ASSUME Typed, RequestsComplete, Reservations, OthersSame, NEW q \in Requests, StartRefused(q)
  PROVE  Reservations'
<1>1. q \in StartRoutes /\ Starter(q) /\ TypeOK
  BY RoutesAreStarters DEF StartRefused, Typed
<1>2. PICK s \in Sessions : s = req[q].agent
  BY <1>1, AgentsKnown
<1>3. ~Records(s)
  BY <1>1, <1>2 DEF Reservations, OneStarter
<1>4. /\ Same(req[q], req'[q]) /\ req'[q].stage = "rejected"
      /\ \A p \in Requests \ {q} : req'[p] = req[p]
  BY <1>1, RejectedFields DEF StartRefused
<1>5. StartsStay
  BY <1>1, <1>4 DEF StartsStay, Starter, Same, StartRoutes, Routes, In
<1>6. UNCHANGED <<reservation, cleanups, closing, late>>
  BY DEF StartRefused, OthersSame, recorder
<1>7. PICK kept : kept = Retained(None, reservation)
  OBVIOUS
<1>8. /\ Forgets(reg, reg', kept) /\ reg.live \subseteq Sessions
      /\ cleaning' = cleaning \/ (cleaning = s /\ cleaning' = None)
  BY <1>2, <1>7, PruneForgets, ForgetsNothing DEF StartRefused, Typed, Good, Registry
<1>9. \A x \in Sessions : Records(x)' => Records(x)
  BY <1>8 DEF Forgets, Records
<1>10. \A p \in Requests : Starter(p)' => /\ Starter(p) /\ req'[p].agent = req[p].agent
                                          /\ req[p].agent \in Sessions
  BY <1>5, AgentsKnown DEF StartsStay
<1>11. CleanupsForTheGone'
  BY <1>6, <1>8, CleanupSessions
     DEF Forgets, Reservations, CleanupsForTheGone, Typed, TypeOK
<1>12. OneStarter'
  BY <1>9, <1>10 DEF Reservations, OneStarter
<1>13. StartersHoldReservation'
  <2>1. \A p \in Requests : p \in StartRoutes' => p \in StartRoutes /\ Starter(p)'
    BY <1>5 DEF StartsStay, StartRoutes, Routes, In, Starter
  <2>2. \A p \in StartRoutes' : p \in StartRoutes /\ Starter(p)'
    BY <2>1 DEF StartRoutes, Routes, In
  <2> QED
    BY <1>6, <1>8, <1>10, <2>2
       DEF Forgets, Reservations, StartersHoldReservation, StartRoutes, Routes, In
<1>14. HolderKnown'
  <2> SUFFICES ASSUME reservation' # None
               PROVE  /\ reservation' \in reg'.live
                      /\ \/ \E p \in Requests :
                              /\ Starter(p)' /\ req'[p].agent = reservation'
                              /\ Connected(reg', reservation') \/ req'[p].stage = "rejected"
                         \/ IF Connected(reg', reservation') THEN Records(reservation)'
                            ELSE cleaning' = reservation'
    BY DEF HolderKnown
  <2>1. /\ reservation \in Sessions /\ reservation' = reservation /\ reservation \in kept
        /\ reservation' \in reg'.live
    BY <1>6, <1>7, <1>8 DEF Retained, Forgets, Typed, TypeOK, Reservations, HolderKnown
  <2>2. CASE reservation = s
    BY <1>1, <1>2, <1>4, <1>5, <2>1, <2>2 DEF StartsStay, Same
  <2>3. CASE \E p \in Requests : /\ Starter(p) /\ req[p].agent = reservation
                                 /\ Connected(reg, reservation) \/ req[p].stage = "rejected"
    BY <1>5, <1>8, <2>1, <2>3 DEF StartsStay, Forgets
  <2>4. CASE /\ reservation # s
             /\ IF Connected(reg, reservation) THEN Records(reservation) ELSE cleaning = reservation
    BY <1>8, <2>1, <2>4 DEF Forgets, Records
  <2> QED
    BY <2>1, <2>2, <2>3, <2>4 DEF Reservations, HolderKnown
<1>15. RecordersHoldReservation'
  BY <1>3, <1>6, <1>8, <1>9 DEF Forgets, Reservations, RecordersHoldReservation
<1> QED
  BY <1>11, <1>12, <1>13, <1>14, <1>15 DEF Reservations

\* The start is answered: its Agent records, or is gone.
LEMMA AnsweredReservations ==
  ASSUME Typed, RequestsComplete, Reservations, OthersSame, NEW q \in Requests, StartAnswered(q)
  PROVE  Reservations'
<1>1. q \in StartRoutes /\ Starter(q) /\ TypeOK /\ req[q].stage = "routed"
  BY RoutesAreStarters DEF StartAnswered, Typed
<1>2. PICK s \in Sessions : s = req[q].agent
  BY <1>1, AgentsKnown
<1>3. /\ req'[q].stage = "resolved" /\ \A p \in Requests \ {q} : req'[p] = req[p]
  BY <1>1, StageFields DEF StartAnswered
<1>4. \A p \in Requests : Starter(p)' <=> Starter(p) /\ p # q
  BY <1>3 DEF Starter
<1>5. StartRoutes' = {}
  <2>1. \A p \in StartRoutes : p = q
    BY <1>1 DEF Reservations, StartersHoldReservation
  <2> QED
    BY <1>3, <2>1 DEF StartRoutes, Routes, In
<1>6. UNCHANGED <<reservation, cleaning, closing, late>>
  BY DEF StartAnswered, OthersSame, recorder
<1>7. /\ reg'.live = reg.live /\ reg.live \subseteq Sessions
      /\ \A x \in Sessions : Connected(reg', x) = Connected(reg, x)
      /\ \A x \in Sessions : x # s => (Records(x)' <=> Records(x))
      /\ s \in reg.live => Records(s)'
  <2>1. CASE s \in reg.live
    <3>1. PICK n : n = AddRecording(reg, s, s)
      OBVIOUS
    <3>2. reg' = n
      BY <1>2, <2>1, <3>1 DEF StartAnswered
    <3>3. /\ n.live = reg.live /\ n.activeRecordingId = [reg.activeRecordingId EXCEPT ![s] = s]
          /\ \A x \in Sessions : Connected(n, x) = Connected(reg, x)
      BY <3>1, AddFields DEF Typed, Good
    <3> QED
      BY <2>1, <3>2, <3>3, NoneAssumption DEF Typed, Good, Registry, Records
  <2>2. CASE s \notin reg.live
    <3>1. reg' = reg
      BY <1>2, <2>2 DEF StartAnswered
    <3> QED
      BY <2>2, <3>1 DEF Typed, Good, Registry, Records
  <2> QED
    BY <2>1, <2>2
<1>8. \A p \in Requests : Starter(p)' => /\ Starter(p) /\ req'[p].agent = req[p].agent
                                         /\ req[p].agent \in Sessions /\ req[p].agent # s
  BY <1>1, <1>2, <1>3, <1>4, AgentsKnown DEF Reservations, OneStarter
<1>9. CleanupsForTheGone'
  <2>1. CleanupsForTheGone /\ cleaning \in Sessions \cup {None}
    BY DEF Reservations, Typed, TypeOK
  <2>2. \A c \in cleanups : ~Connected(reg', c.session)
    BY <1>7, <2>1, CleanupSessions DEF CleanupsForTheGone
  <2>3. CleanupsGoOn
    <3>1. CASE cleaning = s
      <4>1. CleanupStarts(s, FALSE)
        BY <1>2, <3>1 DEF StartAnswered
      <4>2. ~Connected(reg', s)
        BY <1>7, <2>1, <3>1, NoneAssumption DEF CleanupsForTheGone
      <4> QED
        BY <1>6, <2>1, <2>2, <4>1, <4>2, CleanupStartsGoOn
    <3>2. CASE cleaning # s
      BY <1>2, <1>6, <2>1, <2>2, <3>2 DEF StartAnswered, CleanupsGoOn, CleanupsForTheGone
    <3> QED
      BY <3>1, <3>2
  <2> QED
    BY <1>6, <1>7, <2>1, <2>3 DEF CleanupsGoOn, CleanupsForTheGone
<1>10. OneStarter'
  BY <1>7, <1>8 DEF Reservations, OneStarter
<1>11. StartersHoldReservation'
  BY <1>5, <1>6, <1>7, <1>8 DEF Reservations, StartersHoldReservation
<1>12. HolderKnown'
  <2> SUFFICES ASSUME reservation' # None
               PROVE  /\ reservation' \in reg'.live
                      /\ \/ \E p \in Requests :
                              /\ Starter(p)' /\ req'[p].agent = reservation'
                              /\ Connected(reg', reservation') \/ req'[p].stage = "rejected"
                         \/ IF Connected(reg', reservation') THEN Records(reservation)'
                            ELSE cleaning' = reservation'
    BY DEF HolderKnown
  <2>1. reservation \in Sessions /\ reservation' = reservation /\ reservation' \in reg'.live
    BY <1>6, <1>7 DEF Typed, TypeOK, Reservations, HolderKnown
  <2>2. CASE \E p \in Requests : /\ Starter(p) /\ req[p].agent = reservation
                                 /\ Connected(reg, reservation) \/ req[p].stage = "rejected"
    <3>1. PICK p \in Requests : /\ Starter(p) /\ req[p].agent = reservation
                                /\ Connected(reg, reservation) \/ req[p].stage = "rejected"
      BY <2>2
    <3>2. CASE p = q
      BY <1>1, <1>2, <1>7, <2>1, <3>1, <3>2
    <3>3. CASE p # q
      BY <1>3, <1>4, <1>7, <2>1, <3>1, <3>3
    <3> QED
      BY <3>2, <3>3
  <2>3. CASE IF Connected(reg, reservation) THEN Records(reservation) ELSE cleaning = reservation
    BY <1>6, <1>7, <2>1, <2>3 DEF Connected
  <2> QED
    BY <2>1, <2>2, <2>3 DEF Reservations, HolderKnown
<1>13. RecordersHoldReservation'
  <2>1. ASSUME NEW x \in reg'.live, Records(x)'
        PROVE  /\ Connected(reg', x) \/ ~late' => reservation' = x
               /\ ~Connected(reg', x) /\ ~late' => cleaning' = x
    <3>1. x \in Sessions /\ x \in reg.live
      BY <1>7
    <3>2. CASE x # s
      BY <1>6, <1>7, <2>1, <3>1, <3>2 DEF Reservations, RecordersHoldReservation
    <3>3. CASE x = s
      <4>1. Connected(reg, s) \/ ~late => reservation = s
        BY <1>1, <1>2 DEF Reservations, StartersHoldReservation, CleanupsForTheGone
      <4>2. ~Connected(reg, s) /\ reservation = s => cleaning = s
        BY <1>1, <1>2, NoneAssumption DEF Reservations, HolderKnown, OneStarter
      <4> QED
        BY <1>6, <1>7, <3>3, <4>1, <4>2
    <3> QED
      BY <3>2, <3>3
  <2> QED
    BY <2>1 DEF RecordersHoldReservation
<1> QED
  BY <1>9, <1>10, <1>11, <1>12, <1>13 DEF Reservations

\* A start reserves the recording: nobody records or starts to.
LEMMA ReserveReservations ==
  ASSUME Typed, RequestsComplete, Reservations, NEW q \in Requests, Reserve(q)
  PROVE  Reservations'
<1>1. /\ TypeOK /\ reservation = None /\ req[q].stage = "sync" /\ req[q].kind = "start"
      /\ ~Starter(q) /\ ~RecordingActive(reg)
  BY DEF Typed, Reserve, Woken, Starter
<1>2. PICK s \in Sessions : s = req[q].agent
  BY <1>1 DEF RequestsComplete
<1>3. Connected(reg, s) /\ reservation' = s /\ s # None
  BY <1>2, NoneAssumption DEF Reserve
<1>4. /\ Same(req[q], req'[q]) /\ req'[q].stage \in {"queued", "turn"}
      /\ \A p \in Requests \ {q} : req'[p] = req[p]
  BY <1>1, WaitsFields DEF Reserve
<1>5. UNCHANGED <<reg, cleaning, cleanups, closing, late>>
  BY DEF Reserve, engineVars, recorder
<1>6. \A p \in Requests : Starter(p)' => p = q \/ (Starter(p) /\ req'[p].agent = req[p].agent)
  BY <1>4 DEF Starter
<1>7. Starter(q)' /\ req'[q].agent = s
  BY <1>1, <1>2, <1>4 DEF Starter, Same
<1>8. \A p \in Requests : Starter(p) => ~Connected(reg, req[p].agent)
  BY <1>1, AgentsKnown DEF Reservations, StartersHoldReservation
<1>9. \A x \in reg.live : ~Records(x)
  BY <1>1 DEF RecordingActive, Records
<1>10. CleanupsForTheGone'
  BY <1>5 DEF Reservations, CleanupsForTheGone
<1>11. OneStarter'
  <2>1. ~Records(s)
    BY <1>3, <1>9 DEF Connected
  <2> QED
    BY <1>3, <1>5, <1>6, <1>7, <1>8, <2>1 DEF Reservations, OneStarter, Records
<1>12. StartersHoldReservation'
  <2>1. StartRoutes' = StartRoutes
    BY <1>1, <1>4 DEF StartRoutes, Routes, In
  <2>2. \A p \in StartRoutes : closing
    BY <1>1, AgentsKnown DEF Reservations, StartersHoldReservation, StartRoutes, Routes, In
  <2> QED
    BY <1>3, <1>5, <1>6, <1>7, <1>8, <2>1, <2>2 DEF Reservations, StartersHoldReservation
<1>13. HolderKnown'
  BY <1>3, <1>5, <1>7 DEF HolderKnown, Connected
<1>14. RecordersHoldReservation'
  BY <1>5, <1>9 DEF RecordersHoldReservation, Records
<1> QED
  BY <1>10, <1>11, <1>12, <1>13, <1>14 DEF Reservations

\* A start is sent: its Agent holds the reservation, so no other start is on the way.
LEMMA SendReservations ==
  ASSUME Typed, RequestsComplete, Reservations, NEW q \in Requests, SendStart(q)
  PROVE  Reservations'
<1>1. /\ TypeOK /\ req[q].kind = "start" /\ Starter(q) /\ ~closing /\ req[q].stage = "turn"
      /\ req[q].agent \in Sessions
  BY DEF Typed, RequestsComplete, SendStart, Open, Starter
<1>2. reservation = req[q].agent
  BY <1>1 DEF SendStart, Reservations, StartersHoldReservation
<1>3. /\ Same(req[q], req'[q]) /\ req'[q].stage = "routed"
      /\ \A p \in Requests \ {q} : req'[p] = req[p]
  BY <1>1, StageFields DEF SendStart, Send
<1>4. UNCHANGED <<reg, reservation, cleaning, cleanups, closing, late>>
  BY DEF SendStart, brokerVars, recorder
<1>5. \A p \in Requests : /\ Starter(p)' <=> Starter(p)
                          /\ Starter(p) => req'[p].agent = req[p].agent
                          /\ Starter(p) /\ req[p].stage = "rejected" => req'[p].stage = "rejected"
  BY <1>1, <1>3 DEF Starter, Same
<1>6. StartRoutes' = {q}
  <2>1. ASSUME NEW p \in StartRoutes
        PROVE  p = q
    <3>1. p \in Requests /\ Starter(p) /\ reservation = req[p].agent
      BY <1>1, RoutesAreStarters DEF Reservations, StartersHoldReservation
    <3> QED
      BY <1>1, <1>2, <3>1 DEF Reservations, OneStarter
  <2> QED
    BY <1>1, <1>3, <2>1 DEF StartRoutes, Routes, In, Same
<1>7. OneStarter' /\ CleanupsForTheGone' /\ RecordersHoldReservation'
  BY <1>4, <1>5
     DEF Reservations, OneStarter, CleanupsForTheGone, RecordersHoldReservation, Records
<1>8. StartersHoldReservation'
  BY <1>2, <1>3, <1>4, <1>5, <1>6 DEF Reservations, StartersHoldReservation, Same
<1>9. HolderKnown'
  BY <1>4, <1>5 DEF Reservations, HolderKnown, Records
<1> QED
  BY <1>7, <1>8, <1>9 DEF Reservations

\* An Agent comes: nothing is left of an earlier session of its name.
LEMMA ArriveReservations ==
  ASSUME Typed, RequestsComplete, Reservations, NEW s \in Sessions, AgentArrives(s)
  PROVE  Reservations'
<1>1. /\ reservation # s /\ cleaning # s /\ s \notin reg.live
      /\ \A c \in cleanups : c.session # s
      /\ \A q \in Requests : req[q].agent # s
  BY DEF AgentArrives, Forgotten, AgentConnects
<1>2. /\ reg'.live = reg.live \cup {s} /\ reg'.activeRecordingId = reg.activeRecordingId
      /\ reg'.activeRecordingId[s] = None
      /\ \A x \in Sessions : Connected(reg', x) <=> Connected(reg, x) \/ x = s
  <2>1. PICK n : n = CreateSession(reg, s)
    OBVIOUS
  <2>2. reg' = n
    BY <2>1 DEF AgentArrives, AgentConnects
  <2> QED
    BY <1>1, <2>1, <2>2, CreateFields DEF Typed
<1>3. UNCHANGED <<req, reservation, cleaning, cleanups, closing, late>>
  BY DEF AgentArrives, AgentConnects, brokerVars, engineVars, recorder
<1>4. /\ reg.live \subseteq Sessions
      /\ reservation \in Sessions \cup {None} /\ cleaning \in Sessions \cup {None}
  BY DEF Typed, Good, Registry, TypeOK
<1>5. CleanupsForTheGone'
  BY <1>1, <1>2, <1>3, <1>4, CleanupSessions DEF Reservations, CleanupsForTheGone
<1>6. OneStarter'
  BY <1>2, <1>3 DEF Reservations, OneStarter, Starter, Records
<1>7. StartersHoldReservation'
  BY <1>1, <1>2, <1>3, AgentsKnown
     DEF Reservations, StartersHoldReservation, Starter, StartRoutes, Routes, In
<1>8. HolderKnown'
  BY <1>1, <1>2, <1>3, <1>4 DEF Reservations, HolderKnown, Starter, Records
<1>9. RecordersHoldReservation'
  BY <1>2, <1>3, <1>4 DEF Reservations, RecordersHoldReservation, Records
<1> QED
  BY <1>5, <1>6, <1>7, <1>8, <1>9 DEF Reservations

\* An Agent goes: its recording, or the one it starts, is to be cleaned up.
LEMMA GoReservations ==
  ASSUME Typed, RequestsComplete, Reservations, NEW s \in Sessions, AgentGoes(s)
  PROVE  Reservations'
<1>1. /\ reg'.live = reg.live /\ reg'.activeRecordingId = reg.activeRecordingId
      /\ \A x \in Sessions : Connected(reg', x) <=> Connected(reg, x) /\ x # s
  <2>1. PICK n : n = Disconnect(reg, s)
    OBVIOUS
  <2>2. reg' = n
    BY <2>1 DEF AgentGoes, AgentLeaves
  <2> QED
    BY <2>1, <2>2, DisconnectFields DEF Typed, Good
<1>2. Connected(reg, s) /\ s \in reg.live /\ s # None
  BY NoneAssumption DEF AgentGoes, AgentLeaves, Connected
<1>3. UNCHANGED <<reservation, closing, late>>
  BY DEF AgentGoes, recorder
<1>4. /\ reg.live \subseteq Sessions
      /\ reservation \in Sessions \cup {None} /\ cleaning \in Sessions \cup {None}
  BY DEF Typed, Good, Registry, TypeOK
<1>5. Records(s) => reservation = s
  BY <1>2 DEF Reservations, RecordersHoldReservation
<1>6. cleaning' = IF reservation = s THEN s ELSE cleaning
  BY <1>5 DEF AgentGoes, Records
<1>7. StartsStay
  <2>1. PICK qs \in SUBSET Requests : qs \subseteq Routes /\ req' = Rejected(req, qs)
    BY DEF AgentGoes, AgentLeaves, Routes, In
  <2> QED
    BY <2>1, RejectedFields DEF Typed, Same, StartsStay, Starter, StartRoutes, Routes, In
<1>8. \A q \in Requests : Starter(q)' => /\ Starter(q) /\ req'[q].agent = req[q].agent
                                         /\ req[q].agent \in Sessions
  BY <1>7, AgentsKnown DEF StartsStay
<1>9. CleanupsForTheGone'
  <2>1. CleanupsForTheGone
    BY DEF Reservations
  <2>2. CleanupsGoOn
    <3>1. ~Connected(reg', s) /\ \A c \in cleanups : ~Connected(reg', c.session)
      BY <1>1, <2>1, CleanupSessions DEF CleanupsForTheGone
    <3>2. CASE CleanupStarts(s, FALSE)
      BY <1>3, <2>1, <3>1, <3>2, CleanupStartsGoOn
    <3>3. CASE UNCHANGED <<cleanups, lifecycle>>
      BY <1>3, <2>1, <3>1, <3>3 DEF CleanupsGoOn, CleanupsForTheGone
    <3> QED
      BY <3>2, <3>3 DEF AgentGoes
  <2> QED
    BY <1>1, <1>4, <1>6, <2>1, <2>2 DEF CleanupsGoOn, CleanupsForTheGone
<1>10. OneStarter'
  BY <1>1, <1>8 DEF Reservations, OneStarter, Records
<1>11. StartersHoldReservation'
  <2>1. \A q \in StartRoutes' : q \in StartRoutes /\ Starter(q)'
    BY <1>7 DEF StartsStay, StartRoutes, Routes, In, Starter
  <2> QED
    BY <1>1, <1>3, <1>8, <2>1
       DEF Reservations, StartersHoldReservation, StartRoutes, Routes, In
<1>12. HolderKnown'
  BY <1>1, <1>3, <1>4, <1>6, <1>7 DEF StartsStay, Reservations, HolderKnown, Records
<1>13. RecordersHoldReservation'
  BY <1>1, <1>2, <1>3, <1>4, <1>6 DEF Reservations, RecordersHoldReservation, Records
<1> QED
  BY <1>9, <1>10, <1>11, <1>12, <1>13 DEF Reservations

-----------------------------------------------------------------------------
(* The commands and their answers                                            *)

Answers == RoutesUnderWay /\ AnswersInOrder /\ StopsEndRecordings

\* The first d messages are taken from the inbox, and nothing is sent but inventories and
\* the commands of cleanups.
QueuesMove(d) ==
  /\ conn' = conn
  /\ Len(inbox) - d <= Len(inbox') /\ d <= Len(inbox)
  /\ \A i \in 1..Len(inbox') : IF i + d <= Len(inbox) THEN inbox'[i] = inbox[i + d]
                               ELSE inbox'[i].type # "reply"
  /\ Len(lifecycle) <= Len(lifecycle')
  /\ \A i \in 1..Len(lifecycle') :
       IF i <= Len(lifecycle) THEN lifecycle'[i] = lifecycle[i]
       ELSE lifecycle'[i].kind = "stop" /\ lifecycle'[i].id \notin Requests

\* No route is made, and the answers to the routes that are left are not taken.
RoutesMove(d) ==
  \A q \in Requests : q \in Routes' =>
    q \in Routes /\ Same(req[q], req'[q]) /\ (d = 1 => ~RepliedAt(1, q))

\* A cleanup stays, has its answer when no start of its session is on the way, or is new.
CleanupsMove ==
  \A c \in cleanups' :
    \/ \E b \in cleanups : /\ c.id = b.id /\ c.session = b.session
                           /\ c.stage = "resolved" =>
                                \/ b.stage = "resolved"
                                \/ \A q \in StartRoutes : req[q].agent # c.session
    \/ UnusedId(c.id) /\ c.stage = "routed"

LEMMA LengthsTyped ==
  ASSUME TypeOK
  PROVE  Len(inbox) \in Nat /\ Len(lifecycle) \in Nat
BY DEF TypeOK

\* What is known of a route stays known.
LEMMA RepliedMoves ==
  ASSUME TypeOK, TypeOK', NEW d \in {0, 1}, QueuesMove(d), NEW q, d = 1 => ~RepliedAt(1, q)
  PROVE  /\ Replied(q) => Replied(q)'
         /\ \A i \in 1..Len(lifecycle) : i \in 1..Len(lifecycle') /\ (SentAt(i, q) => SentAt(i, q)')
<1> USE LengthsTyped
<1>1. Len(inbox') \in Nat /\ Len(lifecycle') \in Nat
  BY DEF TypeOK
<1>2. ASSUME NEW i \in 1..Len(inbox), RepliedAt(i, q)
      PROVE  Replied(q)'
  <2>1. i > d /\ i - d \in 1..Len(inbox') /\ (i - d) + d = i /\ i <= Len(inbox)
    BY <1>1, <1>2 DEF QueuesMove
  <2>2. inbox'[i - d] = inbox[i]
    BY <2>1 DEF QueuesMove
  <2> QED
    BY <1>2, <2>1, <2>2 DEF Replied, RepliedAt
<1>3. \A i \in 1..Len(lifecycle) : i \in 1..Len(lifecycle') /\ lifecycle'[i] = lifecycle[i]
  BY <1>1 DEF QueuesMove
<1> QED
  BY <1>2, <1>3 DEF Replied, SentAt, QueuesMove

LEMMA RoutesUnderWayMoves ==
  ASSUME TypeOK, TypeOK', RoutesUnderWay, NEW d \in {0, 1}, QueuesMove(d), RoutesMove(d)
  PROVE  RoutesUnderWay'
<1> SUFFICES ASSUME NEW q \in Routes'
             PROVE  /\ Replied(q)' \/ \E i \in 1..Len(lifecycle') : SentAt(i, q)'
                    /\ \A i \in 1..Len(lifecycle') : lifecycle'[i].id = q =>
                         lifecycle'[i].kind = req'[q].kind
  BY DEF RoutesUnderWay
<1>1. q \in Requests /\ q \in Routes /\ Same(req[q], req'[q]) /\ (d = 1 => ~RepliedAt(1, q))
  BY DEF RoutesMove, Routes, In
<1>2. Replied(q)' \/ \E i \in 1..Len(lifecycle') : SentAt(i, q)'
  BY <1>1, RepliedMoves DEF RoutesUnderWay
<1>3. \A i \in 1..Len(lifecycle') : lifecycle'[i].id = q =>
        i \in 1..Len(lifecycle) /\ lifecycle'[i] = lifecycle[i]
  BY <1>1, LengthsTyped DEF QueuesMove
<1> QED
  BY <1>1, <1>2, <1>3 DEF RoutesUnderWay, Same

\* The order of two answers stays as it is.
LEMMA BeforeMoves ==
  ASSUME TypeOK, TypeOK', RoutesUnderWay, NEW d \in {0, 1}, QueuesMove(d),
         NEW p \in Routes, d = 1 => ~RepliedAt(1, p), NEW id, Before(p, id)
  PROVE  Before(p, id)'
<1> USE LengthsTyped
<1>1. Len(inbox') \in Nat /\ Len(lifecycle') \in Nat
  BY DEF TypeOK
<1>2. ASSUME NEW j \in 1..Len(inbox'), RepliedAt(j, id)'
      PROVE  \E i \in 1..(j - 1) : RepliedAt(i, p)'
  <2>1. j + d \in 1..Len(inbox) /\ inbox'[j] = inbox[j + d]
    BY <1>1, <1>2 DEF QueuesMove, RepliedAt
  <2>2. PICK i \in 1..((j + d) - 1) : RepliedAt(i, p)
    BY <1>2, <2>1 DEF Before, RepliedAt
  <2>3. i > d /\ i - d \in 1..(j - 1) /\ i - d \in 1..Len(inbox') /\ (i - d) + d <= Len(inbox)
    BY <1>1, <2>1, <2>2
  <2>4. inbox'[i - d] = inbox[i]
    BY <2>3 DEF QueuesMove
  <2> QED
    BY <2>2, <2>3, <2>4 DEF RepliedAt
<1>3. ASSUME NEW j \in 1..Len(lifecycle'), lifecycle'[j].id = id
      PROVE  Replied(p)' \/ \E i \in 1..(j - 1) : SentAt(i, p)'
  <2>1. CASE j <= Len(lifecycle)
    <3>1. j \in 1..Len(lifecycle) /\ lifecycle[j].id = id
      BY <1>3, <2>1 DEF QueuesMove
    <3>2. Replied(p) \/ \E i \in 1..(j - 1) : SentAt(i, p)
      BY <3>1 DEF Before
    <3>3. \A i \in 1..(j - 1) : i \in 1..Len(lifecycle)
      BY <3>1
    <3> QED
      BY <3>2, <3>3, RepliedMoves
  <2>2. CASE j > Len(lifecycle)
    <3>1. Replied(p) \/ \E i \in 1..Len(lifecycle) : SentAt(i, p)
      BY DEF RoutesUnderWay
    <3>2. \A i \in 1..Len(lifecycle) : i \in 1..(j - 1)
      BY <2>2
    <3> QED
      BY <3>1, <3>2, RepliedMoves
  <2> QED
    BY <1>1, <2>1, <2>2
<1> QED
  BY <1>2, <1>3 DEF Before

LEMMA UnusedMoves ==
  ASSUME TypeOK, TypeOK', NEW d \in {0, 1}, QueuesMove(d), NEW id, UnusedId(id)
  PROVE  /\ id \in Requests => UnusedId(id)'
         /\ \A i \in 1..Len(inbox') : ~RepliedAt(i, id)'
         /\ \A i \in 1..Len(lifecycle') : lifecycle'[i].id = id => i > Len(lifecycle)
<1> USE LengthsTyped
<1>1. Len(inbox') \in Nat /\ Len(lifecycle') \in Nat
  BY DEF TypeOK
<1>2. ASSUME NEW i \in 1..Len(inbox'), inbox'[i].type = "reply"
      PROVE  i + d \in 1..Len(inbox) /\ inbox'[i] = inbox[i + d]
  BY <1>1, <1>2 DEF QueuesMove
<1>3. \A i \in 1..Len(inbox') : inbox'[i].type = "reply" => inbox'[i].id # id
  BY <1>2 DEF UnusedId
<1>4. ASSUME NEW i \in 1..Len(lifecycle'), lifecycle'[i].id = id
      PROVE  i > Len(lifecycle)
  <2>1. CASE i <= Len(lifecycle)
    <3>1. i \in 1..Len(lifecycle) /\ lifecycle[i].id = id
      BY <1>4, <2>1 DEF QueuesMove
    <3> QED
      BY <3>1 DEF UnusedId
  <2> QED
    BY <1>1, <2>1
<1>5. ASSUME id \in Requests, NEW i \in 1..Len(lifecycle')
      PROVE  lifecycle'[i].id # id
  BY <1>1, <1>4, <1>5 DEF QueuesMove
<1> QED
  BY <1>3, <1>4, <1>5 DEF UnusedId, RepliedAt

LEMMA AnswersInOrderMoves ==
  ASSUME TypeOK, TypeOK', RoutesUnderWay, AnswersInOrder, NEW d \in {0, 1}, QueuesMove(d),
         RoutesMove(d), CleanupsMove
  PROVE  AnswersInOrder'
<1> SUFFICES ASSUME NEW q \in StartRoutes'
             PROVE  /\ \A p \in StopRoutes' : req'[p].agent = req'[q].agent => Before(p, q)'
                    /\ \A c \in cleanups' : c.session = req'[q].agent =>
                         c.stage # "resolved" /\ Before(q, c.id)'
  BY DEF AnswersInOrder
<1>1. /\ q \in Requests /\ q \in Routes /\ q \in StartRoutes /\ req'[q].agent = req[q].agent
      /\ d = 1 => ~RepliedAt(1, q)
  BY DEF RoutesMove, StartRoutes, Routes, In, Same
<1>2. ASSUME NEW p \in StopRoutes', req'[p].agent = req'[q].agent
      PROVE  Before(p, q)'
  <2>1. /\ p \in Routes /\ p \in StopRoutes /\ req[p].agent = req[q].agent
        /\ d = 1 => ~RepliedAt(1, p)
    BY <1>1, <1>2 DEF RoutesMove, StopRoutes, Routes, In, Same
  <2>2. Before(p, q)
    BY <1>1, <2>1 DEF AnswersInOrder
  <2> QED
    BY <2>1, <2>2, BeforeMoves
<1>3. ASSUME NEW c \in cleanups', c.session = req'[q].agent
      PROVE  c.stage # "resolved" /\ Before(q, c.id)'
  <2>1. CASE \E b \in cleanups : /\ c.id = b.id /\ c.session = b.session
                                 /\ c.stage = "resolved" =>
                                      \/ b.stage = "resolved"
                                      \/ \A p \in StartRoutes : req[p].agent # c.session
    <3>1. PICK b \in cleanups : /\ c.id = b.id /\ c.session = b.session
                                /\ c.stage = "resolved" =>
                                     \/ b.stage = "resolved"
                                     \/ \A p \in StartRoutes : req[p].agent # c.session
      BY <2>1
    <3>2. b.stage # "resolved" /\ Before(q, c.id)
      BY <1>1, <1>3, <3>1 DEF AnswersInOrder
    <3> QED
      BY <1>1, <1>3, <3>1, <3>2, BeforeMoves
  <2>2. CASE UnusedId(c.id) /\ c.stage = "routed"
    <3>1. Replied(q) \/ \E i \in 1..Len(lifecycle) : SentAt(i, q)
      BY <1>1 DEF RoutesUnderWay
    <3>2. \A j \in 1..Len(lifecycle') : lifecycle'[j].id = c.id =>
            \A i \in 1..Len(lifecycle) : i \in 1..(j - 1)
      BY <2>2, UnusedMoves, LengthsTyped
    <3>3. \A j \in 1..Len(lifecycle') : lifecycle'[j].id = c.id =>
            Replied(q)' \/ \E i \in 1..(j - 1) : SentAt(i, q)'
      BY <1>1, <3>1, <3>2, RepliedMoves
    <3> QED
      BY <2>2, <3>3, UnusedMoves DEF Before
  <2> QED
    BY <2>1, <2>2 DEF CleanupsMove
<1> QED
  BY <1>2, <1>3

\* No recording can be made any more, and the answer of a stop that ended one is taken.
Ended(d) ==
  /\ recording = None
  /\ \A j \in 1..Len(lifecycle) : lifecycle[j].kind # "start"
  /\ \A i \in 1..Len(inbox) : StoppedAt(i) => i <= d

\* The Agents of the stops stay, and record as before.
StopsMove(d) ==
  \A q \in Requests : q \in StopRoutes /\ q \in StopRoutes' =>
    /\ Connected(reg', req[q].agent)
    /\ \/ reg'.activeRecordingId[req[q].agent] = reg.activeRecordingId[req[q].agent]
       \/ reg'.activeRecordingId[req[q].agent] = None /\ Ended(d)

LEMMA StopsEndRecordingsMoves ==
  ASSUME TypeOK, TypeOK', StopsEndRecordings, NEW d \in {0, 1}, QueuesMove(d),
         RoutesMove(d), StopsMove(d), recording' = recording
  PROVE  StopsEndRecordings'
<1> USE LengthsTyped
<1>1. Len(inbox') \in Nat /\ Len(lifecycle') \in Nat
  BY DEF TypeOK
<1>2. ASSUME NEW q \in StopRoutes'
      PROVE  /\ q \in Requests /\ q \in StopRoutes /\ req'[q].agent = req[q].agent
             /\ Records(req[q].agent)' <=> reg'.activeRecordingId[req[q].agent] # None
  BY DEF RoutesMove, StopRoutes, Routes, In, Same, Records
<1>3. ASSUME NEW i \in 1..Len(inbox'), StoppedAt(i)'
      PROVE  i + d \in 1..Len(inbox) /\ inbox'[i] = inbox[i + d] /\ StoppedAt(i + d)
  <2>1. i + d \in 1..Len(inbox) /\ inbox'[i] = inbox[i + d]
    BY <1>1, <1>3 DEF QueuesMove, StoppedAt
  <2> QED
    BY <1>2, <1>3, <2>1 DEF StoppedAt
<1>4. ASSUME \A j \in 1..Len(lifecycle) : lifecycle[j].kind # "start"
      PROVE  \A j \in 1..Len(lifecycle') : lifecycle'[j].kind # "start"
  BY <1>1, <1>4 DEF QueuesMove
<1>5. ASSUME NEW i \in 1..Len(inbox'), StoppedAt(i)'
      PROVE  /\ reg'.activeRecordingId[req'[inbox'[i].id].agent] # None /\ recording' = None
             /\ \A j \in 1..Len(lifecycle') : lifecycle'[j].kind # "start"
             /\ \A j \in 1..Len(inbox') : StoppedAt(j)' => i = j
  <2>1. i + d \in 1..Len(inbox) /\ inbox'[i] = inbox[i + d] /\ StoppedAt(i + d)
    BY <1>3, <1>5
  <2>2. /\ Records(req[inbox[i + d].id].agent) /\ recording = None
        /\ \A j \in 1..Len(lifecycle) : lifecycle[j].kind # "start"
        /\ \A j \in 1..Len(inbox) : StoppedAt(j) => i + d = j
    BY <2>1 DEF StopsEndRecordings
  <2>3. PICK q \in StopRoutes' : q = inbox'[i].id
    BY <1>5 DEF StoppedAt
  <2>4. ~(i + d <= d) /\ ~Ended(d)
    BY <2>1 DEF Ended
  <2>5. reg'.activeRecordingId[req'[q].agent] # None
    BY <1>2, <2>1, <2>2, <2>3, <2>4 DEF StopsMove, Records
  <2>6. \A j \in 1..Len(inbox') : StoppedAt(j)' => i = j
    BY <1>3, <2>2
  <2> QED
    BY <1>4, <2>2, <2>3, <2>5, <2>6
<1>6. ASSUME NEW q \in StopRoutes', NEW i \in 1..Len(lifecycle'), lifecycle'[i].id = q
      PROVE  IF reg'.activeRecordingId[req'[q].agent] # None
             THEN \A j \in (i + 1)..Len(lifecycle') : lifecycle'[j].kind # "start"
             ELSE recording' = None /\ \A j \in 1..(i - 1) : lifecycle'[j].kind # "start"
  <2>1. q \in Requests /\ q \in StopRoutes /\ req'[q].agent = req[q].agent
    BY <1>2
  <2>2. i \in 1..Len(lifecycle) /\ lifecycle[i].id = q
    BY <1>1, <1>6, <2>1 DEF QueuesMove
  <2>3. IF Records(req[q].agent)
        THEN \A j \in (i + 1)..Len(lifecycle) : lifecycle[j].kind # "start"
        ELSE recording = None /\ \A j \in 1..(i - 1) : lifecycle[j].kind # "start"
    BY <2>1, <2>2 DEF StopsEndRecordings
  <2>4. \A j \in 1..(i - 1) : j \in 1..Len(lifecycle) /\ lifecycle'[j] = lifecycle[j]
    BY <1>1, <2>2 DEF QueuesMove
  <2>5. \A j \in (i + 1)..Len(lifecycle') :
          \/ j \in (i + 1)..Len(lifecycle) /\ lifecycle'[j] = lifecycle[j]
          \/ lifecycle'[j].kind = "stop"
    BY <1>1, <2>2 DEF QueuesMove
  <2>6. CASE reg'.activeRecordingId[req[q].agent] = reg.activeRecordingId[req[q].agent]
    BY <2>1, <2>3, <2>4, <2>5, <2>6 DEF Records
  <2>7. CASE reg'.activeRecordingId[req[q].agent] = None /\ Ended(d)
    BY <2>1, <2>4, <2>7 DEF Ended
  <2> QED
    BY <1>6, <2>1, <2>6, <2>7 DEF StopsMove
<1> QED
  BY <1>5, <1>6 DEF StopsEndRecordings, Records

\* How a request goes on when nothing is sent.
Advances(q) ==
  \/ req'[q] = req[q]
  \/ req'[q].stage = "free"
  \/ /\ req[q].stage = "free" /\ UnusedId(q)
     /\ req'[q].stage = "sync" /\ req'[q].agent \in Sessions
  \/ /\ Same(req[q], req'[q]) /\ req[q].stage # "free"
     /\ \/ req'[q].stage \in {"resolved", "rejected"}
        \/ /\ req[q].stage \in {"sync", "queued"} /\ req[q].kind = "start"
           /\ req'[q].stage \in {"queued", "turn"}

LEMMA AnswersMove ==
  ASSUME TypeOK, TypeOK', RequestsComplete, Answers, NEW d \in {0, 1}, QueuesMove(d),
         \A q \in Requests : Advances(q), StopsMove(d), CleanupsMove, recording' = recording,
         d = 1 => \A q \in Routes' : ~RepliedAt(1, q)
  PROVE  RequestsComplete' /\ Answers'
<1>1. RoutesMove(d)
  BY DEF RoutesMove, Advances, Routes, In, Same
<1>2. Answers'
  BY <1>1, RoutesUnderWayMoves, AnswersInOrderMoves, StopsEndRecordingsMoves DEF Answers
<1>3. ASSUME NEW q \in Requests
      PROVE  /\ req'[q].stage # "free" => req'[q].agent \in Sessions
             /\ req'[q].stage \in {"queued", "turn"} => req'[q].kind = "start"
             /\ req'[q].stage \in {"sync", "queued", "turn"} => UnusedId(q)
  BY DEF Advances, RequestsComplete, Same
<1>4. \A q \in StopRoutes' : Connected(reg', req'[q].agent)
  BY <1>1 DEF RoutesMove, StopsMove, StopRoutes, Routes, In, Same
<1> QED
  BY <1>2, <1>3, <1>4, UnusedMoves DEF RequestsComplete

LEMMA QueuesStay ==
  ASSUME TypeOK, UNCHANGED <<conn, inbox, lifecycle>>
  PROVE  QueuesMove(0)
BY LengthsTyped DEF QueuesMove

LEMMA CleanupsStay ==
  ASSUME UNCHANGED cleanups
  PROVE  CleanupsMove
BY DEF CleanupsMove

\* What cleanupDisconnectedRecording appends, if anything, and what is taken from the inbox.
LEMMA QueuesMoveCleanup ==
  ASSUME TypeOK, conn' = conn, NEW d \in {0, 1},
         (d = 0 /\ inbox' = inbox) \/ (d = 1 /\ Deliver(Runnable)),
         \/ UNCHANGED <<cleanups, lifecycle>>
         \/ \E s \in Sessions, chain \in BOOLEAN : CleanupStarts(s, chain)
  PROVE  QueuesMove(d) /\ CleanupsMove
<1>1. Len(inbox) \in Nat /\ Len(lifecycle) \in Nat
  BY LengthsTyped
<1>2. /\ Len(inbox') = Len(inbox) - d /\ d <= Len(inbox)
      /\ \A i \in 1..Len(inbox') : i + d <= Len(inbox) /\ inbox'[i] = inbox[i + d]
  <2>1. CASE d = 0 /\ inbox' = inbox
    BY <1>1, <2>1
  <2>2. CASE d = 1 /\ Deliver(Runnable)
    <3>1. /\ Len(inbox') = Len(inbox) - 1 /\ inbox # <<>> /\ inbox \in Seq(Message)
          /\ \A i \in 1..Len(inbox') : inbox'[i] = inbox[i + 1]
      BY <2>2, DeliverType DEF TypeOK
    <3>2. Len(inbox) # 0
      BY <3>1
    <3> QED
      BY <1>1, <2>2, <3>1, <3>2
  <2> QED
    BY <2>1, <2>2
<1>3. CASE UNCHANGED <<cleanups, lifecycle>>
  BY <1>1, <1>2, <1>3 DEF QueuesMove, CleanupsMove
<1>4. CASE \E s \in Sessions, chain \in BOOLEAN : Open /\ CleanupSent(s, chain)
  <2>1. PICK s \in Sessions, chain \in BOOLEAN, id \in UnusedCleanupIds :
          /\ cleanups' = cleanups \cup
                {[id |-> id, session |-> s, chain |-> chain, stage |-> "routed"]}
          /\ lifecycle' = Append(lifecycle, Command(id, "stop", s))
    BY <1>4 DEF CleanupSent
  <2>2. UnusedId(id) /\ id \notin Requests
    BY CleanupIdsAssumption DEF UnusedCleanupIds
  <2>3. PICK e : e = Command(id, "stop", s)
    OBVIOUS
  <2>4. e.kind = "stop" /\ e.id = id
    BY <2>3 DEF Command
  <2>5. /\ Len(lifecycle') = Len(lifecycle) + 1
        /\ \A i \in 1..Len(lifecycle') : IF i <= Len(lifecycle) THEN lifecycle'[i] = lifecycle[i]
                                         ELSE lifecycle'[i] = e
    BY <2>1, <2>3 DEF TypeOK
  <2>6. CleanupsMove
    BY <2>1, <2>2 DEF CleanupsMove
  <2> QED
    BY <1>1, <1>2, <2>2, <2>4, <2>5, <2>6 DEF QueuesMove
<1> QED
  BY <1>3, <1>4, CleanupStartsOrNot

\* The Agents of stops are connected: the registry forgets nothing about them.
LEMMA ForgetsStops ==
  ASSUME RequestsComplete, NEW kept, Forgets(reg, reg', kept), NEW d
  PROVE  StopsMove(d)
<1>1. ASSUME NEW q \in StopRoutes
      PROVE  req[q].agent \in Sessions /\ Connected(reg, req[q].agent)
  BY <1>1, AgentsKnown DEF StopRoutes, Routes, In, RequestsComplete
<1> QED
  BY <1>1 DEF Forgets, StopsMove

LEMMA OneAdvances ==
  ASSUME NEW q \in Requests, Advances(q), \A p \in Requests \ {q} : req'[p] = req[p]
  PROVE  \A p \in Requests : Advances(p)
BY DEF Advances

LEMMA NoneAdvances ==
  ASSUME req' = req
  PROVE  \A p \in Requests : Advances(p)
BY DEF Advances

\* Requests that come, wait, reserve, fail, or are answered without more.
LEMMA RequestAnswers ==
  ASSUME Typed, Typed', RequestsComplete, Answers, NEW q \in Requests,
         \/ \E s \in Sessions, kind \in {"start", "stop"} : AgentRequests(q, s, kind)
         \/ Refuse(q) \/ TurnComes(q) \/ Finish(q) \/ TabCloses(q) \/ TimesOut(q)
         \/ Reserve(q) \/ StartFails(q)
  PROVE  RequestsComplete' /\ Answers'
<1>1. TypeOK /\ TypeOK'
  BY DEF Typed
<1>2. Advances(q) /\ \A p \in Requests \ {q} : req'[p] = req[p]
  <2>1. CASE \E s \in Sessions, kind \in {"start", "stop"} : AgentRequests(q, s, kind)
    BY <1>1, <2>1, RequestFields DEF AgentRequests, Advances
  <2>2. CASE Refuse(q) \/ Finish(q) \/ StartFails(q)
    <3>1. req' = Answered(req, q)
      BY <2>2 DEF Refuse, Finish, StartFails
    <3>2. FreeRequest.stage = "free"
      BY DEF FreeRequest
    <3> QED
      BY <1>1, <3>1, <3>2, AnsweredFields DEF Advances
  <2>3. CASE TurnComes(q)
    BY <1>1, <2>3, StageFields DEF TurnComes, RequestsComplete, Advances
  <2>4. CASE TabCloses(q) \/ TimesOut(q)
    <3>1. q \in Routes /\ req' = Rejected(req, {q})
      BY <2>4 DEF TabCloses, TimesOut, Timeout
    <3> QED
      BY <1>1, <3>1, RejectedFields DEF Advances, Routes, In
  <2>5. CASE Reserve(q)
    BY <1>1, <2>5, WaitsFields DEF Reserve, Woken, Advances
  <2> QED
    BY <2>1, <2>2, <2>3, <2>4, <2>5
<1>3. UNCHANGED <<reg, conn, inbox, recording>>
  BY DEF AgentRequests, Refuse, TurnComes, Finish, TabCloses, TimesOut, Timeout, Reserve,
     StartFails,
     link, extension, engineVars, recorder
<1>4. \/ UNCHANGED <<cleanups, lifecycle>>
      \/ \E s \in Sessions, chain \in BOOLEAN : CleanupStarts(s, chain)
  <2>1. CASE StartFails(q)
    BY <1>1, <2>1, AgentsKnown DEF StartFails, Starter, RequestsComplete
  <2>2. CASE ~StartFails(q)
    BY <2>2 DEF AgentRequests, Refuse, TurnComes, Finish, TabCloses, TimesOut, Timeout, Reserve,
       brokerVars, engineVars
  <2> QED
    BY <2>1, <2>2
<1>5. QueuesMove(0) /\ CleanupsMove
  BY <1>1, <1>3, <1>4, QueuesMoveCleanup
<1>6. PICK kept : kept = {}
  OBVIOUS
<1> QED
  BY <1>1, <1>2, <1>3, <1>5, <1>6, ForgetsNothing, ForgetsStops, OneAdvances, AnswersMove

\* Agents and time.
LEMMA AgentAnswers ==
  ASSUME Typed, Typed', RequestsComplete, Answers, NEW s \in Sessions, AgentStep(s) \/ Ticks
  PROVE  RequestsComplete' /\ Answers'
<1>1. TypeOK /\ TypeOK' /\ reg \in Registry
  BY DEF Typed, Good
<1>2. UNCHANGED <<conn, inbox, recording>>
  BY DEF AgentStep, AgentArrives, AgentConnects, AgentGoes, AgentLeaves, GraceTimer, GraceEnds,
     Ticks, Tick, link, extension, engineVars, recorder
<1>3. \/ UNCHANGED <<cleanups, lifecycle>>
      \/ \E x \in Sessions, chain \in BOOLEAN : CleanupStarts(x, chain)
  BY DEF AgentStep, AgentArrives, AgentGoes, GraceTimer, Ticks, brokerVars, engineVars
<1>4. QueuesMove(0) /\ CleanupsMove
  BY <1>1, <1>2, <1>3, QueuesMoveCleanup
<1>5. \A q \in StopRoutes : /\ q \in Routes /\ req[q].agent \in Sessions
                            /\ Connected(reg, req[q].agent)
  BY AgentsKnown DEF StopRoutes, Routes, In, RequestsComplete
<1>6. (\A q \in Requests : Advances(q)) /\ StopsMove(0)
  <2>1. CASE AgentArrives(s)
    <3>1. req' = req /\ reg' = CreateSession(reg, s) /\ s \in Sessions \ reg.live
      BY <2>1 DEF AgentArrives, AgentConnects
    <3>2. PICK n : n = CreateSession(reg, s)
      OBVIOUS
    <3>3. /\ n.activeRecordingId = reg.activeRecordingId
          /\ \A x \in Sessions : Connected(n, x) <=> Connected(reg, x) \/ x = s
      BY <3>1, <3>2, CreateFields DEF Typed
    <3> QED
      BY <1>5, <3>1, <3>2, <3>3, NoneAdvances DEF StopsMove
  <2>2. CASE AgentGoes(s)
    <3>1. PICK qs \in SUBSET Requests : /\ qs \subseteq Routes /\ req' = Rejected(req, qs)
                                        /\ \A q \in StopRoutes : req[q].agent = s => q \in qs
      <4>1. PICK spared : /\ spared \subseteq {q \in Routes : req[q].kind = "start"}
                          /\ req' = Rejected(req, {q \in Routes \ spared : req[q].agent = s})
        BY <2>2 DEF AgentGoes, AgentLeaves
      <4> QED
        BY <4>1 DEF StopRoutes, Routes, In
    <3>2. \A q \in Requests : Advances(q)
      BY <1>1, <3>1, RejectedFields DEF Advances, Routes, In
    <3>3. \A q \in StopRoutes : q \in StopRoutes' => req[q].agent # s
      BY <1>1, <3>1, RejectedFields DEF StopRoutes, Routes, In
    <3>4. PICK n : n = Disconnect(reg, s)
      OBVIOUS
    <3>5. /\ n.activeRecordingId = reg.activeRecordingId
          /\ \A x \in Sessions : Connected(n, x) <=> Connected(reg, x) /\ x # s
      BY <1>1, <3>4, DisconnectFields
    <3>6. reg' = n
      BY <2>2, <3>4 DEF AgentGoes, AgentLeaves
    <3> QED
      BY <1>5, <3>2, <3>3, <3>5, <3>6 DEF StopsMove
  <2>3. CASE GraceTimer(s) \/ Ticks
    <3>1. PICK kept : kept = Retained(cleaning, reservation)
      OBVIOUS
    <3>2. PICK mid : mid = ExpireDisconnected(reg)
      OBVIOUS
    <3>3. mid \in Registry /\ Forgets(reg, mid, kept)
      BY <1>1, <3>2, ExpireForgets, ExpireDisconnectedGood DEF Good, Typed
    <3>4. Forgets(mid, PruneDisconnected(mid, kept), kept)
      BY <3>3, PruneForgets
    <3>5. Forgets(reg, PruneDisconnected(mid, kept), kept)
      BY <3>3, <3>4, ForgetsTwice
    <3>6. Forgets(reg, Elapse(reg), kept)
      BY <1>1, ElapseForgets
    <3>7. req' = req /\ (reg' = PruneDisconnected(mid, kept) \/ reg' = Elapse(reg))
      BY <2>3, <3>1, <3>2 DEF GraceTimer, GraceEnds, Ticks, Tick
    <3>8. Forgets(reg, reg', kept)
      BY <3>5, <3>6, <3>7
    <3> QED
      BY <3>7, <3>8, NoneAdvances, ForgetsStops
  <2> QED
    BY <2>1, <2>2, <2>3 DEF AgentStep
<1> QED
  BY <1>1, <1>2, <1>4, <1>6, AnswersMove

\* Cleanups that end, and the synchronization.
LEMMA CleanupAnswers ==
  ASSUME Typed, Typed', RequestsComplete, Answers, CleanupsForTheGone,
         \/ \E c \in cleanups : CleanupTimesOut(c) \/ CleanupEnds(c)
         \/ \E c \in Connections : ChainStarts(c)
         \/ Microtask /\ FinishSync /\ UNCHANGED <<brokerVars, engineVars>>
         \/ Macrotask /\ SyncTimeout /\ UNCHANGED <<brokerVars, engineVars>>
  PROVE  RequestsComplete' /\ Answers'
<1>1. TypeOK /\ TypeOK' /\ reg \in Registry
  BY DEF Typed, Good
<1>2. UNCHANGED <<req, conn, inbox, recording>>
  BY DEF CleanupTimesOut, CleanupEnds, ChainStarts, StartSync, FinishSync, SyncTimeout,
     link, extension, engineVars, recorder
<1>3. \A q \in Requests : Advances(q)
  BY <1>2, NoneAdvances
<1>4. PICK kept : kept = {}
  OBVIOUS
<1>5. CASE \E c \in cleanups : CleanupTimesOut(c) \/ CleanupEnds(c)
  <2>1. PICK c \in cleanups : CleanupTimesOut(c) \/ CleanupEnds(c)
    BY <1>5
  <2>2. c \in Cleanup /\ ~Connected(reg, c.session) /\ c.session \in Sessions
    BY <1>1, CleanupSessions DEF TypeOK, CleanupsForTheGone
  <2>3. PICK b : b = [c EXCEPT !.stage = "rejected"]
    OBVIOUS
  <2>4. b.id = c.id /\ b.session = c.session /\ b.stage = "rejected"
    BY <2>2, <2>3 DEF Cleanup
  <2>5. lifecycle' = lifecycle /\ cleanups' \subseteq cleanups \cup {b}
    BY <2>1, <2>3 DEF CleanupTimesOut, CleanupEnds, engineVars
  <2>6. CleanupsMove
    BY <2>4, <2>5 DEF CleanupsMove
  <2>7. QueuesMove(0)
    BY <1>1, <1>2, <2>5, QueuesStay
  <2>8. Forgets(reg, reg', kept)
    <3>1. CASE CleanupTimesOut(c)
      BY <3>1, ForgetsNothing DEF CleanupTimesOut
    <3>2. CASE CleanupEnds(c)
      <4>1. PICK n : n = ClearRecordings(reg, c.session)
        OBVIOUS
      <4>2. PICK retained : retained = Retained(cleaning', reservation')
        OBVIOUS
      <4>3. n \in Registry /\ Forgets(reg, n, kept)
        BY <1>1, <2>2, <4>1, ClearForgets, ClearGood DEF Typed, Good
      <4>4. reg' = PruneDisconnected(n, retained)
        BY <3>2, <4>1, <4>2 DEF CleanupEnds
      <4>5. Forgets(n, reg', retained)
        BY <4>3, <4>4, PruneForgets
      <4>6. Forgets(n, reg', kept)
        BY <1>4, <4>5 DEF Forgets
      <4> QED
        BY <4>3, <4>6, ForgetsTwice
    <3> QED
      BY <2>1, <3>1, <3>2
  <2> QED
    BY <1>1, <1>2, <1>3, <2>6, <2>7, <2>8, ForgetsStops, AnswersMove
<1>6. CASE \/ \E c \in Connections : ChainStarts(c)
           \/ Microtask /\ FinishSync /\ UNCHANGED <<brokerVars, engineVars>>
           \/ Macrotask /\ SyncTimeout /\ UNCHANGED <<brokerVars, engineVars>>
  <2>1. \/ UNCHANGED <<cleanups, lifecycle>>
        \/ \E s \in Sessions, chain \in BOOLEAN : CleanupStarts(s, chain)
    BY <1>1, <1>6 DEF ChainStarts, TypeOK, brokerVars, engineVars
  <2>2. Forgets(reg, reg', kept)
    <3>1. reg' = reg \/ reg' = ReconcileTabs(reg, sync.tabs)
      BY <1>6 DEF ChainStarts, StartSync, FinishSync, SyncTimeout
    <3> QED
      BY <1>1, <3>1, ForgetsNothing, ReconcileForgets
  <2>3. QueuesMove(0) /\ CleanupsMove
    BY <1>1, <1>2, <2>1, QueuesMoveCleanup
  <2> QED
    BY <1>1, <1>2, <1>3, <2>2, <2>3, ForgetsStops, AnswersMove
<1> QED
  BY <1>5, <1>6

\* The inventory.
LEMMA InventoryAnswers ==
  ASSUME Typed, Typed', RequestsComplete, Answers,
         UNCHANGED <<brokerVars, engineVars>>,
         (Deliver(Runnable) /\ HandleInventory) \/ SendInventory
  PROVE  RequestsComplete' /\ Answers'
<1>1. TypeOK /\ TypeOK'
  BY DEF Typed
<1>2. UNCHANGED <<reg, req, conn, recording, cleanups, lifecycle>>
  BY DEF HandleInventory, SendInventory, link, brokerVars, engineVars, recorder
<1>3. PICK kept : kept = {}
  OBVIOUS
<1>4. (\A q \in Requests : Advances(q)) /\ CleanupsMove /\ \A d : StopsMove(d)
  BY <1>2, NoneAdvances, CleanupsStay, ForgetsNothing, ForgetsStops
<1>5. CASE Deliver(Runnable) /\ HandleInventory
  <2>1. QueuesMove(1)
    BY <1>1, <1>2, <1>5, QueuesMoveCleanup
  <2>2. \A q : ~RepliedAt(1, q)
    BY <1>1, <1>5, DeliverType DEF HandleInventory, RepliedAt
  <2> QED
    BY <1>1, <1>2, <1>4, <2>1, <2>2, AnswersMove
<1>6. CASE SendInventory
  <2>1. PICK tabs : Post(<<[type |-> "inventory", tabs |-> tabs]>>)
    BY <1>6 DEF SendInventory
  <2>2. PICK m : m = [type |-> "inventory", tabs |-> tabs]
    OBVIOUS
  <2>3. m.type = "inventory"
    BY <2>2
  <2>4. inbox \in Seq(Message)
    BY <1>1 DEF TypeOK
  <2>5. inbox' = inbox \/ inbox' = inbox \o <<m>>
    BY <2>1, <2>2 DEF Post
  <2>6. /\ Len(inbox) <= Len(inbox') /\ Len(inbox) \in Nat
        /\ \A i \in 1..Len(inbox') : IF i <= Len(inbox) THEN inbox'[i] = inbox[i]
                                     ELSE inbox'[i].type # "reply"
    BY <2>3, <2>4, <2>5
  <2>7. QueuesMove(0)
    BY <1>1, <1>2, <2>6, LengthsTyped DEF QueuesMove
  <2> QED
    BY <1>1, <1>2, <1>4, <2>7, AnswersMove
<1> QED
  BY <1>5, <1>6

LEMMA QueuesDeliver ==
  ASSUME TypeOK, Deliver(Runnable), UNCHANGED <<conn, lifecycle>>
  PROVE  QueuesMove(1)
<1>1. /\ Len(inbox') = Len(inbox) - 1 /\ inbox # <<>> /\ inbox \in Seq(Message)
      /\ \A i \in 1..Len(inbox') : inbox'[i] = inbox[i + 1]
  BY DeliverType DEF TypeOK
<1>2. Len(inbox) # 0
  BY <1>1
<1> QED
  BY <1>1, <1>2, LengthsTyped DEF QueuesMove

\* Nothing comes before the first answer.
LEMMA FirstAnswer ==
  ASSUME TypeOK, Deliver(Runnable), Head(inbox).type = "reply"
  PROVE  /\ 1 \in 1..Len(inbox) /\ inbox[1] = Head(inbox)
         /\ \A q : RepliedAt(1, q) <=> q = Head(inbox).id
         /\ \A p : ~Before(p, Head(inbox).id)
<1>1. inbox # <<>> /\ inbox \in Seq(Message) /\ inbox[1] = Head(inbox)
  BY DeliverType DEF TypeOK
<1>2. 1 \in 1..Len(inbox)
  BY <1>1
<1>3. \A q : RepliedAt(1, q) <=> q = Head(inbox).id
  BY <1>1 DEF RepliedAt
<1>4. 1..(1 - 1) = {}
  OBVIOUS
<1> QED
  BY <1>1, <1>2, <1>3, <1>4 DEF Before

LEMMA ReplyAnswers ==
  ASSUME Typed, Typed', RequestsComplete, Answers, Reservations, HandleReply
  PROVE  RequestsComplete' /\ Answers'
<1>1. TypeOK /\ TypeOK' /\ reg \in Registry
  BY DEF Typed, Good
<1>2. Deliver(Runnable) /\ Head(inbox).type = "reply" /\ OthersSame
  BY <1>1, ReplyCases
<1>3. conn' = conn /\ recording' = recording
  BY <1>2 DEF OthersSame, link, recorder
<1>4. PICK first : first = Head(inbox).id
  OBVIOUS
<1>5. /\ 1 \in 1..Len(inbox) /\ inbox[1] = Head(inbox)
      /\ \A q : RepliedAt(1, q) <=> q = first
      /\ \A p : ~Before(p, first)
  BY <1>1, <1>2, <1>4, FirstAnswer
<1>6. PICK kept : kept = {}
  OBVIOUS
<1>7. ASSUME NEW q \in Requests, StartAnswered(q)
      PROVE  RequestsComplete' /\ Answers'
  <2>1. q \in StartRoutes /\ q \in Routes /\ req[q].stage = "routed" /\ first = q
    BY <1>4, <1>7 DEF StartAnswered, StartRoutes, Routes, In
  <2>2. PICK s \in Sessions : s = req[q].agent
    BY <2>1, AgentsKnown
  <2>3. /\ Same(req[q], req'[q]) /\ req'[q].stage = "resolved"
        /\ \A p \in Requests \ {q} : req'[p] = req[p]
    BY <1>1, <1>7, StageFields DEF StartAnswered
  <2>4. \A p \in Requests : Advances(p)
    BY <2>1, <2>3, OneAdvances DEF Advances
  <2>5. \A p \in Routes' : ~RepliedAt(1, p)
    BY <1>5, <2>1, <2>3 DEF Routes, In
  <2>6. QueuesMove(1) /\ CleanupsMove
    <3>1. \/ UNCHANGED <<cleanups, lifecycle>>
          \/ \E x \in Sessions, chain \in BOOLEAN : CleanupStarts(x, chain)
      BY <1>7, <2>2 DEF StartAnswered
    <3> QED
      BY <1>1, <1>2, <1>3, <3>1, QueuesMoveCleanup
  <2>7. StopsMove(1)
    <3>1. ASSUME NEW p \in StopRoutes
          PROVE  /\ req[p].agent \in Sessions /\ Connected(reg, req[p].agent)
                 /\ req[p].agent # s
      <4>1. ~Before(p, q)
        BY <1>5, <2>1
      <4> QED
        BY <2>1, <2>2, <4>1, AgentsKnown
           DEF Answers, AnswersInOrder, StopRoutes, Routes, In, RequestsComplete
    <3>2. PICK n : n = AddRecording(reg, s, s)
      OBVIOUS
    <3>3. /\ n.activeRecordingId = [reg.activeRecordingId EXCEPT ![s] = s]
          /\ \A x \in Sessions : Connected(n, x) = Connected(reg, x)
      BY <1>1, <3>2, AddFields
    <3>4. \A x \in Sessions : x # s => n.activeRecordingId[x] = reg.activeRecordingId[x]
      BY <1>1, <3>3 DEF Registry
    <3>5. reg' = n \/ reg' = reg
      BY <1>7, <2>2, <3>2 DEF StartAnswered
    <3> QED
      BY <3>1, <3>3, <3>4, <3>5 DEF StopsMove
  <2> QED
    BY <1>1, <1>3, <2>4, <2>5, <2>6, <2>7, AnswersMove
<1>8. ASSUME NEW q \in Requests, StartRefused(q) \/ StopRefused(q)
      PROVE  RequestsComplete' /\ Answers'
  <2>1. q \in Routes /\ req[q].stage = "routed" /\ first = q /\ req' = Rejected(req, {q})
    BY <1>4, <1>8 DEF StartRefused, StopRefused, StartRoutes, StopRoutes, Routes, In
  <2>2. /\ Same(req[q], req'[q]) /\ req'[q].stage = "rejected"
        /\ \A p \in Requests \ {q} : req'[p] = req[p]
    BY <1>1, <2>1, RejectedFields
  <2>3. \A p \in Requests : Advances(p)
    BY <2>1, <2>2, OneAdvances DEF Advances
  <2>4. \A p \in Routes' : ~RepliedAt(1, p)
    BY <1>5, <2>1, <2>2 DEF Routes, In
  <2>5. UNCHANGED <<cleanups, lifecycle>>
    BY <1>8 DEF StartRefused, StopRefused
  <2>6. QueuesMove(1) /\ CleanupsMove
    BY <1>1, <1>2, <1>3, <2>5, QueuesMoveCleanup
  <2>7. PICK retained : retained = Retained(None, reservation)
    OBVIOUS
  <2>8. reg' = reg \/ reg' = PruneDisconnected(reg, retained)
    BY <1>8, <2>7 DEF StartRefused, StopRefused
  <2>9. Forgets(reg, reg', retained)
    BY <1>1, <2>8, ForgetsNothing, PruneForgets
  <2> QED
    BY <1>1, <1>3, <2>3, <2>4, <2>6, <2>9, ForgetsStops, AnswersMove
<1>9. ASSUME NEW q \in Requests, StopAnswered(q)
      PROVE  RequestsComplete' /\ Answers'
  <2>1. q \in StopRoutes /\ q \in Routes /\ req[q].stage = "routed" /\ first = q
    BY <1>4, <1>9 DEF StopAnswered, StopRoutes, Routes, In
  <2>2. PICK s \in Sessions : s = req[q].agent
    BY <2>1, AgentsKnown
  <2>3. /\ Same(req[q], req'[q]) /\ req'[q].stage = "resolved"
        /\ \A p \in Requests \ {q} : req'[p] = req[p]
    BY <1>1, <1>9, StageFields DEF StopAnswered
  <2>4. \A p \in Requests : Advances(p)
    BY <2>1, <2>3, OneAdvances DEF Advances
  <2>5. \A p \in Routes' : ~RepliedAt(1, p)
    BY <1>5, <2>1, <2>3 DEF Routes, In
  <2>6. QueuesMove(1) /\ CleanupsMove
    BY <1>1, <1>2, <1>3, <1>9, QueuesMoveCleanup DEF StopAnswered
  <2>7. Ended(1)
    <3>1. StoppedAt(1)
      BY <1>2, <1>5, <1>9, <2>1 DEF StoppedAt, StopAnswered
    <3>2. /\ recording = None
          /\ \A j \in 1..Len(lifecycle) : lifecycle[j].kind # "start"
          /\ \A j \in 1..Len(inbox) : StoppedAt(j) => 1 = j
      BY <1>5, <3>1 DEF Answers, StopsEndRecordings
    <3> QED
      BY <3>2 DEF Ended
  <2>8. StopsMove(1)
    <3>1. \A p \in StopRoutes : req[p].agent \in Sessions /\ Connected(reg, req[p].agent)
      BY AgentsKnown DEF StopRoutes, Routes, In, RequestsComplete
    <3>2. PICK n : n = ClearRecordings(reg, s)
      OBVIOUS
    <3>3. /\ n.activeRecordingId = [reg.activeRecordingId EXCEPT ![s] = None]
          /\ \A x \in Sessions : Connected(n, x) = Connected(reg, x)
      BY <1>1, <3>2, ClearFields
    <3>4. \A x \in Sessions : n.activeRecordingId[x] \in {None, reg.activeRecordingId[x]}
      BY <1>1, <3>3 DEF Registry
    <3>5. reg' = n
      BY <1>9, <2>2, <3>2 DEF StopAnswered
    <3> QED
      BY <2>7, <3>1, <3>3, <3>4, <3>5 DEF StopsMove
  <2> QED
    BY <1>1, <1>3, <2>4, <2>5, <2>6, <2>8, AnswersMove
<1>10. ASSUME NEW c \in cleanups, CleanupAnswered(c)
       PROVE  RequestsComplete' /\ Answers'
  <2>1. /\ c \in Cleanup /\ c.session \in Sessions /\ first = c.id /\ first \notin Requests
        /\ ~Connected(reg, c.session)
    BY <1>1, <1>4, <1>10, CleanupSessions, CleanupIdsAssumption
       DEF TypeOK, CleanupAnswered, Reservations, CleanupsForTheGone
  <2>2. PICK d : d = [c EXCEPT !.stage = "resolved"]
    OBVIOUS
  <2>3. d.id = c.id /\ d.session = c.session
    BY <2>1, <2>2 DEF Cleanup
  <2>4. /\ cleanups' = (cleanups \ {c}) \cup {d} /\ UNCHANGED <<req, lifecycle>>
        /\ reg' = reg \/ reg' = ClearRecordings(reg, c.session)
    BY <1>10, <2>2 DEF CleanupAnswered, ReplyToCleanup
  <2>5. \A q \in StartRoutes : req[q].agent # c.session
    BY <1>5, <2>1 DEF Answers, AnswersInOrder
  <2>6. CleanupsMove
    BY <2>3, <2>4, <2>5 DEF CleanupsMove
  <2>7. QueuesMove(1)
    BY <1>1, <1>2, <1>3, <2>4, QueuesDeliver
  <2>8. \A p \in Routes' : ~RepliedAt(1, p)
    BY <1>5, <2>1 DEF Routes, In
  <2>9. Forgets(reg, reg', kept)
    BY <1>1, <2>1, <2>4, ForgetsNothing, ClearForgets
  <2> QED
    BY <1>1, <1>3, <2>4, <2>6, <2>7, <2>8, <2>9, NoneAdvances, ForgetsStops, AnswersMove
<1>11. ASSUME ReplyIgnored
       PROVE  RequestsComplete' /\ Answers'
  <2>1. UNCHANGED <<reg, req, cleanups, lifecycle>> /\ first \notin Routes
    BY <1>4, <1>11 DEF ReplyIgnored
  <2>2. QueuesMove(1) /\ CleanupsMove
    BY <1>1, <1>2, <1>3, <2>1, QueuesMoveCleanup
  <2>3. \A p \in Routes' : ~RepliedAt(1, p)
    BY <1>5, <2>1 DEF Routes, In
  <2> QED
    BY <1>1, <1>3, <2>1, <2>2, <2>3, NoneAdvances, ForgetsNothing, ForgetsStops, AnswersMove
<1> QED
  BY <1>1, <1>7, <1>8, <1>9, <1>10, <1>11, ReplyCases

\* A command is sent under an id that nothing is known by.
Sent(q, kind) ==
  /\ req'[q].stage = "routed" /\ Same(req[q], req'[q]) /\ req[q].kind = kind
  /\ \A p \in Requests \ {q} : req'[p] = req[p]
  /\ lifecycle' = Append(lifecycle, Command(q, kind, req[q].agent))
  /\ UNCHANGED <<reg, conn, inbox, cleanups, recording>>
  /\ UnusedId(q) /\ q \notin Routes

LEMMA SentFields ==
  ASSUME TypeOK, RequestsComplete, NEW q \in Requests, SendStart(q) \/ SendStop(q)
  PROVE  (SendStart(q) /\ Sent(q, "start")) \/ (SendStop(q) /\ Sent(q, "stop"))
<1>1. req[q].stage \in {"sync", "turn"} /\ Send(q)
      /\ UNCHANGED <<reg, conn, inbox, cleanups, recording>>
  BY DEF SendStart, SendStop, Woken, link, extension, brokerVars, recorder
<1>2. UnusedId(q) /\ q \notin Routes /\ (SendStart(q) => req[q].kind = "start")
  BY <1>1 DEF RequestsComplete, SendStart, Routes, In
<1>3. /\ Same(req[q], req'[q]) /\ req'[q].stage = "routed"
      /\ \A p \in Requests \ {q} : req'[p] = req[p]
  BY <1>1, StageFields DEF Send
<1> QED
  BY <1>1, <1>2, <1>3 DEF Sent, Send, SendStop

\* What a command at the end of the queue does to the order of the answers.
LEMMA SentAnswers ==
  ASSUME TypeOK, TypeOK', RequestsComplete, Answers, NEW q \in Requests,
         NEW kind \in {"start", "stop"}, Sent(q, kind), Connected(reg, req[q].agent),
         q \in StartRoutes' => StartRoutes' = {q} /\ \A c \in cleanups : c.session # req[q].agent,
         q \in StopRoutes' => \A p \in StartRoutes : req[p].agent # req[q].agent
  PROVE  RequestsComplete' /\ RoutesUnderWay' /\ AnswersInOrder'
<1>1. PICK e : e = Command(q, kind, req[q].agent)
  OBVIOUS
<1>2. e.id = q /\ e.kind = kind /\ e.on = conn
  BY <1>1 DEF Command
<1>3. PICK n \in Nat : n = Len(lifecycle)
  BY LengthsTyped
<1>4. /\ Len(lifecycle') = n + 1
      /\ \A i \in 1..n : i \in 1..Len(lifecycle') /\ lifecycle'[i] = lifecycle[i]
      /\ \A i \in 1..Len(lifecycle') : i \in 1..n \/ (i = n + 1 /\ lifecycle'[i] = e)
      /\ n + 1 \in 1..Len(lifecycle') /\ lifecycle'[n + 1] = e
  BY <1>1, <1>3 DEF Sent, TypeOK
<1>5. /\ UNCHANGED <<reg, conn, inbox, cleanups, recording>>
      /\ \A i \in 1..n : lifecycle[i].id # q
      /\ \A i \in 1..Len(inbox) : ~RepliedAt(i, q)
  BY <1>3 DEF Sent, UnusedId, RepliedAt
<1>6. /\ \A p : Replied(p)' = Replied(p)
      /\ \A p : \A i \in 1..n : SentAt(i, p)' = SentAt(i, p)
  BY <1>4, <1>5 DEF Replied, RepliedAt, SentAt
<1>7. \A p \in Routes' : p = q \/ (p \in Routes /\ p # q /\ req'[p] = req[p])
  BY DEF Sent, Routes, In
<1>8. RoutesUnderWay'
  <2>1. SentAt(n + 1, q)'
    BY <1>2, <1>4, <1>5 DEF SentAt
  <2>2. ASSUME NEW p \in Routes'
        PROVE  /\ Replied(p)' \/ \E i \in 1..Len(lifecycle') : SentAt(i, p)'
               /\ \A i \in 1..Len(lifecycle') : lifecycle'[i].id = p =>
                    lifecycle'[i].kind = req'[p].kind
    <3>1. CASE p = q
      BY <1>2, <1>4, <1>5, <2>1, <3>1 DEF Sent, Same
    <3>2. CASE p \in Routes /\ p # q /\ req'[p] = req[p]
      <4>1. Replied(p) \/ \E i \in 1..n : SentAt(i, p)
        BY <1>3, <3>2 DEF Answers, RoutesUnderWay
      <4>2. \A i \in 1..n : lifecycle[i].id = p => lifecycle[i].kind = req[p].kind
        BY <1>3, <3>2 DEF Answers, RoutesUnderWay
      <4> QED
        BY <1>2, <1>4, <1>6, <3>2, <4>1, <4>2
    <3> QED
      BY <1>7, <2>2, <3>1, <3>2
  <2> QED
    BY <2>2 DEF RoutesUnderWay
<1>9. ASSUME NEW p \in Routes, NEW id,
             \/ Before(p, id)
             \/ /\ \A j \in 1..Len(inbox) : ~RepliedAt(j, id)
                /\ \A j \in 1..n : lifecycle[j].id # id
      PROVE  Before(p, id)'
  <2>1. Replied(p) \/ \E i \in 1..n : SentAt(i, p)
    BY <1>3 DEF Answers, RoutesUnderWay
  <2>2. ASSUME NEW j \in 1..Len(lifecycle'), lifecycle'[j].id = id
        PROVE  Replied(p)' \/ \E i \in 1..(j - 1) : SentAt(i, p)'
    <3>1. CASE j \in 1..n
      <4>1. lifecycle[j].id = id
        BY <1>4, <2>2, <3>1
      <4>2. Replied(p) \/ \E i \in 1..(j - 1) : SentAt(i, p)
        BY <1>3, <1>9, <3>1, <4>1 DEF Before
      <4>3. \A i \in 1..(j - 1) : i \in 1..n
        BY <3>1
      <4> QED
        BY <1>6, <4>2, <4>3
    <3>2. CASE j = n + 1
      <4>1. \A i \in 1..n : i \in 1..(j - 1)
        BY <3>2
      <4> QED
        BY <1>6, <2>1, <4>1
    <3> QED
      BY <1>4, <3>1, <3>2
  <2>3. \A j \in 1..Len(inbox) : RepliedAt(j, id) => \E i \in 1..(j - 1) : RepliedAt(i, p)
    BY <1>9 DEF Before
  <2> QED
    BY <1>5, <2>2, <2>3 DEF Before, RepliedAt
<1>10. AnswersInOrder'
  <2> SUFFICES ASSUME NEW p \in StartRoutes'
               PROVE  /\ \A r \in StopRoutes' : req'[r].agent = req'[p].agent => Before(r, p)'
                      /\ \A c \in cleanups' : c.session = req'[p].agent =>
                           c.stage # "resolved" /\ Before(p, c.id)'
    BY DEF AnswersInOrder
  <2>1. CASE p = q
    <3>1. \A c \in cleanups' : c.session # req'[p].agent
      BY <1>5, <2>1 DEF Sent, Same
    <3>2. ASSUME NEW r \in StopRoutes'
          PROVE  Before(r, p)'
      <4>1. r \in Routes /\ r # q
        BY <1>7, <2>1 DEF StartRoutes, StopRoutes, Routes, In
      <4> QED
        BY <1>5, <1>9, <2>1, <4>1
    <3> QED
      BY <3>1, <3>2
  <2>2. CASE p # q
    <3>1. p \in Routes /\ p \in StartRoutes /\ req'[p] = req[p]
      BY <1>7, <2>2 DEF StartRoutes, Routes, In
    <3>2. ASSUME NEW r \in StopRoutes', req'[r].agent = req'[p].agent
          PROVE  Before(r, p)'
      <4>1. r # q
        BY <3>1, <3>2 DEF Sent, Same
      <4>2. r \in Routes /\ r \in StopRoutes /\ req'[r] = req[r]
        BY <1>7, <4>1 DEF StopRoutes, Routes, In
      <4>3. Before(r, p)
        BY <3>1, <3>2, <4>2 DEF Answers, AnswersInOrder
      <4> QED
        BY <1>9, <4>2, <4>3
    <3>3. ASSUME NEW c \in cleanups', c.session = req'[p].agent
          PROVE  c.stage # "resolved" /\ Before(p, c.id)'
      <4>1. c.stage # "resolved" /\ Before(p, c.id)
        BY <1>5, <3>1, <3>3 DEF Answers, AnswersInOrder
      <4> QED
        BY <1>9, <3>1, <4>1
    <3> QED
      BY <3>2, <3>3
  <2> QED
    BY <2>1, <2>2
<1>11. RequestsComplete'
  <2>1. ASSUME NEW p \in Requests, p # q
        PROVE  /\ req'[p] = req[p] /\ (UnusedId(p) => UnusedId(p)')
    BY <1>2, <1>3, <1>4, <1>5, <2>1 DEF Sent, UnusedId
  <2>2. \A p \in StopRoutes' : Connected(reg', req'[p].agent)
    BY <1>5, <1>7 DEF RequestsComplete, StopRoutes, Routes, In, Sent, Same
  <2>3. req[q].agent \in Sessions
    BY NoneAssumption DEF Connected, TypeOK, CoreTypeOK, Registry
  <2> QED
    BY <2>1, <2>2, <2>3 DEF RequestsComplete, Sent, Same
<1> QED
  BY <1>8, <1>10, <1>11

LEMMA SendAnswers ==
  ASSUME Typed, Typed', RequestsComplete, Answers, Reservations, Reservations', NEW q \in Requests,
         SendStart(q) \/ SendStop(q)
  PROVE  RequestsComplete' /\ Answers'
<1>1. TypeOK /\ TypeOK'
  BY DEF Typed
<1>2. PICK n \in Nat : n = Len(lifecycle)
  BY <1>1, LengthsTyped
<1>3. PICK s : s = req[q].agent
  OBVIOUS
<1>4. Connected(reg, s)
  BY <1>3 DEF SendStart, SendStop
<1>5. CASE SendStart(q) /\ Sent(q, "start")
  <2>1. q \in StartRoutes' /\ StartRoutes' = {q} /\ q \notin StopRoutes' /\ StopRoutes' = StopRoutes
    <3>1. q \in StartRoutes' /\ q \notin StopRoutes' /\ StopRoutes' = StopRoutes
      BY <1>5 DEF Sent, Same, StartRoutes, StopRoutes, Routes, In
    <3> QED
      BY <3>1 DEF Reservations, StartersHoldReservation
  <2>2. \A c \in cleanups : c.session # s
    BY <1>4 DEF Reservations, CleanupsForTheGone
  <2>3. RequestsComplete' /\ RoutesUnderWay' /\ AnswersInOrder'
    BY <1>1, <1>3, <1>4, <1>5, <2>1, <2>2, SentAnswers
  <2>4. \A p \in StopRoutes : ~Records(req[p].agent)
    <3>1. Starter(q)
      BY <1>5 DEF Sent, SendStart, Starter
    <3>2. reservation = s /\ ~Records(s)
      BY <1>3, <1>4, <3>1 DEF Reservations, StartersHoldReservation, OneStarter
    <3>3. ASSUME NEW p \in StopRoutes, Records(req[p].agent)
          PROVE  FALSE
      <4>1. Connected(reg, req[p].agent)
        BY DEF RequestsComplete
      <4>2. reservation = req[p].agent
        BY <3>3, <4>1 DEF Reservations, RecordersHoldReservation, Connected
      <4> QED
        BY <3>2, <3>3, <4>2
    <3> QED
      BY <3>3
  <2>5. StopsEndRecordings'
    <3>1. UNCHANGED <<reg, inbox, recording>> /\ \A p \in StopRoutes : req'[p] = req[p] /\ p # q
      BY <1>5, <2>1 DEF Sent, StopRoutes, Routes, In
    <3>2. \A i \in 1..Len(inbox') : ~StoppedAt(i)'
      BY <2>1, <2>4, <3>1 DEF Answers, StopsEndRecordings, StoppedAt
    <3>3. ASSUME NEW p \in StopRoutes', NEW i \in 1..Len(lifecycle'), lifecycle'[i].id = p
          PROVE  /\ reg'.activeRecordingId[req'[p].agent] = None
                 /\ recording' = None /\ \A j \in 1..(i - 1) : lifecycle'[j].kind # "start"
      <4>1. p \in StopRoutes /\ req'[p] = req[p] /\ p # q
        BY <2>1, <3>1
      <4>2. PICK e : e = Command(q, "start", s)
        OBVIOUS
      <4>3. e.id = q
        BY <4>2 DEF Command
      <4>4. /\ Len(lifecycle') = n + 1 /\ lifecycle'[n + 1] = e
            /\ \A j \in 1..n : lifecycle'[j] = lifecycle[j]
        BY <1>1, <1>2, <1>3, <1>5, <4>2 DEF Sent, TypeOK
      <4>5. i \in 1..n /\ lifecycle[i].id = p
        BY <3>3, <4>1, <4>3, <4>4
      <4>6. recording = None /\ \A j \in 1..(i - 1) : lifecycle[j].kind # "start"
        BY <1>2, <2>4, <4>1, <4>5 DEF Answers, StopsEndRecordings
      <4>7. \A j \in 1..(i - 1) : j \in 1..n
        BY <4>5
      <4> QED
        BY <2>4, <3>1, <4>1, <4>4, <4>6, <4>7 DEF Records
    <3> QED
      BY <3>2, <3>3 DEF StopsEndRecordings, Records
  <2> QED
    BY <2>3, <2>5 DEF Answers
<1>6. CASE SendStop(q) /\ Sent(q, "stop")
  <2>1. /\ q \in StopRoutes' /\ StartRoutes' = StartRoutes /\ q \notin StartRoutes'
        /\ \A p \in StopRoutes' : p = q \/ (p \in StopRoutes /\ req'[p] = req[p])
        /\ req'[q].agent = s
    BY <1>3, <1>6 DEF Sent, Same, StartRoutes, StopRoutes, Routes, In
  <2>2. Records(s)
    BY <1>3, <1>6 DEF SendStop, Records
  <2>3. \A p \in StartRoutes : req[p].agent # s
    BY <2>2, RoutesAreStarters DEF Reservations, OneStarter
  <2>4. RequestsComplete' /\ RoutesUnderWay' /\ AnswersInOrder'
    BY <1>1, <1>3, <1>4, <1>6, <2>1, <2>3, SentAnswers
  <2>5. StopsEndRecordings'
    <3>1. UNCHANGED <<reg, inbox, recording>>
      BY <1>6 DEF Sent
    <3>2. PICK e : e = Command(q, "stop", s)
      OBVIOUS
    <3>3. e.id = q /\ e.kind = "stop"
      BY <3>2 DEF Command
    <3>4. /\ Len(lifecycle') = n + 1 /\ lifecycle'[n + 1] = e
          /\ \A j \in 1..n : lifecycle'[j] = lifecycle[j]
          /\ \A i \in 1..Len(lifecycle') : i \in 1..n \/ (i = n + 1 /\ lifecycle'[i] = e)
      BY <1>1, <1>2, <1>3, <1>6, <3>2 DEF Sent, TypeOK
    <3>5. \A i \in 1..Len(inbox) : inbox[i].type = "reply" => inbox[i].id # q
      BY <1>6 DEF Sent, UnusedId
    <3>6. \A i \in 1..n : lifecycle[i].id # q
      BY <1>2, <1>6 DEF Sent, UnusedId
    <3>7. \A i \in 1..Len(inbox') : StoppedAt(i)' =>
            StoppedAt(i) /\ req'[inbox'[i].id] = req[inbox'[i].id]
      BY <2>1, <3>1, <3>5 DEF StoppedAt
    <3>8. ASSUME NEW i \in 1..Len(inbox'), StoppedAt(i)'
          PROVE  /\ reg'.activeRecordingId[req'[inbox'[i].id].agent] # None /\ recording' = None
                 /\ \A j \in 1..Len(lifecycle') : lifecycle'[j].kind # "start"
                 /\ \A j \in 1..Len(inbox') : StoppedAt(j)' => i = j
      <4>1. /\ Records(req[inbox[i].id].agent) /\ recording = None
            /\ \A j \in 1..n : lifecycle[j].kind # "start"
            /\ \A j \in 1..Len(inbox) : StoppedAt(j) => i = j
        BY <1>2, <3>1, <3>7, <3>8 DEF Answers, StopsEndRecordings
      <4> QED
        BY <3>1, <3>3, <3>4, <3>7, <3>8, <4>1 DEF Records
    <3>9. ASSUME NEW p \in StopRoutes', NEW i \in 1..Len(lifecycle'), lifecycle'[i].id = p
          PROVE  IF reg'.activeRecordingId[req'[p].agent] # None
                 THEN \A j \in (i + 1)..Len(lifecycle') : lifecycle'[j].kind # "start"
                 ELSE recording' = None /\ \A j \in 1..(i - 1) : lifecycle'[j].kind # "start"
      <4>1. CASE p = q
        BY <2>1, <2>2, <3>1, <3>4, <3>6, <3>9, <4>1 DEF Records
      <4>2. CASE p # q
        <5>1. p \in StopRoutes /\ req'[p] = req[p]
          BY <2>1, <4>2
        <5>2. i \in 1..n /\ lifecycle[i].id = p
          BY <3>3, <3>4, <3>9, <4>2
        <5>3. IF Records(req[p].agent)
              THEN \A j \in (i + 1)..n : lifecycle[j].kind # "start"
              ELSE recording = None /\ \A j \in 1..(i - 1) : lifecycle[j].kind # "start"
          BY <1>2, <5>1, <5>2 DEF Answers, StopsEndRecordings
        <5>4. \A j \in 1..(i - 1) : j \in 1..n
          BY <5>2
        <5>5. \A j \in (i + 1)..Len(lifecycle') : j \in (i + 1)..n \/ j = n + 1
          BY <3>4, <5>2
        <5>6. \A j \in (i + 1)..n : j \in 1..n
          BY <5>2
        <5> QED
          BY <3>1, <3>3, <3>4, <5>1, <5>3, <5>4, <5>5, <5>6 DEF Records
      <4> QED
        BY <4>1, <4>2
    <3> QED
      BY <3>8, <3>9 DEF StopsEndRecordings, Records
  <2> QED
    BY <2>4, <2>5 DEF Answers
<1> QED
  BY <1>1, <1>5, <1>6, SentFields

\* What serving a command does to the recording.
Engine(ok) ==
  /\ recording' \in Sessions \cup {None}
  /\ Head(lifecycle).kind # "start" => recording' = None /\ (ok => recording # None)

LEMMA ServeCases ==
  ASSUME TypeOK, lifecycle # <<>>, ServeStart(Head(lifecycle)) \/ ServeStop(Head(lifecycle))
  PROVE  \E ok \in BOOLEAN : Served(ok) /\ Engine(ok)
<1>1. PICK e : e = Head(lifecycle)
  OBVIOUS
<1>2. e \in LifecycleCommand
  BY <1>1 DEF TypeOK
<1>3. e.session \in Sessions /\ recording \in Sessions \cup {None}
  BY <1>2 DEF LifecycleCommand, TypeOK
<1>4. CASE ServeStart(e)
  <2>1. PICK ok \in BOOLEAN : Serves(e, ok) /\ OtherTasks /\ e.kind = "start"
                              /\ recording' \in {recording, e.session}
    BY <1>4 DEF ServeStart
  <2> QED
    BY <1>1, <1>3, <2>1, ServesFields DEF Engine
<1>5. CASE ServeStop(e)
  <2>1. PICK ok \in BOOLEAN : ok <=> recording # None
    OBVIOUS
  <2>2. (recording # None) = ok
    BY <2>1
  <2>3. Serves(e, ok) /\ OtherTasks /\ recording' = None
    BY <1>5, <2>2 DEF ServeStop
  <2> QED
    BY <1>1, <2>1, <2>3, ServesFields DEF Engine
<1> QED
  BY <1>1, <1>4, <1>5

LEMMA ServeAnswers ==
  ASSUME Typed, Typed', RequestsComplete, Answers, NEW ok \in BOOLEAN, Served(ok), Engine(ok)
  PROVE  RequestsComplete' /\ Answers'
<1>1. TypeOK /\ TypeOK'
  BY DEF Typed
<1>2. PICK h : h = Head(lifecycle)
  OBVIOUS
<1>3. PICK m : m = [type |-> "reply", id |-> h.id, ok |-> ok]
  OBVIOUS
<1>4. m.type = "reply" /\ m.id = h.id /\ m.ok = ok
  BY <1>3
<1>5. PICK n \in Nat : n = Len(lifecycle) - 1
  <2>1. lifecycle \in Seq(LifecycleCommand) /\ lifecycle # <<>>
    BY <1>1 DEF TypeOK, Served
  <2> QED
    BY <2>1
<1>6. /\ Len(lifecycle) = n + 1 /\ Len(lifecycle') = n /\ lifecycle[1] = h /\ h \in LifecycleCommand
      /\ \A i \in 1..n : lifecycle'[i] = lifecycle[i + 1]
  BY <1>1, <1>2, <1>5 DEF TypeOK, Served
<1>7. PICK k \in Nat : k = Len(inbox)
  BY <1>1, LengthsTyped
<1>8. PICK posted \in BOOLEAN : posted <=> h.on = conn
  OBVIOUS
<1>9. inbox' = IF posted THEN Append(inbox, m) ELSE inbox
  <2>1. h.on # 0
    BY <1>6 DEF LifecycleCommand, Connections
  <2> QED
    BY <1>2, <1>3, <1>8, <2>1 DEF Served
<1>10. /\ \A i \in 1..k : i \in 1..Len(inbox') /\ inbox'[i] = inbox[i]
       /\ \A i \in 1..Len(inbox') : i \in 1..k \/ (i = k + 1 /\ posted)
       /\ posted => k + 1 \in 1..Len(inbox') /\ inbox'[k + 1] = m
  BY <1>1, <1>7, <1>9 DEF TypeOK
<1>11. UNCHANGED <<reg, req, conn, cleanups>>
  BY DEF Served, OtherTasks, link, brokerVars
<1>12. \A p : Replied(p) => Replied(p)'
  BY <1>7, <1>10 DEF Replied, RepliedAt
<1>13. ASSUME NEW p, NEW i \in 1..Len(lifecycle), SentAt(i, p)
       PROVE  Replied(p)' \/ (i > 1 /\ i - 1 \in 1..n /\ SentAt(i - 1, p)')
  <2>1. CASE i = 1
    BY <1>4, <1>6, <1>8, <1>10, <1>13, <2>1 DEF SentAt, Replied, RepliedAt
  <2>2. CASE i # 1
    <3>1. i - 1 \in 1..n /\ (i - 1) + 1 = i /\ i > 1
      BY <1>6, <2>2
    <3>2. lifecycle'[i - 1] = lifecycle[i]
      BY <1>6, <3>1
    <3> QED
      BY <1>11, <1>13, <3>1, <3>2 DEF SentAt
  <2> QED
    BY <2>1, <2>2
<1>14. /\ Routes' = Routes /\ StopRoutes' = StopRoutes /\ StartRoutes' = StartRoutes
       /\ \A p : Starter(p)' = Starter(p) /\ req'[p] = req[p]
  BY <1>11 DEF Routes, In, StopRoutes, StartRoutes, Starter
<1>15. RoutesUnderWay'
  <2> SUFFICES ASSUME NEW q \in Routes
               PROVE  /\ Replied(q)' \/ \E i \in 1..Len(lifecycle') : SentAt(i, q)'
                      /\ \A i \in 1..Len(lifecycle') : lifecycle'[i].id = q =>
                           lifecycle'[i].kind = req[q].kind
    BY <1>14 DEF RoutesUnderWay
  <2>1. Replied(q) \/ \E i \in 1..Len(lifecycle) : SentAt(i, q)
    BY DEF Answers, RoutesUnderWay
  <2>2. Replied(q)' \/ \E i \in 1..n : SentAt(i, q)'
    BY <1>12, <1>13, <2>1
  <2>3. \A i \in 1..n : i + 1 \in 1..Len(lifecycle)
    BY <1>6
  <2>4. \A i \in 1..n : lifecycle'[i].id = q => lifecycle'[i].kind = req[q].kind
    BY <1>6, <2>3 DEF Answers, RoutesUnderWay
  <2> QED
    BY <1>6, <2>2, <2>4
<1>16. ASSUME NEW p, NEW id, Before(p, id)
       PROVE  Before(p, id)'
  <2>1. ASSUME NEW j \in 1..Len(inbox'), RepliedAt(j, id)'
        PROVE  \E i \in 1..(j - 1) : RepliedAt(i, p)'
    <3>1. CASE j \in 1..k
      <4>1. RepliedAt(j, id)
        BY <1>10, <2>1, <3>1 DEF RepliedAt
      <4>2. PICK i \in 1..(j - 1) : RepliedAt(i, p)
        BY <1>7, <1>16, <3>1, <4>1 DEF Before
      <4>3. i \in 1..k
        BY <3>1
      <4> QED
        BY <1>10, <4>2, <4>3 DEF RepliedAt
    <3>2. CASE j = k + 1 /\ posted
      <4>1. h.id = id
        BY <1>4, <1>10, <2>1, <3>2 DEF RepliedAt
      <4>2. 1 \in 1..Len(lifecycle) /\ 1..(1 - 1) = {}
        BY <1>6
      <4>3. Replied(p)
        BY <1>6, <1>16, <4>1, <4>2 DEF Before
      <4>4. PICK i \in 1..k : RepliedAt(i, p)
        BY <1>7, <4>3 DEF Replied
      <4>5. i \in 1..(j - 1)
        BY <3>2
      <4> QED
        BY <1>10, <4>4, <4>5 DEF RepliedAt
    <3> QED
      BY <1>10, <3>1, <3>2
  <2>2. ASSUME NEW j \in 1..Len(lifecycle'), lifecycle'[j].id = id
        PROVE  Replied(p)' \/ \E i \in 1..(j - 1) : SentAt(i, p)'
    <3>1. j \in 1..n /\ j + 1 \in 1..Len(lifecycle) /\ lifecycle[j + 1].id = id
      BY <1>6, <2>2
    <3>2. Replied(p) \/ \E i \in 1..((j + 1) - 1) : SentAt(i, p)
      BY <1>16, <3>1 DEF Before
    <3>3. CASE Replied(p)
      BY <1>12, <3>3
    <3>4. CASE \E i \in 1..((j + 1) - 1) : SentAt(i, p)
      <4>1. PICK i \in 1..j : SentAt(i, p)
        BY <3>1, <3>4
      <4>2. i \in 1..Len(lifecycle)
        BY <1>6, <3>1
      <4>3. Replied(p)' \/ (i > 1 /\ SentAt(i - 1, p)')
        BY <1>13, <4>1, <4>2
      <4>4. i > 1 => i - 1 \in 1..(j - 1)
        BY <3>1
      <4> QED
        BY <4>3, <4>4
    <3> QED
      BY <3>2, <3>3, <3>4
  <2> QED
    BY <2>1, <2>2 DEF Before
<1>17. AnswersInOrder'
  BY <1>11, <1>14, <1>16 DEF Answers, AnswersInOrder
<1>18. ASSUME NEW i \in 1..Len(inbox'), StoppedAt(i)'
       PROVE  /\ Records(req[inbox'[i].id].agent) /\ recording' = None
              /\ \A j \in 1..Len(lifecycle') : lifecycle'[j].kind # "start"
              /\ i \in 1..k => StoppedAt(i) /\ recording = None
              /\ i = k + 1 => recording # None
  <2>1. CASE i \in 1..k
    <3>1. StoppedAt(i) /\ inbox'[i] = inbox[i]
      BY <1>10, <1>14, <1>18, <2>1 DEF StoppedAt
    <3>2. /\ Records(req[inbox[i].id].agent) /\ recording = None
          /\ \A j \in 1..Len(lifecycle) : lifecycle[j].kind # "start"
      BY <1>7, <2>1, <3>1 DEF Answers, StopsEndRecordings
    <3>3. recording' = None
      BY <1>2, <1>6, <3>2 DEF Engine
    <3>4. \A j \in 1..n : lifecycle'[j].kind # "start"
      BY <1>6, <3>2
    <3> QED
      BY <1>6, <2>1, <3>1, <3>2, <3>3, <3>4
  <2>2. CASE i = k + 1 /\ posted
    <3>1. PICK q \in StopRoutes : h.id = q /\ inbox'[i].id = q
      BY <1>4, <1>10, <1>14, <1>18, <2>2 DEF StoppedAt
    <3>2. ok
      BY <1>4, <1>10, <1>18, <2>2 DEF StoppedAt
    <3>3. h.kind = "stop" /\ 1 \in 1..Len(lifecycle)
      BY <1>6, <3>1 DEF Answers, RoutesUnderWay, StopRoutes
    <3>4. recording' = None /\ recording # None
      BY <1>2, <3>2, <3>3 DEF Engine
    <3>5. Records(req[q].agent) /\ \A j \in 2..Len(lifecycle) : lifecycle[j].kind # "start"
      BY <1>6, <3>1, <3>3, <3>4 DEF Answers, StopsEndRecordings
    <3>6. \A j \in 1..n : j + 1 \in 2..Len(lifecycle)
      BY <1>6
    <3> QED
      BY <1>6, <2>2, <3>1, <3>4, <3>5, <3>6
  <2> QED
    BY <1>10, <1>18, <2>1, <2>2
<1>19. ASSUME NEW i \in 1..Len(inbox'), NEW j \in 1..Len(inbox'), StoppedAt(i)', StoppedAt(j)'
       PROVE  i = j
  <2>1. CASE i \in 1..k /\ j \in 1..k
    BY <1>7, <1>18, <1>19, <2>1 DEF Answers, StopsEndRecordings
  <2> QED
    BY <1>10, <1>18, <1>19, <2>1
<1>20. ASSUME NEW q \in StopRoutes, NEW i \in 1..n, lifecycle'[i].id = q
       PROVE  IF Records(req[q].agent)
              THEN \A j \in (i + 1)..n : lifecycle'[j].kind # "start"
              ELSE recording' = None /\ \A j \in 1..(i - 1) : lifecycle'[j].kind # "start"
  <2>1. i + 1 \in 1..Len(lifecycle) /\ lifecycle[i + 1].id = q
    BY <1>6, <1>20
  <2>2. IF Records(req[q].agent)
        THEN \A j \in ((i + 1) + 1)..Len(lifecycle) : lifecycle[j].kind # "start"
        ELSE recording = None /\ \A j \in 1..((i + 1) - 1) : lifecycle[j].kind # "start"
    BY <2>1 DEF Answers, StopsEndRecordings
  <2>3. CASE Records(req[q].agent)
    <3>1. \A j \in (i + 1)..n : j + 1 \in ((i + 1) + 1)..Len(lifecycle) /\ j \in 1..n
      BY <1>6
    <3> QED
      BY <1>6, <2>2, <2>3, <3>1
  <2>4. CASE ~Records(req[q].agent)
    <3>1. 1 \in 1..((i + 1) - 1)
      OBVIOUS
    <3>2. recording' = None
      BY <1>2, <1>6, <2>2, <2>4, <3>1 DEF Engine
    <3>3. \A j \in 1..(i - 1) : j + 1 \in 1..((i + 1) - 1) /\ j \in 1..n
      OBVIOUS
    <3> QED
      BY <1>6, <2>2, <2>4, <3>2, <3>3
  <2> QED
    BY <2>3, <2>4
<1>21. StopsEndRecordings'
  BY <1>6, <1>11, <1>14, <1>18, <1>19, <1>20 DEF StopsEndRecordings, Records
<1>22. RequestsComplete'
  <2>1. ASSUME NEW p, UnusedId(p)
        PROVE  UnusedId(p)'
    <3>1. h.id # p /\ \A i \in 1..n : lifecycle[i + 1].id # p
      <4>1. 1 \in 1..Len(lifecycle) /\ \A i \in 1..n : i + 1 \in 1..Len(lifecycle)
        BY <1>6
      <4> QED
        BY <1>6, <2>1, <4>1 DEF UnusedId
    <3>2. \A i \in 1..Len(inbox') : inbox'[i].type = "reply" => inbox'[i].id # p
      BY <1>4, <1>7, <1>10, <2>1, <3>1 DEF UnusedId
    <3> QED
      BY <1>6, <3>1, <3>2 DEF UnusedId
  <2> QED
    BY <1>11, <1>14, <2>1 DEF RequestsComplete
<1> QED
  BY <1>15, <1>17, <1>21, <1>22 DEF Answers

\* The routes end with the connection.
LEMMA ReconnectAnswers ==
  ASSUME Typed, Typed', RequestsComplete, Answers, Reconnects
  PROVE  RequestsComplete' /\ Answers'
<1>1. TypeOK /\ TypeOK' /\ Routes \in SUBSET Requests
  BY DEF Typed, Routes, In
<1>2. /\ req' = Rejected(req, Routes) /\ reg' = reg /\ inbox' = <<>> /\ Dropped
      /\ lifecycle' = lifecycle \/ lifecycle' = <<>>
  BY DEF Reconnects, ExtensionArrives, ExtensionGoes, ExtensionConnects, ExtensionCloses,
     FailSync,
     engineVars
<1>3. \A q \in Requests : /\ q \in Routes => Same(req[q], req'[q]) /\ req'[q].stage = "rejected"
                          /\ q \notin Routes => req'[q] = req[q]
  BY <1>1, <1>2, RejectedFields
<1>4. Routes' = {} /\ StopRoutes' = {} /\ StartRoutes' = {}
  BY <1>3 DEF StopRoutes, StartRoutes, Routes, In
<1>5. Len(inbox') = 0 /\ 1..0 = {}
  BY <1>2
<1>6. Answers'
  BY <1>4, <1>5 DEF Answers, RoutesUnderWay, AnswersInOrder, StopsEndRecordings, StoppedAt
<1>7. ASSUME NEW q, UnusedId(q)
      PROVE  UnusedId(q)'
  <2>1. Len(<<>>) = 0
    OBVIOUS
  <2> QED
    BY <1>2, <1>5, <1>7, <2>1 DEF UnusedId
<1>8. ASSUME NEW q \in Requests
      PROVE  /\ req'[q].stage # "free" => req'[q].agent \in Sessions
             /\ req'[q].stage \in {"queued", "turn"} => req'[q].kind = "start"
             /\ req'[q].stage \in {"sync", "queued", "turn"} => UnusedId(q)'
  BY <1>3, <1>7 DEF RequestsComplete, Same, Routes, In
<1>9. \A q \in StopRoutes' : Connected(reg', req'[q].agent)
  BY <1>4
<1> QED
  BY <1>6, <1>8, <1>9 DEF RequestsComplete

\* Without a connection no command of a route is on its way.
LEMMA WorkerAnswers ==
  ASSUME Typed, Typed', RequestsComplete, Answers, WorkerEnds
  PROVE  RequestsComplete' /\ Answers'
<1>1. TypeOK
  BY DEF Typed
<1>2. /\ UNCHANGED <<reg, req, conn, cleanups, inbox>> /\ conn = 0
      /\ lifecycle' = <<>> /\ recording' = None
  BY DEF WorkerEnds, link, extension, brokerVars
<1>3. /\ Routes' = Routes /\ StopRoutes' = StopRoutes /\ StartRoutes' = StartRoutes
      /\ \A p : Replied(p)' = Replied(p)
      /\ \A i, p : RepliedAt(i, p)' = RepliedAt(i, p)
      /\ \A i : StoppedAt(i)' = StoppedAt(i)
  BY <1>2 DEF Routes, In, StopRoutes, StartRoutes, Replied, RepliedAt, StoppedAt
<1>4. Len(lifecycle') = 0 /\ 1..0 = {}
  BY <1>2
<1>5. \A q \in Routes : Replied(q)
  <2>1. \A i \in 1..Len(lifecycle) : lifecycle[i] \in LifecycleCommand
    BY <1>1 DEF TypeOK
  <2>2. \A i \in 1..Len(lifecycle) : lifecycle[i].on # conn
    BY <1>2, <2>1 DEF LifecycleCommand, Connections
  <2> QED
    BY <2>2 DEF Answers, RoutesUnderWay, SentAt
<1>6. RoutesUnderWay'
  BY <1>3, <1>4, <1>5 DEF RoutesUnderWay
<1>7. \A p, id : Before(p, id) => Before(p, id)'
  BY <1>2, <1>3, <1>4 DEF Before
<1>8. AnswersInOrder'
  BY <1>2, <1>3, <1>7 DEF Answers, AnswersInOrder
<1>9. StopsEndRecordings'
  BY <1>2, <1>3, <1>4 DEF Answers, StopsEndRecordings, Records
<1>10. \A q : UnusedId(q) => UnusedId(q)'
  BY <1>2, <1>4 DEF UnusedId
<1>11. RequestsComplete'
  BY <1>2, <1>3, <1>10 DEF RequestsComplete
<1> QED
  BY <1>6, <1>8, <1>9, <1>11 DEF Answers

-----------------------------------------------------------------------------
(* The invariant                                                             *)

LEMMA InvParts == Inv <=> Typed /\ RequestsComplete /\ Reservations /\ Answers
BY DEF Inv, Typed, Reservations, Answers

LEMMA InitInv ==
  ASSUME Init
  PROVE  Inv
<1> USE CoreBoundsAssumption, NoneAssumption DEF Init, CoreInit
<1>1. FreeRequest \in Request /\ FreeRequest.stage = "free"
  BY DEF FreeRequest, Request
<1>2. req \in [Requests -> Request] /\ \A q \in Requests : req[q].stage = "free"
  BY <1>1
<1>3. Good(reg) /\ reg \in Registry /\ reg.live = {}
  BY EmptyGood DEF Good, EmptyRegistry
<1>4. /\ <<>> \in Seq(LifecycleCommand) /\ <<>> \in Seq(Message) /\ Len(<<>>) = 0 /\ 1..0 = {}
  OBVIOUS
<1>5. /\ NoSync \in [stage: {"idle", "cleanup", "routed", "resolved", "rejected"},
                      tabs: SUBSET Tabs]
      /\ NoSync.stage = "idle"
  BY DEF NoSync
<1>6. Typed
  <2>1. inbox \in Seq(Message) /\ Len(inbox) <= MaxInbox + 1 /\ lifecycle \in Seq(LifecycleCommand)
    BY <1>4
  <2>2. conns \in 0..MaxConnections /\ conn \in {0, conns}
    OBVIOUS
  <2>3. CoreTypeOK
    BY <1>3, <1>5, <2>1, <2>2 DEF CoreTypeOK
  <2>4. TypeOK
    BY <1>2, <2>1, <2>3 DEF TypeOK
  <2> QED
    BY <1>3, <1>5, <2>4 DEF Typed, LinkInOrder
<1>7. Routes = {} /\ StartRoutes = {} /\ StopRoutes = {} /\ \A q \in Requests : ~Starter(q)
  BY <1>2 DEF Routes, In, StartRoutes, StopRoutes, Starter
<1>8. RequestsComplete
  BY <1>2, <1>7 DEF RequestsComplete
<1>9. Reservations
  BY <1>3, <1>7 DEF Reservations, CleanupsForTheGone, OneStarter, StartersHoldReservation,
     HolderKnown, RecordersHoldReservation
<1>10. Answers
  BY <1>4, <1>7 DEF Answers, RoutesUnderWay, AnswersInOrder, StopsEndRecordings, StoppedAt
<1> QED
  BY <1>6, <1>8, <1>9, <1>10, InvParts

\* The steps by the lemma that covers them.
LEMMA NextCases ==
  ASSUME [Next]_vars
  PROVE  \/ \E q \in Requests :
              \/ \E s \in Sessions, kind \in {"start", "stop"} : AgentRequests(q, s, kind)
              \/ Continuation(q) \/ TurnComes(q) \/ TabCloses(q) \/ TimesOut(q)
         \/ \E s \in Sessions : AgentStep(s)
         \/ Ticks
         \/ \E c \in cleanups : CleanupTimesOut(c) \/ CleanupEnds(c)
         \/ HandleReply \/ Reconnects \/ WorkerEnds \/ Synchronizes
         \/ \E c \in Connections : ChainStarts(c)
         \/ lifecycle # <<>> /\ (ServeStart(Head(lifecycle)) \/ ServeStop(Head(lifecycle)))
         \/ UNCHANGED vars
<1>1. CASE Syncs
  BY <1>1 DEF Syncs, Reconnects, Synchronizes
<1>2. CASE MessageHandler
  BY <1>2 DEF MessageHandler, Synchronizes
<1>3. CASE ConnectionStep
  <2>1. CASE ExtensionRestarts
    BY <2>1 DEF ExtensionRestarts, Reconnects, WorkerEnds
  <2> QED
    BY <1>3, <2>1 DEF ConnectionStep, Reconnects, Synchronizes
<1>4. CASE Extension
  BY <1>4 DEF Extension, Synchronizes
<1> QED
  BY <1>1, <1>2, <1>3, <1>4 DEF Next

LEMMA NextInv ==
  ASSUME Inv, [Next]_vars
  PROVE  Inv'
<1>1. Typed /\ RequestsComplete /\ Reservations /\ Answers
  BY InvParts
<1>2. TypeOK /\ AnswersInOrder /\ StopsEndRecordings /\ CleanupsForTheGone
  BY <1>1 DEF Typed, Answers, Reservations
<1> SUFFICES Typed' /\ RequestsComplete' /\ Reservations' /\ Answers'
  BY DEF Inv, Typed, Reservations, Answers
<1>3. ASSUME NEW q \in Requests,
             \/ \E s \in Sessions, kind \in {"start", "stop"} : AgentRequests(q, s, kind)
             \/ Continuation(q) \/ TurnComes(q) \/ TabCloses(q) \/ TimesOut(q)
      PROVE  Typed' /\ RequestsComplete' /\ Reservations' /\ Answers'
  <2>1. Typed'
    BY <1>1, <1>3, RequestTypes, StartTypes DEF Continuation
  <2>2. Reservations'
    BY <1>1, <1>3, RequestReservations, ReserveReservations, SendReservations, FailReservations
       DEF Continuation
  <2>3. RequestsComplete' /\ Answers'
    BY <1>1, <1>3, <2>1, <2>2, RequestAnswers, SendAnswers DEF Continuation
  <2> QED
    BY <2>1, <2>2, <2>3
<1>4. ASSUME NEW s \in Sessions, AgentStep(s)
      PROVE  Typed' /\ RequestsComplete' /\ Reservations' /\ Answers'
  <2>1. Typed'
    BY <1>1, <1>4, AgentTypes
  <2>2. Reservations'
    BY <1>1, <1>4, ArriveReservations, GoReservations, TimeReservations DEF AgentStep
  <2> QED
    BY <1>1, <1>4, <2>1, <2>2, AgentAnswers
<1>5. ASSUME Ticks
      PROVE  Typed' /\ RequestsComplete' /\ Reservations' /\ Answers'
  <2>1. PICK s \in Sessions : TRUE
    BY <1>2, <1>5 DEF Ticks, Tick, Elapsing, TypeOK, CoreTypeOK, Registry
  <2> QED
    BY <1>1, <1>5, AgentTypes, TimeReservations, AgentAnswers
<1>6. ASSUME NEW c \in cleanups, CleanupTimesOut(c) \/ CleanupEnds(c)
      PROVE  Typed' /\ RequestsComplete' /\ Reservations' /\ Answers'
  <2>1. Typed'
    BY <1>1, <1>6, CleanupTypes
  <2>2. Reservations'
    BY <1>1, <1>2, <1>6, LinkReservations, CleanupEndReservations
  <2> QED
    BY <1>1, <1>2, <1>6, <2>1, <2>2, CleanupAnswers
<1>7. ASSUME HandleReply
      PROVE  Typed' /\ RequestsComplete' /\ Reservations' /\ Answers'
  <2>1. Typed'
    BY <1>1, <1>7, ReplyTypes
  <2>2. Reservations'
    BY <1>1, <1>2, <1>7, ReplyCases, RefusedReservations, AnsweredReservations,
       StopAnswerReservations, CleanupAnswerReservations, IgnoredReservations
  <2> QED
    BY <1>1, <1>7, <2>1, <2>2, ReplyAnswers
<1>8. ASSUME Reconnects
      PROVE  Typed' /\ RequestsComplete' /\ Reservations' /\ Answers'
  BY <1>1, <1>8, ReconnectTypes, ReconnectReservations, ReconnectAnswers
<1>9. ASSUME WorkerEnds
      PROVE  Typed' /\ RequestsComplete' /\ Reservations' /\ Answers'
  BY <1>1, <1>9, WorkerTypes, LinkReservations, WorkerAnswers
<1>10. ASSUME Synchronizes
       PROVE  Typed' /\ RequestsComplete' /\ Reservations' /\ Answers'
  <2>1. Typed' /\ Reservations'
    BY <1>1, <1>10, SyncTypes, LinkReservations
  <2> QED
    BY <1>1, <1>2, <1>10, <2>1, CleanupAnswers, InventoryAnswers DEF Synchronizes
<1>11. ASSUME NEW c \in Connections, ChainStarts(c)
       PROVE  Typed' /\ RequestsComplete' /\ Reservations' /\ Answers'
  <2>1. Typed' /\ Reservations'
    BY <1>1, <1>11, ChainTypes, LinkReservations
  <2> QED
    BY <1>1, <1>2, <1>11, <2>1, CleanupAnswers
<1>12. ASSUME lifecycle # <<>>, ServeStart(Head(lifecycle)) \/ ServeStop(Head(lifecycle))
       PROVE  Typed' /\ RequestsComplete' /\ Reservations' /\ Answers'
  <2>1. PICK ok \in BOOLEAN : Served(ok) /\ Engine(ok)
    BY <1>2, <1>12, ServeCases
  <2>2. Typed' /\ Reservations'
    BY <1>1, <2>1, ServeTypes, LinkReservations DEF Engine
  <2> QED
    BY <1>1, <2>1, <2>2, ServeAnswers
<1>13. ASSUME UNCHANGED vars
       PROVE  Typed' /\ RequestsComplete' /\ Reservations' /\ Answers'
  <2>1. UNCHANGED <<reg, graceTimers, req, conn, conns, settled, immediates, sync, batch, browser,
                    executing, inbox, reservation, cleaning, cleanups, closing, lifecycle,
                    recording, late>>
    BY <1>13 DEF vars, coreVars, link, extension, brokerVars, engineVars, recorder
  <2> QED
    BY <1>1, <2>1 DEF Typed, TypeOK, CoreTypeOK, LinkInOrder, RequestsComplete, UnusedId,
       Reservations, CleanupsForTheGone, OneStarter, StartersHoldReservation, HolderKnown,
       RecordersHoldReservation, Records, Starter, StartRoutes, StopRoutes, Routes, In, Answers,
       RoutesUnderWay, AnswersInOrder, StopsEndRecordings, StoppedAt, Before, Replied, RepliedAt,
       SentAt
<1> QED
  BY <1>3, <1>4, <1>5, <1>6, <1>7, <1>8, <1>9, <1>10, <1>11, <1>12, <1>13, NextCases

(* Whatever the interleaving, the state of the Broker and of the engine stays  *)
(* in order: the conjuncts of Inv are what broker-server.ts relies on.         *)
THEOREM Invariance == Spec => []Inv
<1>1. Init => Inv
  BY InitInv
<1>2. Inv /\ [Next]_vars => Inv'
  BY NextInv
<1> QED
  BY <1>1, <1>2, PTL DEF Spec

(* Every variable keeps its type.                                              *)
THEOREM TypeCorrect == Spec => []TypeOK
<1>1. Inv => TypeOK
  BY DEF Inv
<1> QED
  BY <1>1, Invariance, PTL

LEMMA HoldersAreAccurate ==
  ASSUME Inv
  PROVE  ReservationAccurate
<1>1. Typed /\ RequestsComplete /\ Reservations
  BY InvParts
<1>2. RecorderHoldsReservation
  BY <1>1
     DEF Reservations, RecordersHoldReservation, RecorderHoldsReservation, Records, Connected
<1>3. OneStart
  BY <1>1 DEF Reservations, StartersHoldReservation, OneStart, Open
<1>4. ReservationJustified
  BY <1>1 DEF Reservations, HolderKnown, ReservationJustified, Starter, Records
<1> QED
  BY <1>2, <1>3, <1>4 DEF ReservationAccurate

(* recordingReservationSessionId is right, for any number of Agents, requests  *)
(* and connections: whoever is connected and records holds it, at most one     *)
(* start is under way and its Agent holds it, and nobody holds it for nothing. *)
THEOREM ReservationIsAccurate == Spec => []ReservationAccurate
BY Invariance, HoldersAreAccurate, PTL

(* recordingCleanupSessionId names the Agent that disconnected while it         *)
(* recorded, as long as the registry shows its recording, unless a cleanup was *)
(* answered late.                                                              *)
THEOREM DisconnectedAreCleanedUp == Spec => []DisconnectedRecordersCleanedUp
<1>1. Inv => DisconnectedRecordersCleanedUp
  BY DEF Inv, RecordersHoldReservation, DisconnectedRecordersCleanedUp, Records
<1> QED
  BY <1>1, Invariance, PTL
=============================================================================
