-------------------------- MODULE BrokerRecording --------------------------
(***************************************************************************)
(* The one recording the extension can make at a time: start_recording and *)
(* stop_recording in mcp-server/src/broker/broker-server.ts (startRecording,*)
(* handleExtensionResponse, handleAgentDisconnect,                         *)
(* cleanupDisconnectedRecording, pruneExpiredSessions) and in the           *)
(* extension (command-handler.ts, recording-engine.ts).                    *)
(*                                                                         *)
(* A recording is named after the session it was started for, so           *)
(* Recordings is Sessions.  The queue of the recorded tab (BrokerTabs)     *)
(* appears as the stages "queued", behind a command of the tab, and "turn", *)
(* and the ownership of the tab as a choice.                               *)
(***************************************************************************)
EXTENDS BrokerCore

CONSTANT CleanupIds  \* command ids for cleanups under way

ASSUME RecordingsAssumption == Recordings = Sessions
ASSUME CleanupIdsAssumption == CleanupIds \cap Requests = {}

VARIABLES
  reservation,  \* recordingReservationSessionId
  cleaning,     \* recordingCleanupSessionId
  cleanups,     \* the calls of cleanupDisconnectedRecording that have sent their command
  closing,      \* the Broker has closed the connection, the close event is to come
  lifecycle,    \* recordingLifecycle: the extension's start and stop commands, in order
  recording,    \* the session the extension records for, or None
  late          \* some cleanup has not been answered within its second

brokerVars == <<reservation, cleaning, cleanups, closing>>
recorder == <<recording, late>>
engineVars == <<lifecycle, recorder>>
vars == <<coreVars, brokerVars, engineVars>>

FreeRequest == [stage |-> "free", kind |-> "start", agent |-> None, awaits |-> 0]

Init ==
  /\ CoreInit
  /\ req = [q \in Requests |-> FreeRequest]
  /\ reservation = None /\ cleaning = None /\ cleanups = {} /\ closing = FALSE
  /\ lifecycle = <<>> /\ recording = None /\ late = FALSE

-----------------------------------------------------------------------------
\* Promises and the event loop

\* A command in front of a queued one ends with the connection.
Due(q) == req[q].stage = "queued" /\ req[q].awaits # conn
Settled == {c \in cleanups : c.stage # "routed"}
Runnable == CoreRunnable \/ In("turn") # {} \/ Settled # {} \/ \E q \in Requests : Due(q)
Macrotask == ~Runnable /\ batch' = FALSE
Microtask == batch' = FALSE

Open == conn # 0 /\ ~closing

Answered(r, q) == [r EXCEPT ![q] = FreeRequest]

\* Nothing of an earlier command is left under this id.
UnusedId(id) ==
  /\ \A i \in 1..Len(lifecycle) : lifecycle[i].id # id
  /\ \A i \in 1..Len(inbox) : inbox[i].type = "reply" => inbox[i].id # id

Command(id, kind, s) == [id |-> id, kind |-> kind, session |-> s, on |-> conn]

\* The sessions pruneExpiredSessions retains.
Retained(c, r) == {c, r} \ {None}

UnusedCleanupIds == {x \in CleanupIds : UnusedId(x) /\ \A c \in cleanups : c.id # x}

\* cleanupDisconnectedRecording, up to its command, in a state where recordingCleanupSessionId
\* is s.  `chain` says that the inventory request of the connection waits for it.
\* CleanupIds is a bound: the code has as many ids as it needs.
CleanupStarts(s, chain) ==
  IF Open
  THEN /\ UnusedCleanupIds # {}
       /\ LET id == CHOOSE x \in UnusedCleanupIds : TRUE
          IN /\ cleanups' = cleanups \cup
                  {[id |-> id, session |-> s, chain |-> chain, stage |-> "routed"]}
             /\ lifecycle' = Append(lifecycle, Command(id, "stop", s))
  ELSE UNCHANGED <<cleanups, lifecycle>>

-----------------------------------------------------------------------------
\* Agents

AgentRequests(q, s, kind) ==
  /\ Macrotask
  /\ req[q].stage = "free" /\ UnusedId(q)
  /\ Connected(reg, s) /\ Open
  /\ req' = [req EXCEPT ![q] = [FreeRequest EXCEPT !.stage = "sync", !.kind = kind,
                                  !.agent = s, !.awaits = conn]]
  /\ UNCHANGED <<reg, graceTimers, link, extension, brokerVars, engineVars>>

\* Session ids are never used twice.
Forgotten(s) ==
  /\ recording # s /\ reservation # s /\ cleaning # s
  /\ \A c \in cleanups : c.session # s
  /\ \A i \in 1..Len(lifecycle) : lifecycle[i].session # s

AgentArrives(s) ==
  /\ Macrotask
  /\ Forgotten(s) /\ AgentConnects(s)
  /\ UNCHANGED <<brokerVars, engineVars>>

\* Mutant: only a recording that has started is to be cleaned up.
AgentGoesUnmarked(s) ==
  /\ Macrotask
  /\ AgentLeaves(s, IF reservation = s THEN {q \in Routes : req[q].kind = "start"} ELSE {})
  /\ cleaning' = IF reg.activeRecordingId[s] # None THEN s ELSE cleaning
  /\ IF reg.activeRecordingId[s] # None
     THEN CleanupStarts(s, FALSE) ELSE UNCHANGED <<cleanups, lifecycle>>
  /\ UNCHANGED <<reservation, closing, recorder>>

\* handleAgentDisconnect: a start_recording under way keeps its route.
AgentGoes(s) ==
  /\ Macrotask
  /\ AgentLeaves(s, IF reservation = s THEN {q \in Routes : req[q].kind = "start"} ELSE {})
  /\ cleaning' = IF reg.activeRecordingId[s] # None \/ reservation = s THEN s ELSE cleaning
  /\ IF reg.activeRecordingId[s] # None
     THEN CleanupStarts(s, FALSE) ELSE UNCHANGED <<cleanups, lifecycle>>
  /\ UNCHANGED <<reservation, closing, recorder>>

GraceTimer(s) ==
  /\ Macrotask
  /\ GraceEnds(s, Retained(cleaning, reservation))
  /\ UNCHANGED <<brokerVars, engineVars>>

\* A tick is much longer than the second a cleanup waits for its answer, or a setImmediate.
Ticks ==
  /\ Macrotask
  /\ cleanups = {} /\ immediates = {} /\ Tick
  /\ UNCHANGED <<brokerVars, engineVars>>

-----------------------------------------------------------------------------
\* start_recording and stop_recording

\* The Agent is gone, records nothing, or does not own the tab.
Refuse(q) ==
  /\ Microtask
  /\ Woken(q)
  /\ \/ ~Connected(reg, req[q].agent)
     \/ req[q].kind = "start"
     \/ req[q].kind = "stop" /\ (reg.activeRecordingId[req[q].agent] = None \/ ~Open)
  /\ req' = Answered(req, q)
  /\ UNCHANGED <<reg, graceTimers, link, extension, brokerVars, engineVars>>

\* scheduler.run: behind a command of the tab, or at once.
WaitsInQueue(q) ==
  \E stage \in {"turn"} \cup (IF conn = 0 THEN {} ELSE {"queued"}) :
    req' = [req EXCEPT ![q].stage = stage, ![q].awaits = conn]

\* startRecording, up to the queue of the tab.
Reserve(q) ==
  /\ Microtask
  /\ Woken(q) /\ req[q].kind = "start" /\ Connected(reg, req[q].agent)
  /\ reservation = None /\ ~RecordingActive(reg)
  /\ reservation' = req[q].agent
  /\ WaitsInQueue(q)
  /\ UNCHANGED <<reg, graceTimers, link, extension, cleaning, cleanups, closing, engineVars>>

\* The command in front of it in the queue of the tab has ended.
TurnComes(q) ==
  /\ Macrotask \/ (Microtask /\ Due(q))
  /\ req[q].stage = "queued"
  /\ req' = [req EXCEPT ![q].stage = "turn"]
  /\ UNCHANGED <<reg, graceTimers, link, extension, brokerVars, engineVars>>

Send(q) ==
  /\ req' = [req EXCEPT ![q].stage = "routed"]
  /\ lifecycle' = Append(lifecycle, Command(q, req[q].kind, req[q].agent))

SendStart(q) ==
  /\ Microtask
  /\ req[q].stage = "turn" /\ Connected(reg, req[q].agent) /\ Open
  /\ Send(q)
  /\ UNCHANGED <<reg, graceTimers, link, extension, brokerVars, recorder>>

SendStop(q) ==
  /\ Microtask
  /\ Woken(q) /\ req[q].kind = "stop" /\ Connected(reg, req[q].agent)
  /\ reg.activeRecordingId[req[q].agent] # None /\ Open
  /\ Send(q)
  /\ UNCHANGED <<reg, graceTimers, link, extension, brokerVars, recorder>>

\* Mutant: the reservation is kept.
StartFailsReserved(q) ==
  /\ Microtask
  /\ \/ req[q].stage = "turn"
     \/ req[q].stage = "rejected" /\ req[q].kind = "start"
  /\ IF cleaning = req[q].agent
     THEN CleanupStarts(cleaning, FALSE) ELSE UNCHANGED <<cleanups, lifecycle>>
  /\ req' = Answered(req, q)
  /\ UNCHANGED <<reg, graceTimers, link, extension, reservation, cleaning, closing, recorder>>

\* The catch of startRecording: not sent, because the Agent, the tab or the connection is gone,
\* or rejected since.
StartFails(q) ==
  /\ Microtask
  /\ \/ req[q].stage = "turn"
     \/ req[q].stage = "rejected" /\ req[q].kind = "start"
  /\ reservation' = IF reservation = req[q].agent THEN None ELSE reservation
  /\ IF cleaning = req[q].agent
     THEN CleanupStarts(cleaning, FALSE) ELSE UNCHANGED <<cleanups, lifecycle>>
  /\ req' = Answered(req, q)
  /\ UNCHANGED <<reg, graceTimers, link, extension, cleaning, closing, recorder>>

\* All that is left is the answer to the Agent.
Finish(q) ==
  /\ Microtask
  /\ \/ req[q].stage = "resolved"
     \/ req[q].stage = "rejected" /\ req[q].kind = "stop"
  /\ req' = Answered(req, q)
  /\ UNCHANGED <<reg, graceTimers, link, extension, brokerVars, engineVars>>

\* The recorded tab closes: handleBrowserEvent rejects the route.
TabCloses(q) ==
  /\ Macrotask
  /\ q \in Routes /\ req[q].kind = "start"
  /\ req' = Rejected(req, {q})
  /\ UNCHANGED <<reg, graceTimers, link, extension, brokerVars, engineVars>>

TimesOut(q) == Macrotask /\ Timeout(q) /\ UNCHANGED <<brokerVars, engineVars>>

-----------------------------------------------------------------------------
\* The rest of cleanupDisconnectedRecording

CleanupTimesOut(c) ==
  /\ Macrotask
  /\ c \in cleanups /\ c.stage = "routed"
  /\ cleanups' = (cleanups \ {c}) \cup {[c EXCEPT !.stage = "rejected"]}
  /\ UNCHANGED <<reg, graceTimers, req, link, extension, reservation, cleaning, closing,
                 lifecycle, recording>>
  /\ late' = TRUE

\* The chain of activateExtension goes on with the inventory, if it still can.
ChainContinues(chain, stillOpen) ==
  IF ~chain THEN UNCHANGED <<sync, settled>>
  ELSE IF stillOpen THEN sync' = [stage |-> "routed", tabs |-> browser] /\ UNCHANGED settled
  ELSE sync' = NoSync /\ settled' = settled \cup {conn}

\* After the answer, or with the connection closed after a failure, the session is done with.
CleanupEnds(c) ==
  /\ Microtask
  /\ c \in Settled
  /\ LET failed == c.stage = "rejected"
         reserved == IF reservation = c.session THEN None ELSE reservation
     IN /\ cleaning' = IF cleaning = c.session /\ ~failed THEN None ELSE cleaning
        /\ closing' = (closing \/ failed)
        /\ reservation' = reserved
        /\ reg' = PruneDisconnected(ClearRecordings(reg, c.session),
                                    Retained(cleaning', reserved))
        /\ ChainContinues(c.chain, Open /\ ~failed)
  /\ cleanups' = cleanups \ {c}
  /\ UNCHANGED <<graceTimers, req, conn, conns, immediates, extension, engineVars>>

-----------------------------------------------------------------------------
\* handleExtensionResponse.  Where requireSession throws (see CleanupsFindSession), which nothing
\* catches, the model leaves the registry as it is and goes on.

ReplyToRequest(m) ==
  LET q == m.id
      s == req[q].agent
  IN /\ req' = IF m.ok THEN [req EXCEPT ![q].stage = "resolved"] ELSE Rejected(req, {q})
     /\ \/ /\ req[q].kind = "start" /\ m.ok
           /\ reg' = IF s \in reg.live THEN AddRecording(reg, s, s) ELSE reg
           /\ IF cleaning = s THEN CleanupStarts(s, FALSE)
              ELSE UNCHANGED <<cleanups, lifecycle>>
           /\ UNCHANGED <<reservation, cleaning>>
        \/ /\ req[q].kind = "start" /\ ~m.ok
           /\ IF cleaning = s
              THEN /\ cleaning' = None
                   /\ reg' = PruneDisconnected(reg, Retained(None, reservation))
              ELSE UNCHANGED <<cleaning, reg>>
           /\ UNCHANGED <<reservation, cleanups, lifecycle>>
        \/ /\ req[q].kind = "stop" /\ m.ok
           /\ reg' = ClearRecordings(reg, s)
           /\ reservation' = IF reservation = s THEN None ELSE reservation
           /\ UNCHANGED <<cleaning, cleanups, lifecycle>>
        \/ /\ req[q].kind = "stop" /\ ~m.ok
           /\ UNCHANGED <<reg, reservation, cleaning, cleanups, lifecycle>>

\* "No active recording" is as good as a success here.
ReplyToCleanup(c, m) ==
  /\ cleanups' = (cleanups \ {c}) \cup {[c EXCEPT !.stage = "resolved"]}
  /\ reg' = IF m.ok THEN ClearRecordings(reg, c.session) ELSE reg
  /\ reservation' = IF m.ok /\ reservation = c.session THEN None ELSE reservation
  /\ UNCHANGED <<req, cleaning, lifecycle>>

HandleReply ==
  /\ Deliver(Runnable)
  /\ Head(inbox).type = "reply"
  /\ LET m == Head(inbox)
         answered == {c \in cleanups : c.id = m.id /\ c.stage = "routed"}
     IN \/ m.id \in Routes /\ ReplyToRequest(m)
        \/ \E c \in answered : ReplyToCleanup(c, m)
        \/ /\ m.id \notin Routes /\ answered = {}
           /\ UNCHANGED <<reg, req, reservation, cleaning, cleanups, lifecycle>>
  /\ UNCHANGED <<graceTimers, link, closing, browser, executing, recorder>>

-----------------------------------------------------------------------------
\* The connection

\* The cleanups of the connection end with it, and find that it is no longer the current one.
Dropped == /\ cleanups' = {} /\ closing' = FALSE
           /\ UNCHANGED <<reservation, cleaning>>

ExtensionArrives ==
  /\ Macrotask
  /\ ExtensionConnects
  /\ Dropped /\ UNCHANGED engineVars

ExtensionGoes ==
  /\ Macrotask
  /\ ExtensionCloses
  /\ Dropped /\ UNCHANGED engineVars

\* Chrome ends the extension's service worker, and the recording and the connection with it.
ExtensionRestarts ==
  /\ Macrotask
  /\ \/ ExtensionCloses /\ Dropped
     \/ /\ conn = 0 /\ recording # None
        /\ UNCHANGED <<reg, graceTimers, req, link, extension, brokerVars>>
  /\ lifecycle' = <<>> /\ recording' = None /\ UNCHANGED late

\* The setImmediate callback: a recording left behind is cleaned up before the inventory.
ChainStarts(c) ==
  /\ Macrotask
  /\ IF c \in immediates /\ c = conn /\ Open /\ cleaning # None
     THEN /\ immediates' = immediates \ {c}
          /\ sync' = [stage |-> "cleanup", tabs |-> {}]
          /\ CleanupStarts(cleaning, TRUE)
          /\ UNCHANGED <<reg, graceTimers, req, conn, conns, settled, extension>>
     ELSE StartSync(c) /\ UNCHANGED <<cleanups, lifecycle>>
  /\ UNCHANGED <<reservation, cleaning, closing, recorder>>

Syncs ==
  /\ Microtask
  /\ \/ FinishSync /\ UNCHANGED brokerVars
     \/ FailSync /\ Dropped
  /\ UNCHANGED engineVars

-----------------------------------------------------------------------------
\* The extension serves start_recording and stop_recording one after the other

OtherTasks ==
  UNCHANGED <<reg, graceTimers, req, link, batch, brokerVars, browser, executing, late>>

Serves(e, ok) ==
  /\ lifecycle # <<>> /\ e = Head(lifecycle) /\ Len(inbox) < MaxInbox
  /\ lifecycle' = Tail(lifecycle)
  /\ Post(ReplyTo(e, [type |-> "reply", id |-> e.id, ok |-> ok]))

\* RECORDING_BUSY, or it fails and leaves nothing behind, or it records.
ServeStart(e) ==
  /\ e.kind = "start"
  /\ \/ recording = None /\ recording' = e.session /\ Serves(e, TRUE)
     \/ UNCHANGED recording /\ Serves(e, FALSE)
  /\ OtherTasks

ServeStop(e) ==
  /\ e.kind = "stop"
  /\ recording' = None /\ Serves(e, recording # None)
  /\ OtherTasks

-----------------------------------------------------------------------------
Continuation(q) ==
  \/ Refuse(q) \/ Reserve(q) \/ SendStart(q) \/ SendStop(q) \/ StartFails(q) \/ Finish(q)

AgentStep(s) == AgentArrives(s) \/ AgentGoes(s) \/ GraceTimer(s)

ConnectionStep ==
  \/ ExtensionArrives \/ ExtensionGoes \/ ExtensionRestarts
  \/ \E c \in Connections : ChainStarts(c)
  \/ Macrotask /\ SyncTimeout /\ UNCHANGED <<brokerVars, engineVars>>

MessageHandler ==
  \/ HandleReply
  \/ Deliver(Runnable) /\ HandleInventory /\ UNCHANGED <<brokerVars, engineVars>>

Extension ==
  \/ lifecycle # <<>> /\ (ServeStart(Head(lifecycle)) \/ ServeStop(Head(lifecycle)))
  \/ SendInventory /\ UNCHANGED <<brokerVars, engineVars>>

Next ==
  \/ \E q \in Requests, s \in Sessions, kind \in {"start", "stop"} : AgentRequests(q, s, kind)
  \/ \E q \in Requests : Continuation(q) \/ TurnComes(q) \/ TabCloses(q) \/ TimesOut(q)
  \/ \E s \in Sessions : AgentStep(s)
  \/ Ticks
  \/ \E c \in cleanups : CleanupTimesOut(c) \/ CleanupEnds(c)
  \/ Syncs
  \/ MessageHandler
  \/ ConnectionStep
  \/ Extension

Spec == Init /\ [][Next]_vars

\* As in BrokerTabs: the event loop gets to everything in the end.
Fairness ==
  /\ \A q \in Requests : /\ WF_vars(Continuation(q))
                         /\ SF_vars(TimesOut(q)) /\ SF_vars(TurnComes(q))
  /\ SF_vars(\E c \in cleanups : CleanupTimesOut(c))
  /\ WF_vars(\E c \in cleanups : CleanupEnds(c))
  /\ SF_vars(MessageHandler)
  /\ WF_vars(Syncs)
  /\ SF_vars(Macrotask /\ SyncTimeout /\ UNCHANGED <<brokerVars, engineVars>>)
  /\ SF_vars(\E c \in Connections : ChainStarts(c))

FairSpec == Spec /\ Fairness

-----------------------------------------------------------------------------
\* Properties

Request == [stage: {"free", "sync", "queued", "turn", "routed", "resolved", "rejected"},
            kind: {"start", "stop"}, agent: Sessions \cup {None}, awaits: 0..MaxConnections]
Cleanup == [id: CleanupIds, session: Sessions, chain: BOOLEAN,
            stage: {"routed", "resolved", "rejected"}]
LifecycleCommand == [id: Requests \cup CleanupIds, kind: {"start", "stop"},
                     session: Sessions, on: Connections]
Message == [type: {"reply"}, id: Requests \cup CleanupIds, ok: BOOLEAN]
             \cup [type: {"inventory"}, tabs: SUBSET Tabs]

TypeOK ==
  /\ CoreTypeOK
  /\ req \in [Requests -> Request]
  /\ reservation \in Sessions \cup {None} /\ cleaning \in Sessions \cup {None}
  /\ cleanups \in SUBSET Cleanup
  /\ closing \in BOOLEAN /\ late \in BOOLEAN /\ recording \in Sessions \cup {None}
  /\ lifecycle \in Seq(LifecycleCommand) /\ inbox \in Seq(Message)

(* A connected Agent that the registry says records holds the reservation, so *)
(* no two do, however starts, stops, cleanups and grace timers interleave.     *)
RecorderHoldsReservation ==
  \A s \in reg.live : reg.activeRecordingId[s] # None /\ reg.connected[s] => reservation = s

StartRoutes == {q \in Routes : req[q].kind = "start"}

(* The Broker has at most one start_recording under way, that of the session  *)
(* that holds the reservation, unless it is closing the connection.            *)
OneStart == /\ \A p, q \in StartRoutes : p = q
            /\ Open => \A q \in StartRoutes : reservation = req[q].agent

(* A reservation is given up: whoever holds it is starting a recording,        *)
(* records, or is waiting to be cleaned up.                                    *)
ReservationJustified ==
  reservation # None =>
    \/ \E q \in Requests : req[q].kind = "start" /\ req[q].agent = reservation
                            /\ req[q].stage \notin {"free", "sync"}
    \/ reg.activeRecordingId[reservation] # None
    \/ cleaning = reservation

(* All three: the reservation is held by whoever records or starts to, by       *)
(* nobody for nothing, and no second start gets past it.                        *)
ReservationAccurate == RecorderHoldsReservation /\ OneStart /\ ReservationJustified

(* The recording of an Agent that disconnects is not forgotten: it is to be    *)
(* cleaned up as long as the registry shows it, if the extension has answered  *)
(* every cleanup within its second (handleAgentDisconnect).                    *)
DisconnectedRecordersCleanedUp ==
  ~late => \A s \in reg.live : reg.activeRecordingId[s] # None /\ ~Connected(reg, s) => cleaning = s

(* The session a cleanup is for is in the registry when the cleanup ends:     *)
(* requireSession throws otherwise, and nothing catches it.                    *)
CleanupsFindSession == \A c \in cleanups : c.session \in reg.live

(* Every request is answered.                                                  *)
EveryRequestAnswered ==
  \A q \in Requests : (req[q].stage # "free") ~> (req[q].stage = "free")

\* Nothing about recordings is under way.
Quiet == /\ ~Runnable /\ conn \in settled /\ ~closing /\ cleanups = {} /\ lifecycle = <<>>
         /\ \A q \in Requests : req[q].stage \in {"free", "sync"}
         /\ inbox = <<>>

(* The extension records only for an Agent that is known to record.            *)
RecordingsHaveOwner ==
  Quiet => \/ recording = None
           \/ recording \in reg.live /\ reg.activeRecordingId[recording] # None

(* An Agent that records can stop its recording, however often the stop has failed before.      *)
OwnerCanRetryStop ==
  Quiet => \A s \in reg.live : Connected(reg, s) /\ reg.activeRecordingId[s] # None
                                 => recording # None

(* Cleaning up after one Agent does not end another one's recording.           *)
CleanupSparesOthers ==
  [][lifecycle # <<>> /\ lifecycle' = Tail(lifecycle) /\ Head(lifecycle).kind = "stop" =>
       \/ recording \in {None, Head(lifecycle).session}
       \/ reg.activeRecordingId[recording] = None]_vars
=============================================================================
