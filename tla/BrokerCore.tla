----------------------------- MODULE BrokerCore -----------------------------
(***************************************************************************)
(* What every command of the Broker goes through (mcp-server/src/broker/   *)
(* broker-server.ts): Agents connect and disconnect, a request waits for   *)
(* the extension's inventory, becomes a route when its command is sent and  *)
(* is settled by an answer, a timeout or the end of the connection; the     *)
(* extension's connection is dropped, replaced and resynchronized.  The     *)
(* modules that EXTEND this one add what their commands do.                 *)
(*                                                                         *)
(* The Broker is one Node.js event loop.  A step is either a macrotask (a  *)
(* message, a timer, a socket event) or the continuation of a settled      *)
(* promise.  Continuations run before the next macrotask, with one         *)
(* exception: the `ws` library hands over all messages of one network      *)
(* chunk before any continuation runs, which `batch` stands for.  The       *)
(* actions here say nothing of `batch`; the modules that use them do.       *)
(***************************************************************************)
EXTENDS RegistryOps, Sequences, FiniteSets, SequencesExt

CONSTANTS
  Requests,        \* slots for the Agents' requests under way
  Chunks,          \* whether a network chunk may hold several messages
  MaxConnections,  \* bound: extension connections in one behaviour
  MaxInbox         \* bound: messages on their way from the extension

ASSUME CoreBoundsAssumption == /\ Chunks \in BOOLEAN
                               /\ MaxConnections \in Nat \ {0}
                               /\ MaxInbox \in Nat \ {0}
ASSUME RequestsAssumption == None \notin Requests

VARIABLES
  reg,          \* registry
  graceTimers,  \* ownershipTimers
  req,          \* the requests and their routes
  conn,         \* extension: number of the current connection, 0 if none
  conns,        \* extensionGeneration
  settled,      \* connections whose extensionSync promise has settled
  immediates,   \* connections whose setImmediate before the sync is pending
  sync,         \* the inventory request of the current connection, and its tabs
  batch,        \* the last step delivered a message of a network chunk
  browser,      \* tabs that exist in the browser
  executing,    \* commands the extension has received and not finished
  inbox         \* messages from the extension, in the order they were sent

link == <<conn, conns, settled, immediates, sync>>
extension == <<browser, executing, inbox>>
coreVars == <<reg, graceTimers, req, link, batch, extension>>

Connections == 1..MaxConnections

NoSync == [stage |-> "idle", tabs |-> {}]

CoreInit ==
  /\ reg = EmptyRegistry /\ graceTimers = {}
  /\ conn = 0 /\ conns = 0 /\ settled = {} /\ immediates = {} /\ sync = NoSync
  /\ batch = FALSE
  /\ browser \in SUBSET Tabs /\ executing = {} /\ inbox = <<>>

-----------------------------------------------------------------------------
\* Requests and routes

In(stage) == {q \in Requests : req[q].stage = stage}
Routes == In("routed")

\* The request goes on when the sync that was current when it came is over.
Woken(q) == req[q].stage = "sync" /\ req[q].awaits \in settled

\* Continuations every module has.
CoreRunnable ==
  \/ \E q \in Requests : Woken(q)
  \/ In("resolved") \cup In("rejected") # {}
  \/ sync.stage \in {"resolved", "rejected"}

\* route.reject for the routes of qs.
Rejected(r, qs) == [q \in Requests |-> IF q \in qs THEN [r[q] EXCEPT !.stage = "rejected"]
                                       ELSE r[q]]

\* Nothing of an earlier request is left under this slot.
Unused(q) == /\ req[q].stage = "free"
             /\ \A e \in executing : e.request # q
             /\ \A i \in 1..Len(inbox) : inbox[i].type = "reply" => inbox[i].request # q

-----------------------------------------------------------------------------
\* Agents and time

AgentConnects(s) ==
  /\ s \notin reg.live \cup graceTimers
  /\ \A q \in Requests : req[q].agent # s
  /\ reg' = CreateSession(reg, s)
  /\ UNCHANGED <<graceTimers, req, link, extension>>

\* handleAgentDisconnect: the routes of the Agent but the spared ones are
\* rejected and its grace period starts.
AgentLeaves(s, spared) ==
  /\ Connected(reg, s)
  /\ req' = Rejected(req, {q \in Routes \ spared : req[q].agent = s})
  /\ reg' = Disconnect(reg, s)
  /\ graceTimers' = graceTimers \cup {s}
  /\ UNCHANGED <<link, extension>>

AgentDisconnects(s) == AgentLeaves(s, {})

Tick ==
  /\ Elapsing(reg) # {}
  /\ reg' = Elapse(reg)
  /\ UNCHANGED <<graceTimers, req, link, extension>>

\* The ownership timer; the retained sessions stay in the map.
GraceEnds(s, retained) ==
  /\ s \in graceTimers
  /\ s \in reg.live => reg.disconnectedFor[s] >= Grace
  /\ reg' = PruneDisconnected(ExpireDisconnected(reg), retained)
  /\ graceTimers' = graceTimers \ {s}
  /\ UNCHANGED <<req, link, extension>>

GraceTimerFires(s) == GraceEnds(s, {})

\* The timer of sendExtensionCommand: the extension keeps working.
Timeout(q) ==
  /\ q \in Routes
  /\ req' = Rejected(req, {q})
  /\ UNCHANGED <<reg, graceTimers, link, extension>>

-----------------------------------------------------------------------------
\* The extension's connection

\* Mutant: they wait for an answer that will not come.
SettledNothing == settled
\* The waiters of the current connection's sync go on when it ends that way.
\* ("cleanup" is the stop_recording that may go before it, see BrokerRecording.)
SettledWithout == settled \cup (IF sync.stage \in {"cleanup", "routed"} THEN {conn} ELSE {})

\* activateExtension: a new connection replaces the current one; all but the
\* first connection of the Broker start by synchronizing.
ExtensionConnects ==
  /\ conns < MaxConnections
  /\ req' = Rejected(req, Routes)
  /\ conns' = conns + 1 /\ conn' = conns + 1
  /\ settled' = SettledWithout \cup (IF conns = 0 THEN {1} ELSE {})
  /\ immediates' = immediates \cup (IF conns = 0 THEN {} ELSE {conns + 1})
  /\ sync' = NoSync /\ inbox' = <<>>
  /\ UNCHANGED <<reg, graceTimers, browser, executing>>

ExtensionCloses ==
  /\ conn # 0
  /\ req' = Rejected(req, Routes)
  /\ conn' = 0 /\ settled' = SettledWithout
  /\ sync' = NoSync /\ inbox' = <<>>
  /\ UNCHANGED <<reg, graceTimers, conns, immediates, browser, executing>>

\* The setImmediate callback: syncExtensionInventory sends list_tabs unless the
\* connection is no longer the current one.
StartSync(c) ==
  /\ c \in immediates
  /\ immediates' = immediates \ {c}
  /\ IF c = conn THEN sync' = [stage |-> "routed", tabs |-> browser] /\ UNCHANGED settled
                 ELSE settled' = settled \cup {c} /\ UNCHANGED sync
  /\ UNCHANGED <<reg, graceTimers, req, conn, conns, extension>>

SyncTimeout ==
  /\ sync.stage = "routed"
  /\ sync' = [sync EXCEPT !.stage = "rejected"]
  /\ UNCHANGED <<reg, graceTimers, req, conn, conns, settled, immediates, extension>>

\* reconcileTabs; the waiting requests go on.
FinishSync ==
  /\ sync.stage = "resolved"
  /\ reg' = ReconcileTabs(reg, sync.tabs)
  /\ settled' = settled \cup {conn} /\ sync' = NoSync
  /\ UNCHANGED <<graceTimers, req, conn, conns, immediates, extension>>

\* The connection is given up.
FailSync ==
  /\ sync.stage = "rejected"
  /\ req' = Rejected(req, Routes)
  /\ settled' = settled \cup {conn} /\ conn' = 0 /\ sync' = NoSync /\ inbox' = <<>>
  /\ UNCHANGED <<reg, graceTimers, conns, immediates, browser, executing>>

-----------------------------------------------------------------------------
\* The extension's end of the connection

\* Messages are lost while there is no connection.
Post(messages) == inbox' = IF conn = 0 THEN inbox ELSE inbox \o messages

\* The reply to a command goes back over the connection it came from.
ReplyTo(e, reply) == IF e.on = conn THEN <<reply>> ELSE <<>>

\* The next message, or one more of the same chunk.
Deliver(runnable) ==
  /\ inbox # <<>> /\ (~runnable \/ batch)
  /\ batch' = Chunks
  /\ inbox' = Tail(inbox)

\* chrome.tabs.query is asynchronous: the inventory shows the tabs as they were
\* when the command came or as they are now.
SendInventory ==
  /\ sync.stage = "routed" /\ Len(inbox) < MaxInbox
  /\ \A i \in 1..Len(inbox) : inbox[i].type # "inventory"
  /\ \E tabs \in {sync.tabs, browser} : Post(<<[type |-> "inventory", tabs |-> tabs]>>)
  /\ UNCHANGED <<reg, graceTimers, req, link, batch, browser, executing>>

HandleInventory ==
  /\ Head(inbox).type = "inventory"
  /\ sync' = IF sync.stage = "routed"
             THEN [stage |-> "resolved", tabs |-> Head(inbox).tabs] ELSE sync
  /\ UNCHANGED <<reg, graceTimers, req, conn, conns, settled, immediates, browser, executing>>

-----------------------------------------------------------------------------
\* The macrotasks and continuations that are the same for every command.

AgentTask(s) == AgentConnects(s) \/ AgentDisconnects(s) \/ GraceTimerFires(s)

ConnectionTask ==
  \/ ExtensionConnects \/ ExtensionCloses
  \/ \E c \in Connections : StartSync(c)
  \/ SyncTimeout

CoreTypeOK ==
  /\ reg \in Registry /\ graceTimers \in SUBSET Sessions
  /\ conns \in 0..MaxConnections /\ conn \in {0, conns}
  /\ settled \in SUBSET Connections /\ immediates \in SUBSET Connections
  /\ sync \in [stage: {"idle", "cleanup", "routed", "resolved", "rejected"},
               tabs: SUBSET Tabs]
  /\ browser \in SUBSET Tabs
  /\ batch \in BOOLEAN /\ Len(inbox) <= MaxInbox + 1
=============================================================================
