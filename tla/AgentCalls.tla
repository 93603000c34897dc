----------------------------- MODULE AgentCalls -----------------------------
(***************************************************************************)
(* A tool call from the MCP server to the browser and back: BrokerClient   *)
(* (mcp-server/src/broker-client.ts: the handshake, call, the answers, the *)
(* end of the connection), the tool handler of server.ts, the shutdown of  *)
(* index.ts, and of the Broker the handshake, the requests of one Agent as *)
(* far as their answers go, and stop (broker-server.ts, broker-entry.ts).  *)
(* How the Broker chooses among requests is in BrokerTabs and the modules  *)
(* beside it: here a request waits as long as it likes.                    *)
(*                                                                         *)
(* A WebSocket is two queues of frames.  "end" is the end of the           *)
(* connection as the receiver sees it: a close frame, or the TCP           *)
(* connection is gone.  When the connection is cut, what was under way is  *)
(* lost from some point on.                                                *)
(***************************************************************************)
EXTENDS Naturals, Sequences, FiniteSets, TLC

CONSTANTS
  Calls,   \* tool calls, each with its requestId
  Shots    \* those that are screenshots

ASSUME CallsAssumption == IsFiniteSet(Calls) /\ Shots \subseteq Calls

VARIABLES
  hello,     \* what the hello has to offer: "right", "badToken", "badVersion"
  ws,        \* readyState of the client's WebSocket
  phase,     \* connect: "handshake", "ready", or the code it failed with
  closed,    \* closed of BrokerClient
  pending,   \* pending: requests with their timers
  outcome,   \* by call: "idle", "open", or what the MCP host was told
  up, down,  \* frames on their way to the Broker and to the client
  session,   \* the Broker's side of the connection
  stage,     \* by call, the request in the Broker
  online,    \* an extension is connected to the Broker
  executing, \* commands the extension has not finished
  executed,  \* commands it has finished
  stop,      \* performStop: "no", "rejected", "closed"
  stopped    \* the calls it answers, while both ends keep the connection

clientVars == <<ws, phase, closed, pending, outcome>>
brokerVars == <<session, stage, online, executing, executed, stop, stopped>>
vars == <<hello, clientVars, up, down, brokerVars>>

Frame(type, c, success) == [type |-> type, call |-> c, success |-> success]
Plain(type) == Frame(type, "none", FALSE)
End(code) == Frame("end", code, FALSE)
Ends(queue) == \E i \in 1..Len(queue) : queue[i].type = "end"
Closes(queue, code) == IF Ends(queue) THEN queue ELSE Append(queue, End(code))

Init ==
  /\ hello \in {"right", "badToken", "badVersion"}
  /\ ws = "CONNECTING" /\ phase = "handshake" /\ closed = FALSE
  /\ pending = {} /\ outcome = [c \in Calls |-> "idle"]
  /\ up = <<>> /\ down = <<>>
  /\ session = "none" /\ stage = [c \in Calls |-> "free"]
  /\ online \in BOOLEAN /\ executing = {} /\ executed = {}
  /\ stop = "no" /\ stopped = {}

-----------------------------------------------------------------------------
(* BrokerClient                                                             *)

\* The upgrade succeeds and onOpen sends the hello.
SocketOpens ==
  /\ ws = "CONNECTING" /\ stop # "closed"
  /\ ws' = "OPEN" /\ session' = "hello"
  /\ up' = <<Plain("hello")>>
  /\ UNCHANGED <<hello, phase, closed, pending, outcome, down,
                 stage, online, executing, executed, stop, stopped>>

\* fail, before it has settled: the socket is closed and connect throws.
Fails(code) ==
  /\ phase' = code /\ ws' = "CLOSED"
  /\ up' = IF ws = "CONNECTING" THEN up ELSE Closes(up, "closed")
  /\ UNCHANGED <<closed, pending, outcome>>

\* The timer, or no connection at all (the error event).
HandshakeFails ==
  /\ phase = "handshake"
  /\ Fails("CONNECTION_LOST")
  /\ UNCHANGED <<hello, down, brokerVars>>

\* clearTimeout, pending.delete and the promise settled as one.
Settle(cs, told) ==
  /\ pending' = pending \ cs
  /\ outcome' = [c \in Calls |-> IF c \in cs THEN told ELSE outcome[c]]

\* call: refused (CONNECTION_LOST, "is closed") when the connection is known to
\* be over.
Call(c) ==
  /\ phase = "ready" /\ outcome[c] = "idle"
  /\ IF closed \/ ws # "OPEN"
     THEN outcome' = [outcome EXCEPT ![c] = "refused"] /\ UNCHANGED <<pending, up>>
     ELSE /\ outcome' = [outcome EXCEPT ![c] = "open"]
          /\ pending' = pending \cup {c}
          /\ up' = IF Ends(up) THEN up ELSE Append(up, Frame("request", c, FALSE))
  /\ UNCHANGED <<hello, ws, phase, closed, down, brokerVars>>

\* Bug: the timer forgets the call without telling anyone.
CallTimeoutSilent(c) ==
  /\ c \in pending
  /\ pending' = pending \ {c}
  /\ UNCHANGED <<hello, ws, phase, closed, outcome, up, down, brokerVars>>

CallTimeout(c) ==
  /\ c \in pending
  /\ Settle({c}, "COMMAND_TIMEOUT")
  /\ UNCHANGED <<hello, ws, phase, closed, up, down, brokerVars>>

\* The callback of ws.send: the frame could not be written any more.
SendFails(c) ==
  /\ c \in pending /\ Ends(up) /\ Ends(down) /\ stage[c] = "free"
  /\ \A i \in 1..Len(up) : up[i].call # c
  /\ Settle({c}, "CONNECTION_LOST")
  /\ UNCHANGED <<hello, ws, phase, closed, up, down, brokerVars>>

\* Bug: the calls under way are left to their timers.
RejectNothing == closed' = TRUE /\ UNCHANGED <<pending, outcome>>
rejectPending == closed' = TRUE /\ Settle(pending, "CONNECTION_LOST")

\* What the tool handler makes of an answer: screenshotContent throws for a
\* result that is not a screenshot.
Told(f, wellFormed) ==
  IF ~f.success THEN "ERROR"
  ELSE IF f.call \in Shots /\ ~wellFormed THEN "INTERNAL_ERROR" ELSE "content"

\* Bug: the answer goes to a call that is no longer waiting.
AnswerAny(f, told) == Settle({f.call}, told)
handleMessage(f, told) == Settle({f.call} \cap pending, told)

\* A frame arrives during the handshake (onMessage, onClose) ...
HandshakeFrame(f) ==
  IF f.type = "end"
  THEN Fails(IF f.call = "AUTH_FAILED" THEN "AUTH_FAILED" ELSE "CONNECTION_LOST")
  ELSE IF f.type = "welcome"
       THEN phase' = "ready" /\ UNCHANGED <<ws, closed, pending, outcome, up>>
       ELSE Fails("PROTOCOL_MISMATCH")

\* ... or later.  A close frame makes readyState CLOSING before the close event.
ReadyFrame(f, wellFormed) ==
  IF f.type = "end"
  THEN ws' = "CLOSING" /\ up' = Closes(up, "closed") /\ UNCHANGED <<phase, closed, pending, outcome>>
  ELSE handleMessage(f, Told(f, wellFormed)) /\ UNCHANGED <<ws, phase, closed, up>>

Receive ==
  /\ ws = "OPEN" /\ down # <<>>
  /\ down' = Tail(down)
  /\ \/ phase = "handshake" /\ HandshakeFrame(Head(down))
     \/ phase = "ready" /\ \E wellFormed \in BOOLEAN : ReadyFrame(Head(down), wellFormed)
  /\ UNCHANGED <<hello, brokerVars>>

CloseEvent ==
  /\ ws = "CLOSING"
  /\ ws' = "CLOSED" /\ rejectPending
  /\ UNCHANGED <<hello, phase, up, down, brokerVars>>

\* SIGINT or SIGTERM at the MCP server (index.ts): client.close.
Shutdown ==
  /\ phase = "ready" /\ ~closed
  /\ rejectPending
  /\ ws' = "CLOSED" /\ up' = Closes(up, "closed")
  /\ stopped' = {}
  /\ UNCHANGED <<hello, phase, down, session, stage, online, executing, executed, stop>>

-----------------------------------------------------------------------------
(* The connection is cut                                                    *)

LostFrom(queue, k) == Closes(SubSeq(queue, 1, k), "cut")

Cut ==
  /\ ws = "OPEN" /\ session # "gone"
  /\ \E i \in 0..Len(up) : up' = LostFrom(up, i)
  /\ \E i \in 0..Len(down) : down' = LostFrom(down, i)
  /\ stopped' = {}
  /\ UNCHANGED <<hello, clientVars, session, stage, online, executing, executed, stop>>

-----------------------------------------------------------------------------
(* BrokerServer                                                             *)

\* replySuccess and replyError for the requests cs, to an Agent that is still there.
CanReply == session = "live" /\ stop # "closed" /\ ~Ends(down)
Replies(cs, success) ==
  IF ~CanReply THEN {down}
  ELSE LET orders == {p \in [1..Cardinality(cs) -> cs] : {p[i] : i \in DOMAIN p} = cs}
       IN {down \o [i \in 1..Cardinality(cs) |-> Frame("response", p[i], success)] : p \in orders}

\* awaitHello's onMessage; an accepted Agent gets its session and its welcome.
Hello ==
  /\ session' = IF hello = "right" THEN "live" ELSE "gone"
  /\ down' = IF Ends(down) THEN down
             ELSE CASE hello = "right" -> <<Plain("welcome")>>
                    [] hello = "badVersion" -> <<Plain("error"), End("PROTOCOL_MISMATCH")>>
                    [] hello = "badToken" -> <<End("AUTH_FAILED")>>

HelloTimeout ==
  /\ session = "hello"
  /\ session' = "gone" /\ down' = Closes(down, "hello required")
  /\ UNCHANGED <<hello, clientVars, up, stage, online, executing, executed, stop, stopped>>

\* forward, up to its first await.
Forward(c) ==
  IF online THEN stage' = [stage EXCEPT ![c] = "waiting"] /\ UNCHANGED down
  ELSE stage' = [stage EXCEPT ![c] = "done"] /\ down' \in Replies({c}, FALSE)

\* handleAgentDisconnect rejects the routes of the Agent.
AgentGone ==
  /\ session' = "gone"
  /\ stage' = [c \in Calls |-> IF stage[c] = "routed" THEN "done" ELSE stage[c]]
  /\ UNCHANGED down

BrokerReceives ==
  /\ up # <<>>
  /\ up' = Tail(up)
  /\ LET f == Head(up) IN
     \/ f.type = "hello" /\ session = "hello" /\ Hello /\ UNCHANGED stage
     \/ f.type = "request" /\ session = "live" /\ Forward(f.call) /\ UNCHANGED session
     \/ f.type = "end" /\ AgentGone
     \/ f.type # "end" /\ session = "gone" /\ UNCHANGED <<session, stage, down>>
  /\ UNCHANGED <<hello, clientVars, online, executing, executed, stop, stopped>>

\* The request's turn comes: its command is sent, or it fails.
TurnComes(c) ==
  /\ stage[c] = "waiting"
  /\ IF session = "live" /\ online
     THEN /\ stage' = [stage EXCEPT ![c] = "routed"]
          /\ executing' = executing \cup {c} /\ UNCHANGED down
     ELSE /\ stage' = [stage EXCEPT ![c] = "done"]
          /\ down' \in Replies({c}, FALSE) /\ UNCHANGED executing
  /\ UNCHANGED <<hello, clientVars, up, session, online, executed, stop, stopped>>

\* Some routes are settled.
EndRoutes(cs, success) ==
  /\ stage' = [c \in Calls |-> IF c \in cs THEN "done" ELSE stage[c]]
  /\ down' \in Replies(cs, success)

Routed == {c \in Calls : stage[c] = "routed"}

\* The request is refused before its command is sent, or its route ends with an
\* error: a timeout, a closed tab.
RouteFails(c) ==
  /\ stage[c] \in {"waiting", "routed"}
  /\ EndRoutes({c}, FALSE)
  /\ UNCHANGED <<hello, clientVars, up, session, online, executing, executed, stop, stopped>>

\* The extension executes a command; its answer finds the route or nothing.
Executes(c) ==
  /\ c \in executing
  /\ executing' = executing \ {c} /\ executed' = executed \cup {c}
  /\ IF c \in Routed /\ online
     THEN \E success \in BOOLEAN : EndRoutes({c}, success)
     ELSE UNCHANGED <<stage, down>>
  /\ UNCHANGED <<hello, clientVars, up, session, online, stop, stopped>>

\* Commands that did not reach the extension are lost with the connection.
ExtensionLeaves ==
  /\ online
  /\ online' = FALSE /\ executing' \in SUBSET executing
  /\ EndRoutes(Routed, FALSE)
  /\ UNCHANGED <<hello, clientVars, up, session, executed, stop, stopped>>

ExtensionComes ==
  /\ ~online /\ stop = "no"
  /\ online' = TRUE
  /\ UNCHANGED <<hello, clientVars, up, down, session, stage, executing, executed, stop, stopped>>

-----------------------------------------------------------------------------
(* BrokerServer.stop                                                        *)

\* Bug: the routes are left to the end of the connection.
StopDropsRoutes ==
  /\ stop = "no" /\ stop' = "rejected"
  /\ stopped' = {c \in Routed : CanReply /\ ~Ends(up)}
  /\ stage' = [c \in Calls |-> IF c \in Routed THEN "done" ELSE stage[c]]
  /\ UNCHANGED <<hello, clientVars, up, down, session, online, executing, executed>>

\* rejectAllRoutes; their answers are written before the setImmediate callback.
Stop ==
  /\ stop = "no" /\ stop' = "rejected"
  /\ stopped' = {c \in Routed : CanReply /\ ~Ends(up)}
  /\ EndRoutes(Routed, FALSE)
  /\ UNCHANGED <<hello, clientVars, up, session, online, executing, executed>>

\* The sockets are closed.
StopCloses ==
  /\ stop = "rejected"
  /\ stop' = "closed" /\ online' = FALSE
  /\ executing' \in SUBSET executing
  /\ down' = IF session = "none" THEN down ELSE Closes(down, "closed")
  /\ UNCHANGED <<hello, clientVars, up, session, stage, executed, stopped>>

-----------------------------------------------------------------------------

Next ==
  \/ SocketOpens \/ HandshakeFails \/ Receive \/ CloseEvent \/ Shutdown \/ Cut
  \/ \E c \in Calls : \/ Call(c) \/ CallTimeout(c) \/ SendFails(c)
                      \/ TurnComes(c) \/ RouteFails(c) \/ Executes(c)
  \/ HelloTimeout \/ BrokerReceives
  \/ ExtensionLeaves \/ ExtensionComes \/ Stop \/ StopCloses

Spec == Init /\ [][Next]_vars

\* The timers of the client fire, and an event of its socket is handled.
FairSpec ==
  /\ Spec
  /\ WF_vars(HandshakeFails)
  /\ WF_vars(CloseEvent)
  /\ \A c \in Calls : WF_vars(CallTimeout(c))

\* A frame about no call says why it was sent.
Frames == [type: {"hello", "welcome", "error", "request", "response", "end"},
           call: Calls \cup {"none", "closed", "cut", "hello required",
                             "AUTH_FAILED", "PROTOCOL_MISMATCH"},
           success: BOOLEAN]

TypeOK ==
  /\ up \in Seq(Frames) /\ down \in Seq(Frames)
  /\ hello \in {"right", "badToken", "badVersion"}
  /\ ws \in {"CONNECTING", "OPEN", "CLOSING", "CLOSED"}
  /\ phase \in {"handshake", "ready", "CONNECTION_LOST", "PROTOCOL_MISMATCH", "AUTH_FAILED"}
  /\ closed \in BOOLEAN /\ pending \in SUBSET Calls
  /\ outcome \in [Calls -> {"idle", "open", "content", "ERROR", "INTERNAL_ERROR",
                            "COMMAND_TIMEOUT", "CONNECTION_LOST", "refused"}]
  /\ session \in {"none", "hello", "live", "gone"}
  /\ stage \in [Calls -> {"free", "waiting", "routed", "done"}]
  /\ online \in BOOLEAN /\ executing \in SUBSET Calls /\ executed \in SUBSET Calls
  /\ stop \in {"no", "rejected", "closed"} /\ stopped \in SUBSET Calls

\* The calls the client has not settled are exactly those it has a timer for, and
\* there are none once it has seen the end of the connection.
NoCallForgotten ==
  /\ pending = {c \in Calls : outcome[c] = "open"}
  /\ closed => pending = {}

\* broker-server.test.ts "rejects in-flight routes before closing sockets on
\* shutdown": an Agent whose command the extension had when the Broker was told
\* to stop gets the Broker's answer, not just the end of its connection.
StopAnswersRoutes == \A c \in stopped : outcome[c] # "CONNECTION_LOST"

\* Not so: a request that waited behind a rejected one gets its turn before the
\* sockets are closed, and the extension executes a command nobody waits for.
NothingSentWhileStopping == [][stop = "rejected" => executing' \subseteq executing]_vars

CallState(told) ==
  CASE told \in {"idle", "open", "refused"} -> told
    [] told = "content" -> "ok"
    [] OTHER -> "failed"

Service == INSTANCE CallService
             WITH call <- [c \in Calls |-> CallState(outcome[c])],
                  executed <- executed,
                  alive <- ~closed /\ ws \in {"CONNECTING", "OPEN"}

\* One outcome for each call, a success only for a command that was executed, once,
\* and no success after the end of the connection.
ImplementsCallService == Service!ServiceSpec

\* The handshake ends, and every call.
EverythingEnds ==
  /\ phase = "handshake" ~> phase # "handshake"
  /\ \A c \in Calls : outcome[c] = "open" ~> outcome[c] # "open"
=============================================================================
