-------------------------- MODULE BrokerTabsProofs --------------------------
(***************************************************************************)
(* Theorems about BrokerTabs, for every set of Agents, tabs and requests   *)
(* and any number of connections and removals: the properties of the runs  *)
(* tabs and tabs_reuse but liveness.                                       *)
(***************************************************************************)
EXTENDS BrokerTabs, RegistryLemmas, SequenceTheorems

-----------------------------------------------------------------------------
(* The inductive invariant                                                   *)

Answering == {"routed", "resolved", "rejected"}
Busy == {"queued"} \cup Answering

\* A request knows who sent it and what it is about; only commands about a tab
\* get further than the wait for the inventory; this module has no cleanups.
RequestsComplete ==
  /\ \A q \in Requests : req[q].stage # "free" =>
       /\ req[q].agent \in Sessions /\ req[q].tab \in Tabs /\ req[q].awaits \in Connections
       /\ req[q].kind = "release" => req[q].stage = "sync"
       /\ req[q].kind = "claim" => req[q].stage # "queued"
  /\ sync.stage # "cleanup"

\* The Agent of a request that is being answered, or will be, is connected.
AnswersHaveAgents ==
  \A q \in In("routed") \cup In("resolved") : Connected(reg, req[q].agent)

Queued(q) == \E i \in 1..Len(tails[req[q].tab]) : tails[req[q].tab][i] = q

\* The queue of a tab holds each of its requests once, and the one whose command
\* has been sent is the first.
QueuesInOrder ==
  /\ \A t \in Tabs : \A i \in 1..Len(tails[t]) :
       /\ req[tails[t][i]].tab = t
       /\ req[tails[t][i]].stage \in Busy
       /\ req[tails[t][i]].kind \in {"use", "close"}
       /\ \A j \in 1..Len(tails[t]) : tails[t][i] = tails[t][j] => i = j
  /\ \A q \in In("queued") : Queued(q)
  /\ \A q \in Requests :
       req[q].stage \in Answering /\ req[q].kind # "claim" => AtHead(q)

\* What a request of a connection waits for; the connection there is has a sync
\* that is over, under way or still to start.
SyncsPending ==
  /\ sync.stage # "idle" => conn # 0
  /\ conn # 0 => conn \in settled \cup immediates \/ sync.stage # "idle"
  /\ \A q \in In("sync") : \/ req[q].awaits \in settled \cup immediates
                           \/ req[q].awaits = conn /\ sync.stage # "idle"

\* While a tab is marked as closed nobody owns it, what is queued for it was
\* queued before it closed, and the continuation that takes the mark away is there.
MarksJustified ==
  /\ OwnedTabsUsable
  /\ \A t \in closed : \A q \in In("queued") : req[q].tab = t => req[q].stale
  /\ \A t \in closed : \E r \in retiring : r.tab = t /\ r.generation = generation[t]

\* A stale request waits in a queue, and its generation is over.
StaleIsOver ==
  \A q \in Requests :
    /\ req[q].stale => req[q].stage = "queued" /\ req[q].generation < generation[req[q].tab]
    /\ req[q].stage = "queued" => req[q].generation <= generation[req[q].tab]

\* The request after which a continuation may run is in the queue or over: its
\* slot is not used again as long as the continuation has not run.
SlotsKept ==
  \A r \in retiring : Waiting(r) \/ r.after = None \/ req[r.after].stage = "free"

\* The continuations of earlier removals carry a smaller generation; after the
\* generation has been reset they can all run, and do before the next message.
GenerationsGrow ==
  \A r \in retiring : r.generation <= generation[r.tab] \/ (~Waiting(r) /\ ~batch)

\* Queued for a tab before it closed, or the last that was when it did.
OfOldTab(t, i) ==
  \/ req[tails[t][i]].stale
  \/ \E e \in retiring : e.tab = t /\ e.after = tails[t][i]

WaitsPast(r, i) == \E j \in i..Len(tails[r.tab]) : tails[r.tab][j] = r.after

\* The continuation that may reset the generation waits for everything that was
\* queued before the removal, and longer than those of earlier removals.
LastWaitsLongest ==
  \A r \in retiring : r.generation = generation[r.tab] =>
    \A i \in 1..Len(tails[r.tab]) : OfOldTab(r.tab, i) => WaitsPast(r, i)

Inv ==
  /\ TypeOK /\ Good(reg) /\ RequestsComplete /\ QueuesInOrder
  /\ AnswersHaveAgents /\ ClosedTabsHaveNoRoutes /\ SyncsPending /\ MarksJustified
  /\ StaleIsOver /\ SlotsKept /\ GenerationsGrow /\ LastWaitsLongest

-----------------------------------------------------------------------------
(* Types                                                                     *)

Typed == TypeOK /\ Good(reg) /\ RequestsComplete /\ AnswersHaveAgents

\* The fields of a request that its route and its answer leave alone.
Same(old, new) ==
  /\ new.kind = old.kind /\ new.agent = old.agent /\ new.tab = old.tab
  /\ new.awaits = old.awaits /\ new.generation = old.generation /\ new.stale = old.stale

\* What a continuation does to the requests.
LEMMA AnswerType ==
  ASSUME TypeOK, NEW q \in Requests, Answer(q)
  PROVE  /\ req' \in [Requests -> Request]
         /\ req'[q] = FreeRequest
         /\ \A p \in Requests \ {q} : req'[p] = req[p]
<1>1. FreeRequest \in Request
  BY CoreBoundsAssumption DEF FreeRequest, Request, Stages, Kinds
<1> QED
  BY <1>1 DEF Answer, TypeOK

\* A command is sent.
LEMMA SendType ==
  ASSUME TypeOK, RequestsComplete, NEW q \in Requests, req[q].stage # "free",
         req[q].kind # "release", conn # 0, Send(q)
  PROVE  /\ req' \in [Requests -> Request]
         /\ req'[q].stage = "routed" /\ Same(req[q], req'[q])
         /\ \A p \in Requests \ {q} : req'[p] = req[p]
         /\ executing' \in SUBSET Command
         /\ UNCHANGED <<browser, inbox>>
<1>1. req[q] \in Request
  BY DEF TypeOK
<1>2. [req[q] EXCEPT !.stage = "routed"] \in Request
  BY <1>1 DEF Request, Stages
<1>3. req' = [req EXCEPT ![q] = [req[q] EXCEPT !.stage = "routed"]]
  BY DEF Send, TypeOK
<1>4. req[q].tab \in Tabs /\ req[q].kind \in Kinds /\ conn \in Connections
  BY <1>1, CoreBoundsAssumption DEF RequestsComplete, Request, TypeOK, CoreTypeOK, Connections
<1>5. (req[q].kind = "claim" /\ req[q].tab \in browser) \in BOOLEAN
  OBVIOUS
<1>6. [request |-> q, kind |-> req[q].kind, tab |-> req[q].tab, on |-> conn,
       seen |-> req[q].kind = "claim" /\ req[q].tab \in browser] \in Command
  BY <1>4, <1>5 DEF Command
<1>7. executing' \in SUBSET Command
  BY <1>6 DEF Send, TypeOK
<1> QED
  BY <1>1, <1>2, <1>3, <1>7 DEF Send, TypeOK, Same, Request

\* Routes are rejected.
LEMMA RejectedType ==
  ASSUME TypeOK, NEW qs \in SUBSET Requests
  PROVE  /\ Rejected(req, qs) \in [Requests -> Request]
         /\ \A q \in qs : /\ Same(req[q], Rejected(req, qs)[q])
                          /\ Rejected(req, qs)[q].stage = "rejected"
         /\ \A q \in Requests \ qs : Rejected(req, qs)[q] = req[q]
<1>1. ASSUME NEW q \in Requests
      PROVE  /\ req[q] \in Request /\ [req[q] EXCEPT !.stage = "rejected"] \in Request
             /\ Same(req[q], [req[q] EXCEPT !.stage = "rejected"])
             /\ [req[q] EXCEPT !.stage = "rejected"].stage = "rejected"
  BY DEF TypeOK, Request, Stages, Same
<1> QED
  BY <1>1 DEF Rejected

-----------------------------------------------------------------------------
(* Background steps                                                          *)

\* Everything but the commands themselves, the removals and creations of tabs
\* and the continuations of removals.
Background ==
  \/ \E q \in Requests : TimesOut(q)
  \/ Syncs
  \/ HandleReply
  \/ Deliver(Runnable) /\ HandleInventory /\ UNCHANGED tabVars
  \/ OtherMacrotask
  \/ Extension
  \/ UNCHANGED vars

\* The request is as it was, but for a route that has been settled.
Settles(q) ==
  /\ Same(req[q], req'[q])
  /\ \/ req'[q].stage = req[q].stage
     \/ req[q].stage = "routed" /\ req'[q].stage \in {"resolved", "rejected"}

\* What all of them have in common: routes are settled, tabs lose their owners,
\* and no message of the chunk is handled unless nothing else could run.
Quiet ==
  /\ UNCHANGED tabVars
  /\ \A q \in Requests : Settles(q)
  /\ OnlyReleases(reg, reg')
  /\ batch' => batch \/ ~Runnable

\* A step that rejects routes, or leaves the requests alone.
LEMMA RejectedSettles ==
  ASSUME TypeOK, NEW qs \in SUBSET Routes, req' = Rejected(req, qs)
  PROVE  req' \in [Requests -> Request] /\ \A q \in Requests : Settles(q)
<1>1. qs \in SUBSET Requests /\ \A q \in qs : req[q].stage = "routed"
  BY DEF Routes, In
<1>2. \A q \in Requests : Same(req[q], req[q])
  BY DEF Same
<1> QED
  BY <1>1, <1>2, RejectedType DEF Settles

LEMMA UnchangedSettles ==
  ASSUME req' = req
  PROVE  \A q \in Requests : Settles(q)
BY DEF Settles, Same

\* Messages the extension posts.
LEMMA PostType ==
  ASSUME TypeOK, Len(inbox) < MaxInbox, NEW messages \in Seq(Message),
         Len(messages) <= 2, Post(messages)
  PROVE  inbox' \in Seq(Message) /\ Len(inbox') <= MaxInbox + 1
<1>1. CASE conn = 0
  BY <1>1, CoreBoundsAssumption DEF Post, TypeOK, CoreTypeOK
<1>2. CASE conn # 0
  <2>1. inbox' = inbox \o messages /\ inbox \in Seq(Message)
    BY <1>2 DEF Post, TypeOK
  <2>2. inbox' \in Seq(Message) /\ Len(inbox') = Len(inbox) + Len(messages)
    BY <2>1, ConcatProperties
  <2> QED
    BY <2>1, <2>2, CoreBoundsAssumption
<1> QED
  BY <1>1, <1>2

\* A message is taken from the inbox.
LEMMA DeliverType ==
  ASSUME TypeOK, Deliver(Runnable)
  PROVE  /\ inbox' \in Seq(Message) /\ Len(inbox') <= MaxInbox + 1
         /\ Head(inbox) \in Message
         /\ batch' \in BOOLEAN /\ (batch \/ ~Runnable)
<1>1. inbox \in Seq(Message) /\ inbox # <<>> /\ Len(inbox) <= MaxInbox + 1
  BY DEF Deliver, TypeOK, CoreTypeOK
<1>2. Head(inbox) \in Message /\ Tail(inbox) \in Seq(Message) /\ Len(Tail(inbox)) = Len(inbox) - 1
  BY <1>1
<1> QED
  BY <1>1, <1>2, CoreBoundsAssumption DEF Deliver

\* Time, Agents and the answers to the inventory request.
LEMMA AgentStep ==
  ASSUME TypeOK, Good(reg), (\E s \in Sessions : AgentTask(s)) \/ Tick
  PROVE  /\ reg' \in Registry /\ Good(reg') /\ OnlyReleases(reg, reg')
         /\ req' \in [Requests -> Request] /\ \A q \in Requests : Settles(q)
         /\ graceTimers' \in SUBSET Sessions
         /\ UNCHANGED <<link, extension>>
<1>1. reg \in Registry /\ graceTimers \in SUBSET Sessions /\ req \in [Requests -> Request]
  BY DEF TypeOK, CoreTypeOK
<1>2. ASSUME NEW s \in Sessions, AgentConnects(s)
      PROVE  /\ Good(reg') /\ OnlyReleases(reg, reg')
             /\ UNCHANGED <<graceTimers, req, link, extension>>
  BY <1>1, <1>2, CreateSessionGood, CreateSessionOwners DEF AgentConnects
<1>3. ASSUME NEW s \in Sessions, AgentDisconnects(s)
      PROVE  /\ Good(reg') /\ OnlyReleases(reg, reg') /\ graceTimers' \in SUBSET Sessions
             /\ req' \in [Requests -> Request] /\ \A q \in Requests : Settles(q)
             /\ UNCHANGED <<link, extension>>
  <2>1. Good(reg') /\ OnlyReleases(reg, reg')
    BY <1>1, <1>3, DisconnectGood, DisconnectOwners DEF AgentDisconnects, AgentLeaves
  <2>2. req' = Rejected(req, {q \in Routes \ {} : req[q].agent = s})
    BY <1>3 DEF AgentDisconnects, AgentLeaves
  <2>3. req' \in [Requests -> Request] /\ \A q \in Requests : Settles(q)
    BY <2>2, RejectedSettles
  <2> QED
    BY <1>1, <1>3, <2>1, <2>3 DEF AgentDisconnects, AgentLeaves
<1>4. ASSUME NEW s \in Sessions, GraceTimerFires(s)
      PROVE  /\ Good(reg') /\ OnlyReleases(reg, reg') /\ graceTimers' \in SUBSET Sessions
             /\ UNCHANGED <<req, link, extension>>
  <2>1. Good(ExpireDisconnected(reg))
    BY ExpireDisconnectedGood
  <2> QED
    BY <1>1, <1>4, <2>1, PruneDisconnectedGood, GraceOwners DEF GraceTimerFires, GraceEnds
<1>5. ASSUME Tick
      PROVE  Good(reg') /\ OnlyReleases(reg, reg') /\ UNCHANGED <<graceTimers, req, link, extension>>
  BY <1>1, <1>5, ElapseGood, ElapseOwners DEF Tick
<1> QED
  BY <1>1, <1>2, <1>3, <1>4, <1>5, UnchangedSettles DEF AgentTask, Good

\* The connection and its synchronization.  A continuation of the sync runs
\* before the next socket event, so no waiter is left without its promise.
LinkTypeOK ==
  /\ conns \in 0..MaxConnections /\ conn \in {0, conns}
  /\ settled \in SUBSET Connections /\ immediates \in SUBSET Connections
  /\ sync \in [stage: {"idle", "cleanup", "routed", "resolved", "rejected"},
               tabs: SUBSET Tabs]
  /\ sync.stage # "cleanup"

LEMMA LinkStep ==
  ASSUME TypeOK, Good(reg), RequestsComplete, SyncsPending,
         \/ Macrotask /\ ConnectionTask
         \/ FinishSync \/ FailSync
         \/ Deliver(Runnable) /\ HandleInventory
  PROVE  /\ LinkTypeOK' /\ SyncsPending'
         /\ reg' \in Registry /\ Good(reg') /\ OnlyReleases(reg, reg')
         /\ req' \in [Requests -> Request] /\ \A q \in Requests : Settles(q)
         /\ inbox' \in Seq(Message) /\ Len(inbox') <= MaxInbox + 1
         /\ UNCHANGED <<graceTimers, browser, executing>>
<1> USE CoreBoundsAssumption
<1>1. /\ LinkTypeOK /\ reg \in Registry /\ req \in [Requests -> Request]
      /\ browser \in SUBSET Tabs /\ inbox \in Seq(Message) /\ Len(inbox) <= MaxInbox + 1
  BY DEF TypeOK, CoreTypeOK, RequestsComplete, LinkTypeOK
<1>2. sync.stage # "idle" => conn \in Connections
  BY <1>1 DEF SyncsPending, LinkTypeOK, Connections
<1>3. SettledWithout \in SUBSET Connections
  BY <1>1, <1>2 DEF SettledWithout, LinkTypeOK
<1>4. NoSync \in [stage: {"idle", "cleanup", "routed", "resolved", "rejected"}, tabs: SUBSET Tabs]
      /\ NoSync.stage = "idle"
  BY DEF NoSync
<1>5. OnlyReleases(reg, reg)
  BY DEF OnlyReleases
<1>6. <<>> \in Seq(Message) /\ Len(<<>>) <= MaxInbox + 1
  OBVIOUS
<1>7. ASSUME \A q \in Requests : Settles(q)
      PROVE  \A q \in Requests :
               req'[q].stage = "sync" => req[q].stage = "sync" /\ req'[q].awaits = req[q].awaits
  BY <1>7 DEF Settles, Same
<1>8. CASE Macrotask /\ ExtensionConnects
  <2>1. req' \in [Requests -> Request] /\ \A q \in Requests : Settles(q)
    BY <1>8, RejectedSettles DEF ExtensionConnects
  <2>2. LinkTypeOK'
    <3>1. /\ conns' = conns + 1 /\ conn' = conns + 1 /\ sync' = NoSync /\ conns < MaxConnections
          /\ settled' = SettledWithout \cup (IF conns = 0 THEN {1} ELSE {})
          /\ immediates' = immediates \cup (IF conns = 0 THEN {} ELSE {conns + 1})
      BY <1>8 DEF ExtensionConnects
    <3> QED
      BY <1>1, <1>3, <1>4, <3>1 DEF LinkTypeOK, Connections
  <2>3. sync.stage \in {"idle", "routed"}
    BY <1>1, <1>8 DEF Macrotask, Runnable, CoreRunnable, LinkTypeOK
  <2>4. SyncsPending'
    BY <1>1, <1>7, <1>8, <2>1, <2>3
       DEF ExtensionConnects, LinkTypeOK, SettledWithout, SyncsPending, NoSync, In
  <2> QED
    BY <1>1, <1>5, <1>6, <1>8, <2>1, <2>2, <2>4 DEF ExtensionConnects
<1>9. CASE Macrotask /\ ExtensionCloses
  <2>1. req' \in [Requests -> Request] /\ \A q \in Requests : Settles(q)
    BY <1>9, RejectedSettles DEF ExtensionCloses
  <2>2. LinkTypeOK'
    BY <1>1, <1>9, <1>3, <1>4 DEF ExtensionCloses, LinkTypeOK
  <2>3. sync.stage \in {"idle", "routed"}
    BY <1>1, <1>9 DEF Macrotask, Runnable, CoreRunnable, LinkTypeOK
  <2>4. SyncsPending'
    BY <1>1, <1>7, <1>9, <2>1, <2>3
       DEF ExtensionCloses, LinkTypeOK, SettledWithout, SyncsPending, NoSync, In
  <2> QED
    BY <1>1, <1>5, <1>6, <1>9, <2>1, <2>2, <2>4 DEF ExtensionCloses
<1>10. CASE \E c \in Connections : StartSync(c)
  <2>1. PICK c \in Connections : StartSync(c)
    BY <1>10
  <2>2. LinkTypeOK' /\ UNCHANGED <<reg, graceTimers, req, extension>>
    <3>1. CASE c = conn
      <4>1. /\ sync' = [stage |-> "routed", tabs |-> browser]
            /\ immediates' = immediates \ {c}
            /\ UNCHANGED <<reg, graceTimers, req, conn, conns, settled, extension>>
        BY <2>1, <3>1 DEF StartSync
      <4> QED
        BY <1>1, <4>1 DEF LinkTypeOK
    <3>2. CASE c # conn
      BY <1>1, <2>1, <3>2 DEF StartSync, LinkTypeOK
    <3> QED
      BY <3>1, <3>2
  <2>3. SyncsPending'
    <3>1. CASE c = conn
      BY <1>1, <2>1, <3>1 DEF StartSync, LinkTypeOK, SyncsPending, In, Connections
    <3>2. CASE c # conn
      BY <1>1, <2>1, <3>2 DEF StartSync, LinkTypeOK, SyncsPending, In
    <3> QED
      BY <3>1, <3>2
  <2> QED
    BY <1>1, <1>5, <2>2, <2>3, UnchangedSettles DEF extension
<1>11. CASE SyncTimeout
  <2>1. LinkTypeOK' /\ UNCHANGED <<reg, graceTimers, req, extension>>
    BY <1>1, <1>11 DEF SyncTimeout, LinkTypeOK
  <2>2. SyncsPending'
    BY <1>1, <1>11 DEF SyncTimeout, LinkTypeOK, SyncsPending, In
  <2> QED
    BY <1>1, <1>5, <2>1, <2>2, UnchangedSettles DEF extension
<1>12. CASE FinishSync
  <2>1. Good(reg') /\ OnlyReleases(reg, reg')
    BY <1>1, <1>12, ReleaseTabsGood, ReleaseTabsOwners DEF FinishSync, ReconcileTabs
  <2>2. LinkTypeOK' /\ UNCHANGED <<graceTimers, req, extension>>
    BY <1>1, <1>12, <1>2, <1>4 DEF FinishSync, LinkTypeOK
  <2>3. SyncsPending'
    BY <1>1, <1>12, <1>4 DEF FinishSync, LinkTypeOK, SyncsPending, In
  <2> QED
    BY <1>1, <2>1, <2>2, <2>3, UnchangedSettles DEF extension, Good
<1>13. CASE FailSync
  <2>1. req' \in [Requests -> Request] /\ \A q \in Requests : Settles(q)
    BY <1>13, RejectedSettles DEF FailSync
  <2>2. LinkTypeOK'
    BY <1>1, <1>13, <1>2, <1>4 DEF FailSync, LinkTypeOK
  <2>3. SyncsPending'
    BY <1>1, <1>7, <1>13, <1>4, <2>1 DEF FailSync, LinkTypeOK, SyncsPending, In
  <2> QED
    BY <1>1, <1>5, <1>6, <1>13, <2>1, <2>2, <2>3 DEF FailSync
<1>14. CASE Deliver(Runnable) /\ HandleInventory
  <2>1. Head(inbox) \in Message /\ Head(inbox).type = "inventory"
    BY <1>14, DeliverType DEF HandleInventory
  <2>2. Head(inbox).tabs \in SUBSET Tabs
    BY <2>1 DEF Message
  <2>3. LinkTypeOK' /\ UNCHANGED <<reg, graceTimers, req, browser, executing>>
    BY <1>1, <1>14, <2>2 DEF HandleInventory, LinkTypeOK
  <2>4. SyncsPending'
    BY <1>1, <1>14 DEF HandleInventory, LinkTypeOK, SyncsPending, In
  <2> QED
    BY <1>1, <1>5, <1>14, <2>3, <2>4, UnchangedSettles, DeliverType
<1> QED
  BY <1>8, <1>9, <1>10, <1>11, <1>12, <1>13, <1>14 DEF ConnectionTask

\* The browser and the extension change nothing of the Broker's.
LEMMA ExtensionStep ==
  ASSUME TypeOK, Extension
  PROVE  /\ browser' \in SUBSET Tabs /\ executing' \in SUBSET Command
         /\ inbox' \in Seq(Message) /\ Len(inbox') <= MaxInbox + 1
         /\ UNCHANGED <<reg, graceTimers, req, link, batch, tabVars>>
<1>1. browser \in SUBSET Tabs /\ executing \in SUBSET Command
  BY DEF TypeOK, CoreTypeOK
<1>2. \A t \in Tabs, type \in {"created", "removed"} : TabEvent(type, t) \in Message
  BY DEF TabEvent, Message
<1>3. \A e \in executing, found \in BOOLEAN : Reply(e, found) \in Message
  BY <1>1 DEF Reply, Message, Command
<1>4. ASSUME NEW a \in Message, NEW b \in Message
      PROVE  /\ <<a>> \in Seq(Message) /\ Len(<<a>>) <= 2 /\ <<>> \in Seq(Message) /\ Len(<<>>) <= 2
             /\ <<a>> \o <<b>> \in Seq(Message) /\ Len(<<a>> \o <<b>>) <= 2
             /\ <<a>> \o <<>> \in Seq(Message) /\ Len(<<a>> \o <<>>) <= 2
             /\ <<>> \o <<a>> \in Seq(Message) /\ Len(<<>> \o <<a>>) <= 2
  <2>1. <<a>> \in Seq(Message) /\ <<b>> \in Seq(Message) /\ <<>> \in Seq(Message)
        /\ Len(<<a>>) = 1 /\ Len(<<b>>) = 1 /\ Len(<<>>) = 0
    OBVIOUS
  <2> QED
    BY <2>1, ConcatProperties
<1>5. ASSUME NEW t \in Tabs, UserOpensTab(t)
      PROVE  browser' \in SUBSET Tabs /\ inbox' \in Seq(Message) /\ Len(inbox') <= MaxInbox + 1
             /\ UNCHANGED executing /\ OtherTasks
  BY <1>1, <1>2, <1>4, <1>5, PostType DEF UserOpensTab
<1>6. ASSUME NEW t \in Tabs, UserClosesTab(t)
      PROVE  browser' \in SUBSET Tabs /\ inbox' \in Seq(Message) /\ Len(inbox') <= MaxInbox + 1
             /\ UNCHANGED executing /\ OtherTasks
  BY <1>1, <1>2, <1>4, <1>6, PostType DEF UserClosesTab
<1>7. ASSUME NEW e \in executing, Execute(e)
      PROVE  executing' \in SUBSET Command /\ inbox' \in Seq(Message) /\ Len(inbox') <= MaxInbox + 1
             /\ UNCHANGED browser /\ OtherTasks
  <2>1. PICK found \in {e.seen, e.tab \in browser} : Post(ReplyTo(e, Reply(e, found)))
    BY <1>7 DEF Execute
  <2>2. found \in BOOLEAN
    <3>1. e.seen \in BOOLEAN
      BY <1>1 DEF Command
    <3>2. (e.tab \in browser) \in BOOLEAN
      OBVIOUS
    <3> QED
      BY <3>1, <3>2, Zenon
  <2>3. ReplyTo(e, Reply(e, found)) \in Seq(Message) /\ Len(ReplyTo(e, Reply(e, found))) <= 2
    BY <1>3, <1>4, <2>2 DEF ReplyTo
  <2> QED
    BY <1>1, <1>7, <2>1, <2>3, PostType DEF Execute
<1>8. ASSUME NEW e \in executing, ExecuteClose(e)
      PROVE  browser' \in SUBSET Tabs /\ executing' \in SUBSET Command
             /\ inbox' \in Seq(Message) /\ Len(inbox') <= MaxInbox + 1 /\ OtherTasks
  <2> DEFINE event == TabEvent("removed", e.tab)
             answer == Reply(e, TRUE)
             reply == ReplyTo(e, answer)
  <2>1. event \in Message /\ answer \in Message
    BY <1>1, <1>2, <1>3 DEF Command
  <2>2. Post(<<event>> \o reply) \/ Post(reply \o <<event>>)
    BY <1>8 DEF ExecuteClose
  <2>3. reply = <<answer>> \/ reply = <<>>
    BY DEF ReplyTo
  <2>4. Len(inbox) < MaxInbox /\ OtherTasks /\ executing' = executing \ {e} /\ browser' = browser \ {e.tab}
    BY <1>8 DEF ExecuteClose
  <2> HIDE DEF event, answer, reply
  <2> QED
    BY <1>1, <1>4, <2>1, <2>2, <2>3, <2>4, PostType
<1>9. ASSUME SendInventory, UNCHANGED tabVars
      PROVE  inbox' \in Seq(Message) /\ Len(inbox') <= MaxInbox + 1
             /\ UNCHANGED <<browser, executing>> /\ OtherTasks
  <2>1. PICK tabs \in {sync.tabs, browser} : Post(<<[type |-> "inventory", tabs |-> tabs]>>)
    BY <1>9 DEF SendInventory
  <2>2. [type |-> "inventory", tabs |-> tabs] \in Message
    BY <1>1 DEF Message, TypeOK, CoreTypeOK
  <2> QED
    BY <1>4, <1>9, <2>1, <2>2, PostType DEF SendInventory, OtherTasks
<1> QED
  BY <1>1, <1>5, <1>6, <1>7, <1>8, <1>9 DEF Extension, OtherTasks

\* A background step keeps the types and is quiet.
LEMMA BackgroundStep ==
  ASSUME TypeOK, Good(reg), RequestsComplete, SyncsPending, Background
  PROVE  TypeOK' /\ Good(reg') /\ Quiet /\ sync'.stage # "cleanup" /\ SyncsPending'
<1>1. /\ LinkTypeOK /\ reg \in Registry /\ req \in [Requests -> Request]
      /\ graceTimers \in SUBSET Sessions
      /\ browser \in SUBSET Tabs /\ executing \in SUBSET Command
      /\ inbox \in Seq(Message) /\ Len(inbox) <= MaxInbox + 1
      /\ batch \in BOOLEAN
  BY DEF TypeOK, CoreTypeOK, RequestsComplete, LinkTypeOK
<1>2. OnlyReleases(reg, reg)
  BY DEF OnlyReleases
<1>3. SUFFICES /\ LinkTypeOK' /\ SyncsPending'
               /\ reg' \in Registry /\ Good(reg') /\ OnlyReleases(reg, reg')
               /\ req' \in [Requests -> Request] /\ \A q \in Requests : Settles(q)
               /\ graceTimers' \in SUBSET Sessions
               /\ browser' \in SUBSET Tabs /\ executing' \in SUBSET Command
               /\ inbox' \in Seq(Message) /\ Len(inbox') <= MaxInbox + 1
               /\ batch' \in BOOLEAN /\ (batch' => batch \/ ~Runnable)
               /\ UNCHANGED tabVars
  BY DEF TypeOK, CoreTypeOK, LinkTypeOK, Quiet, tabVars
<1>4. ASSUME \A q \in Requests : Settles(q), UNCHANGED link
      PROVE  LinkTypeOK' /\ SyncsPending'
  BY <1>1, <1>4 DEF LinkTypeOK, SyncsPending, link, In, Settles, Same
<1>5. CASE \E q \in Requests : TimesOut(q)
  <2>1. PICK q \in Requests : TimesOut(q)
    BY <1>5
  <2>2. req' = Rejected(req, {q}) /\ {q} \in SUBSET Routes
        /\ UNCHANGED <<reg, graceTimers, link, extension, tabVars>> /\ batch' = FALSE
    BY <2>1 DEF TimesOut, Timeout, Macrotask
  <2> QED
    BY <1>1, <1>2, <1>4, <2>2, RejectedSettles DEF extension
<1>6. CASE Syncs
  BY <1>1, <1>6, LinkStep DEF Syncs, Microtask
<1>7. CASE HandleReply
  <2> DEFINE m == Head(inbox)
             q == m.request
  <2>1. m \in Message /\ m.type = "reply"
    BY <1>7, DeliverType DEF HandleReply
  <2>2. q \in Requests /\ m.found \in BOOLEAN
    BY <2>1 DEF Message
  <2>3. /\ req' = IF q \in Routes THEN [req EXCEPT ![q].stage = "resolved", ![q].found = m.found]
                 ELSE req
        /\ UNCHANGED <<reg, graceTimers, tabVars, link, browser, executing>>
    BY <1>7 DEF HandleReply, tabVars
  <2> HIDE DEF m
  <2>4. req' \in [Requests -> Request] /\ \A p \in Requests : Settles(p)
    <3>1. CASE q \in Routes
      <4>1. req[q] \in Request /\ req[q].stage = "routed"
        BY <1>1, <2>2, <3>1 DEF Routes, In
      <4>2. /\ req' \in [Requests -> Request]
            /\ Same(req[q], req'[q]) /\ req'[q].stage = "resolved"
            /\ \A p \in Requests \ {q} : req'[p] = req[p]
        BY <1>1, <2>2, <2>3, <3>1, <4>1 DEF Request, Stages, Same
      <4> QED
        BY <4>1, <4>2 DEF Settles, Same
    <3>2. CASE q \notin Routes
      BY <1>1, <2>3, <3>2, UnchangedSettles
    <3> QED
      BY <3>1, <3>2
  <2> QED
    BY <1>1, <1>2, <1>4, <1>7, <2>3, <2>4, DeliverType DEF HandleReply
<1>8. CASE Deliver(Runnable) /\ HandleInventory /\ UNCHANGED tabVars
  BY <1>1, <1>8, LinkStep, DeliverType
<1>9. CASE OtherMacrotask
  <2>1. CASE (\E s \in Sessions : AgentTask(s)) \/ Tick
    BY <1>1, <1>4, <1>9, <2>1, AgentStep DEF OtherMacrotask, Macrotask, extension
  <2>2. CASE ConnectionTask
    BY <1>1, <1>9, <2>2, LinkStep DEF OtherMacrotask, Macrotask
  <2> QED
    BY <1>9, <2>1, <2>2 DEF OtherMacrotask
<1>10. CASE Extension
  BY <1>1, <1>2, <1>4, <1>10, ExtensionStep, UnchangedSettles
<1>11. CASE UNCHANGED vars
  BY <1>1, <1>2, <1>4, <1>11, UnchangedSettles DEF vars, coreVars, extension
<1> QED
  BY <1>5, <1>6, <1>7, <1>8, <1>9, <1>10, <1>11 DEF Background

\* A session leaves in one way only, and its routes with it.
LEMMA BackgroundSessions ==
  ASSUME TypeOK, Good(reg), Background
  PROVE  \/ SessionsStay(reg, reg')
         \/ Macrotask /\ \E s \in Sessions : AgentDisconnects(s)
<1>1. reg \in Registry
  BY DEF Good
<1>2. SessionsStay(reg, reg)
  BY DEF SessionsStay
<1>3. CASE Syncs
  BY <1>1, <1>2, <1>3, ReleaseTabsOwners DEF Syncs, FinishSync, FailSync, ReconcileTabs
<1>4. CASE OtherMacrotask
  <2>1. ASSUME NEW s \in Sessions, AgentConnects(s)
        PROVE  SessionsStay(reg, reg')
    BY <1>1, <2>1, CreateSessionOwners DEF AgentConnects
  <2>2. ASSUME NEW s \in Sessions, GraceTimerFires(s)
        PROVE  SessionsStay(reg, reg')
    BY <2>2, GraceOwners DEF GraceTimerFires, GraceEnds
  <2>3. CASE Tick
    BY <1>1, <2>3, ElapseOwners DEF Tick
  <2>4. CASE ConnectionTask
    BY <1>2, <2>4 DEF ConnectionTask, ExtensionConnects, ExtensionCloses, StartSync, SyncTimeout
  <2> QED
    BY <1>4, <2>1, <2>2, <2>3, <2>4 DEF OtherMacrotask, AgentTask
<1>5. CASE (\E q \in Requests : TimesOut(q)) \/ HandleReply
           \/ HandleInventory \/ UNCHANGED vars
  BY <1>2, <1>5 DEF TimesOut, Timeout, HandleReply, HandleInventory, vars, coreVars
<1>6. CASE Extension
  BY <1>2, <1>6, ExtensionStep
<1> QED
  BY <1>3, <1>4, <1>5, <1>6 DEF Background

\* Whatever is quiet keeps what is said of the queues and of the closed tabs.
LEMMA BackgroundInv ==
  ASSUME Inv, Background
  PROVE  Inv'
<1>1. TypeOK' /\ Good(reg') /\ Quiet /\ sync'.stage # "cleanup" /\ SyncsPending'
  BY BackgroundStep DEF Inv
<1>2. UNCHANGED <<tails, closed, generation, retiring>> /\ OnlyReleases(reg, reg')
      /\ (batch' => batch \/ ~Runnable)
  BY <1>1 DEF Quiet, tabVars
<1>3. ASSUME NEW q \in Requests
      PROVE  /\ Same(req[q], req'[q])
             /\ \/ req'[q].stage = req[q].stage
                \/ req[q].stage = "routed" /\ req'[q].stage \in {"resolved", "rejected"}
  BY <1>1 DEF Quiet, Settles
<1>4. \A t \in Tabs : \A i \in 1..Len(tails[t]) : tails[t][i] \in Requests
  BY DEF Inv, TypeOK
<1>5. \A r \in retiring : r.tab \in Tabs /\ r.after \in Requests \cup {None}
  BY DEF Inv, TypeOK
<1>6. RequestsComplete'
  BY <1>1, <1>3 DEF Inv, RequestsComplete, Same
<1>7. QueuesInOrder'
  <2>1. ASSUME NEW t \in Tabs, NEW i \in 1..Len(tails[t])
        PROVE  /\ req'[tails[t][i]].tab = t /\ req'[tails[t][i]].stage \in Busy
               /\ req'[tails[t][i]].kind \in {"use", "close"}
               /\ \A j \in 1..Len(tails[t]) : tails[t][i] = tails[t][j] => i = j
    BY <1>3, <1>4 DEF Inv, QueuesInOrder, Busy, Answering, Same
  <2>2. ASSUME NEW q \in Requests, req'[q].stage = "queued"
        PROVE  Queued(q)'
    BY <1>2, <1>3, <2>2 DEF Inv, QueuesInOrder, In, Queued, Same
  <2>3. ASSUME NEW q \in Requests, req'[q].stage \in Answering, req'[q].kind # "claim"
        PROVE  AtHead(q)'
    BY <1>2, <1>3, <2>3 DEF Inv, QueuesInOrder, Answering, AtHead, Same
  <2> QED
    BY <1>2, <2>1, <2>2, <2>3 DEF QueuesInOrder, In
<1>8. AnswersHaveAgents'
  <2>1. SUFFICES ASSUME NEW q \in Requests, req'[q].stage \in {"routed", "resolved"}
                 PROVE  Connected(reg', req'[q].agent)
    BY DEF AnswersHaveAgents, In
  <2>2. /\ req'[q].agent = req[q].agent /\ req[q].agent \in Sessions
        /\ req[q].stage \in {"routed", "resolved"} /\ Connected(reg, req[q].agent)
    BY <1>3, <2>1 DEF Inv, RequestsComplete, AnswersHaveAgents, In, Same
  <2>3. CASE SessionsStay(reg, reg')
    BY <2>2, <2>3 DEF SessionsStay
  <2>4. ASSUME Macrotask, NEW s \in Sessions, AgentDisconnects(s)
        PROVE  Connected(reg', req'[q].agent)
    <3>1. q \in Routes
      BY <2>2, <2>4 DEF Macrotask, Runnable, CoreRunnable, In, Routes
    <3>2. req' = Rejected(req, {p \in Routes \ {} : req[p].agent = s}) /\ reg' = Disconnect(reg, s)
      BY <2>4 DEF AgentDisconnects, AgentLeaves
    <3>3. req[q].agent # s
      BY <2>1, <3>1, <3>2, RejectedType DEF Inv, Routes, In
    <3> QED
      BY <2>2, <3>2, <3>3, DisconnectOwners DEF Inv, Good
  <2> QED
    BY <2>3, <2>4, BackgroundSessions DEF Inv
<1>9. ClosedTabsHaveNoRoutes'
  BY <1>2, <1>3 DEF Inv, ClosedTabsHaveNoRoutes, Routes, In, Same
<1>10. MarksJustified'
  <2>1. OwnedTabsUsable'
    BY <1>2 DEF Inv, TypeOK, MarksJustified, OwnedTabsUsable, OnlyReleases
  <2> QED
    BY <1>2, <1>3, <2>1 DEF Inv, MarksJustified, In, Same
<1>11. StaleIsOver'
  BY <1>2, <1>3 DEF Inv, StaleIsOver, Same
<1>12. SlotsKept'
  BY <1>2, <1>3, <1>5 DEF Inv, SlotsKept, Waiting
<1>13. GenerationsGrow'
  BY <1>2 DEF Inv, GenerationsGrow, Waiting, Runnable
<1>14. LastWaitsLongest'
  <2>1. ASSUME NEW r \in retiring, NEW i \in 1..Len(tails[r.tab])
        PROVE  OfOldTab(r.tab, i)' = OfOldTab(r.tab, i) /\ WaitsPast(r, i)' = WaitsPast(r, i)
    BY <1>2, <1>3, <1>4, <1>5 DEF OfOldTab, WaitsPast, Same
  <2> QED
    BY <1>2, <2>1 DEF Inv, LastWaitsLongest
<1> QED
  BY <1>1, <1>6, <1>7, <1>8, <1>9, <1>10, <1>11, <1>12, <1>13, <1>14 DEF Inv

-----------------------------------------------------------------------------
(* Requests                                                                  *)

\* What is in a queue is a request under way.
LEMMA QueueEntries ==
  ASSUME Inv, NEW t \in Tabs, NEW i \in 1..Len(tails[t])
  PROVE  /\ tails[t][i] \in Requests /\ req[tails[t][i]].tab = t
         /\ req[tails[t][i]].stage \in {"queued", "routed", "resolved", "rejected"}
         /\ req[tails[t][i]].kind \in {"use", "close"}
<1>1. tails[t] \in Seq(Requests)
  BY DEF Inv, TypeOK
<1> QED
  BY <1>1 DEF Inv, QueuesInOrder, Busy, Answering

LEMMA RetiringType ==
  ASSUME Inv, NEW r \in retiring
  PROVE  r.tab \in Tabs /\ r.generation \in Nat \ {0} /\ r.after \in Requests \cup {None}
BY DEF Inv, TypeOK

\* An Agent asks: nothing else can run then, so no removal waits for this slot.
LEMMA AskInv ==
  ASSUME Inv, NEW q \in Requests, NEW s \in Sessions, NEW kind \in Kinds, NEW t \in Tabs,
         AgentRequests(q, s, kind, t)
  PROVE  Inv'
<1>1. /\ UNCHANGED <<reg, graceTimers, tails, closed, generation, retiring, link, extension>>
      /\ ~Runnable /\ batch' = FALSE /\ req[q].stage = "free" /\ conn # 0
  BY DEF AgentRequests, Macrotask, Unused
<1>2. req' = [req EXCEPT ![q] = [FreeRequest EXCEPT !.stage = "sync", !.kind = kind,
                                   !.agent = s, !.tab = t, !.awaits = conn]]
  BY DEF AgentRequests
<1>3. conn \in Connections
  BY <1>1, CoreBoundsAssumption DEF Inv, TypeOK, CoreTypeOK, Connections
<1>4. /\ req' \in [Requests -> Request]
      /\ req'[q].stage = "sync" /\ req'[q].kind = kind /\ req'[q].agent = s /\ req'[q].tab = t
      /\ req'[q].awaits = conn /\ req'[q].generation = 0 /\ req'[q].stale = FALSE
      /\ \A p \in Requests \ {q} : req'[p] = req[p]
  <2> DEFINE new == [FreeRequest EXCEPT !.stage = "sync", !.kind = kind,
                                        !.agent = s, !.tab = t, !.awaits = conn]
  <2>1. conn \in 0..MaxConnections
    BY <1>3, CoreBoundsAssumption DEF Connections
  <2>2. /\ new \in Request
        /\ new.stage = "sync" /\ new.kind = kind /\ new.agent = s /\ new.tab = t
        /\ new.awaits = conn /\ new.generation = 0 /\ new.stale = FALSE
    BY <2>1 DEF FreeRequest, Request, Stages
  <2>3. req' = [req EXCEPT ![q] = new] /\ req \in [Requests -> Request]
    BY <1>2 DEF Inv, TypeOK
  <2> HIDE DEF new
  <2> QED
    BY <2>2, <2>3
<1>5. \A x \in Tabs : \A i \in 1..Len(tails[x]) : tails[x][i] \in Requests \ {q}
  BY <1>1, QueueEntries
<1>6. \A r \in retiring : r.tab \in Tabs /\ Waiting(r)
  BY <1>1 DEF Inv, TypeOK, Runnable
<1>7. TypeOK' /\ Good(reg')
  BY <1>1, <1>4 DEF Inv, TypeOK, CoreTypeOK, link, extension
<1>8. RequestsComplete' /\ AnswersHaveAgents'
  BY <1>1, <1>3, <1>4 DEF Inv, RequestsComplete, AnswersHaveAgents, In, link
<1>9. QueuesInOrder'
  <2>1. ASSUME NEW x \in Tabs, NEW i \in 1..Len(tails[x])
        PROVE  /\ req'[tails[x][i]].tab = x /\ req'[tails[x][i]].stage \in Busy
               /\ req'[tails[x][i]].kind \in {"use", "close"}
               /\ \A j \in 1..Len(tails[x]) : tails[x][i] = tails[x][j] => i = j
    BY <1>4, <1>5 DEF Inv, QueuesInOrder
  <2>2. ASSUME NEW p \in Requests, req'[p].stage = "queued"
        PROVE  Queued(p)'
    BY <1>1, <1>4, <2>2 DEF Inv, QueuesInOrder, In, Queued
  <2>3. ASSUME NEW p \in Requests, req'[p].stage \in Answering, req'[p].kind # "claim"
        PROVE  AtHead(p)'
    BY <1>1, <1>4, <2>3 DEF Inv, QueuesInOrder, Answering, AtHead
  <2> QED
    BY <1>1, <2>1, <2>2, <2>3 DEF QueuesInOrder, In
<1>10. ClosedTabsHaveNoRoutes' /\ StaleIsOver'
  BY <1>1, <1>4 DEF Inv, ClosedTabsHaveNoRoutes, Routes, In, StaleIsOver
<1>11. SyncsPending'
  BY <1>1, <1>4 DEF Inv, SyncsPending, In, link
<1>12. MarksJustified'
  BY <1>1, <1>4 DEF Inv, MarksJustified, OwnedTabsUsable, In
<1>13. SlotsKept' /\ GenerationsGrow'
  BY <1>1, <1>6 DEF Inv, SlotsKept, GenerationsGrow, Waiting
<1>14. LastWaitsLongest'
  <2>1. ASSUME NEW r \in retiring, NEW i \in 1..Len(tails[r.tab])
        PROVE  OfOldTab(r.tab, i)' = OfOldTab(r.tab, i) /\ WaitsPast(r, i)' = WaitsPast(r, i)
    BY <1>1, <1>4, <1>5, <1>6 DEF OfOldTab, WaitsPast
  <2> QED
    BY <1>1, <2>1 DEF Inv, LastWaitsLongest
<1> QED
  BY <1>7, <1>8, <1>9, <1>10, <1>11, <1>12, <1>13, <1>14 DEF Inv

\* A request that is in no queue is answered: refused, a release, or a claim.
LEMMA AnswerInv ==
  ASSUME Inv, NEW q \in Requests, Refuse(q) \/ Release(q) \/ FinishClaim(q)
  PROVE  Inv'
<1>1. /\ UNCHANGED <<graceTimers, tails, generation, retiring, link, extension>>
      /\ batch' = FALSE /\ Answer(q)
  BY DEF Refuse, Release, FinishClaim, Microtask
<1>2. \/ req[q].stage = "sync"
      \/ req[q].stage \in {"resolved", "rejected"} /\ req[q].kind = "claim"
  BY DEF Refuse, Release, FinishClaim, Woken
<1>3. req[q].agent \in Sessions /\ req[q].tab \in Tabs
  BY <1>2 DEF Inv, RequestsComplete
<1>4. /\ Good(reg') /\ SessionsStay(reg, reg') /\ closed' \in SUBSET closed
      /\ \A t \in closed' : reg'.owner[t] \in {None, reg.owner[t]}
  <2>1. reg \in Registry /\ closed \in SUBSET Tabs /\ Good(reg)
    BY DEF Inv, TypeOK, CoreTypeOK
  <2>2. CASE UNCHANGED <<reg, closed>>
    BY <2>1, <2>2 DEF SessionsStay
  <2>3. CASE Release(q)
    BY <1>3, <2>1, <2>3, ReleaseTabsGood, ReleaseTabsOwners DEF Release, OnlyReleases
  <2>4. CASE FinishClaim(q) /\ ~UNCHANGED <<reg, closed>>
    <3>1. /\ req[q].stage = "resolved" /\ MayClaim(reg, req[q].agent, {req[q].tab})
          /\ reg' = ClaimTabs(reg, req[q].agent, {req[q].tab})
          /\ closed' = closed \ {req[q].tab}
      BY <2>4 DEF FinishClaim
    <3>2. Connected(reg, req[q].agent)
      BY <3>1 DEF Inv, AnswersHaveAgents, In
    <3> QED
      BY <1>3, <2>1, <3>1, <3>2, ClaimTabsGood, ClaimTabsOwners
  <2> QED
    BY <2>2, <2>3, <2>4 DEF Refuse
<1>5. /\ req' \in [Requests -> Request]
      /\ req'[q].stage = "free" /\ req'[q].stale = FALSE
      /\ \A p \in Requests \ {q} : req'[p] = req[p]
  BY <1>1, AnswerType DEF Inv, FreeRequest
<1>6. \A x \in Tabs : \A i \in 1..Len(tails[x]) : tails[x][i] \in Requests \ {q}
  BY <1>2, QueueEntries
<1>7. TypeOK'
  BY <1>1, <1>4, <1>5 DEF Inv, TypeOK, CoreTypeOK, link, extension, Good
<1>8. RequestsComplete'
  BY <1>1, <1>5 DEF Inv, RequestsComplete, link
<1>9. AnswersHaveAgents'
  BY <1>4, <1>5 DEF Inv, RequestsComplete, AnswersHaveAgents, In, SessionsStay
<1>10. QueuesInOrder'
  <2>1. ASSUME NEW x \in Tabs, NEW i \in 1..Len(tails[x])
        PROVE  /\ req'[tails[x][i]].tab = x /\ req'[tails[x][i]].stage \in Busy
               /\ req'[tails[x][i]].kind \in {"use", "close"}
               /\ \A j \in 1..Len(tails[x]) : tails[x][i] = tails[x][j] => i = j
    BY <1>5, <1>6 DEF Inv, QueuesInOrder
  <2>2. ASSUME NEW p \in Requests, req'[p].stage = "queued"
        PROVE  Queued(p)'
    BY <1>1, <1>5, <2>2 DEF Inv, QueuesInOrder, In, Queued
  <2>3. ASSUME NEW p \in Requests, req'[p].stage \in Answering, req'[p].kind # "claim"
        PROVE  AtHead(p)'
    BY <1>1, <1>5, <2>3 DEF Inv, QueuesInOrder, Answering, AtHead
  <2> QED
    BY <1>1, <2>1, <2>2, <2>3 DEF QueuesInOrder, In
<1>11. ClosedTabsHaveNoRoutes'
  BY <1>4, <1>5 DEF Inv, ClosedTabsHaveNoRoutes, Routes, In
<1>12. SyncsPending'
  BY <1>1, <1>5 DEF Inv, SyncsPending, In, link
<1>13. MarksJustified'
  <2>1. OwnedTabsUsable'
    BY <1>4 DEF Inv, MarksJustified, OwnedTabsUsable
  <2> QED
    BY <1>1, <1>4, <1>5, <2>1 DEF Inv, MarksJustified, In
<1>14. StaleIsOver' /\ SlotsKept' /\ GenerationsGrow'
  <2>1. StaleIsOver'
    BY <1>1, <1>5 DEF Inv, StaleIsOver
  <2>2. SlotsKept'
    BY <1>1, <1>5, RetiringType DEF Inv, SlotsKept, Waiting
  <2>3. GenerationsGrow'
    BY <1>1 DEF Inv, GenerationsGrow, Waiting
  <2> QED
    BY <2>1, <2>2, <2>3
<1>15. LastWaitsLongest'
  <2>1. ASSUME NEW r \in retiring, NEW i \in 1..Len(tails[r.tab])
        PROVE  OfOldTab(r.tab, i)' = OfOldTab(r.tab, i) /\ WaitsPast(r, i)' = WaitsPast(r, i)
    BY <1>1, <1>5, <1>6 DEF Inv, TypeOK, OfOldTab, WaitsPast
  <2> QED
    BY <1>1, <2>1 DEF Inv, LastWaitsLongest
<1> QED
  BY <1>4, <1>7, <1>8, <1>9, <1>10, <1>11, <1>12, <1>13, <1>14, <1>15 DEF Inv

\* A command is sent: a claim, or the first of a queue, for a tab that is open.
LEMMA SendInv ==
  ASSUME Inv, NEW q \in Requests, StartClaim(q) \/ RunQueued(q)
  PROVE  Inv'
<1>1. /\ UNCHANGED <<reg, graceTimers, tails, closed, generation, retiring, link>>
      /\ batch' = FALSE /\ Send(q) /\ conn # 0 /\ Connected(reg, req[q].agent)
  BY DEF StartClaim, RunQueued, MayRun, Microtask
<1>2. \/ req[q].stage = "sync" /\ req[q].kind = "claim"
      \/ req[q].stage = "queued" /\ AtHead(q) /\ MayRun(q)
  BY DEF StartClaim, RunQueued, Woken
<1>3. req[q].stage # "free" /\ req[q].kind # "release"
  BY <1>2 DEF Inv, RequestsComplete
<1>4. req[q].stale = FALSE
  <2>1. req[q].stale \in BOOLEAN
    BY DEF Inv, TypeOK, Request
  <2>2. req[q].stale => req[q].generation < generation[req[q].tab] /\ req[q].stage = "queued"
    BY DEF Inv, StaleIsOver
  <2>3. req[q].generation \in Nat
    BY DEF Inv, TypeOK, Request
  <2> QED
    BY <1>2, <2>1, <2>2, <2>3 DEF MayRun
<1>5. /\ req' \in [Requests -> Request] /\ executing' \in SUBSET Command
      /\ req'[q].stage = "routed" /\ Same(req[q], req'[q])
      /\ \A p \in Requests \ {q} : req'[p] = req[p]
      /\ UNCHANGED <<browser, inbox>>
  BY <1>1, <1>3, SendType DEF Inv
<1>6. TypeOK' /\ Good(reg')
  BY <1>1, <1>5 DEF Inv, TypeOK, CoreTypeOK, link
<1>7. RequestsComplete'
  BY <1>1, <1>3, <1>5 DEF Inv, RequestsComplete, link, Same
<1>8. AnswersHaveAgents'
  BY <1>1, <1>5 DEF Inv, AnswersHaveAgents, In, Same
<1>9. QueuesInOrder'
  <2>1. ASSUME NEW x \in Tabs, NEW i \in 1..Len(tails[x])
        PROVE  /\ req'[tails[x][i]].tab = x /\ req'[tails[x][i]].stage \in Busy
               /\ req'[tails[x][i]].kind \in {"use", "close"}
               /\ \A j \in 1..Len(tails[x]) : tails[x][i] = tails[x][j] => i = j
    <3>1. req'[tails[x][i]].tab = x /\ req'[tails[x][i]].stage \in Busy
          /\ req'[tails[x][i]].kind \in {"use", "close"}
      BY <1>5, QueueEntries DEF Same, Busy, Answering
    <3> QED
      BY <3>1 DEF Inv, QueuesInOrder
  <2>2. ASSUME NEW p \in Requests, req'[p].stage = "queued"
        PROVE  Queued(p)'
    BY <1>1, <1>5, <2>2 DEF Inv, QueuesInOrder, In, Queued
  <2>3. ASSUME NEW p \in Requests, req'[p].stage \in Answering, req'[p].kind # "claim"
        PROVE  AtHead(p)'
    BY <1>1, <1>2, <1>5, <2>3 DEF Inv, QueuesInOrder, Answering, AtHead, Same
  <2> QED
    BY <1>1, <2>1, <2>2, <2>3 DEF QueuesInOrder, In
<1>10. ClosedTabsHaveNoRoutes'
  BY <1>1, <1>2, <1>5 DEF Inv, ClosedTabsHaveNoRoutes, Routes, In, Same, MayRun
<1>11. SyncsPending'
  BY <1>1, <1>5 DEF Inv, SyncsPending, In, link
<1>12. MarksJustified'
  BY <1>1, <1>5 DEF Inv, MarksJustified, OwnedTabsUsable, In
<1>13. StaleIsOver'
  BY <1>1, <1>4, <1>5 DEF Inv, StaleIsOver, Same
<1>14. SlotsKept' /\ GenerationsGrow'
  <2>1. SlotsKept'
    BY <1>1, <1>3, <1>5, RetiringType DEF Inv, SlotsKept, Waiting
  <2>2. GenerationsGrow'
    BY <1>1 DEF Inv, GenerationsGrow, Waiting
  <2> QED
    BY <2>1, <2>2
<1>15. LastWaitsLongest'
  <2>1. ASSUME NEW r \in retiring, NEW i \in 1..Len(tails[r.tab])
        PROVE  OfOldTab(r.tab, i)' = OfOldTab(r.tab, i) /\ WaitsPast(r, i)' = WaitsPast(r, i)
    BY <1>1, <1>5, RetiringType, QueueEntries DEF OfOldTab, WaitsPast, Same
  <2> QED
    BY <1>1, <2>1 DEF Inv, LastWaitsLongest
<1> QED
  BY <1>6, <1>7, <1>8, <1>9, <1>10, <1>11, <1>12, <1>13, <1>14, <1>15 DEF Inv

\* Append and Tail, by position.
LEMMA AppendFacts ==
  ASSUME NEW S, NEW old \in Seq(S), NEW e \in S
  PROVE  /\ Len(Append(old, e)) = Len(old) + 1
         /\ \A i \in 1..Len(old) : Append(old, e)[i] = old[i] /\ i \in 1..Len(Append(old, e))
         /\ \A i \in 1..Len(Append(old, e)) :
              i \in 1..Len(old) \/ (i = Len(old) + 1 /\ Append(old, e)[i] = e)
         /\ old # <<>> => Append(old, e) # <<>> /\ Head(Append(old, e)) = Head(old)
OBVIOUS

\* A request queues for a tab its Agent owns, which is therefore not marked as
\* closed, and no continuation of a removal waits for it.
LEMMA EnqueueInv ==
  ASSUME Inv, NEW q \in Requests, Enqueue(q)
  PROVE  Inv'
<1> DEFINE t == req[q].tab
<1>1. /\ UNCHANGED <<reg, graceTimers, closed, generation, retiring, link, extension>>
      /\ batch' = FALSE /\ req[q].stage = "sync" /\ req[q].kind \in {"use", "close"}
      /\ Owns(reg, req[q].agent, t)
      /\ tails' = [tails EXCEPT ![t] = Append(@, q)]
  BY DEF Enqueue, Microtask, Woken
<1>2. t \in Tabs /\ req[q].agent \in Sessions /\ req[q].awaits \in Connections
  BY <1>1 DEF Inv, RequestsComplete
<1>3. /\ req' \in [Requests -> Request]
      /\ req'[q].stage = "queued" /\ req'[q].kind = req[q].kind /\ req'[q].agent = req[q].agent
      /\ req'[q].tab = t /\ req'[q].awaits = req[q].awaits
      /\ req'[q].generation = generation[t] /\ req'[q].stale = FALSE
      /\ \A p \in Requests \ {q} : req'[p] = req[p]
  <2>1. req[q] \in Request /\ generation[t] \in Nat /\ req \in [Requests -> Request]
    BY <1>2 DEF Inv, TypeOK
  <2>2. req[q].stale = FALSE
    BY <1>1, <2>1 DEF Inv, StaleIsOver, Request
  <2>3. req' = [req EXCEPT ![q].stage = "queued", ![q].generation = generation[t]]
    BY DEF Enqueue
  <2> HIDE DEF t
  <2> QED
    BY <2>1, <2>2, <2>3 DEF Request, Stages, t
<1>4. t \notin closed
  BY <1>1, <1>2, NoneAssumption DEF Inv, MarksJustified, OwnedTabsUsable, Owns
<1>5. /\ \A x \in Tabs : tails[x] \in Seq(Requests)
      /\ tails' \in [Tabs -> Seq(Requests)]
      /\ tails'[t] = Append(tails[t], q)
      /\ \A x \in Tabs \ {t} : tails'[x] = tails[x]
  BY <1>1, <1>2 DEF Inv, TypeOK
<1> HIDE DEF t
<1>6. \A x \in Tabs :
        /\ Len(tails'[x]) = Len(tails[x]) + (IF x = t THEN 1 ELSE 0)
        /\ \A i \in 1..Len(tails[x]) : tails'[x][i] = tails[x][i] /\ i \in 1..Len(tails'[x])
        /\ \A i \in 1..Len(tails'[x]) :
             i \in 1..Len(tails[x]) \/ (x = t /\ i = Len(tails[t]) + 1 /\ tails'[x][i] = q)
        /\ tails[x] # <<>> => tails'[x] # <<>> /\ Head(tails'[x]) = Head(tails[x])
  <2> SUFFICES ASSUME NEW x \in Tabs
               PROVE  /\ Len(tails'[x]) = Len(tails[x]) + (IF x = t THEN 1 ELSE 0)
                      /\ \A i \in 1..Len(tails[x]) : tails'[x][i] = tails[x][i] /\ i \in 1..Len(tails'[x])
                      /\ \A i \in 1..Len(tails'[x]) :
                           i \in 1..Len(tails[x]) \/ (x = t /\ i = Len(tails[t]) + 1 /\ tails'[x][i] = q)
                      /\ tails[x] # <<>> => tails'[x] # <<>> /\ Head(tails'[x]) = Head(tails[x])
    OBVIOUS
  <2>1. CASE x = t
    <3>1. tails[t] \in Seq(Requests) /\ tails'[t] = Append(tails[t], q)
      BY <1>2, <1>5
    <3> QED
      BY <2>1, <3>1, AppendFacts
  <2>2. CASE x # t
    <3>1. tails'[x] = tails[x] /\ Len(tails[x]) \in Nat
      BY <1>5, <2>2
    <3> QED
      BY <2>2, <3>1
  <2> QED
    BY <2>1, <2>2
<1>7. \A x \in Tabs : \A i \in 1..Len(tails[x]) : tails[x][i] \in Requests \ {q}
  BY <1>1, QueueEntries
<1>8. \A r \in retiring : r.tab \in Tabs /\ r.after # q
  <2>1. SUFFICES ASSUME NEW r \in retiring, r.after = q
                 PROVE  FALSE
    BY RetiringType
  <2>2. ~Waiting(r)
    BY <1>7, <2>1, RetiringType DEF Waiting
  <2> QED
    BY <1>1, <2>1, <2>2, RequestsAssumption DEF Inv, SlotsKept
<1>9. \A r \in retiring : Waiting(r)' = Waiting(r)
  BY <1>1, <1>6, <1>8 DEF Waiting
<1>10. TypeOK' /\ Good(reg')
  BY <1>1, <1>3, <1>5 DEF Inv, TypeOK, CoreTypeOK, link, extension
<1>11. RequestsComplete' /\ AnswersHaveAgents'
  BY <1>1, <1>2, <1>3 DEF Inv, RequestsComplete, AnswersHaveAgents, In, link
<1>12. QueuesInOrder'
  <2>1. ASSUME NEW x \in Tabs, NEW i \in 1..Len(tails'[x])
        PROVE  /\ req'[tails'[x][i]].tab = x /\ req'[tails'[x][i]].stage \in Busy
               /\ req'[tails'[x][i]].kind \in {"use", "close"}
               /\ \A j \in 1..Len(tails'[x]) : tails'[x][i] = tails'[x][j] => i = j
    <3>1. CASE i \in 1..Len(tails[x])
      <4>1. tails'[x][i] = tails[x][i] /\ tails[x][i] \in Requests \ {q}
            /\ req'[tails[x][i]] = req[tails[x][i]]
        BY <1>3, <1>6, <1>7, <3>1
      <4>2. \A j \in 1..Len(tails[x]) : tails[x][i] = tails[x][j] => i = j
        BY <3>1 DEF Inv, QueuesInOrder
      <4>3. \A j \in 1..Len(tails'[x]) : tails'[x][i] = tails'[x][j] => i = j
        BY <1>6, <4>1, <4>2
      <4> QED
        BY <3>1, <4>1, <4>3, QueueEntries DEF Busy, Answering
    <3>2. CASE i \notin 1..Len(tails[x])
      BY <1>1, <1>3, <1>6, <1>7, <3>2 DEF Busy
    <3> QED
      BY <3>1, <3>2
  <2>2. ASSUME NEW p \in Requests, req'[p].stage = "queued"
        PROVE  Queued(p)'
    <3>1. CASE p = q
      BY <1>2, <1>3, <1>5, <3>1 DEF Queued
    <3>2. CASE p # q
      <4>1. req'[p] = req[p] /\ req[p].tab \in Tabs /\ Queued(p)
        BY <1>3, <2>2, <3>2 DEF Inv, RequestsComplete, QueuesInOrder, In
      <4>2. PICK i \in 1..Len(tails[req[p].tab]) : tails[req[p].tab][i] = p
        BY <4>1 DEF Queued
      <4>3. i \in 1..Len(tails'[req[p].tab]) /\ tails'[req[p].tab][i] = p
        BY <1>6, <4>1, <4>2
      <4> QED
        BY <4>1, <4>3 DEF Queued
    <3> QED
      BY <3>1, <3>2
  <2>3. ASSUME NEW p \in Requests, req'[p].stage \in Answering, req'[p].kind # "claim"
        PROVE  AtHead(p)'
    <3>1. req'[p] = req[p] /\ req[p].tab \in Tabs /\ AtHead(p)
      BY <1>3, <2>3 DEF Inv, RequestsComplete, QueuesInOrder, Answering
    <3> QED
      BY <1>6, <3>1 DEF AtHead
  <2> QED
    BY <2>1, <2>2, <2>3 DEF QueuesInOrder, In
<1>13. ClosedTabsHaveNoRoutes'
  BY <1>1, <1>3 DEF Inv, ClosedTabsHaveNoRoutes, Routes, In
<1>14. SyncsPending'
  BY <1>1, <1>3 DEF Inv, SyncsPending, In, link
<1>15. MarksJustified'
  BY <1>1, <1>3, <1>4 DEF Inv, MarksJustified, OwnedTabsUsable, In
<1>16. StaleIsOver'
  <2>1. generation[t] \in Nat
    BY <1>2 DEF Inv, TypeOK
  <2> QED
    BY <1>1, <1>3, <2>1 DEF Inv, StaleIsOver
<1>17. SlotsKept' /\ GenerationsGrow'
  <2>1. SlotsKept'
    BY <1>1, <1>3, <1>8, <1>9, RetiringType DEF Inv, SlotsKept
  <2>2. GenerationsGrow'
    BY <1>1, <1>9 DEF Inv, GenerationsGrow
  <2> QED
    BY <2>1, <2>2
<1>18. LastWaitsLongest'
  <2>1. SUFFICES ASSUME NEW r \in retiring, r.generation = generation[r.tab],
                        NEW i \in 1..Len(tails'[r.tab]), OfOldTab(r.tab, i)'
                 PROVE  WaitsPast(r, i)'
    BY <1>1 DEF LastWaitsLongest
  <2>2. i \in 1..Len(tails[r.tab]) /\ OfOldTab(r.tab, i)
    BY <1>1, <1>3, <1>6, <1>7, <1>8, <2>1 DEF OfOldTab
  <2>3. WaitsPast(r, i)
    BY <2>1, <2>2 DEF Inv, LastWaitsLongest
  <2>4. PICK j \in i..Len(tails[r.tab]) : tails[r.tab][j] = r.after
    BY <2>3 DEF WaitsPast
  <2>5. r.tab \in Tabs /\ Len(tails[r.tab]) \in Nat
    BY <1>5, <1>8
  <2>6. j \in 1..Len(tails[r.tab]) /\ i <= j
    BY <2>2, <2>4, <2>5
  <2>7. j \in 1..Len(tails'[r.tab]) /\ tails'[r.tab][j] = r.after
    BY <1>6, <2>4, <2>5, <2>6
  <2>8. j \in i..Len(tails'[r.tab])
    BY <2>2, <2>6, <2>7
  <2> QED
    BY <2>7, <2>8 DEF WaitsPast
<1> QED
  BY <1>10, <1>11, <1>12, <1>13, <1>14, <1>15, <1>16, <1>17, <1>18 DEF Inv

LEMMA TailFacts ==
  ASSUME NEW S, NEW old \in Seq(S), old # <<>>
  PROVE  /\ Tail(old) \in Seq(S) /\ Len(Tail(old)) = Len(old) - 1 /\ Head(old) = old[1]
         /\ 1 \in 1..Len(old)
         /\ \A i \in 1..Len(Tail(old)) : Tail(old)[i] = old[i + 1] /\ i + 1 \in 2..Len(old)
         /\ \A i \in 1..Len(old) : i # 1 => i - 1 \in 1..Len(Tail(old)) /\ Tail(old)[i - 1] = old[i]
OBVIOUS

\* The first of a queue is answered, and the next can run.
LEMMA LeaveInv ==
  ASSUME Inv, NEW q \in Requests, DropQueued(q) \/ FinishQueued(q)
  PROVE  Inv'
<1> DEFINE t == req[q].tab
<1>1. /\ UNCHANGED <<reg, graceTimers, closed, generation, retiring, link, extension>>
      /\ batch' = FALSE /\ Answer(q)
      /\ req[q].stage \in {"queued", "resolved", "rejected"}
      /\ tails' = [tails EXCEPT ![t] = Tail(@)]
  BY DEF DropQueued, FinishQueued, Microtask, Leave
<1>2. t \in Tabs
  BY <1>1 DEF Inv, RequestsComplete
<1>3. tails[t] # <<>> /\ Head(tails[t]) = q
  <2>1. AtHead(q)
    BY DEF DropQueued, FinishQueued, Inv, QueuesInOrder, Answering
  <2> QED
    BY <2>1 DEF AtHead
<1>4. /\ req' \in [Requests -> Request]
      /\ req'[q].stage = "free" /\ req'[q].stale = FALSE
      /\ \A p \in Requests \ {q} : req'[p] = req[p]
  BY <1>1, AnswerType DEF Inv, FreeRequest
<1>5. /\ \A x \in Tabs : tails[x] \in Seq(Requests) /\ Len(tails[x]) \in Nat
      /\ tails' \in [Tabs -> Seq(Requests)]
      /\ tails'[t] = Tail(tails[t])
      /\ \A x \in Tabs \ {t} : tails'[x] = tails[x]
  <2>1. \A x \in Tabs : tails[x] \in Seq(Requests)
    BY DEF Inv, TypeOK
  <2>2. Tail(tails[t]) \in Seq(Requests)
    BY <1>2, <1>3, <2>1
  <2>3. tails \in [Tabs -> Seq(Requests)]
    BY DEF Inv, TypeOK
  <2> HIDE DEF t
  <2> QED
    BY <1>1, <1>2, <2>1, <2>2, <2>3
<1> HIDE DEF t
\* Where the entries of the new queues were, and where those of the old ones go.
<1>6. ASSUME NEW x \in Tabs
      PROVE  /\ \A i \in 1..Len(tails'[x]) :
                  /\ i + (IF x = t THEN 1 ELSE 0) \in 1..Len(tails[x])
                  /\ tails'[x][i] = tails[x][i + (IF x = t THEN 1 ELSE 0)]
                  /\ tails'[x][i] \in Requests \ {q}
             /\ \A i \in 1..Len(tails[x]) : tails[x][i] # q =>
                  /\ i - (IF x = t THEN 1 ELSE 0) \in 1..Len(tails'[x])
                  /\ tails'[x][i - (IF x = t THEN 1 ELSE 0)] = tails[x][i]
  <2>1. CASE x = t
    <3>1. \A i \in 1..Len(tails[t]) : i # 1 => tails[t][i] \in Requests \ {q}
      <4>1. tails[t][1] = q /\ 1 \in 1..Len(tails[t])
        BY <1>2, <1>3, <1>5, TailFacts
      <4> QED
        BY <1>2, <1>5, <4>1, QueueEntries DEF Inv, QueuesInOrder
    <3>2. /\ \A i \in 1..Len(tails'[t]) : tails'[t][i] = tails[t][i + 1] /\ i + 1 \in 2..Len(tails[t])
          /\ \A i \in 1..Len(tails[t]) : i # 1 => i - 1 \in 1..Len(tails'[t])
                                              /\ tails'[t][i - 1] = tails[t][i]
          /\ tails[t][1] = q
      BY <1>2, <1>3, <1>5, TailFacts
    <3>3. \A i \in 1..Len(tails'[t]) : i + 1 \in 1..Len(tails[t]) /\ i + 1 # 1
      BY <1>2, <1>5, <3>2
    <3> QED
      BY <2>1, <3>1, <3>2, <3>3
  <2>2. CASE x # t
    <3>1. tails'[x] = tails[x]
      BY <1>5, <2>2
    <3>2. \A i \in 1..Len(tails[x]) : tails[x][i] \in Requests \ {q}
      BY <2>2, QueueEntries DEF t
    <3> QED
      BY <2>2, <3>1, <3>2
  <2> QED
    BY <2>1, <2>2
<1>7. \A r \in retiring : r.tab \in Tabs /\ (Waiting(r)' => Waiting(r))
                           /\ (Waiting(r) => Waiting(r)' \/ r.after = q)
  BY <1>1, <1>6, RetiringType DEF Waiting
<1>8. TypeOK' /\ Good(reg')
  BY <1>1, <1>4, <1>5 DEF Inv, TypeOK, CoreTypeOK, link, extension
<1>9. RequestsComplete' /\ AnswersHaveAgents'
  BY <1>1, <1>4 DEF Inv, RequestsComplete, AnswersHaveAgents, In, link
<1>10. QueuesInOrder'
  <2>1. ASSUME NEW x \in Tabs, NEW i \in 1..Len(tails'[x])
        PROVE  /\ req'[tails'[x][i]].tab = x /\ req'[tails'[x][i]].stage \in Busy
               /\ req'[tails'[x][i]].kind \in {"use", "close"}
               /\ \A j \in 1..Len(tails'[x]) : tails'[x][i] = tails'[x][j] => i = j
    <3> DEFINE d == IF x = t THEN 1 ELSE 0
    <3>1. d \in Nat
      OBVIOUS
    <3> HIDE DEF d
    <3>2. \A j \in 1..Len(tails'[x]) :
            j + d \in 1..Len(tails[x]) /\ tails'[x][j] = tails[x][j + d] /\ tails'[x][j] \in Requests \ {q}
      BY <1>6 DEF d
    <3>3. req'[tails'[x][i]] = req[tails[x][i + d]]
      BY <1>4, <3>2
    <3>4. \A j \in 1..Len(tails'[x]) : tails'[x][i] = tails'[x][j] => i + d = j + d
      BY <3>2 DEF Inv, QueuesInOrder
    <3> QED
      BY <3>1, <3>2, <3>3, <3>4, QueueEntries DEF Busy, Answering
  <2>2. ASSUME NEW p \in Requests, req'[p].stage = "queued"
        PROVE  Queued(p)'
    <3>1. p # q /\ req'[p] = req[p] /\ req[p].tab \in Tabs /\ Queued(p)
      BY <1>4, <2>2 DEF Inv, RequestsComplete, QueuesInOrder, In
    <3>2. PICK i \in 1..Len(tails[req[p].tab]) : tails[req[p].tab][i] = p
      BY <3>1 DEF Queued
    <3>3. \E j \in 1..Len(tails'[req[p].tab]) : tails'[req[p].tab][j] = p
      BY <1>6, <3>1, <3>2
    <3> QED
      BY <3>1, <3>3 DEF Queued
  <2>3. ASSUME NEW p \in Requests, req'[p].stage \in Answering, req'[p].kind # "claim"
        PROVE  AtHead(p)'
    <3>1. p # q /\ req'[p] = req[p] /\ req[p].tab \in Tabs /\ AtHead(p)
      BY <1>4, <2>3 DEF Inv, RequestsComplete, QueuesInOrder, Answering
    <3>2. req[p].tab # t
      BY <1>3, <3>1 DEF AtHead
    <3> QED
      BY <1>5, <3>1, <3>2 DEF AtHead
  <2> QED
    BY <2>1, <2>2, <2>3 DEF QueuesInOrder, In
<1>11. ClosedTabsHaveNoRoutes' /\ StaleIsOver'
  BY <1>1, <1>4 DEF Inv, ClosedTabsHaveNoRoutes, Routes, In, StaleIsOver
<1>12. SyncsPending'
  BY <1>1, <1>4 DEF Inv, SyncsPending, In, link
<1>13. MarksJustified'
  BY <1>1, <1>4 DEF Inv, MarksJustified, OwnedTabsUsable, In
<1>14. SlotsKept' /\ GenerationsGrow'
  <2>1. SlotsKept'
    BY <1>1, <1>4, <1>7, RetiringType DEF Inv, SlotsKept
  <2>2. GenerationsGrow'
    BY <1>1, <1>7 DEF Inv, GenerationsGrow
  <2> QED
    BY <2>1, <2>2
<1>15. LastWaitsLongest'
  <2>1. SUFFICES ASSUME NEW r \in retiring, r.generation = generation[r.tab],
                        NEW i \in 1..Len(tails'[r.tab]), OfOldTab(r.tab, i)'
                 PROVE  WaitsPast(r, i)'
    BY <1>1 DEF LastWaitsLongest
  <2> DEFINE x == r.tab
             d == IF x = t THEN 1 ELSE 0
  <2>2. d \in {0, 1} /\ x \in Tabs /\ Len(tails[x]) \in Nat
    BY <1>5, <1>7
  <2>3. i + d \in 1..Len(tails[x]) /\ tails'[x][i] = tails[x][i + d] /\ tails'[x][i] \in Requests \ {q}
    BY <1>6, <2>2
  <2>4. OfOldTab(x, i + d)
    BY <1>1, <1>4, <2>1, <2>3 DEF OfOldTab
  <2>5. PICK j \in (i + d)..Len(tails[x]) : tails[x][j] = r.after
    BY <2>1, <2>3, <2>4 DEF Inv, LastWaitsLongest, WaitsPast
  <2>6. j \in 1..Len(tails[x]) /\ i + d <= j /\ i \in Nat
    BY <2>2, <2>3, <2>5
  <2>7. tails[x][j] # q
    <3>1. CASE d = 0
      BY <2>2, <2>6, <3>1, QueueEntries DEF t
    <3>2. CASE d = 1
      <4>1. tails[x][1] = q /\ 1 \in 1..Len(tails[x]) /\ j # 1
        BY <1>3, <1>5, <2>2, <2>6, <3>2, TailFacts
      <4> QED
        BY <2>2, <2>6, <4>1 DEF Inv, QueuesInOrder
    <3> QED
      BY <2>2, <3>1, <3>2
  <2>8. j - d \in 1..Len(tails'[x]) /\ tails'[x][j - d] = r.after
    BY <1>6, <2>2, <2>5, <2>6, <2>7
  <2>9. j - d \in i..Len(tails'[x])
    BY <2>2, <2>6, <2>8
  <2> QED
    BY <2>8, <2>9 DEF WaitsPast
<1> QED
  BY <1>8, <1>9, <1>10, <1>11, <1>12, <1>13, <1>14, <1>15 DEF Inv

-----------------------------------------------------------------------------
(* Tabs that close, appear and are forgotten                                 *)

\* What the removal of a tab does to a request.
RemovalOf(q, t) ==
  /\ req'[q] \in Request
  /\ req'[q].kind = req[q].kind /\ req'[q].agent = req[q].agent /\ req'[q].tab = req[q].tab
  /\ req'[q].awaits = req[q].awaits /\ req'[q].generation = req[q].generation
  /\ \/ req'[q].stage = req[q].stage
     \/ req[q].stage = "routed" /\ req'[q].stage = "rejected"
  /\ (req'[q].stage = "routed" /\ req[q].kind = "use") => req[q].tab # t
  /\ req'[q].stale <=> (req[q].stale \/ (req[q].stage = "queued" /\ req[q].tab = t))

LEMMA RemovedRequests ==
  ASSUME TypeOK, HandleTabRemoved, NEW q \in Requests, NEW t, t = Head(inbox).tab
  PROVE  RemovalOf(q, t)
<1> DEFINE queued == {p \in In("queued") : req[p].tab = t}
           old == Rejected(req, RoutesOn(t))[q]
<1>1. req' = [p \in Requests |-> [Rejected(req, RoutesOn(t))[p] EXCEPT !.stale = @ \/ p \in queued]]
  BY DEF HandleTabRemoved
<1>2. RoutesOn(t) \in SUBSET Requests /\ req[q] \in Request
  BY DEF RoutesOn, Routes, In, TypeOK
<1>3. /\ old \in Request /\ Same(req[q], old)
      /\ q \in RoutesOn(t) => old.stage = "rejected"
      /\ q \notin RoutesOn(t) => old.stage = req[q].stage
  BY <1>2, RejectedType DEF Same
<1>4. req'[q] = [old EXCEPT !.stale = old.stale \/ q \in queued]
  BY <1>1, <1>3 DEF Request
<1>5. q \in queued <=> req[q].stage = "queued" /\ req[q].tab = t
  BY DEF In
<1>6. q \in RoutesOn(t) <=> req[q].stage = "routed" /\ req[q].kind = "use" /\ req[q].tab = t
  BY DEF RoutesOn, Routes, In
<1> HIDE DEF old, queued
<1>7. (old.stale \/ q \in queued) \in BOOLEAN
  BY Zenon
<1>8. /\ req'[q] \in Request
      /\ req'[q].kind = old.kind /\ req'[q].agent = old.agent /\ req'[q].tab = old.tab
      /\ req'[q].awaits = old.awaits /\ req'[q].generation = old.generation
      /\ req'[q].stage = old.stage /\ req'[q].stale = (old.stale \/ q \in queued)
  BY <1>3, <1>4, <1>7 DEF Request
<1>9. old.stale = req[q].stale
  BY <1>3 DEF Same
<1>10. req'[q].stale <=> (req[q].stale \/ (req[q].stage = "queued" /\ req[q].tab = t))
  BY <1>5, <1>8, <1>9, Zenon
<1>11. /\ \/ req'[q].stage = req[q].stage
          \/ req[q].stage = "routed" /\ req'[q].stage = "rejected"
       /\ (req'[q].stage = "routed" /\ req[q].kind = "use") => req[q].tab # t
  BY <1>3, <1>6, <1>8
<1> QED
  BY <1>3, <1>8, <1>10, <1>11 DEF Same, RemovalOf

\* A tab closes: everything queued for it becomes stale, and the new
\* continuation waits for the last of it.
LEMMA RemovedInv ==
  ASSUME Inv, HandleTabRemoved
  PROVE  Inv'
<1>1. PICK t : t = Head(inbox).tab
  OBVIOUS
<1>2. PICK n : n = Retirement(t)
  OBVIOUS
<1>3. /\ inbox' \in Seq(Message) /\ Len(inbox') <= MaxInbox + 1
      /\ batch' \in BOOLEAN /\ (batch \/ ~Runnable)
  BY DeliverType DEF HandleTabRemoved, Inv
<1>4. t \in Tabs
  <2>1. Head(inbox) \in Message /\ Head(inbox).type = "removed"
    BY DeliverType DEF HandleTabRemoved, Inv
  <2> QED
    BY <1>1, <2>1 DEF Message
<1>5. /\ reg' = ReleaseTabs(reg, {t}) /\ closed' = closed \cup {t}
      /\ generation' = [generation EXCEPT ![t] = @ + 1]
      /\ retiring' = retiring \cup {n}
      /\ UNCHANGED <<graceTimers, tails, link, browser, executing>>
  BY <1>1, <1>2 DEF HandleTabRemoved
<1>6. tails[t] \in Seq(Requests) /\ generation[t] \in Nat /\ generation \in [Tabs -> Nat]
  BY <1>4 DEF Inv, TypeOK
<1>7. /\ n \in [tab: Tabs, generation: Nat \ {0}, after: Requests \cup {None}]
      /\ n.tab = t /\ n.generation = generation[t] + 1
      /\ \/ tails[t] = <<>> /\ n.after = None
         \/ Len(tails[t]) \in 1..Len(tails[t]) /\ n.after = tails[t][Len(tails[t])]
  <2>1. tails[t] # <<>> => /\ Len(tails[t]) \in 1..Len(tails[t])
                           /\ Last(tails[t]) = tails[t][Len(tails[t])]
                           /\ Last(tails[t]) \in Requests
    BY <1>6 DEF Last
  <2> QED
    BY <1>2, <1>4, <1>6, <2>1 DEF Retirement
<1>8. /\ generation' \in [Tabs -> Nat] /\ generation'[t] = generation[t] + 1
      /\ \A x \in Tabs \ {t} : generation'[x] = generation[x]
  BY <1>4, <1>5, <1>6
<1>9. ASSUME NEW q \in Requests
      PROVE  RemovalOf(q, t)
  BY <1>1, RemovedRequests DEF Inv
<1>10. Good(reg') /\ SessionsStay(reg, reg') /\ OnlyReleases(reg, reg') /\ reg'.owner[t] = None
  BY <1>4, <1>5, ReleaseTabsGood, ReleaseTabsOwners DEF Inv, Good
<1>11. TypeOK'
  <2>1. req' = [q \in Requests |-> req'[q]]
    BY DEF HandleTabRemoved
  <2>2. req' \in [Requests -> Request]
    BY <1>9, <2>1 DEF RemovalOf
  <2> QED
    BY <1>3, <1>4, <1>5, <1>7, <1>8, <1>10, <2>2 DEF Inv, TypeOK, CoreTypeOK, link, Good
<1>12. RequestsComplete'
  BY <1>5, <1>9 DEF RemovalOf, Inv, RequestsComplete, link
<1>13. AnswersHaveAgents'
  BY <1>9, <1>10 DEF RemovalOf, Inv, RequestsComplete, AnswersHaveAgents, In, SessionsStay
<1>14. QueuesInOrder'
  <2>1. ASSUME NEW x \in Tabs, NEW i \in 1..Len(tails[x])
        PROVE  /\ req'[tails[x][i]].tab = x /\ req'[tails[x][i]].stage \in Busy
               /\ req'[tails[x][i]].kind \in {"use", "close"}
               /\ \A j \in 1..Len(tails[x]) : tails[x][i] = tails[x][j] => i = j
    <3>1. req'[tails[x][i]].tab = x /\ req'[tails[x][i]].stage \in Busy
          /\ req'[tails[x][i]].kind \in {"use", "close"}
      BY <1>9, QueueEntries DEF RemovalOf, Busy, Answering
    <3> QED
      BY <3>1 DEF Inv, QueuesInOrder
  <2>2. ASSUME NEW p \in Requests, req'[p].stage = "queued"
        PROVE  Queued(p)'
    BY <1>5, <1>9, <2>2 DEF RemovalOf, Inv, QueuesInOrder, In, Queued
  <2>3. ASSUME NEW p \in Requests, req'[p].stage \in Answering, req'[p].kind # "claim"
        PROVE  AtHead(p)'
    BY <1>5, <1>9, <2>3 DEF RemovalOf, Inv, QueuesInOrder, Answering, AtHead
  <2> QED
    BY <1>5, <2>1, <2>2, <2>3 DEF QueuesInOrder, In
<1>15. ClosedTabsHaveNoRoutes'
  BY <1>5, <1>9 DEF RemovalOf, Inv, ClosedTabsHaveNoRoutes, Routes, In
<1>16. SyncsPending'
  BY <1>5, <1>9 DEF RemovalOf, Inv, SyncsPending, In, link
<1>17. MarksJustified'
  <2>1. OwnedTabsUsable'
    BY <1>5, <1>10 DEF Inv, TypeOK, MarksJustified, OwnedTabsUsable, OnlyReleases
  <2>2. \A x \in closed' : \A q \in Requests : req'[q].stage = "queued" /\ req'[q].tab = x => req'[q].stale
    BY <1>5, <1>9 DEF RemovalOf, Inv, MarksJustified, In
  <2>3. \A x \in closed' : \E r \in retiring' : r.tab = x /\ r.generation = generation'[x]
    <3>1. SUFFICES ASSUME NEW x \in closed', x # t
                   PROVE  \E r \in retiring' : r.tab = x /\ r.generation = generation'[x]
      BY <1>5, <1>7, <1>8
    <3>2. x \in closed /\ x \in Tabs
      BY <1>5, <3>1 DEF Inv, TypeOK
    <3>3. PICK r \in retiring : r.tab = x /\ r.generation = generation[x]
      BY <3>2 DEF Inv, MarksJustified
    <3> QED
      BY <1>5, <1>8, <3>1, <3>2, <3>3
  <2> QED
    BY <2>1, <2>2, <2>3 DEF MarksJustified, In
<1>18. StaleIsOver'
  <2>1. SUFFICES ASSUME NEW q \in Requests, req[q].stage = "queued"
                 PROVE  /\ req'[q].stale => req[q].generation < generation'[req[q].tab]
                        /\ req[q].generation <= generation'[req[q].tab]
    BY <1>9 DEF RemovalOf, Inv, StaleIsOver
  <2>2. req[q].tab \in Tabs /\ req[q].generation \in Nat /\ generation[req[q].tab] \in Nat
    BY <2>1 DEF Inv, TypeOK, RequestsComplete, Request
  <2>3. req[q].generation <= generation[req[q].tab]
    BY <2>1 DEF Inv, StaleIsOver
  <2>4. req[q].stale => req[q].generation < generation[req[q].tab]
    BY DEF Inv, StaleIsOver
  <2>5. generation'[req[q].tab] = generation[req[q].tab] + (IF req[q].tab = t THEN 1 ELSE 0)
    BY <1>8, <2>2
  <2> QED
    BY <1>9, <2>2, <2>3, <2>4, <2>5 DEF RemovalOf
<1>19. SlotsKept'
  <2>1. ASSUME NEW r \in retiring
        PROVE  Waiting(r)' \/ r.after = None \/ req'[r.after].stage = "free"
    BY <1>5, <1>9, RetiringType DEF RemovalOf, Inv, SlotsKept, Waiting
  <2>2. Waiting(n)' \/ n.after = None
    BY <1>5, <1>7 DEF Waiting
  <2> QED
    BY <1>5, <2>1, <2>2 DEF SlotsKept
<1>20. ASSUME NEW r \in retiring
       PROVE  r.generation <= generation[r.tab]
  BY <1>3 DEF Inv, GenerationsGrow, Runnable
<1>21. GenerationsGrow'
  <2>1. \A r \in retiring : r.generation <= generation'[r.tab]
    BY <1>4, <1>8, <1>20, RetiringType DEF Inv, TypeOK
  <2> QED
    BY <1>5, <1>6, <1>7, <1>8, <2>1 DEF GenerationsGrow
<1>22. LastWaitsLongest'
  <2>1. SUFFICES ASSUME NEW r \in retiring', r.generation = generation'[r.tab],
                        NEW i \in 1..Len(tails[r.tab]), OfOldTab(r.tab, i)'
                 PROVE  WaitsPast(r, i)'
    BY <1>5 DEF LastWaitsLongest
  <2>2. CASE r.tab = t
    <3>1. r = n
      BY <1>5, <1>6, <1>8, <1>20, <2>1, <2>2, RetiringType
    <3>2. tails[t] # <<>> /\ Len(tails[t]) \in i..Len(tails[t])
      BY <1>6, <2>1, <2>2
    <3>3. r.after = tails[t][Len(tails[t])]
      BY <1>7, <3>1, <3>2
    <3> QED
      BY <1>5, <2>2, <3>2, <3>3 DEF WaitsPast
  <2>3. CASE r.tab # t
    <3>1. r \in retiring /\ r.tab \in Tabs /\ r.generation = generation[r.tab]
      BY <1>5, <1>7, <1>8, <2>1, <2>3, RetiringType
    <3>2. OfOldTab(r.tab, i)
      BY <1>5, <1>7, <1>9, <2>1, <2>3, <3>1, QueueEntries DEF RemovalOf, OfOldTab
    <3>3. WaitsPast(r, i)
      BY <2>1, <3>1, <3>2 DEF Inv, LastWaitsLongest
    <3> QED
      BY <1>5, <3>3 DEF WaitsPast
  <2> QED
    BY <2>2, <2>3
<1> QED
  BY <1>10, <1>11, <1>12, <1>13, <1>14, <1>15, <1>16, <1>17, <1>18, <1>19, <1>21, <1>22 DEF Inv

\* A tab with the id appears: the mark goes, the generation stays.
LEMMA CreatedInv ==
  ASSUME Inv, HandleTabCreated
  PROVE  Inv'
<1>1. /\ inbox' \in Seq(Message) /\ Len(inbox') <= MaxInbox + 1
      /\ batch' \in BOOLEAN /\ (batch \/ ~Runnable)
      /\ UNCHANGED <<reg, graceTimers, req, tails, generation, retiring, link, browser, executing>>
      /\ closed' \in SUBSET closed
  BY DeliverType DEF HandleTabCreated, Inv
<1>2. TypeOK' /\ Good(reg') /\ RequestsComplete' /\ AnswersHaveAgents'
  BY <1>1 DEF Inv, TypeOK, CoreTypeOK, RequestsComplete, AnswersHaveAgents, In, link
<1>3. QueuesInOrder'
  BY <1>1 DEF Inv, QueuesInOrder, In, Queued, AtHead
<1>4. ClosedTabsHaveNoRoutes' /\ SyncsPending'
  BY <1>1 DEF Inv, ClosedTabsHaveNoRoutes, SyncsPending, Routes, In, link
<1>5. MarksJustified'
  BY <1>1 DEF Inv, MarksJustified, OwnedTabsUsable, In
<1>6. StaleIsOver' /\ SlotsKept'
  BY <1>1 DEF Inv, StaleIsOver, SlotsKept, Waiting
<1>7. GenerationsGrow'
  BY <1>1 DEF Inv, GenerationsGrow, Waiting, Runnable
<1>8. LastWaitsLongest'
  <2>1. ASSUME NEW r \in retiring, NEW i \in 1..Len(tails[r.tab])
        PROVE  OfOldTab(r.tab, i)' = OfOldTab(r.tab, i) /\ WaitsPast(r, i)' = WaitsPast(r, i)
    BY <1>1 DEF OfOldTab, WaitsPast
  <2> QED
    BY <1>1, <2>1 DEF Inv, LastWaitsLongest
<1> QED
  BY <1>2, <1>3, <1>4, <1>5, <1>6, <1>7, <1>8 DEF Inv

\* The metadata of a closed tab goes: by then nothing of before the removal is
\* queued, and the continuations of earlier removals can all run.
LEMMA RetireInv ==
  ASSUME Inv, NEW r \in retiring, Retire(r)
  PROVE  Inv'
<1>1. /\ ~Waiting(r) /\ batch' = FALSE /\ retiring' = retiring \ {r}
      /\ UNCHANGED <<reg, graceTimers, req, tails, link, extension>>
  BY DEF Retire, Microtask
<1>2. r.tab \in Tabs /\ generation \in [Tabs -> Nat] /\ closed \in SUBSET Tabs
  BY RetiringType DEF Inv, TypeOK
<1>3. \/ UNCHANGED <<closed, generation>> /\ ~(r.tab \in closed /\ generation[r.tab] = r.generation)
      \/ /\ r.tab \in closed /\ generation[r.tab] = r.generation
         /\ closed' = closed \ {r.tab}
         /\ generation' = [generation EXCEPT ![r.tab] = 0]
  BY DEF Retire
<1>4. /\ generation' \in [Tabs -> Nat] /\ closed' \in SUBSET closed
      /\ \A x \in Tabs \ {r.tab} : generation'[x] = generation[x]
      /\ generation'[r.tab] \in {generation[r.tab], 0}
  BY <1>2, <1>3
<1>5. ASSUME r.generation = generation[r.tab]
      PROVE  \A i \in 1..Len(tails[r.tab]) : ~OfOldTab(r.tab, i)
  <2>1. SUFFICES ASSUME NEW i \in 1..Len(tails[r.tab]), OfOldTab(r.tab, i)
                 PROVE  FALSE
    OBVIOUS
  <2>2. PICK j \in i..Len(tails[r.tab]) : tails[r.tab][j] = r.after
    BY <1>5, <2>1 DEF Inv, LastWaitsLongest, WaitsPast
  <2>3. tails[r.tab] \in Seq(Requests)
    BY <1>2 DEF Inv, TypeOK
  <2>4. j \in 1..Len(tails[r.tab])
    BY <2>2, <2>3
  <2> QED
    BY <1>1, <2>2, <2>4 DEF Waiting
<1>6. TypeOK' /\ Good(reg')
  BY <1>1, <1>4 DEF Inv, TypeOK, CoreTypeOK, link, extension
<1>7. RequestsComplete' /\ AnswersHaveAgents'
  BY <1>1 DEF Inv, RequestsComplete, AnswersHaveAgents, In, link
<1>8. QueuesInOrder'
  BY <1>1 DEF Inv, QueuesInOrder, In, Queued, AtHead
<1>9. ClosedTabsHaveNoRoutes' /\ SyncsPending'
  BY <1>1, <1>4 DEF Inv, ClosedTabsHaveNoRoutes, SyncsPending, Routes, In, link
<1>10. MarksJustified'
  <2>1. OwnedTabsUsable' /\ \A x \in closed' : \A q \in In("queued")' : req'[q].tab = x => req'[q].stale
    BY <1>1, <1>4 DEF Inv, MarksJustified, OwnedTabsUsable, In
  <2>2. ASSUME NEW x \in closed'
        PROVE  \E e \in retiring' : e.tab = x /\ e.generation = generation'[x]
    <3>1. x \in closed /\ x \in Tabs
      BY <1>2, <1>4
    <3>2. PICK e \in retiring : e.tab = x /\ e.generation = generation[x]
      BY <3>1 DEF Inv, MarksJustified
    <3>3. e # r /\ generation'[x] = generation[x]
      BY <1>2, <1>3, <2>2, <3>1, <3>2
    <3> QED
      BY <1>1, <3>2, <3>3
  <2> QED
    BY <2>1, <2>2 DEF MarksJustified
<1>11. StaleIsOver'
  <2>1. CASE UNCHANGED generation
    BY <1>1, <2>1 DEF Inv, StaleIsOver
  <2>2. CASE r.tab \in closed /\ generation[r.tab] = r.generation
    <3>1. ASSUME NEW q \in Requests, req[q].stage = "queued"
          PROVE  req[q].tab \in Tabs /\ req[q].tab # r.tab
      <4>1. req[q].tab \in Tabs /\ Queued(q)
        BY <3>1 DEF Inv, RequestsComplete, QueuesInOrder, In
      <4>2. req[q].tab = r.tab => req[q].stale
        BY <2>2, <3>1 DEF Inv, MarksJustified, In
      <4> QED
        BY <1>5, <2>2, <4>1, <4>2 DEF Queued, OfOldTab
    <3>2. \A q \in Requests : req[q].stale => req[q].stage = "queued"
      BY DEF Inv, StaleIsOver
    <3> QED
      BY <1>1, <1>4, <3>1, <3>2 DEF Inv, StaleIsOver
  <2> QED
    BY <1>3, <2>1, <2>2
<1>12. SlotsKept'
  BY <1>1 DEF Inv, SlotsKept, Waiting
<1>13. GenerationsGrow'
  <2>1. CASE UNCHANGED generation
    BY <1>1, <2>1 DEF Inv, GenerationsGrow, Waiting
  <2>2. CASE r.tab \in closed /\ generation[r.tab] = r.generation
    <3>1. ASSUME NEW e \in retiring, e.tab = r.tab
          PROVE  ~Waiting(e)
      BY <1>5, <2>2, <3>1 DEF Waiting, OfOldTab
    <3> QED
      BY <1>1, <1>4, <3>1, RetiringType DEF Inv, GenerationsGrow, Waiting
  <2> QED
    BY <1>3, <2>1, <2>2
<1>14. LastWaitsLongest'
  <2>1. SUFFICES ASSUME NEW e \in retiring', e.generation = generation'[e.tab],
                        NEW i \in 1..Len(tails[e.tab]), OfOldTab(e.tab, i)'
                 PROVE  WaitsPast(e, i)'
    BY <1>1 DEF LastWaitsLongest
  <2>2. e \in retiring /\ e.generation = generation[e.tab]
    BY <1>1, <1>4, <2>1, RetiringType
  <2>3. OfOldTab(e.tab, i)
    BY <1>1, <2>1 DEF OfOldTab
  <2>4. WaitsPast(e, i)
    BY <2>1, <2>2, <2>3 DEF Inv, LastWaitsLongest
  <2> QED
    BY <1>1, <2>4 DEF WaitsPast
<1> QED
  BY <1>6, <1>7, <1>8, <1>9, <1>10, <1>11, <1>12, <1>13, <1>14 DEF Inv

-----------------------------------------------------------------------------
(* The theorems                                                              *)

LEMMA InitInv == Init => Inv
<1> SUFFICES ASSUME Init
             PROVE  Inv
  OBVIOUS
<1>1. /\ reg = EmptyRegistry /\ graceTimers = {}
      /\ conn = 0 /\ conns = 0 /\ settled = {} /\ immediates = {} /\ sync = NoSync
      /\ batch = FALSE
      /\ browser \in SUBSET Tabs /\ executing = {} /\ inbox = <<>>
      /\ req = [q \in Requests |-> FreeRequest] /\ tails = [t \in Tabs |-> <<>>]
      /\ closed = {} /\ generation = [t \in Tabs |-> 0] /\ retiring = {}
  BY DEF Init, CoreInit
<1>2. Good(reg)
  BY <1>1, EmptyGood
<1>3. FreeRequest \in Request /\ FreeRequest.stage = "free" /\ FreeRequest.stale = FALSE
  BY CoreBoundsAssumption DEF FreeRequest, Request, Stages, Kinds
<1>4. \A q \in Requests : req[q] = FreeRequest
  BY <1>1
<1>5. \A t \in Tabs : tails[t] = <<>> /\ Len(tails[t]) = 0 /\ 1..Len(tails[t]) = {}
  BY <1>1
<1>6. TypeOK
  <2>1. NoSync \in [stage: {"idle", "cleanup", "routed", "resolved", "rejected"}, tabs: SUBSET Tabs]
    BY DEF NoSync
  <2>2. req \in [Requests -> Request] /\ tails \in [Tabs -> Seq(Requests)] /\ inbox \in Seq(Message)
        /\ Len(inbox) <= MaxInbox + 1
    BY <1>1, <1>3, CoreBoundsAssumption
  <2>3. executing \in SUBSET Command /\ retiring \in SUBSET [tab: Tabs, generation: Nat \ {0}, after: Requests \cup {None}]
        /\ settled \in SUBSET Connections /\ immediates \in SUBSET Connections
    BY <1>1
  <2>4. reg \in Registry /\ graceTimers \in SUBSET Sessions
    BY <1>1, <1>2 DEF Good
  <2>5. CoreTypeOK
    <3>1. conns \in 0..MaxConnections /\ conn \in {0, conns}
      BY <1>1, CoreBoundsAssumption
    <3>2. batch \in BOOLEAN
      BY <1>1, Zenon
    <3> QED
      BY <1>1, <2>1, <2>2, <2>3, <2>4, <3>1, <3>2 DEF CoreTypeOK
  <2> QED
    BY <1>1, <2>2, <2>3, <2>5 DEF TypeOK
<1>7. RequestsComplete /\ AnswersHaveAgents /\ ClosedTabsHaveNoRoutes /\ SyncsPending
  BY <1>1, <1>3, <1>4
     DEF RequestsComplete, AnswersHaveAgents, ClosedTabsHaveNoRoutes, SyncsPending, Routes, In, NoSync
<1>8. QueuesInOrder /\ StaleIsOver
  BY <1>3, <1>4, <1>5 DEF QueuesInOrder, StaleIsOver, In, Answering
<1>9. MarksJustified /\ SlotsKept /\ GenerationsGrow /\ LastWaitsLongest
  BY <1>1 DEF MarksJustified, OwnedTabsUsable, SlotsKept, GenerationsGrow, LastWaitsLongest
<1> QED
  BY <1>2, <1>6, <1>7, <1>8, <1>9 DEF Inv

LEMMA StepInv == Inv /\ [Next]_vars => Inv'
<1> SUFFICES ASSUME Inv, [Next]_vars
             PROVE  Inv'
  OBVIOUS
<1>1. ASSUME NEW q \in Requests, Continuation(q)
      PROVE  Inv'
  BY <1>1, AnswerInv, SendInv, EnqueueInv, LeaveInv DEF Continuation
<1>2. CASE MessageHandler
  BY <1>2, BackgroundInv, RemovedInv, CreatedInv DEF MessageHandler, Background
<1>3. CASE (\E q \in Requests : TimesOut(q)) \/ Syncs \/ OtherMacrotask \/ Extension \/ UNCHANGED vars
  BY <1>3, BackgroundInv DEF Background
<1> QED
  BY <1>1, <1>2, <1>3, AskInv, RetireInv DEF Next

\* The inductive invariant holds in every state.
THEOREM Invariance == Spec => []Inv
BY InitInv, StepInv, PTL DEF Spec

(* The types, and the agreement of the registry's maps.                      *)
THEOREM TypeCorrect == Spec => [](TypeOK /\ MapsConsistent)
<1>1. Inv => TypeOK /\ MapsConsistent
  BY DEF Inv, Good, MapsConsistent
<1> QED
  BY <1>1, Invariance, PTL

(* The TabScheduler has at most one command of a tab under way, whatever is  *)
(* dropped, timed out or answered late: the one that is sent is the first of *)
(* the tab's queue until its continuation has run.                           *)
THEOREM OneRoute == Spec => []OneRoutePerTab
<1>1. Inv => OneRoutePerTab
  BY DEF Inv, QueuesInOrder, OneRoutePerTab, Routes, In, Answering, AtHead
<1> QED
  BY <1>1, Invariance, PTL

(* Every answer the Broker waits for has a connected Agent to go to, and no  *)
(* tab that the Broker knows to be closed is behind it but for close_tab.    *)
THEOREM RoutesAreJustified == Spec => []RoutesJustified
<1>1. Inv => RoutesJustified
  BY DEF Inv, AnswersHaveAgents, RoutesJustified, RoutesHaveAgents, Routes
<1> QED
  BY <1>1, Invariance, PTL

(* No request waits for a synchronization that was given up with its         *)
(* connection, or for a turn in a queue that does not hold it.               *)
THEOREM WaitersServed == Spec => []WaitsAreServed
<1>1. Inv => WaitsAreServed
  BY DEF Inv, SyncsPending, QueuesInOrder, WaitsAreServed, In, Queued, Busy, Answering
<1> QED
  BY <1>1, Invariance, PTL

(* closedTabIds marks no tab that has an owner, and no tab whose queue has   *)
(* drained once every continuation has run.                                  *)
THEOREM ClosedMarksCorrect == Spec => []ClosedMarksAccurate
<1>1. Inv => ClosedMarksRetire
  <2>1. SUFFICES ASSUME Inv, ~Runnable, NEW t \in closed
                 PROVE  tails[t] # <<>>
    BY DEF ClosedMarksRetire
  <2>2. PICK r \in retiring : r.tab = t
    BY <2>1 DEF Inv, MarksJustified
  <2>3. Waiting(r)
    BY <2>1 DEF Runnable
  <2> QED
    BY <2>2, <2>3 DEF Waiting
<1>2. Inv => ClosedMarksAccurate
  BY <1>1 DEF Inv, MarksJustified, ClosedMarksAccurate
<1> QED
  BY <1>2, Invariance, PTL

\* A route begins with a claim or with the first of a queue.
LEMMA NewRoutes ==
  ASSUME Inv, [Next]_vars, NEW q \in Requests,
         req'[q].stage = "routed", req[q].stage # "routed"
  PROVE  StartClaim(q) \/ RunQueued(q)
<1>1. ASSUME Background PROVE FALSE
  <2>1. Quiet
    BY <1>1, BackgroundStep DEF Inv
  <2> QED
    BY <2>1 DEF Quiet, Settles
<1>2. ASSUME NEW p \in Requests, Answer(p) PROVE FALSE
  BY <1>2, AnswerType DEF Inv, FreeRequest
<1>3. ASSUME NEW p \in Requests, Enqueue(p) PROVE FALSE
  BY <1>3 DEF Enqueue, Inv, TypeOK, Request
<1>4. ASSUME NEW p \in Requests, StartClaim(p) \/ RunQueued(p)
      PROVE  p = q
  BY <1>4 DEF StartClaim, RunQueued, Send, Inv, TypeOK
<1>5. ASSUME NEW p \in Requests, NEW s \in Sessions, NEW kind \in Kinds, NEW t \in Tabs,
             AgentRequests(p, s, kind, t)
      PROVE  FALSE
  BY <1>5 DEF AgentRequests, Inv, TypeOK, FreeRequest
<1>6. ASSUME HandleTabRemoved PROVE FALSE
  <2>1. RemovalOf(q, Head(inbox).tab)
    BY <1>6, RemovedRequests DEF Inv
  <2> QED
    BY <2>1 DEF RemovalOf
<1>7. ASSUME HandleTabCreated \/ \E r \in retiring : Retire(r) PROVE FALSE
  BY <1>7 DEF HandleTabCreated, Retire
<1>8. ASSUME NEW p \in Requests, Continuation(p)
      PROVE  StartClaim(q) \/ RunQueued(q)
  BY <1>2, <1>3, <1>4, <1>8
     DEF Continuation, Refuse, Release, DropQueued, FinishClaim, FinishQueued
<1> QED
  BY <1>1, <1>5, <1>6, <1>7, <1>8 DEF Next, MessageHandler, Background

(* A command queued for a tab that closed is never sent for the tab that     *)
(* comes to bear the same id: the generation of the id has grown past it,    *)
(* and is not reset as long as it is queued.                                 *)
THEOREM NoneOutlivesItsTab == Spec => NoCommandOutlivesItsTab
<1>1. ASSUME Inv, [Next]_vars, NEW q \in Requests, req[q].stale
      PROVE  req'[q].stage # "routed"
  <2>1. req[q].stage = "queued" /\ req[q].generation < generation[req[q].tab]
    BY <1>1 DEF Inv, StaleIsOver
  <2>2. req[q].generation \in Nat /\ generation[req[q].tab] \in Nat
    BY <1>1, <2>1 DEF Inv, RequestsComplete, TypeOK, Request
  <2> QED
    BY <1>1, <2>1, <2>2, NewRoutes DEF StartClaim, Woken, RunQueued, MayRun
<1>2. Inv /\ [Next]_vars => [\A q \in Requests : req[q].stale => req'[q].stage # "routed"]_vars
  BY <1>1
<1> QED
  BY <1>2, Invariance, PTL DEF Spec, NoCommandOutlivesItsTab

(* A command goes out only while the Agent that asked for it owns the tab.   *)
THEOREM OwnersCommand == Spec => OnlyOwnersCommand
<1>1. ASSUME Inv, [Next]_vars, NEW q \in Routes' \ Routes, req'[q].kind # "claim"
      PROVE  Owns(reg, req'[q].agent, req'[q].tab)
  <2>1. q \in Requests /\ req'[q].stage = "routed" /\ req[q].stage # "routed"
    BY <1>1 DEF Routes, In
  <2>2. StartClaim(q) \/ RunQueued(q)
    BY <1>1, <2>1, NewRoutes
  <2>3. Same(req[q], req'[q])
    <3>1. /\ req[q].stage # "free" /\ req[q].kind # "release" /\ conn # 0 /\ Send(q)
      BY <1>1, <2>1, <2>2 DEF StartClaim, RunQueued, Woken, Inv, RequestsComplete
    <3> QED
      BY <1>1, <2>1, <3>1, SendType DEF Inv
  <2> QED
    BY <1>1, <2>2, <2>3 DEF StartClaim, RunQueued, MayRun, Same
<1>2. Inv /\ [Next]_vars =>
        [\A q \in Routes' \ Routes :
           req'[q].kind # "claim" => Owns(reg, req'[q].agent, req'[q].tab)]_vars
  BY <1>1
<1> QED
  BY <1>2, Invariance, PTL DEF Spec, OnlyOwnersCommand

\* Who releases tabs or answers a claim does what TabOwnership allows.
LEMMA ReleasesAreReleases ==
  ASSUME NEW n \in Registry, Good(reg), OnlyReleases(reg, n), reg' = n
  PROVE  Abstract!Next
<1> DEFINE lose == {t \in Tabs : n.owner[t] = None}
<1>1. reg'.owner = [t \in Tabs |-> IF t \in lose THEN None ELSE reg.owner[t]]
  BY DEF OnlyReleases, Registry, Good
<1> QED
  BY <1>1 DEF Abstract!Next, Abstract!Release

LEMMA ClaimsAreExchanges ==
  ASSUME Good(reg), NEW s \in Sessions, NEW t \in Tabs, MayClaim(reg, s, {t}),
         reg' = ClaimTabs(reg, s, {t})
  PROVE  Abstract!Next
<1> DEFINE gain == {x \in {t} : reg.owner[x] = None}
<1>1. /\ reg.owner \in [Tabs -> Sessions \cup {None}] /\ reg.owner[t] \in {None, s}
      /\ reg'.owner = [x \in Tabs |-> IF x \in {t} THEN s ELSE reg.owner[x]]
  BY DEF Good, Registry, MayClaim, ClaimTabs
<1>2. /\ gain \in SUBSET {x \in Tabs : reg.owner[x] = None}
      /\ {} \in SUBSET {x \in Tabs : reg.owner[x] = s}
  OBVIOUS
<1>3. reg'.owner = [x \in Tabs |-> IF x \in gain THEN s
                                   ELSE IF x \in {} THEN None ELSE reg.owner[x]]
  BY <1>1
<1> HIDE DEF gain
<1>4. Abstract!Exchange(s)
  BY <1>2, <1>3 DEF Abstract!Exchange
<1> QED
  BY <1>4 DEF Abstract!Next

(* A tab changes hands only through a state in which nobody owns it: the      *)
(* check of claimTab and its assignment are one continuation, and every other  *)
(* step only releases tabs, whatever is asked for, queued or answered late.   *)
THEOREM OwnershipImplemented == Spec => ImplementsTabOwnership
<1>1. Init => Abstract!Init
  BY DEF Init, CoreInit, EmptyRegistry, Abstract!Init
<1>2. Inv /\ [Next]_vars => [Abstract!Next]_(reg.owner)
  <2> SUFFICES ASSUME Inv, [Next]_vars
               PROVE  Abstract!Next \/ reg'.owner = reg.owner
    OBVIOUS
  <2>1. Good(reg) /\ reg \in Registry /\ Inv'
    BY StepInv DEF Inv, Good
  <2>2. reg' \in Registry
    BY <2>1 DEF Inv, Good
  <2>3. CASE Background
    <3>1. OnlyReleases(reg, reg')
      BY <2>3, BackgroundStep DEF Inv, Quiet
    <3> QED
      BY <2>1, <2>2, <3>1, ReleasesAreReleases
  <2>4. ASSUME NEW q \in Requests, Release(q)
        PROVE  Abstract!Next
    <3>1. req[q].tab \in Tabs
      BY <2>4 DEF Release, Woken, Inv, RequestsComplete
    <3> QED
      BY <2>1, <2>2, <2>4, <3>1, ReleaseTabsOwners, ReleasesAreReleases DEF Release
  <2>5. ASSUME NEW q \in Requests, FinishClaim(q)
        PROVE  Abstract!Next \/ reg'.owner = reg.owner
    <3>1. req[q].agent \in Sessions /\ req[q].tab \in Tabs
      BY <2>5 DEF FinishClaim, Inv, RequestsComplete
    <3>2. CASE reg' = reg
      BY <3>2
    <3>3. CASE /\ MayClaim(reg, req[q].agent, {req[q].tab})
               /\ reg' = ClaimTabs(reg, req[q].agent, {req[q].tab})
      BY <2>1, <3>1, <3>3, ClaimsAreExchanges
    <3> QED
      BY <2>5, <3>2, <3>3 DEF FinishClaim
  <2>6. CASE HandleTabRemoved
    <3>1. Head(inbox).tab \in Tabs
      BY <2>6, DeliverType DEF HandleTabRemoved, Message, Inv
    <3> QED
      BY <2>1, <2>2, <2>6, <3>1, ReleaseTabsOwners, ReleasesAreReleases DEF HandleTabRemoved
  <2>7. ASSUME NEW q \in Requests,
               \/ Refuse(q) \/ StartClaim(q) \/ Enqueue(q) \/ RunQueued(q) \/ DropQueued(q)
               \/ FinishQueued(q)
        PROVE  reg' = reg
    BY <2>7 DEF Refuse, StartClaim, Enqueue, RunQueued, DropQueued, FinishQueued
  <2>8. ASSUME NEW q \in Requests, NEW s \in Sessions, NEW kind \in Kinds, NEW t \in Tabs,
               AgentRequests(q, s, kind, t)
        PROVE  reg' = reg
    BY <2>8 DEF AgentRequests
  <2>9. CASE HandleTabCreated \/ \E r \in retiring : Retire(r)
    BY <2>9 DEF HandleTabCreated, Retire
  <2> QED
    BY <2>3, <2>4, <2>5, <2>6, <2>7, <2>8, <2>9
       DEF Next, Continuation, MessageHandler, Background
<1> QED
  BY <1>1, <1>2, Invariance, PTL DEF Spec, ImplementsTabOwnership, Abstract!Spec
=============================================================================
