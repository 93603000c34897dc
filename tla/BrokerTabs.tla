----------------------------- MODULE BrokerTabs -----------------------------
(***************************************************************************)
(* Tab-scoped commands (executeRequest, claimTab, releaseTab and            *)
(* handleBrowserEvent of mcp-server/src/broker/broker-server.ts, and        *)
(* tab-scheduler.ts): Agents claim, release, use and close tabs, commands    *)
(* queue per tab, and tabs close under them.  `use` stands for every other   *)
(* command that names a tab.                                                *)
(***************************************************************************)
EXTENDS BrokerCore

CONSTANT MaxRemovals  \* bound: the generation a tab id can reach

ASSUME RemovalsAssumption == MaxRemovals \in Nat

VARIABLES
  tails,        \* TabScheduler.tails: the requests queued per tab
  closed,       \* closedTabIds
  generation,   \* tabGenerations
  retiring      \* pending continuations of retireClosedTabMetadata

tabVars == <<tails, closed, generation, retiring>>
vars == <<coreVars, tabVars>>

Kinds == {"claim", "release", "use", "close"}
Stages == {"free", "sync", "queued", "routed", "resolved", "rejected"}

FreeRequest == [stage |-> "free", kind |-> "use", agent |-> None, tab |-> None,
                awaits |-> 0, generation |-> 0, found |-> FALSE, stale |-> FALSE]

Init ==
  /\ CoreInit
  /\ req = [q \in Requests |-> FreeRequest]
  /\ tails = [t \in Tabs |-> <<>>]
  /\ closed = {} /\ generation = [t \in Tabs |-> 0] /\ retiring = {}

-----------------------------------------------------------------------------
\* Promises and the event loop

\* Mutant: scheduler.run does not wait for the previous operation.
Anywhere(q) == TRUE
AtHead(q) == tails[req[q].tab] # <<>> /\ Head(tails[req[q].tab]) = q

Waiting(r) == \E i \in 1..Len(tails[r.tab]) : tails[r.tab][i] = r.after

\* The continuations that can run now.
Runnable ==
  \/ CoreRunnable
  \/ \E q \in In("queued") : AtHead(q)
  \/ \E r \in retiring : ~Waiting(r)

Macrotask == ~Runnable /\ batch' = FALSE
Microtask == batch' = FALSE

\* The request is answered and its slot is free again.
Answer(q) == req' = [req EXCEPT ![q] = FreeRequest]

\* Its turn in its tab's queue is over: the next one can run.
Leave(q) == tails' = [tails EXCEPT ![req[q].tab] = Tail(@)]

\* sendExtensionCommand over an open connection.
Send(q) == /\ req' = [req EXCEPT ![q].stage = "routed"]
           /\ executing' = executing \cup
                {[request |-> q, kind |-> req[q].kind, tab |-> req[q].tab, on |-> conn,
                  seen |-> req[q].kind = "claim" /\ req[q].tab \in browser]}
           /\ UNCHANGED <<browser, inbox>>

-----------------------------------------------------------------------------
\* forward: without an extension the answer is immediate, otherwise the
\* request waits for the sync of the connection that is current now.
AgentRequests(q, s, kind, t) ==
  /\ Macrotask
  /\ Unused(q) /\ Connected(reg, s) /\ conn # 0
  /\ req' = [req EXCEPT ![q] = [FreeRequest EXCEPT !.stage = "sync", !.kind = kind,
                                  !.agent = s, !.tab = t, !.awaits = conn]]
  /\ UNCHANGED <<reg, graceTimers, tails, closed, generation, retiring, link, extension>>

-----------------------------------------------------------------------------
\* forward after `await this.extensionSync`: executeRequest

\* The Agent is gone, or asks for a tab it does not own.
Refuse(q) ==
  /\ Microtask
  /\ Woken(q)
  /\ \/ ~Connected(reg, req[q].agent)
     \/ req[q].kind # "claim" /\ ~Owns(reg, req[q].agent, req[q].tab)
     \/ req[q].kind = "claim" /\ conn = 0
  /\ Answer(q)
  /\ UNCHANGED <<reg, graceTimers, tails, closed, generation, retiring, link, extension>>

\* Mutant: no assertConnected after the await.
StartClaimAnyway(q) ==
  /\ Microtask
  /\ Woken(q) /\ req[q].kind = "claim" /\ conn # 0
  /\ Send(q)
  /\ UNCHANGED <<reg, graceTimers, tails, closed, generation, retiring, link>>

\* claimTab asks for the list of tabs first.
StartClaim(q) ==
  /\ Microtask
  /\ Woken(q) /\ req[q].kind = "claim"
  /\ Connected(reg, req[q].agent) /\ conn # 0
  /\ Send(q)
  /\ UNCHANGED <<reg, graceTimers, tails, closed, generation, retiring, link>>

Release(q) ==
  /\ Microtask
  /\ Woken(q) /\ req[q].kind = "release"
  /\ Connected(reg, req[q].agent) /\ Owns(reg, req[q].agent, req[q].tab)
  /\ reg' = ReleaseTabs(reg, {req[q].tab})
  /\ Answer(q)
  /\ UNCHANGED <<graceTimers, tails, closed, generation, retiring, link, extension>>

\* scheduler.run: behind the requests already queued for the tab.
Enqueue(q) ==
  /\ Microtask
  /\ Woken(q) /\ req[q].kind \in {"use", "close"}
  /\ Connected(reg, req[q].agent) /\ Owns(reg, req[q].agent, req[q].tab)
  /\ req' = [req EXCEPT ![q].stage = "queued",
                        ![q].generation = generation[req[q].tab]]
  /\ tails' = [tails EXCEPT ![req[q].tab] = Append(@, q)]
  /\ UNCHANGED <<reg, graceTimers, closed, generation, retiring, link, extension>>

\* Mutants: without the generation; without asking again for the owner.
MayRunOnOpenTab(q) ==
  /\ Connected(reg, req[q].agent)
  /\ req[q].tab \notin closed
  /\ Owns(reg, req[q].agent, req[q].tab)
MayRunUnowned(q) ==
  /\ Connected(reg, req[q].agent)
  /\ generation[req[q].tab] = req[q].generation
  /\ req[q].tab \notin closed

\* The checks the queued operation repeats when its turn comes.
MayRun(q) ==
  /\ Connected(reg, req[q].agent)
  /\ generation[req[q].tab] = req[q].generation
  /\ req[q].tab \notin closed
  /\ Owns(reg, req[q].agent, req[q].tab)

RunQueued(q) ==
  /\ Microtask
  /\ req[q].stage = "queued" /\ AtHead(q)
  /\ MayRun(q) /\ conn # 0
  /\ Send(q)
  /\ UNCHANGED <<reg, graceTimers, tails, closed, generation, retiring, link>>

DropQueued(q) ==
  /\ Microtask
  /\ req[q].stage = "queued" /\ AtHead(q)
  /\ ~MayRun(q) \/ conn = 0
  /\ Leave(q)
  /\ Answer(q)
  /\ UNCHANGED <<reg, graceTimers, closed, generation, retiring, link, extension>>

\* The continuation of a settled route: the answer to claim_tab takes the tab
\* if it was listed and is not another Agent's, and unmarks it as closed.
FinishClaim(q) ==
  /\ Microtask
  /\ req[q].stage \in {"resolved", "rejected"} /\ req[q].kind = "claim"
  /\ IF req[q].stage = "resolved" /\ req[q].found /\ MayClaim(reg, req[q].agent, {req[q].tab})
     THEN /\ reg' = ClaimTabs(reg, req[q].agent, {req[q].tab})
          /\ closed' = closed \ {req[q].tab}
     ELSE UNCHANGED <<reg, closed>>
  /\ Answer(q)
  /\ UNCHANGED <<graceTimers, tails, generation, retiring, link, extension>>

FinishQueued(q) ==
  /\ Microtask
  /\ req[q].stage \in {"resolved", "rejected"} /\ req[q].kind # "claim"
  /\ Leave(q)
  /\ Answer(q)
  /\ UNCHANGED <<reg, graceTimers, closed, generation, retiring, link, extension>>

-----------------------------------------------------------------------------
\* Messages from the extension

\* handleExtensionResponse; an answer without a route is ignored.
HandleReply ==
  /\ Deliver(Runnable)
  /\ Head(inbox).type = "reply"
  /\ LET q == Head(inbox).request
     IN req' = IF q \in Routes
               THEN [req EXCEPT ![q].stage = "resolved", ![q].found = Head(inbox).found]
               ELSE req
  /\ UNCHANGED <<reg, graceTimers, tails, closed, generation, retiring, link, browser, executing>>

\* The routes a removal rejects: close_tab waits for its own answer.
RoutesOn(t) == {q \in Routes : req[q].kind = "use" /\ req[q].tab = t}

\* The arguments of retireClosedTabMetadata and the tail whenIdle waits for.
\* Mutant: the generation from before the removal.
RetirementTooEarly(t) ==
  [tab |-> t, generation |-> generation[t],
   after |-> IF tails[t] = <<>> THEN None ELSE Last(tails[t])]
Retirement(t) ==
  [tab |-> t, generation |-> generation[t] + 1,
   after |-> IF tails[t] = <<>> THEN None ELSE Last(tails[t])]

\* handleBrowserEvent for tab_removed.  `stale` remembers, for the properties
\* only, the requests that were queued for the tab that has gone.
HandleTabRemoved ==
  /\ Deliver(Runnable)
  /\ Head(inbox).type = "removed"
  /\ LET t == Head(inbox).tab
         queued == {q \in In("queued") : req[q].tab = t}
     IN /\ reg' = ReleaseTabs(reg, {t})
        /\ closed' = closed \cup {t}
        /\ generation' = [generation EXCEPT ![t] = @ + 1]
        /\ req' = [q \in Requests |-> [Rejected(req, RoutesOn(t))[q] EXCEPT
                                         !.stale = @ \/ q \in queued]]
        /\ retiring' = retiring \cup {Retirement(t)}
  /\ UNCHANGED <<graceTimers, tails, link, browser, executing>>

HandleTabCreated ==
  /\ Deliver(Runnable)
  /\ Head(inbox).type = "created"
  /\ closed' = closed \ {Head(inbox).tab}
  /\ UNCHANGED <<reg, graceTimers, req, tails, generation, retiring, link, browser, executing>>

\* retireClosedTabMetadata, once the queue of the tab has drained.
Retire(r) ==
  /\ Microtask
  /\ r \in retiring /\ ~Waiting(r)
  /\ retiring' = retiring \ {r}
  /\ IF r.tab \in closed /\ generation[r.tab] = r.generation
     THEN /\ closed' = closed \ {r.tab}
          /\ generation' = [generation EXCEPT ![r.tab] = 0]
     ELSE UNCHANGED <<closed, generation>>
  /\ UNCHANGED <<reg, graceTimers, req, tails, link, extension>>

-----------------------------------------------------------------------------
\* The browser and the extension

OtherTasks == UNCHANGED <<reg, graceTimers, req, link, batch, tabVars>>

TabEvent(type, t) == [type |-> type, tab |-> t]
Reply(e, found) == [type |-> "reply", request |-> e.request, found |-> found]

UserOpensTab(t) ==
  /\ t \notin browser /\ Len(inbox) < MaxInbox
  /\ browser' = browser \cup {t}
  /\ Post(<<TabEvent("created", t)>>)
  /\ UNCHANGED executing /\ OtherTasks

\* Every removal the Broker hears of advances the generation of the tab id.
Removable(t) == t \in browser /\ generation[t]
  + Cardinality({i \in 1..Len(inbox) : inbox[i] = TabEvent("removed", t)}) < MaxRemovals

UserClosesTab(t) ==
  /\ Removable(t) /\ Len(inbox) < MaxInbox
  /\ browser' = browser \ {t}
  /\ Post(<<TabEvent("removed", t)>>)
  /\ UNCHANGED executing /\ OtherTasks

\* list_tabs and the other tab commands.  chrome.tabs.query is asynchronous: the
\* list shows the tab as it was when the command came or as it is now.
Execute(e) ==
  /\ e \in executing /\ Len(inbox) < MaxInbox
  /\ e.kind # "close" \/ e.tab \notin browser
  /\ executing' = executing \ {e}
  /\ \E found \in {e.seen, e.tab \in browser} : Post(ReplyTo(e, Reply(e, found)))
  /\ UNCHANGED browser /\ OtherTasks

\* chrome.tabs.remove: its promise and the onRemoved event come in either order.
ExecuteClose(e) ==
  /\ e \in executing /\ Len(inbox) < MaxInbox
  /\ e.kind = "close" /\ Removable(e.tab)
  /\ executing' = executing \ {e}
  /\ browser' = browser \ {e.tab}
  /\ LET event == <<TabEvent("removed", e.tab)>>
         reply == ReplyTo(e, Reply(e, TRUE))
     IN Post(event \o reply) \/ Post(reply \o event)
  /\ OtherTasks

-----------------------------------------------------------------------------
Continuation(q) ==
  \/ Refuse(q) \/ StartClaim(q) \/ Release(q) \/ Enqueue(q)
  \/ RunQueued(q) \/ DropQueued(q) \/ FinishClaim(q) \/ FinishQueued(q)

TimesOut(q) == Macrotask /\ Timeout(q) /\ UNCHANGED tabVars

Syncs == Microtask /\ (FinishSync \/ FailSync) /\ UNCHANGED tabVars

MessageHandler ==
  \/ HandleReply \/ HandleTabRemoved \/ HandleTabCreated
  \/ Deliver(Runnable) /\ HandleInventory /\ UNCHANGED tabVars

OtherMacrotask ==
  /\ Macrotask
  /\ (\E s \in Sessions : AgentTask(s)) \/ Tick \/ ConnectionTask
  /\ UNCHANGED tabVars

Extension ==
  \/ \E t \in Tabs : UserOpensTab(t) \/ UserClosesTab(t)
  \/ \E e \in executing : Execute(e) \/ ExecuteClose(e)
  \/ SendInventory /\ UNCHANGED tabVars

Next ==
  \/ \E q \in Requests, s \in Sessions, kind \in Kinds, t \in Tabs :
       AgentRequests(q, s, kind, t)
  \/ \E q \in Requests : Continuation(q) \/ TimesOut(q)
  \/ \E r \in retiring : Retire(r)
  \/ Syncs
  \/ MessageHandler
  \/ OtherMacrotask
  \/ Extension

Spec == Init /\ [][Next]_vars

\* The event loop runs every continuation, handles every message and runs every
\* timer and immediate in the end, however many macrotasks come in between.
Fairness ==
  /\ \A q \in Requests : WF_vars(Continuation(q)) /\ SF_vars(TimesOut(q))
  /\ SF_vars(MessageHandler)
  /\ WF_vars(\E r \in retiring : Retire(r))
  /\ WF_vars(Syncs)
  /\ SF_vars(Macrotask /\ (SyncTimeout \/ \E c \in Connections : StartSync(c))
                        /\ UNCHANGED tabVars)

FairSpec == Spec /\ Fairness

-----------------------------------------------------------------------------
\* Properties

Request == [stage: Stages, kind: Kinds, agent: Sessions \cup {None},
            tab: Tabs \cup {None}, awaits: 0..MaxConnections,
            generation: Nat, found: BOOLEAN, stale: BOOLEAN]

Command == [request: Requests, kind: Kinds, tab: Tabs, on: Connections, seen: BOOLEAN]

Message == [type: {"created", "removed"}, tab: Tabs]
           \cup [type: {"reply"}, request: Requests, found: BOOLEAN]
           \cup [type: {"inventory"}, tabs: SUBSET Tabs]

TypeOK ==
  /\ CoreTypeOK
  /\ req \in [Requests -> Request]
  /\ executing \in SUBSET Command /\ inbox \in Seq(Message)
  /\ tails \in [Tabs -> Seq(Requests)]
  /\ closed \in SUBSET Tabs /\ generation \in [Tabs -> Nat]
  /\ retiring \in SUBSET [tab: Tabs, generation: Nat \ {0}, after: Requests \cup {None}]

(* The registry's maps agree while claims, releases, removals, resyncs and   *)
(* grace timers of several Agents interleave.                                *)
MapsConsistent == MapsAgree(reg)

(* The Broker has at most one command of a tab under way (tab-scheduler.ts). *)
OneRoutePerTab ==
  \A p, q \in {r \in Routes : req[r].kind # "claim"} :
     req[p].tab = req[q].tab => p = q

(* Nothing waits for an extension's answer on behalf of an Agent that has    *)
(* disconnected.                                                             *)
RoutesHaveAgents == \A q \in Routes : Connected(reg, req[q].agent)

(* Once the Broker knows that a tab has closed, no command but the           *)
(* close_tab that closed it waits for an answer about that tab.              *)
ClosedTabsHaveNoRoutes ==
  \A q \in Routes : req[q].kind = "use" => req[q].tab \notin closed

(* Both: an answer the Broker waits for has somebody to go to, and a tab.      *)
RoutesJustified == RoutesHaveAgents /\ ClosedTabsHaveNoRoutes

(* A tab somebody owns is not refused as closed.                             *)
OwnedTabsUsable == \A t \in closed : reg.owner[t] = None

(* The marks of a closed tab live as long as the work queued for it: when the *)
(* queue has drained and nothing else is to run, the mark is gone.            *)
ClosedMarksRetire == ~Runnable => \A t \in closed : tails[t] # <<>>

(* Both: closedTabIds marks a tab neither too long nor for its next owner.     *)
ClosedMarksAccurate == OwnedTabsUsable /\ ClosedMarksRetire

(* A command queued for a tab that closed is never sent for the tab that     *)
(* comes to bear the same id (tabGenerations).                               *)
NoCommandOutlivesItsTab ==
  [][\A q \in Requests : req[q].stale => req'[q].stage # "routed"]_vars

(* A command goes out only while the Agent that asked for it owns the tab,   *)
(* whoever released, lost or claimed the tab while the command was queued.   *)
OnlyOwnersCommand ==
  [][\A q \in Routes' \ Routes :
        req'[q].kind # "claim" => Owns(reg, req'[q].agent, req'[q].tab)]_vars

(* Whoever waits, waits for something that is under way, whatever became of the *)
(* connection and of the requests before it: for a synchronization that is      *)
(* still to be started, answered or given up, or in the queue of the tab behind *)
(* a request of that tab that is itself on its way.                             *)
WaitsAreServed ==
  /\ \A q \in In("sync") : \/ req[q].awaits \in settled \cup immediates
                           \/ req[q].awaits = conn /\ sync.stage # "idle"
  /\ \A q \in In("queued") : \E i \in 1..Len(tails[req[q].tab]) : tails[req[q].tab][i] = q
  /\ \A t \in Tabs : \A i \in 1..Len(tails[t]) :
       /\ req[tails[t][i]].tab = t
       /\ req[tails[t][i]].stage \in {"queued", "routed", "resolved", "rejected"}

(* Ownership behaves as TabOwnership says although a claim is answered after  *)
(* the tab was asked for, and tabs are released while commands are queued.    *)
Abstract == INSTANCE TabOwnership WITH owner <- reg.owner
ImplementsTabOwnership == Abstract!Spec

(* Every request is answered.                                                *)
EveryRequestAnswered ==
  \A q \in Requests : (req[q].stage # "free") ~> (req[q].stage = "free")

(* No command is sent on a connection before its inventory has been          *)
(* synchronized.                                                             *)
SyncBeforeCommands == Routes # {} => conn \in settled

(* The extension works on one command of a tab at a time.                    *)
OneCommandInExtension ==
  \A d, e \in {x \in executing : x.kind # "claim"} : d.tab = e.tab => d = e
=============================================================================
