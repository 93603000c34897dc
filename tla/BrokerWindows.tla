--------------------------- MODULE BrokerWindows ---------------------------
(***************************************************************************)
(* How sessions get a window and tabs of their own (mcp-server/src/broker/ *)
(* broker-server.ts: createOwnedTab, ensureOwnedWindow,                    *)
(* queueOwnedTabCreation, restoreOwnedSession, claimTab and                *)
(* handleBrowserEvent): the first create_tab or restore_session of a       *)
(* session opens its window, requests that come meanwhile share the same   *)
(* answer, later ones open tabs in that window, and the user closes tabs    *)
(* and windows while commands are under way.  The queues of tab commands    *)
(* and the marks of closed tabs, which only those use, are in BrokerTabs.   *)
(***************************************************************************)
EXTENDS BrokerCore

CONSTANT Kinds  \* the commands Agents send

\* A request is sent with an archive, which only "restore" looks at.
ASSUME KindsAssumption ==
  Kinds \subseteq {"create", "restore", "save", "claim"} /\ Archives # {}

VARIABLES
  creating,         \* tabCreationTails: the create_tab requests of each session
  initializing,     \* windowInitializations: the request that asked for the window
  place             \* the window a tab is or was in, None for ids never given out

windowVars == <<creating, initializing, place>>
vars == <<coreVars, windowVars>>

Stages == {"free", "sync", "queued", "joined", "ready", "routed", "resolved", "rejected"}
Commands == {"none", "create_window", "create_tab", "restore_session", "save_session",
             "list_tabs"}

FreeRequest == [stage |-> "free", kind |-> "create", agent |-> None, tab |-> None,
                archive |-> None, awaits |-> 0, command |-> "none", window |-> None,
                joins |-> None, got |-> {}]

OpenWindows == {place[t] : t \in browser}
Unborn(t) == place[t] = None
FreshWindow(w) == \A t \in Tabs : place[t] # w

Init ==
  /\ CoreInit
  /\ req = [q \in Requests |-> FreeRequest]
  /\ creating = [s \in Sessions |-> <<>>]
  /\ initializing = [s \in Sessions |-> None]
  /\ \E w \in Windows : place = [t \in Tabs |-> IF t \in browser THEN w ELSE None]

-----------------------------------------------------------------------------
\* Promises and the event loop

AtHead(q) == Head(creating[req[q].agent]) = q

Runnable ==
  \/ CoreRunnable
  \/ In("ready") # {}
  \/ \E q \in In("queued") : AtHead(q)

Macrotask == ~Runnable /\ batch' = FALSE
Microtask == batch' = FALSE

\* The request is answered; the next create_tab of its session may start.
Done(q) ==
  /\ req' = [req EXCEPT ![q] = FreeRequest]
  /\ creating' = IF req[q].kind = "create" /\ req[q].stage # "sync"
                 THEN [creating EXCEPT ![req[q].agent] = Tail(@)]
                 ELSE creating

\* sendExtensionCommand over an open connection.
Send(q, command, window, tabs) ==
  /\ req' = [req EXCEPT ![q].stage = "routed", ![q].command = command,
                        ![q].window = window]
  /\ executing' = executing \cup
       {[request |-> q, command |-> command, on |-> conn, window |-> window, tabs |-> tabs]}
  /\ UNCHANGED <<browser, inbox>>

-----------------------------------------------------------------------------
\* Requests

AgentRequests(q, s, kind, t, a) ==
  /\ Macrotask
  /\ Unused(q) /\ Connected(reg, s) /\ conn # 0
  /\ req' = [req EXCEPT ![q] = [FreeRequest EXCEPT
               !.stage = "sync", !.kind = kind, !.agent = s, !.awaits = conn,
               !.tab = IF kind = "claim" THEN t ELSE None,
               !.archive = IF kind = "restore" THEN a ELSE None]]
  /\ UNCHANGED <<reg, graceTimers, link, extension, windowVars>>

\* queueOwnedTabCreation
QueueCreation(q) ==
  /\ Microtask
  /\ Woken(q) /\ req[q].kind = "create" /\ Connected(reg, req[q].agent)
  /\ req' = [req EXCEPT ![q].stage = "queued"]
  /\ creating' = [creating EXCEPT ![req[q].agent] = Append(@, q)]
  /\ UNCHANGED <<reg, graceTimers, initializing, place, link, extension>>

\* save_session and the list_tabs of claim_tab
Forward(q) ==
  /\ Microtask
  /\ Woken(q) /\ req[q].kind \in {"save", "claim"}
  /\ Connected(reg, req[q].agent) /\ conn # 0
  /\ IF req[q].kind = "save" THEN Send(q, "save_session", None, reg.tabIds[req[q].agent])
                             ELSE Send(q, "list_tabs", None, browser)
  /\ UNCHANGED <<reg, graceTimers, windowVars, link>>

\* A restore_session of a session the Agent saved, or its turn for a create_tab.
WantsWindow(q) ==
  /\ Connected(reg, req[q].agent)
  /\ \/ /\ Woken(q) /\ req[q].kind = "restore"
        /\ req[q].archive \in reg.savedSessionIds[req[q].agent]
     \/ req[q].stage = "queued" /\ AtHead(q)

\* ensureOwnedWindow: the window exists, ...
HasWindow(q) ==
  /\ Microtask
  /\ WantsWindow(q) /\ reg.windowId[req[q].agent] # None
  /\ req' = [req EXCEPT ![q].stage = "ready", ![q].window = reg.windowId[req[q].agent]]
  /\ UNCHANGED <<reg, graceTimers, windowVars, link, extension>>

\* ... was asked for by another request, ...
JoinWindow(q) ==
  /\ Microtask
  /\ WantsWindow(q) /\ reg.windowId[req[q].agent] = None
  /\ initializing[req[q].agent] # None
  /\ req' = [req EXCEPT ![q].stage = "joined", ![q].joins = initializing[req[q].agent]]
  /\ UNCHANGED <<reg, graceTimers, windowVars, link, extension>>

\* ... or is asked for now.
OpenWindow(q) ==
  /\ Microtask
  /\ WantsWindow(q) /\ reg.windowId[req[q].agent] = None
  /\ initializing[req[q].agent] = None /\ conn # 0
  /\ Send(q, "create_window", None, {})
  /\ initializing' = [initializing EXCEPT ![req[q].agent] = q]
  /\ UNCHANGED <<reg, graceTimers, creating, place, link>>

\* The command itself, in the window of the session.
UseWindow(q) ==
  /\ Microtask
  /\ req[q].stage = "ready" /\ conn # 0
  /\ Send(q, IF req[q].kind = "create" THEN "create_tab" ELSE "restore_session",
          req[q].window, {})
  /\ UNCHANGED <<reg, graceTimers, windowVars, link>>

\* The request fails before it has sent its next command.
Refused(q) ==
  \/ Woken(q) /\ ~Connected(reg, req[q].agent)
  \/ Woken(q) /\ req[q].kind = "restore"
       /\ req[q].archive \notin reg.savedSessionIds[req[q].agent]
  \/ req[q].stage = "queued" /\ AtHead(q) /\ ~Connected(reg, req[q].agent)
  \/ conn = 0 /\ Woken(q) /\ req[q].kind \in {"save", "claim"}
  \/ conn = 0 /\ req[q].stage = "ready"
  \/ conn = 0 /\ WantsWindow(q) /\ reg.windowId[req[q].agent] = None
              /\ initializing[req[q].agent] = None
  \/ req[q].stage = "rejected" /\ req[q].command # "create_window"

Fail(q) ==
  /\ Microtask
  /\ Refused(q)
  /\ Done(q)
  /\ UNCHANGED <<reg, graceTimers, initializing, place, link, extension>>

-----------------------------------------------------------------------------
\* Continuations of the answers

Joined(q) == {r \in In("joined") : req[r].joins = q}

\* Mutant: the session is given the tabs of its window, and not the window.
WindowOpenedUnassigned(q) ==
  /\ Microtask
  /\ req[q].stage = "resolved" /\ req[q].command = "create_window"
  /\ MayClaim(reg, req[q].agent, req[q].got)
  /\ reg' = ClaimTabs(reg, req[q].agent, req[q].got)
  /\ initializing' = [initializing EXCEPT ![req[q].agent] = None]
  /\ req' = [r \in Requests |->
               IF r = q /\ req[q].kind = "create" THEN FreeRequest
               ELSE IF r = q \/ r \in Joined(q)
                    THEN [req[r] EXCEPT !.stage = "ready", !.window = req[q].window]
                    ELSE req[r]]
  /\ creating' = IF req[q].kind = "create"
                 THEN [creating EXCEPT ![req[q].agent] = Tail(@)] ELSE creating
  /\ UNCHANGED <<graceTimers, place, link, extension>>

\* The answer to create_window.  The request that asked for it is served by the
\* window's first tab if it is a create_tab; all others go on in that window.
WindowOpened(q) ==
  /\ Microtask
  /\ req[q].stage = "resolved" /\ req[q].command = "create_window"
  /\ MayClaim(reg, req[q].agent, req[q].got)
  /\ reg' = AssignWindow(reg, req[q].agent, req[q].window, req[q].got)
  /\ initializing' = [initializing EXCEPT ![req[q].agent] = None]
  /\ req' = [r \in Requests |->
               IF r = q /\ req[q].kind = "create" THEN FreeRequest
               ELSE IF r = q \/ r \in Joined(q)
                    THEN [req[r] EXCEPT !.stage = "ready", !.window = req[q].window]
                    ELSE req[r]]
  /\ creating' = IF req[q].kind = "create"
                 THEN [creating EXCEPT ![req[q].agent] = Tail(@)] ELSE creating
  /\ UNCHANGED <<graceTimers, place, link, extension>>

\* Mutant: the failed request for the window is kept.
WindowFailedKept(q) ==
  /\ Microtask
  /\ \/ req[q].stage = "rejected" /\ req[q].command = "create_window"
     \/ req[q].stage = "resolved" /\ req[q].command = "create_window"
          /\ ~MayClaim(reg, req[q].agent, req[q].got)
  /\ req' = [r \in Requests |->
               IF r = q \/ r \in Joined(q)
               THEN [req[r] EXCEPT !.stage = "rejected", !.command = "none"] ELSE req[r]]
  /\ UNCHANGED <<reg, graceTimers, initializing, creating, place, link, extension>>

\* The window was not opened, or its tab is already another session's.
WindowFailed(q) ==
  /\ Microtask
  /\ \/ req[q].stage = "rejected" /\ req[q].command = "create_window"
     \/ req[q].stage = "resolved" /\ req[q].command = "create_window"
          /\ ~MayClaim(reg, req[q].agent, req[q].got)
  /\ initializing' = [initializing EXCEPT ![req[q].agent] = None]
  /\ req' = [r \in Requests |->
               IF r = q \/ r \in Joined(q)
               THEN [req[r] EXCEPT !.stage = "rejected", !.command = "none"] ELSE req[r]]
  /\ UNCHANGED <<reg, graceTimers, creating, place, link, extension>>

\* The tabs an answer gives to the session: the new tab, those restored, or the
\* claimed one if it was listed.
TabsGiven(q) ==
  CASE req[q].command \in {"create_tab", "restore_session"} -> req[q].got
    [] req[q].command = "list_tabs" -> req[q].got \cap {req[q].tab}
    [] OTHER -> {}

\* claimTab, claimTabsAtomically: all of them or none.
Finish(q) ==
  /\ Microtask
  /\ req[q].stage = "resolved" /\ req[q].command # "create_window"
  /\ reg' = IF MayClaim(reg, req[q].agent, TabsGiven(q))
            THEN ClaimTabs(reg, req[q].agent, TabsGiven(q)) ELSE reg
  /\ Done(q)
  /\ UNCHANGED <<graceTimers, initializing, place, link, extension>>

-----------------------------------------------------------------------------
\* Messages from the extension

\* handleExtensionResponse; a saved session is noted at once.
HandleReply ==
  /\ Deliver(Runnable)
  /\ Head(inbox).type = "reply"
  /\ LET m == Head(inbox)
         q == m.request
     IN IF q \notin Routes
        THEN UNCHANGED <<req, reg>>
        ELSE /\ req' = IF m.ok
                       THEN [req EXCEPT ![q].stage = "resolved", ![q].got = m.tabs,
                               ![q].window = IF req[q].command = "create_window"
                                             THEN m.window ELSE @]
                       ELSE Rejected(req, {q})
             /\ reg' = IF m.ok /\ req[q].command = "save_session"
                       THEN AddSavedSession(reg, req[q].agent, m.archive) ELSE reg
  /\ UNCHANGED <<graceTimers, windowVars, link, browser, executing>>

\* The routes whose window is the one in the event.
RoutesIn(w) ==
  {q \in Routes : req[q].command \in {"create_tab", "restore_session"} /\ req[q].window = w}

\* handleBrowserEvent
HandleTabRemoved ==
  /\ Deliver(Runnable)
  /\ Head(inbox).type = "removed"
  /\ reg' = ReleaseTabs(reg, {Head(inbox).tab})
  /\ req' = Rejected(req, RoutesIn(Head(inbox).window))
  /\ UNCHANGED <<graceTimers, windowVars, link, browser, executing>>

HandleWindowRemoved ==
  /\ Deliver(Runnable)
  /\ Head(inbox).type = "window_removed"
  /\ reg' = ReleaseWindow(reg, Head(inbox).window)
  /\ req' = Rejected(req, RoutesIn(Head(inbox).window))
  /\ UNCHANGED <<graceTimers, windowVars, link, browser, executing>>

-----------------------------------------------------------------------------
\* The browser and the extension

OtherTasks == UNCHANGED <<reg, graceTimers, req, link, batch, creating, initializing>>

Reply(e, ok, w, tabs, a) ==
  [type |-> "reply", request |-> e.request, ok |-> ok, window |-> w, tabs |-> tabs,
   archive |-> a]

Finishes(e, ok, w, tabs, a) ==
  /\ Len(inbox) < MaxInbox
  /\ executing' = executing \ {e}
  /\ Post(ReplyTo(e, Reply(e, ok, w, tabs, a)))

Opens(t, w) == /\ Unborn(t)
               /\ browser' = browser \cup {t}
               /\ place' = [place EXCEPT ![t] = w]

ExecuteCreateWindow(e, t, w) ==
  /\ e.command = "create_window"
  /\ FreshWindow(w) /\ Opens(t, w)
  /\ Finishes(e, TRUE, w, {t}, None)
  /\ OtherTasks

ExecuteCreateTab(e, t) ==
  /\ e.command = "create_tab"
  /\ e.window \in OpenWindows /\ Opens(t, e.window)
  /\ Finishes(e, TRUE, None, {t}, None)
  /\ OtherTasks

\* SessionManager.restoreSession opens the tabs one by one.
ExecuteRestoreTab(e, t) ==
  /\ e.command = "restore_session"
  /\ e.window \in OpenWindows /\ Opens(t, e.window)
  /\ executing' = (executing \ {e}) \cup {[e EXCEPT !.tabs = @ \cup {t}]}
  /\ UNCHANGED inbox /\ OtherTasks

\* The answers that open nothing: the tabs restored, the session saved if all of
\* its tabs still exist, the tabs listed as they were at some moment since.
ExecuteAnswer(e) ==
  /\ \/ e.command = "restore_session" /\ Finishes(e, TRUE, None, e.tabs, None)
     \/ /\ e.command = "save_session" /\ e.tabs \subseteq browser
        /\ \E a \in Archives :
             /\ \A s \in Sessions : a \notin reg.savedSessionIds[s]
             /\ \A i \in 1..Len(inbox) : inbox[i].type = "reply" => inbox[i].archive # a
             /\ Finishes(e, TRUE, None, {}, a)
     \/ /\ e.command = "list_tabs"
        /\ \E tabs \in {e.tabs, browser} : Finishes(e, TRUE, None, tabs, None)
  /\ UNCHANGED <<browser, place>> /\ OtherTasks

ExecuteFailure(e) ==
  /\ e.command # "list_tabs"
  /\ Finishes(e, FALSE, None, {}, None)
  /\ UNCHANGED <<browser, place>> /\ OtherTasks

UserOpensTab(t, w) ==
  /\ w \in OpenWindows \/ FreshWindow(w)
  /\ Opens(t, w)
  /\ UNCHANGED <<executing, inbox>> /\ OtherTasks

\* A window goes with its last tab.
UserClosesTab(t) ==
  /\ t \in browser /\ Len(inbox) < MaxInbox
  /\ browser' = browser \ {t}
  /\ Post(<<[type |-> "removed", tab |-> t, window |-> place[t]]>> \o
          (IF \E x \in browser' : place[x] = place[t] THEN <<>>
           ELSE <<[type |-> "window_removed", window |-> place[t]]>>))
  /\ UNCHANGED <<executing, place>> /\ OtherTasks

-----------------------------------------------------------------------------
Continuation(q) ==
  \/ QueueCreation(q) \/ Forward(q) \/ HasWindow(q) \/ JoinWindow(q) \/ OpenWindow(q)
  \/ UseWindow(q) \/ Fail(q) \/ WindowOpened(q) \/ WindowFailed(q) \/ Finish(q)

TimesOut(q) == Macrotask /\ Timeout(q) /\ UNCHANGED windowVars

Syncs == Microtask /\ (FinishSync \/ FailSync) /\ UNCHANGED windowVars

MessageHandler ==
  \/ HandleReply \/ HandleTabRemoved \/ HandleWindowRemoved
  \/ Deliver(Runnable) /\ HandleInventory /\ UNCHANGED windowVars

OtherMacrotask ==
  /\ Macrotask
  /\ (\E s \in Sessions : AgentTask(s)) \/ Tick \/ ConnectionTask
  /\ UNCHANGED windowVars

Extension ==
  \/ \E e \in executing, t \in Tabs :
       \/ \E w \in Windows : ExecuteCreateWindow(e, t, w)
       \/ ExecuteCreateTab(e, t)
       \/ ExecuteRestoreTab(e, t)
  \/ \E e \in executing : ExecuteAnswer(e) \/ ExecuteFailure(e)
  \/ \E t \in Tabs : UserClosesTab(t) \/ \E w \in Windows : UserOpensTab(t, w)
  \/ SendInventory /\ UNCHANGED windowVars

Next ==
  \/ \E q \in Requests, s \in Sessions, kind \in Kinds, t \in Tabs, a \in Archives :
       AgentRequests(q, s, kind, t, a)
  \/ \E q \in Requests : Continuation(q) \/ TimesOut(q)
  \/ Syncs
  \/ MessageHandler
  \/ OtherMacrotask
  \/ Extension

Spec == Init /\ [][Next]_vars

\* As in BrokerTabs: the event loop gets to everything in the end.
Fairness ==
  /\ \A q \in Requests : WF_vars(Continuation(q)) /\ SF_vars(TimesOut(q))
  /\ SF_vars(MessageHandler)
  /\ WF_vars(Syncs)
  /\ SF_vars(Macrotask /\ (SyncTimeout \/ \E c \in Connections : StartSync(c))
                        /\ UNCHANGED windowVars)

FairSpec == Spec /\ Fairness
-----------------------------------------------------------------------------
\* Properties

Request == [stage: Stages, kind: {"create", "restore", "save", "claim"},
            agent: Sessions \cup {None}, tab: Tabs \cup {None},
            archive: Archives \cup {None}, awaits: 0..MaxConnections,
            command: Commands, window: Windows \cup {None},
            joins: Requests \cup {None}, got: SUBSET Tabs]

TypeOK ==
  /\ CoreTypeOK
  /\ req \in [Requests -> Request]
  /\ creating \in [Sessions -> BoundedSeq(Requests, Cardinality(Requests))]
  /\ initializing \in [Sessions -> Requests \cup {None}]
  /\ place \in [Tabs -> Windows \cup {None}]

(* Ownership behaves as TabOwnership says when it is given by the answers to  *)
(* create_window, create_tab, restore_session and claim_tab.                  *)
Abstract == INSTANCE TabOwnership WITH owner <- reg.owner
ImplementsTabOwnership == Abstract!Spec

(* A session never asks for a second window: not while its first one is being *)
(* opened for another of its requests, and not when it has one.               *)
OneWindowRequest ==
  \A q \in {r \in Routes : req[r].command = "create_window"} :
     /\ reg.windowId[req[q].agent] = None
     /\ \A r \in Routes : /\ req[r].command = "create_window"
                          /\ req[r].agent = req[q].agent
                          => r = q

(* What windowInitializations holds is a request for a window that is still    *)
(* under way, and whoever waits for a window waits for that request: a failed  *)
(* one is never found by a later request.                                     *)
InitializationsUnderWay ==
  /\ \A s \in Sessions : initializing[s] # None =>
       LET r == req[initializing[s]]
       IN /\ r.agent = s /\ r.command = "create_window"
          /\ r.stage \in {"routed", "resolved", "rejected"}
  /\ \A q \in In("joined") : req[q].joins = initializing[req[q].agent]

(* The create_tab requests of a session are served one at a time.              *)
CreationsOneByOne ==
  LET underWay == {q \in Requests : /\ req[q].kind = "create"
                                    /\ req[q].stage \notin {"free", "sync", "queued"}}
  IN \A p, q \in underWay : req[p].agent = req[q].agent => p = q

(* What a session opens, it opens one at a time: its window, and the tabs its  *)
(* create_tab requests ask for (ensureOwnedWindow, queueOwnedTabCreation).     *)
OpenedOneByOne == OneWindowRequest /\ CreationsOneByOne

(* Both: there is one thing to wait for, and it is under way.                  *)
CreationsServed == OpenedOneByOne /\ InitializationsUnderWay

(* A command that opens tabs names the window of the session it is sent for,   *)
(* also when that window was asked for by another request.                    *)
CommandsUseOwnWindow ==
  [][\A q \in Routes' \ Routes :
        req'[q].command \in {"create_tab", "restore_session"} =>
           req'[q].window = reg'.windowId[req'[q].agent]]_vars

(* Every request is answered, whatever happens to the window it waits for.     *)
EveryRequestAnswered ==
  \A q \in Requests : (req[q].stage # "free") ~> (req[q].stage = "free")

\* Nothing about tabs or windows is on its way and the inventory has been read.
Settled == /\ conn \in settled /\ ~Runnable
           /\ \A i \in 1..Len(inbox) : inbox[i].type \notin {"removed", "window_removed"}

(* A tab somebody owns exists, once the Broker has heard all the browser said. *)
OwnedTabsExist == Settled => \A t \in Tabs : reg.owner[t] # None => t \in browser

(* After a resynchronization the window of a session is one of those that the *)
(* inventory shows.                                                            *)
ResyncKnowsWindows ==
  [][sync.stage = "resolved" /\ sync' = NoSync =>
       \A s \in reg'.live :
          reg'.windowId[s] \in {None} \cup {place[t] : t \in sync.tabs}]_vars

\* The step handles an event of type `type`.
Handles(type) == /\ inbox # <<>> /\ Head(inbox).type = type
                 /\ inbox' = Tail(inbox) /\ conn' = conn

(* A closing tab ends only commands that lose their tab or window by it.       *)
OtherTabsGoOn ==
  [][Handles("removed") =>
       \A q \in Routes : req'[q].stage = "rejected" => req[q].window \notin OpenWindows]_vars

(* A closing window takes away only tabs that have closed.                     *)
OpenTabsStayOwned ==
  [][Handles("window_removed") =>
       \A t \in browser : reg'.owner[t] = reg.owner[t]]_vars
=============================================================================
