----------------------------- MODULE PageCommands -----------------------------
(***************************************************************************)
(* The commands that work on the page of one tab (extension/src/           *)
(* background/): snapshot, interact, navigate and execute_script of        *)
(* command-handler.ts, with snapshot-engine.ts, actionability-checker.ts,  *)
(* input-simulator.ts, the navigation and the scripts of                   *)
(* debugger-controller.ts and lightweight-controller.ts.                   *)
(*                                                                         *)
(* The Broker sends a tab one command at a time, but one that it has given *)
(* up goes on here, so commands may overlap.  The page is the sequence of  *)
(* its interactive elements, and every change of it is counted.  An action *)
(* is the answer to a request of the command and what the worker does then *)
(* up to its next request.  The debugger is attached (see TabDebugger);    *)
(* any request may fail, and what it does may be done all the same.        *)
(***************************************************************************)
EXTENDS Naturals, Sequences, FiniteSets, TLC

CONSTANTS
  Elements,    \* interactive elements that the page may have
  Cmds,        \* the commands, in any order
  MaxChanges,  \* bound on changes of the page
  None

ASSUME PageAssumption ==
  /\ IsFiniteSet(Elements) /\ IsFiniteSet(Cmds)
  /\ MaxChanges \in Nat /\ None \notin Elements

VARIABLES
  page,      \* the page: at counts its changes, els are its elements
  cache,     \* cache of the SnapshotEngine, until it is 5 s old
  cmd,       \* the commands
  seen,      \* the snapshot that was answered last
  acted,     \* the page's count that the last answered input or navigation has led to
  navigations,   \* by command, its wait for a navigation event
  pageEnabled,   \* pageEnabledTabs has the tab
  delivering,    \* Chrome delivers the events of the tab's page
  strays     \* commands whose lightweight script was given up and may still run

vars == <<page, cache, cmd, seen, acted, navigations, pageEnabled, delivering, strays>>

Contents == {els \in UNION {[1..n -> Elements] : n \in 0..Cardinality(Elements)} :
               \A i, j \in DOMAIN els : els[i] = els[j] => i = j}

\* A snapshot; overtaken: its tree was read before, and stored after, an action
\* that invalidated the cache.
Snapshot(at, els, overtaken) == [at |-> at, els |-> els, overtaken |-> overtaken]
NoSnapshot == Snapshot(0, <<>>, FALSE)
Cached == cache # NoSnapshot

Kinds == {"snapshot", "click", "check", "press", "hover", "goto", "history", "script", "wait"}

\* Those that answer with a snapshot.
Answers == {"snapshot", "click", "check", "press", "hover"}

\* after: acted when a command of the Answers began; alone: no other one was under way then;
\* hitAt: the page's count when its input was done.
NewCommand ==
  [pc |-> "new", after |-> 0, alone |-> TRUE, kind |-> "snapshot", ref |-> 0, chosen |-> None,
   target |-> None, position |-> 0, hit |-> None, hitAt |-> 0, tree |-> NoSnapshot,
   then |-> "answer", runs |-> 0, ok |-> FALSE]

Init ==
  /\ page \in [at : {1}, els : Contents]
  /\ cache = NoSnapshot /\ seen = NoSnapshot /\ acted = 0
  /\ cmd = [c \in Cmds |-> NewCommand]
  /\ navigations = [c \in Cmds |-> "none"]
  /\ pageEnabled = FALSE /\ delivering = FALSE
  /\ strays = {}

At(c, pc) == cmd[c].pc = pc
Is(c, kinds) == cmd[c].kind \in kinds
Has(els, e) == \E i \in DOMAIN els : els[i] = e

\* The page after something that may have changed it.
MayChange(p) ==
  {p} \cup (IF p.at > MaxChanges THEN {}
            ELSE {[at |-> p.at + 1, els |-> els] : els \in Contents})

Navigation == <<navigations, pageEnabled, delivering>>

\* Commands that change nothing but their own state.
Set(c, r) == cmd' = [cmd EXCEPT ![c] = r]
Fail(r) == [r EXCEPT !.pc = "done"]

\* A command that begins.
Idle(c) == At(c, "new") \/ At(c, "done")
Begun(c, kind) ==
  [cmd[c] EXCEPT !.kind = kind, !.after = IF kind \in Answers THEN acted ELSE 0,
                 !.alone = \A d \in Cmds \ {c} : Idle(d)]

-----------------------------------------------------------------------------
(* SnapshotEngine                                                           *)

\* A snapshot s is there: the command answers with it, or finds its target in it
\* (resolveRef).
Continue(r, s) ==
  CASE r.then = "answer" -> [r EXCEPT !.pc = "done", !.ok = TRUE, !.tree = s]
    [] r.then = "find" /\ r.ref <= Len(s.els) ->
         [r EXCEPT !.pc = "actionable", !.target = s.els[r.ref], !.tree = NoSnapshot]
    [] OTHER -> Fail(r)

\* getSnapshot from here on.
GetSnapshot(r, useCache) ==
  IF useCache /\ Cached THEN Continue(r, cache) ELSE [r EXCEPT !.pc = "tree"]

\* What an answer changes for the Agent.
Answered(r) ==
  /\ seen' = IF r.pc = "done" /\ r.ok THEN r.tree ELSE seen
  /\ acted' = IF r.pc = "done" /\ r.ok /\ r.kind \in {"click", "check", "press"} THEN r.hitAt ELSE acted

\* invalidateCache, and the trees that were read before it are now too old.
Invalidated(f) ==
  [c \in Cmds |-> IF f[c].pc = "title" THEN [f[c] EXCEPT !.tree.overtaken = TRUE] ELSE f[c]]

\* _generateSnapshot: the accessibility tree, then the tab's title.
ReadTree(c) ==
  /\ At(c, "tree")
  /\ Set(c, [cmd[c] EXCEPT !.pc = "title", !.tree = Snapshot(page.at, page.els, FALSE)])
  /\ UNCHANGED <<page, cache, seen, acted, Navigation, strays>>

ReadTitle(c) ==
  /\ At(c, "title")
  /\ cache' = cmd[c].tree
  /\ LET r == Continue(cmd[c], cmd[c].tree) IN Set(c, r) /\ Answered(r)
  /\ UNCHANGED <<page, Navigation, strays>>

SnapshotFails(c) ==
  /\ At(c, "tree") \/ At(c, "title")
  /\ Set(c, Fail(cmd[c]))
  /\ UNCHANGED <<page, cache, seen, acted, Navigation, strays>>

Expire ==
  /\ Cached /\ cache' = NoSnapshot
  /\ UNCHANGED <<page, cmd, seen, acted, Navigation, strays>>

-----------------------------------------------------------------------------
(* snapshot and interact                                                    *)

StartSnapshot(c) ==
  /\ At(c, "new")
  /\ LET r == GetSnapshot(Begun(c, "snapshot"), TRUE) IN Set(c, r) /\ Answered(r)
  /\ UNCHANGED <<page, cache, Navigation, strays>>

\* The Agent chooses an element of the snapshot it has seen last.
StartInteract(c, kind, ref) ==
  /\ At(c, "new") /\ ref \in DOMAIN seen.els
  /\ Set(c, GetSnapshot([Begun(c, kind) EXCEPT !.ref = ref, !.then = "find",
                                                !.chosen = seen.els[ref]], TRUE))
  /\ UNCHANGED <<page, cache, seen, acted, Navigation, strays>>

\* press needs no target.
StartPress(c) ==
  /\ At(c, "new")
  /\ Set(c, [Begun(c, "press") EXCEPT !.pc = "dispatch"])
  /\ UNCHANGED <<page, cache, seen, acted, Navigation, strays>>

\* waitForActionable polls until the element is there.
Actionable(c) ==
  /\ At(c, "actionable")
  /\ Has(page.els, cmd[c].target)
  /\ Set(c, [cmd[c] EXCEPT !.pc = IF cmd[c].kind = "check" THEN "dispatch" ELSE "aim"])
  /\ UNCHANGED <<page, cache, seen, acted, Navigation, strays>>

\* getElementCenter: a place on the page.
Aim(c) ==
  /\ At(c, "aim")
  /\ \E i \in DOMAIN page.els :
       page.els[i] = cmd[c].target /\ Set(c, [cmd[c] EXCEPT !.pc = "dispatch", !.position = i])
  /\ UNCHANGED <<page, cache, seen, acted, Navigation, strays>>

InteractFails(c) ==
  /\ At(c, "actionable") \/ At(c, "aim") \/ At(c, "dispatch")
  /\ page' \in IF At(c, "dispatch") THEN MayChange(page) ELSE {page}
  /\ Set(c, Fail(cmd[c]))
  /\ UNCHANGED <<cache, seen, acted, Navigation, strays>>

\* What is at that place now is hit; check, uncheck and type
\* (a "check" here) address the element itself.
Hit(c) ==
  CASE Is(c, {"check"}) -> IF Has(page.els, cmd[c].target) THEN cmd[c].target ELSE None
    [] Is(c, {"press"}) -> None
    [] OTHER -> IF cmd[c].position \in DOMAIN page.els THEN page.els[cmd[c].position] ELSE None

\* Bug: only a click or a check counts as a change of the page.
ChangesOnClick(kind) == kind \in {"click", "check"}
ChangesPage(kind) == kind # "hover"

\* The last input event is done: the cache is invalidated, and the answer has a
\* snapshot of what the page is now.
Dispatch(c) ==
  /\ At(c, "dispatch")
  /\ page' \in MayChange(page)
  /\ LET acts == [cmd[c] EXCEPT !.hit = Hit(c), !.hitAt = page'.at, !.then = "answer"]
         r == IF ChangesPage(cmd[c].kind) THEN [acts EXCEPT !.pc = "tree"] ELSE GetSnapshot(acts, TRUE)
     IN IF ChangesPage(cmd[c].kind)
        THEN /\ cache' = NoSnapshot /\ cmd' = Invalidated([cmd EXCEPT ![c] = r])
             /\ UNCHANGED <<seen, acted>>
        ELSE Set(c, r) /\ Answered(r) /\ UNCHANGED cache
  /\ UNCHANGED <<Navigation, strays>>

-----------------------------------------------------------------------------
(* navigate                                                                 *)

\* goto: the wait begins as Page.navigate is sent.
Going(r) == [r EXCEPT !.pc = "going"]
StartGoto(c) ==
  /\ At(c, "new")
  /\ LET r == Begun(c, "goto") IN
     IF pageEnabled THEN Set(c, Going(r)) /\ navigations' = [navigations EXCEPT ![c] = "waiting"]
     ELSE Set(c, [r EXCEPT !.pc = "enable"]) /\ UNCHANGED navigations
  /\ UNCHANGED <<page, cache, seen, acted, pageEnabled, delivering, strays>>

EnablePage(c) ==
  /\ At(c, "enable")
  /\ Set(c, Going(cmd[c])) /\ navigations' = [navigations EXCEPT ![c] = "waiting"]
  /\ pageEnabled' = TRUE /\ delivering' = TRUE
  /\ UNCHANGED <<page, cache, seen, acted, strays>>

\* An action on the page as a whole is done: its snapshots are thrown away.
\* Bug: they are kept.
KeepsCache(c) ==
  /\ UNCHANGED cache /\ Set(c, [cmd[c] EXCEPT !.pc = "done", !.ok = TRUE])
Invalidates(c) ==
  /\ cache' = NoSnapshot
  /\ cmd' = Invalidated([cmd EXCEPT ![c].pc = "done", ![c].ok = TRUE])

Navigated(c) == Invalidates(c) /\ acted' = page'.at /\ UNCHANGED seen

\* Page.navigate is answered; the command goes on when its wait is over.
NavigateAnswered(c) ==
  /\ At(c, "going")
  /\ page' \in MayChange(page)
  /\ IF navigations[c] = "over" THEN Navigated(c)
     ELSE Set(c, [cmd[c] EXCEPT !.pc = "loading"]) /\ UNCHANGED <<cache, seen, acted>>
  /\ UNCHANGED <<Navigation, strays>>

\* The listener is removed, by an event or by its timer.
Completes(cs) ==
  /\ navigations' = [c \in Cmds |-> IF c \in cs THEN "over" ELSE navigations[c]]
  /\ UNCHANGED <<page, cache, cmd, seen, acted, pageEnabled, delivering, strays>>
Waiting == {c \in Cmds : navigations[c] = "waiting"}

\* loadEventFired, of this navigation or of an earlier one, ends every wait;
\* frameNavigated ends those that do not know their frame yet, or all of that frame.
NavigationEvent ==
  /\ delivering /\ Waiting # {}
  /\ \E cs \in {Waiting, {c \in Waiting : ~At(c, "loading")}} : Completes(cs)
\* Bug: there is no timer, an event always comes.
NavigationUntimed(c) == c \in Waiting /\ delivering /\ Completes({c})
NavigationTimer(c) == c \in Waiting /\ Completes({c})

Loaded(c) ==
  /\ At(c, "loading") /\ navigations[c] = "over"
  /\ UNCHANGED page /\ Navigated(c)
  /\ UNCHANGED <<Navigation, strays>>

\* go_back, go_forward, reload: they wait for nothing but the answer.
StartHistory(c) ==
  /\ At(c, "new")
  /\ Set(c, [Begun(c, "history") EXCEPT !.pc = "history"])
  /\ UNCHANGED <<page, cache, seen, acted, Navigation, strays>>
HistoryAnswered(c) ==
  /\ At(c, "history")
  /\ page' \in MayChange(page)
  /\ Navigated(c)
  /\ UNCHANGED <<Navigation, strays>>
\* There is no entry to go to.
HistoryEnds(c) ==
  /\ At(c, "history")
  /\ Set(c, [cmd[c] EXCEPT !.pc = "done", !.ok = TRUE])
  /\ UNCHANGED <<page, cache, seen, acted, Navigation, strays>>

NavigateFails(c) ==
  /\ \E pc \in {"enable", "going", "history"} : At(c, pc)
  /\ Set(c, Fail(cmd[c]))
  /\ UNCHANGED <<page, cache, seen, acted, Navigation, strays>>

-----------------------------------------------------------------------------
(* runLightweightFirst: execute_script, and wait_for_element, which asks again *)
(* and again until its time is up                                           *)

StartScript(c, kind, e) ==
  /\ At(c, "new")
  /\ Set(c, [Begun(c, kind) EXCEPT !.pc = "light", !.target = e])
  /\ UNCHANGED <<page, cache, seen, acted, Navigation, strays>>

\* The script runs in the page.  Whatever it does there, the cache is left alone, and
\* it does not count in acted.
Run(c, next, ok) ==
  /\ page' \in IF Is(c, {"script"}) THEN MayChange(page) ELSE {page}
  /\ Set(c, [cmd[c] EXCEPT !.pc = next, !.ok = ok,
                           !.runs = IF Is(c, {"script"}) THEN @ + 1 ELSE @])
  /\ UNCHANGED <<cache, seen, acted, Navigation>>

Found(c) == Is(c, {"wait"}) => Has(page.els, cmd[c].target)

\* The script returns a value, or throws one and is given to the debugger; a wait
\* may end without its element.
LightRuns(c) ==
  /\ At(c, "light") /\ UNCHANGED strays
  /\ \/ Found(c) /\ Run(c, "done", TRUE)
     \/ Run(c, "attached", FALSE)
     \/ Is(c, {"wait"}) /\ Run(c, "done", FALSE)

\* The script cannot be injected.
LightRefused(c) ==
  /\ At(c, "light")
  /\ Set(c, [cmd[c] EXCEPT !.pc = "attached"])
  /\ UNCHANGED <<page, cache, seen, acted, Navigation, strays>>

LightTimeout(c) ==
  /\ At(c, "light")
  /\ Set(c, [cmd[c] EXCEPT !.pc = "attached"])
  /\ strays' = IF Is(c, {"script"}) THEN strays \cup {c} ELSE strays
  /\ UNCHANGED <<page, cache, seen, acted, Navigation>>

\* Bug: a script that fails in the debugger, too, is tried once more.
DebuggerRetries(c) ==
  /\ At(c, "attached") /\ UNCHANGED strays
  /\ \/ Found(c) /\ Run(c, "done", TRUE)
     \/ Run(c, "light", FALSE)

\* Runtime.evaluate.  The second case is a script that throws, or whose time is up, and
\* which runs all the same; what it does later is a change of the page by itself.
DebuggerRuns(c) ==
  /\ At(c, "attached") /\ UNCHANGED strays
  /\ \/ Found(c) /\ Run(c, "done", TRUE)
     \/ Run(c, "done", FALSE)

\* It never runs.
ScriptFails(c) ==
  /\ At(c, "attached")
  /\ Set(c, Fail(cmd[c]))
  /\ UNCHANGED <<page, cache, seen, acted, Navigation, strays>>

StrayRuns(c) ==
  /\ c \in strays /\ strays' = strays \ {c}
  /\ Run(c, cmd[c].pc, cmd[c].ok)

-----------------------------------------------------------------------------
(* The page and the debugger                                                *)

PageChanges ==
  /\ page' \in MayChange(page) /\ page' # page
  /\ UNCHANGED <<cache, cmd, seen, acted, Navigation, strays>>

\* Nothing runs, and the idle debugger is detached: the Page domain is off again.
Detach ==
  /\ delivering /\ \A c \in Cmds : Idle(c)
  /\ delivering' = FALSE
  /\ UNCHANGED <<page, cache, cmd, seen, acted, navigations, pageEnabled, strays>>

-----------------------------------------------------------------------------

Start(c) ==
  \/ StartSnapshot(c) \/ StartPress(c) \/ StartGoto(c) \/ StartHistory(c)
  \/ \E kind \in {"click", "check", "hover"}, ref \in 1..Cardinality(Elements) : StartInteract(c, kind, ref)
  \/ StartScript(c, "script", None)
  \/ \E e \in Elements : StartScript(c, "wait", e)

Step(c) ==
  \/ ReadTree(c) \/ ReadTitle(c) \/ SnapshotFails(c)
  \/ Actionable(c) \/ Aim(c) \/ Dispatch(c) \/ InteractFails(c)
  \/ EnablePage(c) \/ NavigateAnswered(c) \/ Loaded(c) \/ HistoryAnswered(c) \/ HistoryEnds(c)
  \/ NavigateFails(c)
  \/ LightRuns(c) \/ LightRefused(c) \/ LightTimeout(c) \/ DebuggerRuns(c) \/ ScriptFails(c)

Next ==
  \/ \E c \in Cmds : Start(c) \/ Step(c) \/ NavigationTimer(c) \/ StrayRuns(c)
  \/ NavigationEvent \/ Expire \/ PageChanges \/ Detach

Spec == Init /\ [][Next]_vars

\* A request is answered, fails or times out, and timers fire.
FairSpec == Spec /\ \A c \in Cmds : WF_vars(Step(c)) /\ WF_vars(NavigationTimer(c))

-----------------------------------------------------------------------------
(* Properties                                                               *)

Stages == {"new", "tree", "title", "actionable", "aim", "dispatch", "enable", "going",
           "loading", "history", "light", "attached", "done"}
Snapshots == [at : 0..(MaxChanges + 1), els : Seq(Elements), overtaken : BOOLEAN]
Command ==
  [pc : Stages, kind : Kinds, ref : Nat, chosen : Elements \cup {None},
   target : Elements \cup {None}, position : Nat, hit : Elements \cup {None},
   hitAt : 0..(MaxChanges + 1), tree : Snapshots, then : {"answer", "find"}, runs : Nat,
   ok : BOOLEAN, after : 0..(MaxChanges + 1), alone : BOOLEAN]

TypeOK ==
  /\ page \in [at : 1..(MaxChanges + 1), els : Seq(Elements)]
  /\ cache \in Snapshots /\ seen \in Snapshots /\ acted \in 0..(MaxChanges + 1)
  /\ cmd \in [Cmds -> Command]
  /\ navigations \in [Cmds -> {"none", "waiting", "over"}]
  /\ pageEnabled \in BOOLEAN /\ delivering \in BOOLEAN /\ strays \in SUBSET Cmds

\* A snapshot in the answer of a click, a check or a key press was read after it, also
\* when other commands are under way.
ActionsAreSeen ==
  \A c \in Cmds : At(c, "done") /\ cmd[c].ok /\ Is(c, {"click", "check", "press"})
    => cmd[c].tree.at >= cmd[c].hitAt

\* The Broker sends a tab one command after the other, until it gives one up.
Overlapped == \E c \in Cmds : ~cmd[c].alone

\* The snapshot of an answer, and the one that is kept for the next, show every input
\* and every navigation that was answered before the command began.
NothingStale ==
  /\ \A c \in Cmds : At(c, "done") /\ cmd[c].ok /\ Is(c, Answers) => cmd[c].tree.at >= cmd[c].after
  /\ Cached => cache.at >= acted

\* An Agent is shown the page after its own input and navigations: after the action
\* itself always, and after all answered ones before as long as the commands of the
\* tab are one after the other.  It is not so when they overlap (CacheNeverOvertaken),
\* nor for what a script has done (ScriptsAreSeen).
SnapshotsAreCurrent == ActionsAreSeen /\ (~Overlapped => NothingStale)

\* A script is run by the lightweight path, which may be given up and run all the
\* same, and by the debugger: never more than twice, the one that is still to come
\* included, and at least once when the Agent is told of its result.
ScriptRunsAtMostTwice ==
  \A c \in Cmds : Is(c, {"script"}) =>
    /\ cmd[c].runs + Cardinality(strays \cap {c}) <= 2
    /\ At(c, "light") => cmd[c].runs = 0
    /\ At(c, "done") /\ cmd[c].ok => cmd[c].runs >= 1

\* Every command is answered, and no navigation listener stays: an event that
\* never comes, because the debugger was detached and the Page domain is believed
\* to be enabled, is made up for by the timer.
CommandsEnd ==
  \A c \in Cmds : ~At(c, "new") ~> At(c, "done") /\ navigations[c] # "waiting"

\* Not so: a ref is looked up in the snapshot of the moment, not in the one that the
\* Agent chose it from, and a click goes to what is at the place by then.
HitsTheChosen ==
  \A c \in Cmds : Is(c, {"click", "check"}) /\ cmd[c].hit # None => cmd[c].hit = cmd[c].chosen

\* Not so: a snapshot under way, when the commands of a tab overlap, stores what it read
\* before the action that threw the cache away.
CacheNeverOvertaken == Cached => cache.at >= acted

\* Not so: execute_script throws no snapshot away.  For up to 5 s a snapshot, or the
\* answer of a hover, may show the page from before a script that was answered.
ScriptsAreSeen ==
  [][\A c \in Cmds : Is(c, {"script"}) /\ ~Idle(c) /\ cmd'[c].ok /\ Cached'
       => cache'.at >= page'.at]_<<page, cmd>>

\* Not so: a script that was given up runs beside its second run.
ScriptRunsOnce == \A c \in Cmds : cmd[c].runs <= 1

\* Not so: pageEnabledTabs is never told of a detach.
EventsArrive == \A c \in Waiting : delivering
=============================================================================
