---------------------------- MODULE VisibleCapture ----------------------------
(***************************************************************************)
(* Screenshots (extension/src/background/debugger-controller.ts and the    *)
(* screenshot command of command-handler.ts).  Chrome captures whatever    *)
(* tab a window shows, so the tab is brought to the front first, under a   *)
(* lock of its window; if that fails the debugger captures the tab         *)
(* itself.  Meanwhile the user, or a command that opens a tab, brings      *)
(* other tabs to the front, moves tabs to other windows and closes them.   *)
(*                                                                         *)
(* An action is the answer to a command's request and what the worker then *)
(* does up to its next request, which takes effect in a later action.      *)
(***************************************************************************)
EXTENDS ScreenshotImage, FiniteSets, TLC

CONSTANTS
  Windows, Tabs,
  Cmds,          \* screenshot commands
  Parameters,    \* the parameters of a screenshot as the Agent gives them
  Sizes,         \* widths and heights of what Chrome captures
  MaxChanges     \* bound on what the user does

None == Undefined

ASSUME CaptureAssumption ==
  /\ IsFiniteSet(Windows) /\ IsFiniteSet(Tabs) /\ IsFiniteSet(Cmds)
  /\ None \notin Windows \cup Tabs \cup Cmds
  /\ MaxChanges \in Nat

VARIABLES
  where,     \* by tab, its window, None when it is closed
  active,    \* by window, the tab it shows
  cmd,       \* the commands
  lock,      \* visibleCaptureLocks: by window, whose promise is the tail
  late,      \* tabs whose activation timed out and is still to come
  shot,      \* by command, the tab its image shows
  changes,   \* what the user has done so far
  disturbed, \* commands whose window something that takes no lock changed as it was captured
  crossed    \* those whose window a screenshot changed that has the lock of another one

browser == <<where, active>>
marks == <<disturbed, crossed>>
vars == <<browser, cmd, lock, late, shot, changes, marks>>

\* The windows and tabs after a change: front comes to the front, a window whose
\* tab has left shows another one of its tabs.
Rearrange(newWhere, front) ==
  /\ where' = newWhere
  /\ active' \in [Windows -> Tabs \cup {None}]
  /\ \A w \in Windows :
       LET tabs == {t \in Tabs : newWhere[t] = w} IN
       IF tabs = {} THEN active'[w] = None
       ELSE IF front \in tabs THEN active'[w] = front
       ELSE active'[w] \in (IF active[w] \in tabs THEN {active[w]} ELSE tabs)

\* previous: the command before this one in its window's chain of promises, while its
\* gate is closed; full: the whole page; attached: inside runWithDebugger.
Command == [pc : {"new", "locate", "lock", "get", "update", "check", "capture",
                  "cdp", "attach", "done"},
            tab : Tabs \cup {None}, win : Windows \cup {None},
            previous : Cmds \cup {None}, full : BOOLEAN, attached : BOOLEAN]

Init ==
  /\ where \in [Tabs -> Windows]
  /\ active \in [Windows -> Tabs \cup {None}]
  /\ \A w \in Windows : LET tabs == {t \in Tabs : where[t] = w} IN
       IF tabs = {} THEN active[w] = None ELSE active[w] \in tabs
  /\ cmd = [c \in Cmds |-> [pc |-> "new", tab |-> None, win |-> None,
                            previous |-> None, full |-> FALSE, attached |-> FALSE]]
  /\ lock = [w \in Windows |-> None]
  /\ late = {} /\ changes = 0 /\ disturbed = {} /\ crossed = {}
  /\ shot = [c \in Cmds |-> None]

At(c, pc) == cmd[c].pc = pc
Goto(c, pc) == cmd' = [cmd EXCEPT ![c].pc = pc]
Where(c) == where[cmd[c].tab]

-----------------------------------------------------------------------------
(* The lock of a window                                                     *)

\* Bug: the lock of the window is forgotten although others wait for it.
ForgetLock(c) == [lock EXCEPT ![cmd[c].win] = None]
Unlocked(c) == [lock EXCEPT ![cmd[c].win] = IF @ = c THEN None ELSE @]
ReleasedTo(c, next) ==
  [d \in Cmds |-> IF d = c THEN [cmd[c] EXCEPT !.pc = next]
                  ELSE IF cmd[d].previous = c THEN [cmd[d] EXCEPT !.previous = None]
                  ELSE cmd[d]]

\* The finally block of withVisibleCaptureLock, and where the command goes on.
Leave(c, next) == lock' = Unlocked(c) /\ cmd' = ReleasedTo(c, next)

\* The operation returns that the tab has moved, and is tried again.
TryAgain(c) == Leave(c, "locate")
\* Bug: no finally, so a failed attempt keeps the lock.
FailHolding(c) == Goto(c, "cdp") /\ UNCHANGED lock
Fail(c) == Leave(c, "cdp")

-----------------------------------------------------------------------------
(* captureVisibleTab                                                        *)

\* The command comes; parameters that normalizeScreenshotOptions refuses end it.
Start(c, t, fullPage, accepted) ==
  /\ At(c, "new")
  /\ cmd' = [cmd EXCEPT ![c].tab = t, ![c].full = fullPage,
                        ![c].pc = IF fullPage THEN "attach"
                                  ELSE IF accepted THEN "locate" ELSE "done"]
  /\ UNCHANGED <<browser, lock, late, shot, changes, marks>>

\* tabs.get for the routed tab: the command joins the queue of its window.
Locate(c) ==
  /\ At(c, "locate")
  /\ IF Where(c) = None THEN Goto(c, "cdp") /\ UNCHANGED lock
     ELSE /\ cmd' = [cmd EXCEPT ![c].pc = "lock", ![c].win = Where(c),
                                ![c].previous = lock[Where(c)]]
          /\ lock' = [lock EXCEPT ![Where(c)] = c]
  /\ UNCHANGED <<browser, late, shot, changes, marks>>

Enter(c) ==
  /\ At(c, "lock") /\ cmd[c].previous = None
  /\ Goto(c, "get")
  /\ UNCHANGED <<browser, lock, late, shot, changes, marks>>

\* tabs.get for the current tab.
Recheck(c) ==
  /\ At(c, "get")
  /\ CASE Where(c) = None -> Fail(c)
       [] Where(c) = cmd[c].win -> Goto(c, "update") /\ UNCHANGED lock
       [] OTHER -> TryAgain(c)
  /\ UNCHANGED <<browser, late, shot, changes, marks>>

\* tabs.update is done and answered.  It brings the tab to the front of the window it
\* is in by now, which need not be the one whose lock the command has.
Activated(c) ==
  /\ At(c, "update")
  /\ IF Where(c) = None THEN Fail(c) /\ UNCHANGED browser
     ELSE /\ Rearrange(where, cmd[c].tab)
          /\ IF Where(c) = cmd[c].win THEN Goto(c, "check") /\ UNCHANGED lock ELSE TryAgain(c)
  /\ crossed' = crossed \cup {d \in Cmds : At(d, "capture") /\ cmd[d].win = Where(c)
                                           /\ cmd[d].win # cmd[c].win}
  /\ UNCHANGED <<late, shot, changes, disturbed>>

\* Its timer fires first; the activation is not taken back.
ActivationTimeout(c) ==
  /\ At(c, "update") /\ Fail(c)
  /\ late' = late \cup {cmd[c].tab}
  /\ UNCHANGED <<browser, shot, changes, marks>>

\* tabs.get once more.
Check(c) ==
  /\ At(c, "check")
  /\ CASE Where(c) = None -> Fail(c)
       [] Where(c) = cmd[c].win /\ active[cmd[c].win] = cmd[c].tab ->
            Goto(c, "capture") /\ UNCHANGED lock
       [] OTHER -> TryAgain(c)
  /\ disturbed' = disturbed \ {c} /\ crossed' = crossed \ {c}
  /\ UNCHANGED <<browser, late, shot, changes>>

Captured(c) ==
  /\ At(c, "capture") /\ active[cmd[c].win] # None
  /\ shot' = [shot EXCEPT ![c] = active[cmd[c].win]]
  /\ Leave(c, "done")
  /\ UNCHANGED <<browser, late, changes, marks>>

\* Chrome refuses, or the timer fires.
CaptureFails(c) ==
  /\ At(c, "capture") /\ Fail(c)
  /\ UNCHANGED <<browser, late, shot, changes, marks>>

-----------------------------------------------------------------------------
(* The debugger                                                             *)

\* Page.captureScreenshot: an image of the tab, an error, or no debugger, which
\* sends the command around once more with the debugger attached.
Cdp(c) ==
  /\ At(c, "cdp")
  /\ \/ /\ Where(c) # None
        /\ shot' = [shot EXCEPT ![c] = cmd[c].tab] /\ Goto(c, "done")
     \/ Goto(c, "done") /\ UNCHANGED shot
     \/ ~cmd[c].attached /\ Goto(c, "attach") /\ UNCHANGED shot
  /\ UNCHANGED <<browser, lock, late, changes, marks>>

\* runWithDebugger; a full page is captured by the debugger alone.
Attach(c) ==
  /\ At(c, "attach")
  /\ \/ cmd' = [cmd EXCEPT ![c].pc = IF cmd[c].full THEN "cdp" ELSE "locate",
                           ![c].attached = TRUE]
     \/ Goto(c, "done")
  /\ UNCHANGED <<browser, lock, late, shot, changes, marks>>

-----------------------------------------------------------------------------
(* The user, other commands, and activations that come too late             *)

\* A change that is not made under the lock.
Intrude(newWhere, front) ==
  /\ Rearrange(newWhere, front)
  /\ disturbed' = disturbed \cup
       {c \in Cmds : At(c, "capture") /\ active'[cmd[c].win] # active[cmd[c].win]}
  /\ UNCHANGED <<cmd, lock, shot, crossed>>

Counted == changes < MaxChanges /\ changes' = changes + 1 /\ UNCHANGED late

Shows(t) == where[t] # None /\ Counted /\ Intrude(where, t)
Moves(t, w) == where[t] \notin {None, w} /\ Counted /\ Intrude([where EXCEPT ![t] = w], t)
Closes(t) == where[t] # None /\ Counted /\ Intrude([where EXCEPT ![t] = None], None)

LateActivation(t) ==
  /\ t \in late /\ late' = late \ {t}
  /\ Intrude(where, t) /\ UNCHANGED changes

-----------------------------------------------------------------------------

Step(c) ==
  \/ Locate(c) \/ Enter(c) \/ Recheck(c)
  \/ Activated(c) \/ ActivationTimeout(c) \/ Check(c) \/ Captured(c) \/ CaptureFails(c)
  \/ Cdp(c) \/ Attach(c)

Next ==
  \/ \E c \in Cmds : Step(c)
  \/ \E c \in Cmds, t \in Tabs, fullPage, accepted \in BOOLEAN :
       Start(c, t, fullPage, accepted)
  \/ \E t \in Tabs : Shows(t) \/ Closes(t) \/ LateActivation(t)
  \/ \E t \in Tabs, w \in Windows : Moves(t, w)

Spec == Init /\ [][Next]_vars
\* Chrome answers, or a timer does.
FairSpec == Spec /\ \A c \in Cmds : WF_vars(Step(c))

TypeOK ==
  /\ where \in [Tabs -> Windows \cup {None}] /\ active \in [Windows -> Tabs \cup {None}]
  /\ cmd \in [Cmds -> Command] /\ lock \in [Windows -> Cmds \cup {None}]
  /\ late \in SUBSET Tabs /\ shot \in [Cmds -> Tabs \cup {None}]
  /\ changes \in 0..MaxChanges /\ disturbed \in SUBSET Cmds /\ crossed \in SUBSET Cmds

\* A screenshot shows the tab it was asked for, also when others take turns in
\* its window, with two exceptions, both while Chrome captures the window: the user,
\* a command that opens a tab or an activation that timed out, none of which takes
\* a lock, changes what it shows; or another screenshot, whose tab was moved into this
\* window when its own check was done, activates it there with the lock of the
\* window it came from.
ShotShowsItsTab ==
  \A c \in Cmds : shot[c] \notin {None, cmd[c].tab} => c \in disturbed \cup crossed

\* Not so: without the second exception, screenshots do not disturb one another.
ShotsApart ==
  \A c \in Cmds : shot[c] \notin {None, cmd[c].tab} => c \in disturbed

\* Not so: without either.
ShotNeverShowsAnotherTab == \A c \in Cmds : shot[c] \in {None, cmd[c].tab}

\* Every screenshot ends: the lock of a window passes on also when an attempt
\* fails, and a tab is not looked for in its old window for ever.
EveryShotEnds == \A c \in Cmds : ~At(c, "new") ~> At(c, "done")

\* Whatever the parameters, what the extension makes of a screenshot passes the MCP
\* server's check and fits within the limits that were asked for.
Accepted ==
  \A raw \in {p \in Parameters : Normalizes(p)}, width, height \in Sizes :
    LET options == normalizeScreenshotOptions(raw)
        value == processScreenshot(width, height, options)
    IN screenshotContent(value) /\ Fits(value, options)
ImagesAreAccepted == \A c \in Cmds : shot[c] # None => Accepted
=============================================================================
