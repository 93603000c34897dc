----------------------------- MODULE TabDebugger -----------------------------
(***************************************************************************)
(* Who holds Chrome's debugger on a tab: TabManager of                     *)
(* extension/src/background/tab-manager.ts, with the commands of           *)
(* command-handler.ts that attach it (runWithDebugger, interact) and with  *)
(* start_recording and stop_recording, which keep it attached.             *)
(*                                                                         *)
(* The worker is one thread: an action is what it does between two awaits. *)
(* Chrome answers a worker's requests about a tab in the order they were   *)
(* made, its events among the answers: a request takes effect in the       *)
(* browser when it is made (detach) or when it is answered (attach, get),  *)
(* and nothing about a tab is answered before an onDetach event under way. *)
(* A command's operation lasts as long as it likes, the idle delay         *)
(* included, and may fail; what it does to the page is left out.           *)
(***************************************************************************)
EXTENDS Naturals, Sequences, FiniteSets, TLC

CONSTANTS
  Tabs,        \* the browser's tabs; Chrome does not use their ids again
  Cmds,        \* the commands the Broker sends, in any order and overlap
  MaxCancels,  \* bound on debugger sessions the user ends
  None         \* no tab, no command

ASSUME DebuggerAssumption ==
  /\ IsFiniteSet(Tabs) /\ IsFiniteSet(Cmds)
  /\ MaxCancels \in Nat
  /\ None \notin Tabs \cup Cmds

VARIABLES
  open,       \* tabs the browser shows
  attached,   \* tabs this extension's debugger is attached to
  dropped,    \* tabs whose onDetach event is under way
  detaching,  \* by tab, how the idle detach under way will be answered
  worker,     \* the service worker's variables
  cmd,        \* the commands
  lifecycle,  \* start and stop commands, in the order of recordingLifecycle
  cancels     \* debugger sessions the user has ended

vars == <<open, attached, dropped, detaching, worker, cmd, lifecycle, cancels>>

(***************************************************************************)
(* tracked: tabs with debuggerAttached; lock: the command whose promise is *)
(* in attachLocks; timers: detachTimers; holds: debuggerHolds; reserved:   *)
(* recordingStartReserved; recTab: recordingDebuggerTabId; listening and   *)
(* recording: recordingTabId and isRecording of the RecordingEngine (whose *)
(* currentRecording comes and goes with isRecording).                      *)
(***************************************************************************)
Worker ==
  [tracked : SUBSET Tabs, lock : [Tabs -> Cmds \cup {None}], timers : SUBSET Tabs,
   holds : [Tabs -> Nat], reserved : BOOLEAN, recTab : Tabs \cup {None},
   listening : Tabs \cup {None}, recording : BOOLEAN]

NewWorker ==
  [tracked |-> {}, lock |-> [t \in Tabs |-> None], timers |-> {},
   holds |-> [t \in Tabs |-> 0], reserved |-> FALSE, recTab |-> None,
   listening |-> None, recording |-> FALSE]

Attaching == {"targets", "attach", "tab"}   \* inside ensureDebuggerAttached
Starting == Attaching \cup {"wait", "begin", "inject", "abort"}
Stages == Starting \cup {"new", "queued", "query", "use", "unbind", "save", "ended"}

\* on: the command whose attach lock this one waits for.
Command ==
  [pc : Stages, kind : {"run", "start", "stop"}, tab : Tabs \cup {None},
   on : Cmds \cup {None}]
NewCommand == [pc |-> "new", kind |-> "run", tab |-> None, on |-> None]

Init ==
  /\ open = Tabs /\ attached = {} /\ dropped = {}
  /\ detaching = [t \in Tabs |-> "no"]
  /\ worker = NewWorker
  /\ cmd = [c \in Cmds |-> NewCommand]
  /\ lifecycle = <<>>
  /\ cancels = 0

-----------------------------------------------------------------------------
(* TabManager's methods, as functions of the worker's variables.            *)

clearDetachTimer(w, t) == [w EXCEPT !.timers = @ \ {t}]
trackTab(w, t) == [w EXCEPT !.tracked = @ \cup {t}]

\* A bug: the hold is not counted.
HoldUncounted(w, t) == clearDetachTimer(w, t)
holdDebuggerAttached(w, t) == [clearDetachTimer(w, t) EXCEPT !.holds[t] = @ + 1]

scheduleDebuggerDetach(w, t) ==
  IF t \in w.tracked /\ w.holds[t] = 0 THEN [w EXCEPT !.timers = @ \cup {t}] ELSE w

releaseDebuggerAttached(w, t) ==
  scheduleDebuggerDetach([w EXCEPT !.holds[t] = IF @ <= 1 THEN 0 ELSE @ - 1], t)

\* The onDetach listener; onRemoved does the same to a tab that is gone.
Forget(w, t) ==
  [w EXCEPT !.tracked = @ \ {t}, !.lock[t] = None, !.timers = @ \ {t}, !.holds[t] = 0]

-----------------------------------------------------------------------------
(* A command that needs the debugger.                                       *)

Stage(c, pc) == [cmd EXCEPT ![c].pc = pc]
AfterAttach(kind) == IF kind = "start" THEN "begin" ELSE "use"
Browser == <<open, attached, dropped, detaching, cancels>>

\* ensureDebuggerAttached up to its first await.
Ensure(c, kind, t, w) ==
  LET v == clearDetachTimer(w, t)
      At(pc, on) == cmd' = [cmd EXCEPT ![c] = [pc |-> pc, kind |-> kind, tab |-> t, on |-> on]]
  IN \/ t \in v.tracked /\ At(AfterAttach(kind), None) /\ worker' = v
     \/ t \notin v.tracked /\ v.lock[t] /= None /\ At("wait", v.lock[t]) /\ worker' = v
     \/ t \notin v.tracked /\ v.lock[t] = None /\ At("targets", None)
        /\ worker' = [v EXCEPT !.lock[t] = c]

\* A bug: a failed attach leaves the lock.
UnlockOnSuccess(w, c, ok) ==
  IF ok THEN [w EXCEPT !.lock[cmd[c].tab] = None] ELSE w

\* The finally of ensureDebuggerAttached: it deletes the lock that is there.
Unlock(w, c, ok) == [w EXCEPT !.lock[cmd[c].tab] = None]

\* A bug: nothing resolves the promise.
ResolvedNobody(c, pc) == Stage(c, pc)

\* ... and resolves its promise, whether or not the debugger is attached.
Resolved(c, pc) ==
  [d \in Cmds |->
     IF d = c THEN [cmd[c] EXCEPT !.pc = pc]
     ELSE IF cmd[d].pc = "wait" /\ cmd[d].on = c
          THEN [cmd[d] EXCEPT !.pc = AfterAttach(cmd[d].kind), !.on = None]
     ELSE cmd[d]]

\* A bug: a start that fails keeps its hold.
StartFailedHolding(w, t) == scheduleDebuggerDetach([w EXCEPT !.reserved = FALSE], t)

\* start_recording's catch: the reservation and the hold are given up.
StartFailed(w, t) == releaseDebuggerAttached([w EXCEPT !.reserved = FALSE], t)

\* The end of c, which makes room for the next command of recordingLifecycle.
Leaves(c) ==
  lifecycle' = IF cmd[c].kind = "run" THEN lifecycle ELSE Tail(lifecycle)

\* ensureDebuggerAttached throws: runWithDebugger sets no timer then.
AttachFails(c) ==
  LET w == Unlock(worker, c, FALSE) IN
  /\ worker' = IF cmd[c].kind = "start" THEN StartFailed(w, cmd[c].tab) ELSE w
  /\ cmd' = Resolved(c, "ended")
  /\ Leaves(c)

Receive(c, kind) ==
  /\ cmd[c].pc = "new"
  /\ \/ /\ kind = "run"
        /\ \E t \in Tabs : Ensure(c, kind, t, worker)
        /\ UNCHANGED lifecycle
     \/ /\ kind /= "run"
        /\ \E t \in Tabs :
             cmd' = [cmd EXCEPT ![c] =
               [pc |-> "queued", kind |-> kind, tab |-> IF kind = "start" THEN t ELSE None,
                on |-> None]]
        /\ lifecycle' = Append(lifecycle, c)
        /\ UNCHANGED worker
  /\ UNCHANGED Browser

\* chrome.debugger.getTargets is answered, or fails and counts as "no".
TargetsAnswered(c) ==
  /\ cmd[c].pc = "targets" /\ cmd[c].tab \notin dropped
  /\ \E pc \in {"attach"} \cup (IF cmd[c].tab \in attached THEN {"tab"} ELSE {}) :
       cmd' = Stage(c, pc)
  /\ UNCHANGED <<Browser, worker, lifecycle>>

\* chrome.debugger.attach succeeds, or the tab was attached already.
AttachSucceeds(c) ==
  /\ cmd[c].pc = "attach" /\ cmd[c].tab \in open \ dropped
  /\ attached' = attached \cup {cmd[c].tab}
  /\ cmd' = Stage(c, "tab")
  /\ UNCHANGED <<open, dropped, detaching, cancels, worker, lifecycle>>

\* The tab is gone, or Chrome lets no debugger on it.
AttachRefused(c) ==
  /\ cmd[c].pc = "attach" /\ cmd[c].tab \notin attached \cup dropped
  /\ AttachFails(c)
  /\ UNCHANGED Browser

\* chrome.tabs.get is answered: the tab is tracked as attached.
TabAnswered(c) ==
  /\ cmd[c].pc = "tab" /\ cmd[c].tab \in open \ dropped
  /\ worker' = Unlock(trackTab(worker, cmd[c].tab), c, TRUE)
  /\ cmd' = Resolved(c, AfterAttach(cmd[c].kind))
  /\ UNCHANGED <<Browser, lifecycle>>

TabMissing(c) ==
  /\ cmd[c].pc = "tab" /\ cmd[c].tab \notin open
  /\ AttachFails(c)
  /\ UNCHANGED Browser

\* A bug: the command that ends sets no timer.
LeaveAttached(c) == worker' = worker

\* The finally of runWithDebugger and of interact.
ScheduleDetach(c) == worker' = scheduleDebuggerDetach(worker, cmd[c].tab)

\* The command's operation returns or fails.
Finish(c) ==
  /\ cmd[c].pc = "use"
  /\ ScheduleDetach(c)
  /\ cmd' = Stage(c, "ended")
  /\ UNCHANGED <<Browser, lifecycle>>

-----------------------------------------------------------------------------
(* Recordings: one start or stop at a time.                                 *)

MyTurn(c, kind) ==
  cmd[c].pc = "queued" /\ cmd[c].kind = kind /\ Head(lifecycle) = c

StartBusy(c) ==
  /\ MyTurn(c, "start") /\ (worker.reserved \/ worker.recording)
  /\ cmd' = Stage(c, "ended") /\ Leaves(c)
  /\ UNCHANGED <<Browser, worker>>

StartReserves(c) ==
  /\ MyTurn(c, "start") /\ ~worker.reserved /\ ~worker.recording
  /\ worker' = [worker EXCEPT !.reserved = TRUE]
  /\ cmd' = Stage(c, "query")
  /\ UNCHANGED <<Browser, lifecycle>>

GiveUpReservation(w) == [w EXCEPT !.reserved = FALSE]

\* chrome.tabs.query fails, or the tab is not in its answer.
StartFindsNoTab(c) ==
  /\ cmd[c].pc = "query" /\ cmd[c].tab \notin dropped
  /\ worker' = GiveUpReservation(worker)
  /\ cmd' = Stage(c, "ended") /\ Leaves(c)
  /\ UNCHANGED Browser

StartHolds(c) ==
  /\ cmd[c].pc = "query" /\ cmd[c].tab \in open \ dropped
  /\ Ensure(c, "start", cmd[c].tab, holdDebuggerAttached(worker, cmd[c].tab))
  /\ UNCHANGED <<Browser, lifecycle>>

\* RecordingEngine.startRecording, and injectListeners up to its first await.
StartRecords(c) ==
  /\ cmd[c].pc = "begin" /\ cmd[c].tab \notin dropped
  /\ worker' = [worker EXCEPT !.recording = TRUE, !.listening = cmd[c].tab]
  /\ cmd' = Stage(c, "inject")
  /\ UNCHANGED <<Browser, lifecycle>>

\* The debugger has run all the commands of injectListeners.
StartDone(c) ==
  /\ cmd[c].pc = "inject" /\ cmd[c].tab \in attached
  /\ worker' = [worker EXCEPT !.recTab = cmd[c].tab]
  /\ cmd' = Stage(c, "ended") /\ Leaves(c)
  /\ UNCHANGED Browser

\* One of them fails or times out; removeListeners is called.
InjectFails(c) ==
  /\ cmd[c].pc = "inject"
  /\ cmd' = Stage(c, "abort")
  /\ UNCHANGED <<Browser, worker, lifecycle>>

StartAborts(c) ==
  /\ cmd[c].pc = "abort"
  /\ worker' = StartFailed([worker EXCEPT !.listening = None, !.recording = FALSE], cmd[c].tab)
  /\ cmd' = Stage(c, "ended") /\ Leaves(c)
  /\ UNCHANGED Browser

\* stop_recording up to the removal of the binding.
StopBegins(c) ==
  /\ MyTurn(c, "stop")
  /\ cmd' = [cmd EXCEPT ![c].pc = "unbind", ![c].tab = worker.recTab]
  /\ UNCHANGED <<Browser, worker, lifecycle>>

\* The finally of stop_recording.
StopEnds(w, t) ==
  LET v == GiveUpReservation(w) IN
  IF t = None THEN v ELSE releaseDebuggerAttached([v EXCEPT !.recTab = None], t)

StopFindsRecording(c) ==
  /\ cmd[c].pc = "unbind" /\ worker.recording
  /\ worker' = [worker EXCEPT !.listening = None, !.recording = FALSE]
  /\ cmd' = Stage(c, "save")
  /\ UNCHANGED <<Browser, lifecycle>>

StopFindsNone(c) ==
  /\ cmd[c].pc = "unbind" /\ ~worker.recording
  /\ worker' = StopEnds([worker EXCEPT !.listening = None], cmd[c].tab)
  /\ cmd' = Stage(c, "ended") /\ Leaves(c)
  /\ UNCHANGED Browser

\* chrome.storage.local.set is answered, one way or the other.
StopSaved(c) ==
  /\ cmd[c].pc = "save"
  /\ worker' = StopEnds(worker, cmd[c].tab)
  /\ cmd' = Stage(c, "ended") /\ Leaves(c)
  /\ UNCHANGED Browser

-----------------------------------------------------------------------------
(* Timers, the browser and its user.                                        *)

Detachable(t) == worker.holds[t] = 0 /\ t \in worker.tracked

\* The idle timer: the detach takes effect at once, its answer is under way.
\* An answer comes long before the next idle delay is over.
TimerFires(t) ==
  /\ t \in worker.timers /\ detaching[t] = "no"
  /\ worker' = clearDetachTimer(worker, t)
  /\ \/ Detachable(t)
        /\ attached' = attached \ {t}
        /\ detaching' = [detaching EXCEPT ![t] = IF t \in attached THEN "done" ELSE "refused"]
     \/ ~Detachable(t) /\ UNCHANGED <<attached, detaching>>
  /\ UNCHANGED <<open, dropped, cancels, cmd, lifecycle>>

Untrack(w, t) == [w EXCEPT !.tracked = @ \ {t}, !.lock[t] = None]

\* Its callback; a refused detach is only logged.
DetachAnswered(t) ==
  /\ detaching[t] /= "no" /\ t \notin dropped
  /\ worker' = IF detaching[t] = "done" THEN Untrack(worker, t) ELSE worker
  /\ detaching' = [detaching EXCEPT ![t] = "no"]
  /\ UNCHANGED <<open, attached, dropped, cancels, cmd, lifecycle>>

\* The user presses Cancel in the infobar, or opens a dialog that detaches.
UserCancels(t) ==
  /\ t \in attached /\ cancels < MaxCancels
  /\ attached' = attached \ {t}
  /\ dropped' = dropped \cup {t}
  /\ cancels' = cancels + 1
  /\ UNCHANGED <<open, detaching, worker, cmd, lifecycle>>

OnDetach(t) ==
  /\ t \in dropped
  /\ worker' = Forget(worker, t)
  /\ dropped' = dropped \ {t}
  /\ UNCHANGED <<open, attached, detaching, cancels, cmd, lifecycle>>

\* A tab is closed: its onDetach and onRemoved events are handled together.
TabCloses(t) ==
  /\ t \in open
  /\ open' = open \ {t} /\ attached' = attached \ {t} /\ dropped' = dropped \ {t}
  /\ worker' = Forget(worker, t)
  /\ UNCHANGED <<detaching, cancels, cmd, lifecycle>>

Answered(c) ==
  \/ TargetsAnswered(c) \/ AttachSucceeds(c) \/ AttachRefused(c)
  \/ TabAnswered(c) \/ TabMissing(c) \/ Finish(c)

RecordingStep(c) ==
  \/ StartBusy(c) \/ StartReserves(c) \/ StartFindsNoTab(c) \/ StartHolds(c)
  \/ StartRecords(c) \/ StartDone(c) \/ InjectFails(c) \/ StartAborts(c)
  \/ StopBegins(c) \/ StopFindsRecording(c) \/ StopFindsNone(c) \/ StopSaved(c)

Next ==
  \/ \E c \in Cmds : Answered(c) \/ RecordingStep(c)
                     \/ \E kind \in {"run", "start", "stop"} : Receive(c, kind)
  \/ \E t \in Tabs : TimerFires(t) \/ DetachAnswered(t) \/ UserCancels(t)
                     \/ OnDetach(t) \/ TabCloses(t)

Spec == Init /\ [][Next]_vars

\* Chrome answers every request and delivers every event; operations end;
\* timers fire.  Commands and the user may stay away.
FairSpec ==
  /\ Spec
  /\ \A c \in Cmds : WF_vars(Answered(c)) /\ WF_vars(RecordingStep(c))
  /\ \A t \in Tabs : WF_vars(TimerFires(t)) /\ WF_vars(DetachAnswered(t)) /\ WF_vars(OnDetach(t))

-----------------------------------------------------------------------------
(* Properties.                                                              *)

TypeOK ==
  /\ open \in SUBSET Tabs /\ attached \in SUBSET open /\ dropped \in SUBSET open
  /\ detaching \in [Tabs -> {"no", "done", "refused"}]
  /\ worker \in Worker
  /\ cmd \in [Cmds -> Command]
  /\ lifecycle \in Seq(Cmds)
  /\ cancels \in 0..MaxCancels

Uses(c, t) == cmd[c].tab = t /\ cmd[c].pc \in {"use", "begin", "inject"}

\* A lock belongs to a command that is still attaching, and so does every
\* promise a command waits for: whatever deletes attachLocks, no command can
\* be left waiting for a promise nobody resolves.
LocksHaveOwners ==
  /\ \A t \in Tabs : worker.lock[t] /= None =>
       cmd[worker.lock[t]].pc \in Attaching /\ cmd[worker.lock[t]].tab = t
  /\ \A c \in Cmds : cmd[c].pc = "wait" =>
       cmd[c].on /= None /\ cmd[cmd[c].on].pc \in Attaching /\ cmd[cmd[c].on].tab = cmd[c].tab

\* A hold is the recorder's: it is that of a start under way, of the active
\* recording or of the stop that ends it.  A hold nobody gives up would keep
\* the debugger, and the browser's warning, on the tab for ever.
HoldsJustified ==
  \A t \in Tabs :
    /\ worker.holds[t] <= 1
    /\ worker.holds[t] = 1 =>
         \/ worker.recTab = t
         \/ \E c \in Cmds : cmd[c].kind = "start" /\ cmd[c].tab = t /\ cmd[c].pc \in Starting

\* When no start or stop is under way, the handler's reservation and its tab,
\* and the engine's recording and its tab, all say the same.  They are set and
\* reset in different places of a start and a stop that may fail anywhere.
RecorderAtRest ==
  lifecycle = <<>> =>
    /\ worker.reserved = worker.recording
    /\ worker.recording = (worker.recTab /= None)
    /\ worker.listening = worker.recTab

\* Both: the holds and the four variables of the recorder agree however a start
\* or a stop ends, and whatever becomes of its tab.
RecorderConsistent == HoldsJustified /\ RecorderAtRest

\* What the worker believes of the debugger (trackedTabs) is true but for
\* answers under way, as long as the user has ended no session: see
\* FlagRecovers.
TrackedIsAttached ==
  cancels = 0 => \A t \in Tabs :
    /\ t \in worker.tracked => t \in attached \/ detaching[t] = "done"
    /\ t \in attached => t \in worker.tracked \/ \E c \in Cmds : cmd[c].tab = t /\ cmd[c].pc = "tab"

\* Both: the worker's bookkeeping of locks and debuggers is true.
AttachmentsAccurate == LocksHaveOwners /\ TrackedIsAttached

\* No idle timer, whichever command set it, takes the debugger from a tab that is
\* recorded.  This is claimed only until the user has cancelled a session, of any tab:
\* that takes the debugger itself, and what the worker believes of a tab may be wrong
\* from then on (FlagRecovers).
RecordingKeepsDebugger ==
  [][cancels' = 0 => \A t \in Tabs :
       worker.recTab = t /\ t \in attached /\ t \in open' => t \in attached']_vars

\* Every command the extension has received is answered.
EveryCommandEnds ==
  \A c \in Cmds : cmd[c].pc /= "new" ~> cmd[c].pc = "ended"

\* A debugger nobody uses any more is detached, so that the warning goes away.
IdleDebuggerLeaves ==
  \A t \in Tabs :
    t \in attached ~> (t \notin attached \/ worker.holds[t] > 0 \/ \E c \in Cmds : Uses(c, t))

\* tab-manager.ts:69 "Ensure debugger is attached to the tab": when the method
\* returns to a command, the debugger is attached or the worker has yet to be
\* told that it is not.
EnsureAttaches ==
  [][\A c \in Cmds :
       cmd[c].pc \notin {"use", "begin"} /\ cmd'[c].pc \in {"use", "begin"} =>
         cmd'[c].tab \in attached' \cup dropped']_vars

\* The same line over time: a tab whose debugger is gone does not count as
\* attached for ever, so that some later command attaches it again.
FlagRecovers ==
  \A t \in Tabs : t \in worker.tracked \ attached ~> t \notin worker.tracked \ attached

\* recording-engine-design.md:82 "detach debugger if no other features using
\* it": no idle timer takes the debugger away under a running operation.
DetachOnlyUnused ==
  [][\A t \in Tabs : t \in attached /\ detaching[t] = "no" /\ detaching'[t] = "done" =>
       \A c \in Cmds : ~Uses(c, t)]_vars
=============================================================================
