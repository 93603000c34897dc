--------------------------- MODULE TabDebuggerProofs ---------------------------
(***************************************************************************)
(* Theorems about TabDebugger, for any number of tabs and commands: nobody *)
(* waits for an attach that nobody performs, the worker's bookkeeping of   *)
(* debuggers, holds and recordings is true, and no idle timer takes the    *)
(* debugger from a recording.                                              *)
(***************************************************************************)
EXTENDS TabDebugger, TLAPS

-----------------------------------------------------------------------------
(* The inductive invariant                                                   *)

\* In recordingLifecycle; and at the head of it, past its wait.
Listed(r) == r.kind # "run" /\ r.pc \notin {"new", "ended"}
Busy(r) == Listed(r) /\ r.pc # "queued"

\* What kind of command is at which stage, and that it has a tab there.
InStage(r) ==
  /\ r.pc \in Attaching \cup {"wait", "use", "query", "begin", "inject", "abort"} => r.tab # None
  /\ r.pc \in Attaching \cup {"wait"} => r.kind # "stop"
  /\ r.pc = "use" => r.kind = "run"
  /\ r.pc \in {"query", "begin", "inject", "abort"} => r.kind = "start"
  /\ r.pc \in {"unbind", "save"} => r.kind = "stop"
  /\ r.pc = "queued" => r.kind # "run"
  /\ r.kind = "start" /\ r.pc = "queued" => r.tab # None
  /\ r.pc = "new" => r.kind = "run"

StagesMatch == \A c \in Cmds : InStage(cmd[c])

\* recordingLifecycle is the starts and stops that have not ended, each once, and
\* only the first of them is under way.
LifecycleInOrder ==
  /\ \A i, j \in DOMAIN lifecycle : lifecycle[i] = lifecycle[j] => i = j
  /\ \A i \in DOMAIN lifecycle : Listed(cmd[lifecycle[i]])
  /\ \A c \in Cmds : Listed(cmd[c]) => \E i \in DOMAIN lifecycle : lifecycle[i] = c
  /\ \A i \in DOMAIN lifecycle : i > 1 => cmd[lifecycle[i]].pc = "queued"

\* The four variables of the recorder while nothing is under way ...
AtRest(w) ==
  /\ w.reserved <=> w.recording
  /\ w.recording <=> w.recTab # None
  /\ w.listening = w.recTab

\* ... and while the command r is.
InPhase(w, r) ==
  /\ r.kind = "start" =>
       /\ w.reserved /\ w.recTab = None
       /\ w.recording <=> r.pc \in {"inject", "abort"}
       /\ w.listening = IF r.pc \in {"inject", "abort"} THEN r.tab ELSE None
  /\ r.pc = "unbind" => AtRest(w) /\ r.tab = w.recTab
  /\ r.pc = "save" => ~w.recording /\ w.listening = None /\ r.tab = w.recTab /\ r.tab # None

RecorderInPhase ==
  /\ (\A c \in Cmds : ~Busy(cmd[c])) => AtRest(worker)
  /\ \A c \in Cmds : Busy(cmd[c]) => InPhase(worker, cmd[c])

\* The recorder's hold is there for as long as the user ends no session.
Recorders(r, t) == r.kind = "start" /\ r.tab = t /\ r.pc \in Starting
HoldsKept ==
  cancels = 0 => \A t \in open :
    worker.recTab = t \/ (\E c \in Cmds : Recorders(cmd[c], t)) => worker.holds[t] = 1

\* What is known of the debugger of an open tab until the user ends a session: one
\* command attaches it, owns the lock and has yet to track the tab, and an answer
\* under way is that of a detach that was done.
Tracking(t) ==
  /\ detaching[t] # "no" => detaching[t] = "done" /\ t \in worker.tracked /\ t \notin attached
  /\ t \in worker.tracked /\ detaching[t] = "no" => t \in attached
  /\ t \in attached => t \in worker.tracked \/ \E c \in Cmds : cmd[c].tab = t /\ cmd[c].pc = "tab"
  /\ \A c \in Cmds : cmd[c].tab = t /\ cmd[c].pc \in Attaching =>
       /\ worker.lock[t] = c /\ t \notin worker.tracked
       /\ cmd[c].pc = "tab" => t \in attached

TrackingExact ==
  /\ worker.tracked \subseteq open
  /\ cancels = 0 => dropped = {} /\ \A t \in open : Tracking(t)

Inv ==
  /\ TypeOK /\ StagesMatch /\ LifecycleInOrder /\ LocksHaveOwners
  /\ RecorderInPhase /\ HoldsJustified /\ HoldsKept /\ TrackingExact

-----------------------------------------------------------------------------
(* Commands                                                                  *)

\* A command goes to another stage.
LEMMA StageFields ==
  ASSUME cmd \in [Cmds -> Command], NEW c \in Cmds, NEW pc \in Stages, cmd' = Stage(c, pc)
  PROVE  /\ cmd' \in [Cmds -> Command]
         /\ cmd'[c].pc = pc
         /\ cmd'[c].kind = cmd[c].kind /\ cmd'[c].tab = cmd[c].tab /\ cmd'[c].on = cmd[c].on
         /\ \A d \in Cmds : d # c => cmd'[d] = cmd[d]
<1>1. cmd'[c] = [cmd[c] EXCEPT !.pc = pc]
  BY DEF Stage
<1>2. \A d \in Cmds : d # c => cmd'[d] = cmd[d]
  BY DEF Stage
<1>3. cmd[c] \in Command
  OBVIOUS
<1>4. [cmd[c] EXCEPT !.pc = pc] \in Command
  BY <1>3 DEF Command
<1>5. cmd' = [d \in Cmds |-> IF d = c THEN [cmd[c] EXCEPT !.pc = pc] ELSE cmd[d]]
  BY DEF Stage
<1>6. cmd' \in [Cmds -> Command]
  BY <1>4, <1>5
<1> QED
  BY <1>1, <1>2, <1>3, <1>6 DEF Command

\* A promise is resolved: the command that had it goes on, and those that waited do.
LEMMA ResolvedFields ==
  ASSUME cmd \in [Cmds -> Command], NEW c \in Cmds, NEW pc \in Stages, cmd' = Resolved(c, pc)
  PROVE  /\ cmd' \in [Cmds -> Command]
         /\ cmd'[c].pc = pc
         /\ \A d \in Cmds : cmd'[d].kind = cmd[d].kind /\ cmd'[d].tab = cmd[d].tab
         /\ \A d \in Cmds \ {c} :
              IF cmd[d].pc = "wait" /\ cmd[d].on = c THEN cmd'[d].pc = AfterAttach(cmd[d].kind)
              ELSE cmd'[d] = cmd[d]
<1> DEFINE Resumed(d) == [cmd[d] EXCEPT !.pc = AfterAttach(cmd[d].kind), !.on = None]
<1>1. cmd'[c] = [cmd[c] EXCEPT !.pc = pc]
  BY DEF Resolved
<1>2. ASSUME NEW d \in Cmds \ {c}
      PROVE  cmd'[d] = IF cmd[d].pc = "wait" /\ cmd[d].on = c THEN Resumed(d) ELSE cmd[d]
  BY DEF Resolved
<1>3. ASSUME NEW d \in Cmds
      PROVE  /\ Resumed(d) \in Command /\ Resumed(d).pc = AfterAttach(cmd[d].kind)
             /\ Resumed(d).kind = cmd[d].kind /\ Resumed(d).tab = cmd[d].tab
  <2>1. cmd[d] \in Command
    OBVIOUS
  <2>2. AfterAttach(cmd[d].kind) \in Stages
    BY DEF AfterAttach, Stages, Starting
  <2> QED
    BY <2>1, <2>2 DEF Command
<1>4. /\ [cmd[c] EXCEPT !.pc = pc] \in Command
      /\ cmd'[c].pc = pc /\ cmd'[c].kind = cmd[c].kind /\ cmd'[c].tab = cmd[c].tab
  <2>1. cmd[c] \in Command
    OBVIOUS
  <2> QED
    BY <1>1, <2>1 DEF Command
<1> HIDE DEF Resumed
<1>5. \A d \in Cmds : cmd'[d] \in Command
  BY <1>1, <1>2, <1>3, <1>4
<1>6. cmd' \in [Cmds -> Command]
  BY <1>5 DEF Resolved
<1> QED
  BY <1>2, <1>3, <1>4, <1>6

-----------------------------------------------------------------------------
(* The worker's variables                                                    *)

\* What says whether and where there is a recording.
SameRecorder(v, w) ==
  v.reserved = w.reserved /\ v.recTab = w.recTab /\ v.listening = w.listening
  /\ v.recording = w.recording

LEMMA ClearFields ==
  ASSUME NEW w \in Worker, NEW t \in Tabs
  PROVE  LET v == clearDetachTimer(w, t)
         IN  /\ v \in Worker /\ SameRecorder(v, w)
             /\ v.tracked = w.tracked /\ v.lock = w.lock /\ v.holds = w.holds
BY DEF Worker, clearDetachTimer, SameRecorder

LEMMA ScheduleFields ==
  ASSUME NEW w \in Worker, NEW t \in Tabs
  PROVE  LET v == scheduleDebuggerDetach(w, t)
         IN  /\ v \in Worker /\ SameRecorder(v, w)
             /\ v.tracked = w.tracked /\ v.lock = w.lock /\ v.holds = w.holds
<1>1. [w EXCEPT !.timers = @ \cup {t}] \in Worker
  BY DEF Worker
<1>2. CASE t \in w.tracked /\ w.holds[t] = 0
  BY <1>1, <1>2 DEF Worker, scheduleDebuggerDetach, SameRecorder
<1>3. CASE ~(t \in w.tracked /\ w.holds[t] = 0)
  BY <1>3 DEF Worker, scheduleDebuggerDetach, SameRecorder
<1> QED
  BY <1>2, <1>3

LEMMA HoldFields ==
  ASSUME NEW w \in Worker, NEW t \in Tabs
  PROVE  LET v == holdDebuggerAttached(w, t)
         IN  /\ v \in Worker /\ SameRecorder(v, w)
             /\ v.tracked = w.tracked /\ v.lock = w.lock
             /\ v.holds = [w.holds EXCEPT ![t] = @ + 1]
<1>1. PICK u \in Worker : u = clearDetachTimer(w, t)
  BY ClearFields
<1>2. SameRecorder(u, w) /\ u.tracked = w.tracked /\ u.lock = w.lock /\ u.holds = w.holds
  BY <1>1, ClearFields
<1>3. holdDebuggerAttached(w, t) = [u EXCEPT !.holds = [u.holds EXCEPT ![t] = @ + 1]]
  BY <1>1 DEF holdDebuggerAttached, Worker
<1>4. u.holds \in [Tabs -> Nat] /\ [u.holds EXCEPT ![t] = @ + 1] \in [Tabs -> Nat]
  BY <1>1 DEF Worker
<1> QED
  BY <1>1, <1>2, <1>3, <1>4 DEF Worker, SameRecorder

LEMMA ReleaseFields ==
  ASSUME NEW w \in Worker, NEW t \in Tabs
  PROVE  LET v == releaseDebuggerAttached(w, t)
         IN  /\ v \in Worker /\ SameRecorder(v, w)
             /\ v.tracked = w.tracked /\ v.lock = w.lock
             /\ v.holds = [w.holds EXCEPT ![t] = IF @ <= 1 THEN 0 ELSE @ - 1]
<1>1. PICK u : u = [w EXCEPT !.holds = [w.holds EXCEPT ![t] = IF @ <= 1 THEN 0 ELSE @ - 1]]
  OBVIOUS
<1>2. w.holds \in [Tabs -> Nat]
  BY DEF Worker
<1>3. [w.holds EXCEPT ![t] = IF @ <= 1 THEN 0 ELSE @ - 1] \in [Tabs -> Nat]
  BY <1>2
<1>4. /\ u \in Worker /\ SameRecorder(u, w) /\ u.tracked = w.tracked /\ u.lock = w.lock
      /\ u.holds = [w.holds EXCEPT ![t] = IF @ <= 1 THEN 0 ELSE @ - 1]
  BY <1>1, <1>3 DEF Worker, SameRecorder
<1>5. releaseDebuggerAttached(w, t) = scheduleDebuggerDetach(u, t)
  BY <1>1 DEF releaseDebuggerAttached, Worker
<1> QED
  BY <1>4, <1>5, ScheduleFields DEF SameRecorder

\* The lock of a tab is deleted.
LEMMA UnlockFields ==
  ASSUME NEW w \in Worker, NEW c \in Cmds, cmd[c].tab \in Tabs, NEW ok
  PROVE  LET v == Unlock(w, c, ok)
         IN  /\ v \in Worker /\ SameRecorder(v, w)
             /\ v.tracked = w.tracked /\ v.holds = w.holds
             /\ v.lock = [w.lock EXCEPT ![cmd[c].tab] = None]
BY DEF Worker, Unlock, SameRecorder

LEMMA ForgetFields ==
  ASSUME NEW w \in Worker, NEW t \in Tabs
  PROVE  LET v == Forget(w, t)
         IN  /\ v \in Worker /\ SameRecorder(v, w)
             /\ v.tracked = w.tracked \ {t}
             /\ v.lock = [w.lock EXCEPT ![t] = None] /\ v.holds = [w.holds EXCEPT ![t] = 0]
BY DEF Worker, Forget, SameRecorder

LEMMA UntrackFields ==
  ASSUME NEW w \in Worker, NEW t \in Tabs
  PROVE  LET v == Untrack(w, t)
         IN  /\ v \in Worker /\ SameRecorder(v, w) /\ v.holds = w.holds
             /\ v.tracked = w.tracked \ {t} /\ v.lock = [w.lock EXCEPT ![t] = None]
BY DEF Worker, Untrack, SameRecorder

-----------------------------------------------------------------------------
(* recordingLifecycle                                                        *)

LEMMA CommandFacts ==
  ASSUME Inv, NEW c \in Cmds
  PROVE  cmd[c] \in Command /\ InStage(cmd[c])
BY DEF Inv, TypeOK, StagesMatch

\* What is under way is the first of recordingLifecycle.
LEMMA BusyIsHead ==
  ASSUME Inv, NEW c \in Cmds, Busy(cmd[c])
  PROVE  lifecycle # <<>> /\ c = Head(lifecycle)
<1>1. lifecycle \in Seq(Cmds)
  BY DEF Inv, TypeOK
<1>2. PICK i \in DOMAIN lifecycle : lifecycle[i] = c
  BY DEF Inv, LifecycleInOrder, Busy
<1>3. ~(i > 1)
  BY <1>2 DEF Inv, LifecycleInOrder, Busy
<1>4. i = 1
  BY <1>1, <1>2, <1>3
<1> QED
  BY <1>1, <1>2, <1>4

LEMMA OneBusy ==
  ASSUME Inv, NEW c \in Cmds, NEW d \in Cmds, Busy(cmd[c]), Busy(cmd[d])
  PROVE  c = d
BY BusyIsHead

\* While the first one waits, nothing is under way.
LEMMA QueuedIsHead ==
  ASSUME Inv, NEW c \in Cmds, NEW kind, MyTurn(c, kind), kind # "run"
  PROVE  /\ Listed(cmd[c]) /\ \A d \in Cmds : ~Busy(cmd[d])
         /\ lifecycle # <<>> /\ c = Head(lifecycle)
<1>1. cmd[c].pc = "queued" /\ cmd[c].kind = kind /\ Head(lifecycle) = c
  BY DEF MyTurn
<1>2. Listed(cmd[c])
  BY <1>1 DEF Listed
<1>3. lifecycle # <<>>
  BY <1>2 DEF Inv, LifecycleInOrder
<1>4. \A d \in Cmds : ~Busy(cmd[d])
  BY <1>1, BusyIsHead DEF Busy
<1> QED
  BY <1>1, <1>2, <1>3, <1>4

\* The place of a command in recordingLifecycle and in the recorder's work is what
\* it was.
Attachers == Attaching \cup {"wait", "begin"}
Alike(q, r) ==
  \/ q.kind = "run" /\ r.kind = "run"
  \/ /\ q.kind = r.kind /\ q.tab = r.tab
     /\ \/ q.pc = r.pc
        \/ q.pc \in Attachers /\ r.pc \in Attachers
        \/ q.pc \in {"inject", "abort"} /\ r.pc \in {"inject", "abort"}

LEMMA AlikeMeans ==
  ASSUME NEW q, NEW r, Alike(q, r)
  PROVE  /\ Listed(q) <=> Listed(r)
         /\ Busy(q) <=> Busy(r)
         /\ q.kind # "run" /\ r.pc = "queued" => q.pc = "queued"
         /\ \A t \in Tabs : Recorders(q, t) <=> Recorders(r, t)
BY DEF Alike, Attachers, Attaching, Starting, Listed, Busy, Recorders

LEMMA LifecycleKept ==
  ASSUME Inv, UNCHANGED lifecycle, \A d \in Cmds : Alike(cmd'[d], cmd[d])
  PROVE  LifecycleInOrder'
<1>1. lifecycle \in Seq(Cmds)
  BY DEF Inv, TypeOK
<1>2. \A i \in DOMAIN lifecycle : lifecycle[i] \in Cmds
  BY <1>1
<1>3. \A d \in Cmds : Listed(cmd'[d]) <=> Listed(cmd[d])
  BY AlikeMeans
<1>4. ASSUME NEW i \in DOMAIN lifecycle, i > 1
      PROVE  cmd'[lifecycle[i]].pc = "queued"
  <2>1. cmd[lifecycle[i]].pc = "queued" /\ Listed(cmd[lifecycle[i]])
    BY <1>4 DEF Inv, LifecycleInOrder
  <2>2. Listed(cmd'[lifecycle[i]])
    BY <1>2, <1>3, <2>1
  <2> QED
    BY <1>2, <2>1, <2>2, AlikeMeans DEF Listed
<1> QED
  BY <1>2, <1>3, <1>4 DEF Inv, LifecycleInOrder

\* The first one goes on, and the others are where they were.
LEMMA LifecycleProceeds ==
  ASSUME Inv, UNCHANGED lifecycle, NEW c \in Cmds, lifecycle # <<>>, c = Head(lifecycle),
         Listed(cmd'[c]), \A d \in Cmds \ {c} : Alike(cmd'[d], cmd[d])
  PROVE  LifecycleInOrder'
<1>1. lifecycle \in Seq(Cmds)
  BY DEF Inv, TypeOK
<1>2. \A i \in DOMAIN lifecycle : lifecycle[i] \in Cmds
  BY <1>1
<1>3. 1 \in DOMAIN lifecycle /\ lifecycle[1] = c
  BY <1>1
<1>4. Listed(cmd[c])
  BY <1>3 DEF Inv, LifecycleInOrder
<1>5. \A d \in Cmds : Listed(cmd'[d]) <=> Listed(cmd[d])
  BY <1>4, AlikeMeans
<1>6. ASSUME NEW i \in DOMAIN lifecycle, i > 1
      PROVE  cmd'[lifecycle[i]].pc = "queued"
  <2>1. cmd[lifecycle[i]].pc = "queued" /\ Listed(cmd[lifecycle[i]])
    BY <1>6 DEF Inv, LifecycleInOrder
  <2>2. lifecycle[i] \in Cmds \ {c}
    BY <1>2, <1>3, <1>6 DEF Inv, LifecycleInOrder
  <2>3. Listed(cmd'[lifecycle[i]])
    BY <1>5, <2>1, <2>2
  <2> QED
    BY <2>1, <2>2, <2>3, AlikeMeans DEF Listed
<1> QED
  BY <1>2, <1>5, <1>6 DEF Inv, LifecycleInOrder

\* The first one ends and makes room for the next.
LEMMA LifecycleLeaves ==
  ASSUME Inv, NEW c \in Cmds, lifecycle # <<>>, c = Head(lifecycle),
         lifecycle' = Tail(lifecycle), cmd'[c].pc = "ended",
         \A d \in Cmds \ {c} : Alike(cmd'[d], cmd[d])
  PROVE  LifecycleInOrder'
<1>1. lifecycle \in Seq(Cmds) /\ Len(lifecycle) >= 1
  BY DEF Inv, TypeOK
<1>2. lifecycle' \in Seq(Cmds)
  BY <1>1
<1>3. /\ DOMAIN lifecycle' = 1..(Len(lifecycle) - 1)
      /\ \A i \in DOMAIN lifecycle' : lifecycle'[i] = lifecycle[i + 1] /\ i + 1 \in DOMAIN lifecycle
  BY <1>1
<1>4. 1 \in DOMAIN lifecycle /\ lifecycle[1] = c
  BY <1>1
<1>5. \A i, j \in DOMAIN lifecycle : lifecycle[i] = lifecycle[j] => i = j
  BY DEF Inv, LifecycleInOrder
<1>6. \A d \in Cmds \ {c} : Listed(cmd'[d]) <=> Listed(cmd[d])
  BY AlikeMeans
<1>7. ~Listed(cmd'[c])
  BY DEF Listed
<1>8. ASSUME NEW i \in DOMAIN lifecycle'
      PROVE  /\ lifecycle'[i] \in Cmds \ {c} /\ lifecycle'[i] = lifecycle[i + 1]
             /\ i + 1 \in DOMAIN lifecycle /\ i + 1 > 1
  <2>1. i \in Nat /\ i >= 1
    BY <1>1, <1>3
  <2>2. i + 1 # 1 /\ i + 1 > 1
    BY <2>1
  <2>3. lifecycle[i + 1] # c
    BY <1>3, <1>4, <1>5, <2>2
  <2>4. lifecycle[i + 1] \in Cmds
    BY <1>1, <1>3
  <2> QED
    BY <1>3, <2>2, <2>3, <2>4
<1>9. \A i, j \in DOMAIN lifecycle' : lifecycle'[i] = lifecycle'[j] => i = j
  <2> SUFFICES ASSUME NEW i \in DOMAIN lifecycle', NEW j \in DOMAIN lifecycle',
                      lifecycle'[i] = lifecycle'[j]
               PROVE  i = j
    OBVIOUS
  <2>1. i + 1 = j + 1
    BY <1>5, <1>8
  <2> QED
    BY <1>1, <1>3, <2>1
<1>10. ASSUME NEW i \in DOMAIN lifecycle'
       PROVE  Listed(cmd'[lifecycle'[i]]) /\ cmd'[lifecycle'[i]].pc = "queued"
  <2>1. /\ Listed(cmd[lifecycle[i + 1]]) /\ cmd[lifecycle[i + 1]].pc = "queued"
    BY <1>8 DEF Inv, LifecycleInOrder
  <2>2. Listed(cmd'[lifecycle'[i]])
    BY <1>6, <1>8, <2>1
  <2> QED
    BY <1>8, <2>1, <2>2, AlikeMeans DEF Listed
<1>11. ASSUME NEW d \in Cmds, Listed(cmd'[d])
       PROVE  \E i \in DOMAIN lifecycle' : lifecycle'[i] = d
  <2>1. d # c /\ Listed(cmd[d])
    BY <1>6, <1>7, <1>11
  <2>2. PICK i \in DOMAIN lifecycle : lifecycle[i] = d
    BY <2>1 DEF Inv, LifecycleInOrder
  <2>3. i # 1 /\ i \in 1..Len(lifecycle)
    BY <1>1, <1>4, <2>1, <2>2
  <2>4. i - 1 \in DOMAIN lifecycle' /\ (i - 1) + 1 = i
    BY <1>1, <1>3, <2>3
  <2> QED
    BY <1>3, <2>2, <2>4
<1> QED
  BY <1>9, <1>10, <1>11 DEF LifecycleInOrder

\* A start or a stop joins at the end.
LEMMA LifecycleJoins ==
  ASSUME Inv, NEW c \in Cmds, ~Listed(cmd[c]), lifecycle' = Append(lifecycle, c),
         Listed(cmd'[c]), cmd'[c].pc = "queued",
         \A d \in Cmds \ {c} : cmd'[d] = cmd[d]
  PROVE  LifecycleInOrder'
<1>1. lifecycle \in Seq(Cmds)
  BY DEF Inv, TypeOK
<1>2. /\ DOMAIN lifecycle' = 1..(Len(lifecycle) + 1)
      /\ lifecycle'[Len(lifecycle) + 1] = c
      /\ \A i \in DOMAIN lifecycle : lifecycle'[i] = lifecycle[i]
      /\ DOMAIN lifecycle = 1..Len(lifecycle) /\ Len(lifecycle) \in Nat
  BY <1>1
<1>3. \A i \in DOMAIN lifecycle : lifecycle[i] \in Cmds \ {c}
  BY <1>1 DEF Inv, LifecycleInOrder
<1>4. \A i, j \in DOMAIN lifecycle' : lifecycle'[i] = lifecycle'[j] => i = j
  <2>1. \A i, j \in DOMAIN lifecycle : lifecycle[i] = lifecycle[j] => i = j
    BY DEF Inv, LifecycleInOrder
  <2> QED
    BY <1>2, <1>3, <2>1
<1>5. \A i \in DOMAIN lifecycle' : Listed(cmd'[lifecycle'[i]])
  BY <1>2, <1>3 DEF Inv, LifecycleInOrder
<1>6. \A i \in DOMAIN lifecycle' : i > 1 => cmd'[lifecycle'[i]].pc = "queued"
  BY <1>2, <1>3 DEF Inv, LifecycleInOrder
<1>7. \A d \in Cmds : Listed(cmd'[d]) => \E i \in DOMAIN lifecycle' : lifecycle'[i] = d
  <2>1. Len(lifecycle) + 1 \in DOMAIN lifecycle'
    BY <1>2
  <2>2. \A i \in DOMAIN lifecycle : i \in DOMAIN lifecycle'
    BY <1>2
  <2> QED
    BY <1>2, <2>1, <2>2 DEF Inv, LifecycleInOrder
<1> QED
  BY <1>4, <1>5, <1>6, <1>7 DEF LifecycleInOrder

-----------------------------------------------------------------------------
(* The recorder and its holds                                                *)

\* A start that may have its hold is under way.
LEMMA RecordersAreBusy ==
  ASSUME NEW r, NEW t, Recorders(r, t)
  PROVE  Busy(r)
BY DEF Recorders, Starting, Attaching, Busy, Listed

LEMMA RecorderKept ==
  ASSUME Inv, SameRecorder(worker', worker), \A d \in Cmds : Alike(cmd'[d], cmd[d])
  PROVE  RecorderInPhase'
<1>1. \A d \in Cmds : Busy(cmd'[d]) <=> Busy(cmd[d])
  BY AlikeMeans
<1>2. ASSUME AtRest(worker) PROVE AtRest(worker')
  BY <1>2 DEF AtRest, SameRecorder
<1>3. ASSUME NEW d \in Cmds, Busy(cmd[d])
      PROVE  InPhase(worker', cmd'[d])
  <2>1. InPhase(worker, cmd[d])
    BY <1>3 DEF Inv, RecorderInPhase
  <2>2. Alike(cmd'[d], cmd[d]) /\ cmd[d].kind # "run"
    BY <1>3 DEF Busy, Listed
  <2>3. /\ cmd'[d].kind = cmd[d].kind /\ cmd'[d].tab = cmd[d].tab
        /\ cmd'[d].pc \in {"inject", "abort"} <=> cmd[d].pc \in {"inject", "abort"}
        /\ cmd'[d].pc = "unbind" <=> cmd[d].pc = "unbind"
        /\ cmd'[d].pc = "save" <=> cmd[d].pc = "save"
    BY <2>2 DEF Alike, Attachers, Attaching
  <2> QED
    BY <1>2, <2>1, <2>3 DEF InPhase, SameRecorder
<1> QED
  BY <1>1, <1>2, <1>3 DEF Inv, RecorderInPhase

\* Of the others, none is under way.
LEMMA OthersRest ==
  ASSUME Inv, NEW c \in Cmds, \A d \in Cmds \ {c} : ~Busy(cmd[d]),
         \A d \in Cmds \ {c} : Alike(cmd'[d], cmd[d])
  PROVE  /\ \A d \in Cmds \ {c} : ~Busy(cmd'[d])
         /\ \A d \in Cmds \ {c}, t \in Tabs : ~Recorders(cmd[d], t) /\ ~Recorders(cmd'[d], t)
<1>1. \A d \in Cmds \ {c} : ~Busy(cmd'[d])
  BY AlikeMeans
<1> QED
  BY <1>1, RecordersAreBusy

LEMMA RecorderProceeds ==
  ASSUME Inv, NEW c \in Cmds, \A d \in Cmds \ {c} : ~Busy(cmd[d]),
         \A d \in Cmds \ {c} : Alike(cmd'[d], cmd[d]),
         Busy(cmd'[c]), InPhase(worker', cmd'[c])
  PROVE  RecorderInPhase'
BY OthersRest DEF RecorderInPhase

LEMMA RecorderLeaves ==
  ASSUME Inv, NEW c \in Cmds, \A d \in Cmds \ {c} : ~Busy(cmd[d]),
         \A d \in Cmds \ {c} : Alike(cmd'[d], cmd[d]),
         cmd'[c].pc = "ended", AtRest(worker')
  PROVE  RecorderInPhase'
BY OthersRest DEF RecorderInPhase, Busy, Listed

\* The holds are those there were, or those of a tab that is gone or whose session
\* the user has ended are forgotten.
LEMMA HoldsKeptBy ==
  ASSUME Inv, NEW gone \in SUBSET Tabs, worker'.recTab = worker.recTab,
         \A t \in Tabs : worker'.holds[t] = IF t \in gone THEN 0 ELSE worker.holds[t],
         \A d \in Cmds, t \in Tabs : Recorders(cmd'[d], t) <=> Recorders(cmd[d], t),
         open' \subseteq open, cancels' = 0 => cancels = 0 /\ open' \cap gone = {}
  PROVE  HoldsJustified' /\ HoldsKept'
<1>1. open \subseteq Tabs /\ worker.holds \in [Tabs -> Nat]
  BY DEF Inv, TypeOK, Worker
<1>2. \A t \in Tabs : worker.holds[t] <= 1 /\ worker'.holds[t] <= 1
  BY <1>1 DEF Inv, HoldsJustified
<1>3. ASSUME NEW t \in Tabs, worker'.holds[t] = 1
      PROVE  worker'.recTab = t \/ \E c \in Cmds : Recorders(cmd'[c], t)
  <2>1. worker.holds[t] = 1
    BY <1>3
  <2>2. worker.recTab = t \/ \E c \in Cmds : Recorders(cmd[c], t)
    BY <2>1 DEF Inv, HoldsJustified, Recorders
  <2> QED
    BY <2>2
<1>4. HoldsJustified'
  BY <1>2, <1>3 DEF HoldsJustified, Recorders
<1>5. HoldsKept'
  BY <1>1 DEF Inv, HoldsKept
<1> QED
  BY <1>4, <1>5

\* The only one that may have a hold is c; it has it now, or the recording has it,
\* or nobody does.
LEMMA HoldsOfOne ==
  ASSUME Inv, NEW c \in Cmds, \A d \in Cmds \ {c} : ~Busy(cmd[d]),
         \A d \in Cmds \ {c} : Alike(cmd'[d], cmd[d]),
         UNCHANGED <<open, cancels>>,
         \A t \in Tabs :
           /\ worker'.holds[t] \in Nat /\ worker'.holds[t] <= 1
           /\ worker'.holds[t] = 1 => worker'.recTab = t \/ Recorders(cmd'[c], t)
           /\ cancels = 0 /\ t \in open /\ (worker'.recTab = t \/ Recorders(cmd'[c], t)) =>
                worker'.holds[t] = 1
  PROVE  HoldsJustified' /\ HoldsKept'
<1>1. open \subseteq Tabs
  BY DEF Inv, TypeOK
<1>2. \A d \in Cmds, t \in Tabs : Recorders(cmd'[d], t) => d = c
  BY OthersRest
<1>3. HoldsJustified'
  BY DEF HoldsJustified, Recorders
<1>4. HoldsKept'
  BY <1>1, <1>2 DEF HoldsKept
<1> QED
  BY <1>3, <1>4

\* What the holds are when c alone may be under way.
LEMMA HoldsNow ==
  ASSUME Inv, NEW c \in Cmds, \A d \in Cmds \ {c} : ~Busy(cmd[d])
  PROVE  \A t \in Tabs :
           /\ worker.holds[t] \in Nat /\ worker.holds[t] <= 1
           /\ worker.holds[t] = 1 => worker.recTab = t \/ Recorders(cmd[c], t)
           /\ cancels = 0 /\ t \in open /\ (worker.recTab = t \/ Recorders(cmd[c], t)) =>
                worker.holds[t] = 1
<1>1. worker.holds \in [Tabs -> Nat]
  BY DEF Inv, TypeOK, Worker
<1>2. \A d \in Cmds, t \in Tabs : Recorders(cmd[d], t) => d = c
  BY RecordersAreBusy
<1>3. \A t \in Tabs : worker.holds[t] <= 1
  BY DEF Inv, HoldsJustified
<1>4. ASSUME NEW t \in Tabs, worker.holds[t] = 1
      PROVE  worker.recTab = t \/ Recorders(cmd[c], t)
  <2>1. worker.recTab = t \/ \E d \in Cmds : Recorders(cmd[d], t)
    BY <1>4 DEF Inv, HoldsJustified, Recorders
  <2> QED
    BY <1>2, <2>1
<1>5. \A t \in Tabs : cancels = 0 /\ t \in open /\ (worker.recTab = t \/ Recorders(cmd[c], t)) =>
        worker.holds[t] = 1
  BY DEF Inv, HoldsKept
<1> QED
  BY <1>1, <1>3, <1>4, <1>5

-----------------------------------------------------------------------------
(* Locks                                                                     *)

\* The attaching commands go on attaching, nobody begins to wait, and locks are
\* deleted at most.
LEMMA LocksKept ==
  ASSUME Inv, \A t \in Tabs : worker'.lock[t] \in {worker.lock[t], None},
         \A d \in Cmds : cmd[d].pc \in Attaching => cmd'[d].pc \in Attaching /\ cmd'[d].tab = cmd[d].tab,
         \A d \in Cmds : cmd'[d].pc = "wait" =>
           cmd[d].pc = "wait" /\ cmd'[d].on = cmd[d].on /\ cmd'[d].tab = cmd[d].tab
  PROVE  LocksHaveOwners'
<1>1. \A t \in Tabs : worker.lock[t] \in Cmds \cup {None}
  BY DEF Inv, TypeOK, Worker
<1>2. \A d \in Cmds : cmd[d].on \in Cmds \cup {None}
  BY CommandFacts DEF Command
<1> QED
  BY <1>1, <1>2 DEF Inv, LocksHaveOwners

\* The owner of a promise has resolved it and deleted the lock of its tab.
LEMMA LocksResolved ==
  ASSUME Inv, NEW c \in Cmds, cmd[c].pc \in Attaching, NEW pc \in Stages, pc # "wait",
         cmd' = Resolved(c, pc),
         worker'.lock = [worker.lock EXCEPT ![cmd[c].tab] = None]
  PROVE  LocksHaveOwners'
<1>1. worker.lock \in [Tabs -> Cmds \cup {None}]
  BY DEF Inv, TypeOK, Worker
<1>2. cmd \in [Cmds -> Command]
  BY DEF Inv, TypeOK
<1>3. /\ \A d \in Cmds : cmd'[d].tab = cmd[d].tab
      /\ cmd'[c].pc = pc
      /\ \A d \in Cmds \ {c} : IF cmd[d].pc = "wait" /\ cmd[d].on = c
                               THEN cmd'[d].pc = AfterAttach(cmd[d].kind)
                               ELSE cmd'[d] = cmd[d]
  BY <1>2, ResolvedFields
<1>4. ASSUME NEW t \in Tabs, worker'.lock[t] # None
      PROVE  cmd'[worker'.lock[t]].pc \in Attaching /\ cmd'[worker'.lock[t]].tab = t
  <2>1. worker'.lock[t] = worker.lock[t] /\ worker.lock[t] \in Cmds /\ t # cmd[c].tab
    BY <1>1, <1>4
  <2>2. cmd[worker.lock[t]].pc \in Attaching /\ cmd[worker.lock[t]].tab = t
    BY <1>4, <2>1 DEF Inv, LocksHaveOwners
  <2>3. cmd'[worker.lock[t]] = cmd[worker.lock[t]]
    BY <1>3, <2>1, <2>2 DEF Attaching
  <2> QED
    BY <2>1, <2>2, <2>3
<1>5. ASSUME NEW d \in Cmds, cmd'[d].pc = "wait"
      PROVE  /\ cmd'[d].on # None
             /\ cmd'[cmd'[d].on].pc \in Attaching /\ cmd'[cmd'[d].on].tab = cmd'[d].tab
  <2>1. d # c
    BY <1>3, <1>5
  <2>2. AfterAttach(cmd[d].kind) # "wait"
    BY DEF AfterAttach
  <2>3. cmd[d].on # c /\ cmd'[d] = cmd[d] /\ cmd[d].pc = "wait"
    BY <1>3, <1>5, <2>1, <2>2
  <2>4. PICK o \in Cmds : o = cmd[d].on
    BY <1>2, <2>3 DEF Inv, LocksHaveOwners, Command
  <2>5. cmd[d].on # None /\ cmd[o].pc \in Attaching /\ cmd[o].tab = cmd[d].tab
    BY <2>3, <2>4 DEF Inv, LocksHaveOwners
  <2>6. cmd'[o] = cmd[o]
    BY <1>3, <2>3, <2>4, <2>5 DEF Attaching
  <2> QED
    BY <2>3, <2>4, <2>5, <2>6
<1> QED
  BY <1>4, <1>5 DEF LocksHaveOwners

-----------------------------------------------------------------------------
(* The debugger of a tab                                                     *)

\* Nothing has changed for the tab but, perhaps, its attached debugger's idle timer.
LEMMA TrackingKept ==
  ASSUME NEW t \in Tabs, Tracking(t),
         t \in worker'.tracked <=> t \in worker.tracked, worker'.lock[t] = worker.lock[t],
         t \in attached' <=> t \in attached, detaching'[t] = detaching[t],
         \A d \in Cmds : cmd'[d].tab = t /\ cmd'[d].pc \in Attaching <=>
                           cmd[d].tab = t /\ cmd[d].pc \in Attaching,
         \A d \in Cmds : cmd'[d].tab = t /\ cmd'[d].pc = "tab" <=> cmd[d].tab = t /\ cmd[d].pc = "tab"
  PROVE  Tracking(t)'
BY DEF Tracking, Attaching

\* Steps of commands that attach no debugger, before and after.
LEMMA TrackingApart ==
  ASSUME Inv, UNCHANGED <<open, attached, dropped, detaching, cancels>>,
         worker'.tracked = worker.tracked, worker'.lock = worker.lock,
         \A d \in Cmds : cmd'[d].pc \in Attaching \/ cmd[d].pc \in Attaching => cmd'[d] = cmd[d]
  PROVE  TrackingExact'
<1>1. open \subseteq Tabs
  BY DEF Inv, TypeOK
<1>2. ASSUME cancels = 0, NEW t \in open
      PROVE  Tracking(t)'
  <2>1. Tracking(t)
    BY <1>2 DEF Inv, TrackingExact
  <2>2. \A d \in Cmds : cmd'[d].tab = t /\ cmd'[d].pc \in Attaching <=>
                          cmd[d].tab = t /\ cmd[d].pc \in Attaching
    OBVIOUS
  <2>3. \A d \in Cmds : cmd'[d].tab = t /\ cmd'[d].pc = "tab" <=> cmd[d].tab = t /\ cmd[d].pc = "tab"
    BY DEF Attaching
  <2> QED
    BY <1>1, <2>1, <2>2, <2>3, TrackingKept
<1> QED
  BY <1>2 DEF Inv, TrackingExact

-----------------------------------------------------------------------------
(* Steps of one command                                                      *)

\* A step that leaves the recorder, the holds and all commands' part in them alone.
LEMMA AlikeStep ==
  ASSUME Inv, \A d \in Cmds : Alike(cmd'[d], cmd[d]), UNCHANGED <<open, cancels, lifecycle>>,
         SameRecorder(worker', worker), worker'.holds = worker.holds
  PROVE  LifecycleInOrder' /\ RecorderInPhase' /\ HoldsJustified' /\ HoldsKept'
<1>1. LifecycleInOrder' /\ RecorderInPhase'
  BY LifecycleKept, RecorderKept
<1>2. \A d \in Cmds, t \in Tabs : Recorders(cmd'[d], t) <=> Recorders(cmd[d], t)
  BY AlikeMeans
<1>3. worker'.recTab = worker.recTab
  BY DEF SameRecorder
<1>4. HoldsJustified' /\ HoldsKept'
  <2>1. PICK gone \in SUBSET Tabs : gone = {}
    OBVIOUS
  <2>2. \A t \in Tabs : worker'.holds[t] = IF t \in gone THEN 0 ELSE worker.holds[t]
    BY <2>1
  <2>3. open' \subseteq open /\ (cancels' = 0 => cancels = 0 /\ open' \cap gone = {})
    BY <2>1
  <2> QED
    BY <1>2, <1>3, <2>2, <2>3, HoldsKeptBy
<1> QED
  BY <1>1, <1>4

\* The start or stop that is first ends, and the recorder is at rest again; the holds
\* are those of a recording there may be.
LEMMA LeaveStep ==
  ASSUME Inv, NEW c \in Cmds, lifecycle # <<>>, c = Head(lifecycle),
         \A d \in Cmds \ {c} : ~Busy(cmd[d]),
         \A d \in Cmds \ {c} : Alike(cmd'[d], cmd[d]),
         cmd'[c].pc = "ended", lifecycle' = Tail(lifecycle), UNCHANGED <<open, cancels>>,
         AtRest(worker'),
         \A t \in Tabs :
           /\ worker'.holds[t] \in Nat /\ worker'.holds[t] <= 1
           /\ worker'.holds[t] = 1 => worker'.recTab = t
           /\ cancels = 0 /\ t \in open /\ worker'.recTab = t => worker'.holds[t] = 1
  PROVE  LifecycleInOrder' /\ RecorderInPhase' /\ HoldsJustified' /\ HoldsKept'
<1>1. LifecycleInOrder' /\ RecorderInPhase'
  BY LifecycleLeaves, RecorderLeaves
<1>2. \A t \in Tabs : ~Recorders(cmd'[c], t)
  BY DEF Recorders, Starting, Attaching
<1>3. HoldsJustified' /\ HoldsKept'
  BY <1>2, HoldsOfOne
<1> QED
  BY <1>1, <1>3

\* ensureDebuggerAttached up to its first await: the debugger is there, or another
\* command attaches it, or this one will.
Ensured(c, kind, t) ==
  /\ worker'.tracked = worker.tracked
  /\ cmd' \in [Cmds -> Command] /\ \A d \in Cmds \ {c} : cmd'[d] = cmd[d]
  /\ cmd'[c].kind = kind /\ cmd'[c].tab = t
  /\ \/ cmd'[c].pc = AfterAttach(kind) /\ worker'.lock = worker.lock
     \/ /\ cmd'[c].pc = "wait" /\ cmd'[c].on = worker.lock[t] /\ worker.lock[t] # None
        /\ worker'.lock = worker.lock
     \/ /\ cmd'[c].pc = "targets" /\ worker.lock[t] = None /\ t \notin worker.tracked
        /\ worker'.lock = [worker.lock EXCEPT ![t] = c]

LEMMA EnsureFields ==
  ASSUME Inv, NEW c \in Cmds, NEW kind \in {"run", "start"}, NEW t \in Tabs, NEW w \in Worker,
         w.tracked = worker.tracked, w.lock = worker.lock, Ensure(c, kind, t, w)
  PROVE  /\ worker' \in Worker /\ SameRecorder(worker', w) /\ worker'.holds = w.holds
         /\ Ensured(c, kind, t)
<1>1. PICK v \in Worker : v = clearDetachTimer(w, t)
  BY ClearFields
<1>2. SameRecorder(v, w) /\ v.tracked = worker.tracked /\ v.lock = worker.lock /\ v.holds = w.holds
  BY <1>1, ClearFields
<1>3. cmd \in [Cmds -> Command] /\ worker.lock[t] \in Cmds \cup {None}
  BY DEF Inv, TypeOK, Worker
<1>4. ASSUME NEW pc \in Stages, NEW on \in Cmds \cup {None},
             cmd' = [cmd EXCEPT ![c] = [pc |-> pc, kind |-> kind, tab |-> t, on |-> on]]
      PROVE  /\ cmd' \in [Cmds -> Command] /\ \A d \in Cmds \ {c} : cmd'[d] = cmd[d]
             /\ cmd'[c].kind = kind /\ cmd'[c].tab = t /\ cmd'[c].pc = pc /\ cmd'[c].on = on
  <2>1. [pc |-> pc, kind |-> kind, tab |-> t, on |-> on] \in Command
    BY DEF Command
  <2> QED
    BY <1>3, <1>4, <2>1
<1>5. AfterAttach(kind) \in Stages /\ "wait" \in Stages /\ "targets" \in Stages
  BY DEF AfterAttach, Stages, Starting, Attaching
<1>6. CASE /\ cmd' = [cmd EXCEPT ![c] = [pc |-> AfterAttach(kind), kind |-> kind, tab |-> t, on |-> None]]
           /\ worker' = v
  BY <1>2, <1>4, <1>5, <1>6 DEF Ensured
<1>7. CASE /\ v.lock[t] # None /\ worker' = v
           /\ cmd' = [cmd EXCEPT ![c] = [pc |-> "wait", kind |-> kind, tab |-> t, on |-> v.lock[t]]]
  BY <1>2, <1>3, <1>4, <1>5, <1>7 DEF Ensured
<1>8. CASE /\ t \notin v.tracked /\ v.lock[t] = None /\ worker' = [v EXCEPT !.lock[t] = c]
           /\ cmd' = [cmd EXCEPT ![c] = [pc |-> "targets", kind |-> kind, tab |-> t, on |-> None]]
  <2>1. worker' \in Worker /\ SameRecorder(worker', v) /\ worker'.tracked = v.tracked
    BY <1>8 DEF Worker, SameRecorder
  <2>2. worker'.lock = [worker.lock EXCEPT ![t] = c] /\ worker'.holds = w.holds
    BY <1>2, <1>8 DEF Worker
  <2>3. SameRecorder(worker', w)
    BY <1>2, <2>1 DEF SameRecorder
  <2> QED
    BY <1>2, <1>4, <1>5, <1>8, <2>1, <2>2, <2>3 DEF Ensured
<1> QED
  BY <1>1, <1>6, <1>7, <1>8 DEF Ensure

\* It takes a lock that nobody has, or waits for a command that attaches.
LEMMA EnsureKeepsLocks ==
  ASSUME Inv, NEW c \in Cmds, NEW kind \in {"run", "start"}, NEW t \in Tabs,
         Ensured(c, kind, t), cmd[c].pc \in {"new", "query"}
  PROVE  LocksHaveOwners'
<1> USE DebuggerAssumption
<1>1. worker.lock \in [Tabs -> Cmds \cup {None}] /\ \A d \in Cmds : cmd[d].on \in Cmds \cup {None}
  BY DEF Inv, TypeOK, Worker, Command
<1>2. \A d \in Cmds \ {c} : cmd'[d] = cmd[d]
  BY DEF Ensured
<1>3. cmd'[c].tab = t /\ cmd[c].pc \notin Attaching
  BY DEF Ensured, Attaching
<1>4. ASSUME NEW o \in Cmds, cmd[o].pc \in Attaching
      PROVE  cmd'[o] = cmd[o]
  BY <1>2, <1>3, <1>4
<1>5. \A u \in Tabs : worker.lock[u] # None =>
        cmd[worker.lock[u]].pc \in Attaching /\ cmd[worker.lock[u]].tab = u
  BY DEF Inv, LocksHaveOwners
<1>6. \A d \in Cmds : cmd[d].pc = "wait" =>
        cmd[d].on # None /\ cmd[cmd[d].on].pc \in Attaching /\ cmd[cmd[d].on].tab = cmd[d].tab
  BY DEF Inv, LocksHaveOwners
<1>7. ASSUME NEW u \in Tabs, worker'.lock[u] # None
      PROVE  cmd'[worker'.lock[u]].pc \in Attaching /\ cmd'[worker'.lock[u]].tab = u
  <2>1. CASE worker'.lock[u] = worker.lock[u]
    BY <1>1, <1>4, <1>5, <1>7, <2>1
  <2>2. CASE worker'.lock[u] # worker.lock[u]
    <3>1. u = t /\ worker'.lock[u] = c /\ cmd'[c].pc = "targets"
      BY <1>1, <2>2 DEF Ensured
    <3> QED
      BY <1>3, <3>1 DEF Attaching
  <2> QED
    BY <2>1, <2>2
<1>8. ASSUME NEW d \in Cmds, cmd'[d].pc = "wait"
      PROVE  /\ cmd'[d].on # None
             /\ cmd'[cmd'[d].on].pc \in Attaching /\ cmd'[cmd'[d].on].tab = cmd'[d].tab
  <2>1. CASE d # c
    BY <1>1, <1>2, <1>4, <1>6, <1>8, <2>1
  <2>2. CASE d = c
    <3>1. cmd'[c].on = worker.lock[t] /\ worker.lock[t] # None
      BY <1>8, <2>2 DEF Ensured, AfterAttach
    <3> QED
      BY <1>1, <1>3, <1>4, <1>5, <2>2, <3>1
  <2> QED
    BY <2>1, <2>2
<1> QED
  BY <1>7, <1>8 DEF LocksHaveOwners

\* It is the only one that attaches a debugger to the tab then.
LEMMA EnsureKeepsTracking ==
  ASSUME Inv, NEW c \in Cmds, NEW kind \in {"run", "start"}, NEW t \in Tabs,
         Ensured(c, kind, t), cmd[c].pc \in {"new", "query"}, UNCHANGED Browser
  PROVE  TrackingExact'
<1> USE DebuggerAssumption
<1>1. open \subseteq Tabs /\ worker.lock \in [Tabs -> Cmds \cup {None}]
  BY DEF Inv, TypeOK, Worker
<1>2. UNCHANGED <<open, attached, dropped, detaching, cancels>> /\ worker'.tracked = worker.tracked
  BY DEF Ensured, Browser
<1>3. /\ \A d \in Cmds \ {c} : cmd'[d] = cmd[d]
      /\ cmd'[c].tab = t /\ cmd[c].pc \notin Attaching /\ cmd'[c].pc # "tab"
  BY DEF Ensured, Attaching, AfterAttach
<1>4. ASSUME cancels = 0, NEW u \in open
      PROVE  Tracking(u)'
  <2>1. Tracking(u)
    BY <1>4 DEF Inv, TrackingExact
  <2>2. CASE u # t \/ cmd'[c].pc \notin Attaching
    <3>1. worker'.lock[u] = worker.lock[u]
      BY <1>1, <2>2 DEF Ensured, Attaching
    <3>2. \A d \in Cmds : cmd'[d].tab = u /\ cmd'[d].pc \in Attaching <=>
                            cmd[d].tab = u /\ cmd[d].pc \in Attaching
      BY <1>3, <2>2
    <3>3. \A d \in Cmds : cmd'[d].tab = u /\ cmd'[d].pc = "tab" <=> cmd[d].tab = u /\ cmd[d].pc = "tab"
      BY <1>3 DEF Attaching
    <3> QED
      BY <1>1, <1>2, <2>1, <3>1, <3>2, <3>3, TrackingKept
  <2>3. CASE u = t /\ cmd'[c].pc \in Attaching
    <3>1. worker.lock[t] = None /\ t \notin worker.tracked /\ worker'.lock[t] = c
      BY <1>1, <2>3 DEF Ensured, Attaching, AfterAttach
    <3>2. \A d \in Cmds : ~(cmd[d].tab = t /\ cmd[d].pc \in Attaching)
      BY <2>1, <2>3, <3>1 DEF Tracking
    <3>3. t \notin attached
      BY <2>1, <2>3, <3>1, <3>2 DEF Tracking, Attaching
    <3>4. detaching[t] = "no"
      BY <2>1, <2>3, <3>1 DEF Tracking
    <3> QED
      BY <1>2, <1>3, <2>3, <3>1, <3>2, <3>3, <3>4 DEF Tracking
  <2> QED
    BY <2>2, <2>3
<1> QED
  BY <1>2, <1>4 DEF Inv, TrackingExact

-----------------------------------------------------------------------------
(* A command that needs the debugger                                         *)

\* Nothing happens in the browser.
LEMMA TypesKept ==
  ASSUME Inv, UNCHANGED Browser, worker' \in Worker, cmd' \in [Cmds -> Command],
         lifecycle' \in Seq(Cmds), \A d \in Cmds : InStage(cmd'[d])
  PROVE  TypeOK' /\ StagesMatch'
BY DEF Inv, TypeOK, Browser, StagesMatch

LEMMA AlikeItself ==
  ASSUME NEW r
  PROVE  Alike(r, r)
BY DEF Alike

LEMMA ReceiveRunKeeps ==
  ASSUME Inv, NEW c \in Cmds, Receive(c, "run")
  PROVE  Inv'
<1>1. PICK t \in Tabs : Ensure(c, "run", t, worker)
  BY DEF Receive
<1>2. worker \in Worker /\ lifecycle \in Seq(Cmds)
  BY DEF Inv, TypeOK
<1>3. worker' \in Worker /\ SameRecorder(worker', worker) /\ worker'.holds = worker.holds
      /\ Ensured(c, "run", t)
  BY <1>1, <1>2, EnsureFields
<1>4. cmd[c].pc = "new" /\ UNCHANGED lifecycle /\ UNCHANGED Browser
  BY DEF Receive
<1>5. cmd[c].kind = "run"
  BY <1>4, CommandFacts DEF InStage
<1>6. /\ cmd' \in [Cmds -> Command] /\ \A d \in Cmds \ {c} : cmd'[d] = cmd[d]
      /\ cmd'[c].kind = "run" /\ cmd'[c].tab = t
      /\ cmd'[c].pc \in {"use", "wait", "targets"}
  BY <1>3 DEF Ensured, AfterAttach
<1>7. InStage(cmd'[c])
  BY <1>6, DebuggerAssumption DEF InStage, Attaching
<1>8. \A d \in Cmds : InStage(cmd'[d])
  BY <1>6, <1>7, CommandFacts
<1>9. TypeOK' /\ StagesMatch'
  BY <1>2, <1>3, <1>4, <1>6, <1>8, TypesKept
<1>10. \A d \in Cmds : Alike(cmd'[d], cmd[d])
  BY <1>5, <1>6 DEF Alike
<1>11. LifecycleInOrder' /\ RecorderInPhase' /\ HoldsJustified' /\ HoldsKept'
  BY <1>3, <1>4, <1>10, AlikeStep DEF Browser
<1>12. LocksHaveOwners' /\ TrackingExact'
  BY <1>3, <1>4, EnsureKeepsLocks, EnsureKeepsTracking
<1> QED
  BY <1>9, <1>11, <1>12 DEF Inv

LEMMA ReceiveRecordingKeeps ==
  ASSUME Inv, NEW c \in Cmds, NEW kind \in {"start", "stop"}, Receive(c, kind)
  PROVE  Inv'
<1>1. PICK t \in Tabs : cmd' = [cmd EXCEPT ![c] =
               [pc |-> "queued", kind |-> kind, tab |-> IF kind = "start" THEN t ELSE None,
                on |-> None]]
  BY DEF Receive
<1>2. /\ cmd[c].pc = "new" /\ lifecycle' = Append(lifecycle, c) /\ UNCHANGED worker
      /\ UNCHANGED Browser
  BY DEF Receive
<1>3. PICK tab \in Tabs \cup {None} : tab = IF kind = "start" THEN t ELSE None
  OBVIOUS
<1>4. PICK r : r = [pc |-> "queued", kind |-> kind, tab |-> tab, on |-> None]
  OBVIOUS
<1>5. r \in Command /\ r.pc = "queued" /\ r.kind = kind /\ r.tab = tab
  BY <1>4 DEF Command, Stages
<1>6. cmd \in [Cmds -> Command] /\ worker \in Worker /\ lifecycle \in Seq(Cmds)
  BY DEF Inv, TypeOK
<1>7. cmd' \in [Cmds -> Command] /\ cmd'[c] = r /\ \A d \in Cmds \ {c} : cmd'[d] = cmd[d]
  BY <1>1, <1>3, <1>4, <1>5, <1>6
<1>8. InStage(cmd'[c])
  BY <1>3, <1>5, <1>7, DebuggerAssumption DEF InStage, Attaching
<1>9. TypeOK' /\ StagesMatch'
  BY <1>2, <1>6, <1>7, <1>8, CommandFacts, TypesKept
<1>10. ~Listed(cmd[c]) /\ Listed(cmd'[c]) /\ ~Busy(cmd[c]) /\ ~Busy(cmd'[c])
  BY <1>2, <1>5, <1>7 DEF Listed, Busy
<1>11. LifecycleInOrder'
  BY <1>2, <1>5, <1>7, <1>10, LifecycleJoins
<1>12. RecorderInPhase'
  BY <1>2, <1>7, <1>10 DEF Inv, RecorderInPhase
<1>13. HoldsJustified' /\ HoldsKept'
  <2>1. \A d \in Cmds, u \in Tabs : Recorders(cmd'[d], u) <=> Recorders(cmd[d], u)
    BY <1>7, <1>10, RecordersAreBusy
  <2>2. PICK gone \in SUBSET Tabs : gone = {}
    OBVIOUS
  <2>3. \A u \in Tabs : worker'.holds[u] = IF u \in gone THEN 0 ELSE worker.holds[u]
    BY <1>2, <2>2
  <2>4. open' \subseteq open /\ (cancels' = 0 => cancels = 0 /\ open' \cap gone = {})
    BY <1>2, <2>2 DEF Browser
  <2> QED
    BY <1>2, <2>1, <2>3, <2>4, HoldsKeptBy
<1>14. LocksHaveOwners'
  BY <1>2, <1>5, <1>7, LocksKept DEF Attaching
<1>15. TrackingExact'
  BY <1>2, <1>5, <1>7, TrackingApart DEF Browser, Attaching
<1> QED
  BY <1>9, <1>11, <1>12, <1>13, <1>14, <1>15 DEF Inv

\* While a command attaches, its tab is one, and it is no stop.
LEMMA Attacher ==
  ASSUME Inv, NEW c \in Cmds, cmd[c].pc \in Attaching
  PROVE  cmd[c].tab \in Tabs /\ cmd[c].kind \in {"run", "start"}
BY CommandFacts DEF InStage, Command

\* A request of ensureDebuggerAttached is answered and the next one is made.
LEMMA AttachGoesOn ==
  ASSUME Inv, NEW c \in Cmds, cmd[c].pc \in Attaching, NEW pc \in Attaching, cmd' = Stage(c, pc),
         UNCHANGED <<worker, lifecycle, open, cancels>>
  PROVE  /\ cmd' \in [Cmds -> Command] /\ cmd'[c].pc = pc /\ cmd'[c].tab = cmd[c].tab
         /\ \A d \in Cmds \ {c} : cmd'[d] = cmd[d]
         /\ StagesMatch' /\ LifecycleInOrder' /\ LocksHaveOwners' /\ RecorderInPhase'
         /\ HoldsJustified' /\ HoldsKept'
<1>1. cmd \in [Cmds -> Command] /\ pc \in Stages
  BY DEF Inv, TypeOK, Stages, Starting
<1>2. /\ cmd' \in [Cmds -> Command] /\ cmd'[c].pc = pc /\ cmd'[c].tab = cmd[c].tab
      /\ cmd'[c].kind = cmd[c].kind
      /\ \A d \in Cmds : d # c => cmd'[d] = cmd[d]
  BY <1>1, StageFields
<1>3. InStage(cmd'[c])
  BY <1>2, CommandFacts DEF InStage, Attaching
<1>4. StagesMatch'
  BY <1>2, <1>3, CommandFacts DEF StagesMatch
<1>5. \A d \in Cmds : Alike(cmd'[d], cmd[d])
  BY <1>2 DEF Alike, Attachers
<1>6. LifecycleInOrder' /\ RecorderInPhase' /\ HoldsJustified' /\ HoldsKept'
  BY <1>5, AlikeStep DEF SameRecorder
<1>7. LocksHaveOwners'
  BY <1>2, LocksKept DEF Attaching
<1> QED
  BY <1>2, <1>4, <1>6, <1>7

LEMMA TargetsAnsweredKeeps ==
  ASSUME Inv, NEW c \in Cmds, TargetsAnswered(c)
  PROVE  Inv'
<1>1. /\ cmd[c].pc = "targets" /\ UNCHANGED <<Browser, worker, lifecycle>>
  BY DEF TargetsAnswered
<1>2. PICK pc \in {"attach", "tab"} : cmd' = Stage(c, pc) /\ (pc = "tab" => cmd[c].tab \in attached)
  BY DEF TargetsAnswered
<1>3. /\ cmd' \in [Cmds -> Command] /\ cmd'[c].pc = pc /\ cmd'[c].tab = cmd[c].tab
      /\ \A d \in Cmds \ {c} : cmd'[d] = cmd[d]
      /\ StagesMatch' /\ LifecycleInOrder' /\ LocksHaveOwners' /\ RecorderInPhase'
      /\ HoldsJustified' /\ HoldsKept'
  BY <1>1, <1>2, AttachGoesOn DEF Attaching, Browser
<1>4. TypeOK'
  BY <1>1, <1>3 DEF Inv, TypeOK, Browser
<1>5. ASSUME cancels = 0, NEW t \in open
      PROVE  Tracking(t)'
  BY <1>1, <1>2, <1>3, <1>5 DEF Inv, TrackingExact, Tracking, Attaching, Browser
<1>6. TrackingExact'
  BY <1>1, <1>5 DEF Inv, TrackingExact, Browser
<1> QED
  BY <1>3, <1>4, <1>6 DEF Inv

LEMMA AttachSucceedsKeeps ==
  ASSUME Inv, NEW c \in Cmds, AttachSucceeds(c)
  PROVE  Inv'
<1>1. /\ cmd[c].pc = "attach" /\ cmd[c].tab \in open \ dropped
      /\ attached' = attached \cup {cmd[c].tab} /\ cmd' = Stage(c, "tab")
      /\ UNCHANGED <<open, dropped, detaching, cancels, worker, lifecycle>>
  BY DEF AttachSucceeds
<1>2. /\ cmd' \in [Cmds -> Command] /\ cmd'[c].pc = "tab" /\ cmd'[c].tab = cmd[c].tab
      /\ \A d \in Cmds \ {c} : cmd'[d] = cmd[d]
      /\ StagesMatch' /\ LifecycleInOrder' /\ LocksHaveOwners' /\ RecorderInPhase'
      /\ HoldsJustified' /\ HoldsKept'
  BY <1>1, AttachGoesOn DEF Attaching
<1>3. TypeOK'
  BY <1>1, <1>2 DEF Inv, TypeOK
<1>4. ASSUME cancels = 0, NEW t \in open
      PROVE  Tracking(t)'
  <2>1. Tracking(t)
    BY <1>4 DEF Inv, TrackingExact
  <2>2. CASE t = cmd[c].tab
    <3>1. worker.lock[t] = c /\ t \notin worker.tracked
      BY <1>1, <2>1, <2>2 DEF Tracking, Attaching
    <3>2. detaching[t] = "no"
      BY <2>1, <3>1 DEF Tracking
    <3>3. \A d \in Cmds \ {c} : ~(cmd[d].tab = t /\ cmd[d].pc \in Attaching)
      BY <2>1, <3>1 DEF Tracking
    <3> QED
      BY <1>1, <1>2, <2>2, <3>1, <3>2, <3>3 DEF Tracking
  <2>3. CASE t # cmd[c].tab
    BY <1>1, <1>2, <2>1, <2>3 DEF Tracking
  <2> QED
    BY <2>2, <2>3
<1>5. TrackingExact'
  BY <1>1, <1>4 DEF Inv, TrackingExact
<1> QED
  BY <1>2, <1>3, <1>5 DEF Inv

\* A promise is resolved: all go on to what they need the debugger for, but the command
\* that had it may end.
LEMMA ResolvedStages ==
  ASSUME Inv, NEW c \in Cmds, cmd[c].pc \in Attaching,
         NEW pc \in {AfterAttach(cmd[c].kind), "ended"}, cmd' = Resolved(c, pc)
  PROVE  /\ cmd' \in [Cmds -> Command] /\ cmd'[c].pc = pc /\ cmd'[c].kind = cmd[c].kind
         /\ \A d \in Cmds : InStage(cmd'[d]) /\ cmd'[d].tab = cmd[d].tab
         /\ \A d \in Cmds \ {c} : Alike(cmd'[d], cmd[d])
         /\ pc # "ended" \/ cmd[c].kind = "run" => Alike(cmd'[c], cmd[c])
         /\ cmd'[c].pc \notin Attaching
         /\ \A d \in Cmds \ {c} : cmd'[d].pc \in Attaching <=> cmd[d].pc \in Attaching
         /\ \A d \in Cmds \ {c} : cmd'[d].pc = "tab" <=> cmd[d].pc = "tab"
<1>1. cmd \in [Cmds -> Command] /\ pc \in Stages
  BY DEF Inv, TypeOK, Stages, Starting, AfterAttach
<1>2. /\ cmd' \in [Cmds -> Command]
      /\ cmd'[c].pc = pc
      /\ \A d \in Cmds : cmd'[d].kind = cmd[d].kind /\ cmd'[d].tab = cmd[d].tab
      /\ \A d \in Cmds \ {c} : IF cmd[d].pc = "wait" /\ cmd[d].on = c
                               THEN cmd'[d].pc = AfterAttach(cmd[d].kind)
                               ELSE cmd'[d] = cmd[d]
  BY <1>1, ResolvedFields
<1>3. cmd[c].kind \in {"run", "start"}
  BY Attacher
<1>4. InStage(cmd'[c])
  BY <1>2, <1>3, CommandFacts DEF InStage, AfterAttach, Attaching
<1>5. ASSUME NEW d \in Cmds \ {c}
      PROVE  /\ InStage(cmd'[d]) /\ Alike(cmd'[d], cmd[d])
             /\ cmd'[d].pc \in Attaching <=> cmd[d].pc \in Attaching
             /\ cmd'[d].pc = "tab" <=> cmd[d].pc = "tab"
  <2>1. CASE cmd[d].pc = "wait" /\ cmd[d].on = c
    <3>1. cmd'[d].pc = AfterAttach(cmd[d].kind)
      BY <1>2, <2>1
    <3>2. InStage(cmd[d]) /\ cmd[d] \in Command
      BY CommandFacts
    <3>3. cmd[d].tab # None /\ cmd[d].kind \in {"run", "start"}
      BY <2>1, <3>2 DEF InStage, Command
    <3> QED
      BY <1>2, <2>1, <3>1, <3>3 DEF InStage, Alike, Attachers, AfterAttach, Attaching
  <2>2. CASE ~(cmd[d].pc = "wait" /\ cmd[d].on = c)
    BY <1>2, <2>2, CommandFacts, AlikeItself
  <2> QED
    BY <2>1, <2>2
<1>6. pc # "ended" \/ cmd[c].kind = "run" => Alike(cmd'[c], cmd[c])
  BY <1>2, <1>3 DEF Alike, Attachers, AfterAttach
<1>7. cmd'[c].pc \notin Attaching
  BY <1>2 DEF AfterAttach, Attaching
<1> QED
  BY <1>2, <1>4, <1>5, <1>6, <1>7

\* After that, until the user ends a session, nobody attaches the tab's debugger.
LEMMA ResolvedTracking ==
  ASSUME Inv, NEW c \in Cmds, cmd[c].pc \in Attaching,
         NEW pc \in {AfterAttach(cmd[c].kind), "ended"}, cmd' = Resolved(c, pc),
         UNCHANGED Browser,
         worker'.lock = [worker.lock EXCEPT ![cmd[c].tab] = None],
         \/ worker'.tracked = worker.tracked /\ cmd[c].tab \notin attached
         \/ /\ cmd[c].pc = "tab" /\ cmd[c].tab \in open
            /\ worker'.tracked = worker.tracked \cup {cmd[c].tab}
  PROVE  TrackingExact'
<1> USE DebuggerAssumption
<1>1. open \subseteq Tabs /\ worker.lock \in [Tabs -> Cmds \cup {None}]
  BY DEF Inv, TypeOK, Worker
<1>2. /\ cmd'[c].pc \notin Attaching
      /\ \A d \in Cmds : cmd'[d].tab = cmd[d].tab
      /\ \A d \in Cmds \ {c} : cmd'[d].pc \in Attaching <=> cmd[d].pc \in Attaching
      /\ \A d \in Cmds \ {c} : cmd'[d].pc = "tab" <=> cmd[d].pc = "tab"
  BY ResolvedStages
<1>3. ASSUME cancels = 0, NEW t \in open
      PROVE  Tracking(t)'
  <2>1. Tracking(t)
    BY <1>3 DEF Inv, TrackingExact
  <2>2. CASE t = cmd[c].tab
    <3>1. worker.lock[t] = c /\ t \notin worker.tracked /\ (cmd[c].pc = "tab" => t \in attached)
      BY <2>1, <2>2 DEF Tracking
    <3>2. detaching[t] = "no"
      BY <2>1, <3>1 DEF Tracking
    <3>3. \A d \in Cmds : ~(cmd'[d].tab = t /\ cmd'[d].pc \in Attaching)
      BY <1>2, <2>1, <3>1 DEF Tracking
    <3> QED
      BY <2>2, <3>1, <3>2, <3>3 DEF Tracking, Browser
  <2>3. CASE t # cmd[c].tab
    <3>1. worker'.lock[t] = worker.lock[t] /\ (t \in worker'.tracked <=> t \in worker.tracked)
      BY <1>1, <2>3
    <3>2. \A d \in Cmds : cmd'[d].tab = t /\ cmd'[d].pc \in Attaching <=>
                            cmd[d].tab = t /\ cmd[d].pc \in Attaching
      BY <1>2, <2>3
    <3>3. \A d \in Cmds : cmd'[d].tab = t /\ cmd'[d].pc = "tab" <=> cmd[d].tab = t /\ cmd[d].pc = "tab"
      BY <1>2, <2>3 DEF Attaching
    <3> QED
      BY <1>1, <2>1, <3>1, <3>2, <3>3, TrackingKept DEF Browser
  <2> QED
    BY <2>2, <2>3
<1>4. worker'.tracked \subseteq open
  BY DEF Inv, TrackingExact
<1> QED
  BY <1>3, <1>4 DEF Inv, TrackingExact, Browser

\* ensureDebuggerAttached throws; a start gives up its reservation and its hold then.
LEMMA AttachFailsKeeps ==
  ASSUME Inv, NEW c \in Cmds, cmd[c].pc \in Attaching, cmd[c].tab \notin attached,
         AttachFails(c), UNCHANGED Browser
  PROVE  Inv'
<1> USE DebuggerAssumption
<1>1. cmd[c].tab \in Tabs /\ cmd[c].kind \in {"run", "start"}
  BY Attacher
<1>2. worker \in Worker /\ lifecycle \in Seq(Cmds)
  BY DEF Inv, TypeOK
<1>3. PICK t \in Tabs : t = cmd[c].tab
  BY <1>1
<1>4. PICK w \in Worker : w = Unlock(worker, c, FALSE)
  BY <1>1, <1>2, UnlockFields
<1>5. /\ SameRecorder(w, worker) /\ w.tracked = worker.tracked /\ w.holds = worker.holds
      /\ w.lock = [worker.lock EXCEPT ![cmd[c].tab] = None]
  BY <1>1, <1>2, <1>4, UnlockFields
<1>6. /\ worker' = IF cmd[c].kind = "start" THEN StartFailed(w, t) ELSE w
      /\ cmd' = Resolved(c, "ended") /\ Leaves(c)
  BY <1>3, <1>4 DEF AttachFails
<1>7. /\ cmd' \in [Cmds -> Command] /\ cmd'[c].pc = "ended" /\ cmd'[c].kind = cmd[c].kind
      /\ \A d \in Cmds : InStage(cmd'[d])
      /\ \A d \in Cmds \ {c} : Alike(cmd'[d], cmd[d])
      /\ cmd[c].kind = "run" => Alike(cmd'[c], cmd[c])
  BY <1>6, ResolvedStages
<1>8. CASE cmd[c].kind = "run"
  <2>1. worker' = w /\ lifecycle' = lifecycle
    BY <1>6, <1>8 DEF Leaves
  <2>2. TypeOK' /\ StagesMatch'
    BY <1>2, <1>7, <2>1, TypesKept
  <2>3. LifecycleInOrder' /\ RecorderInPhase' /\ HoldsJustified' /\ HoldsKept'
    BY <1>5, <1>7, <1>8, <2>1, AlikeStep DEF Browser
  <2>4. LocksHaveOwners'
    BY <1>5, <1>6, <2>1, LocksResolved DEF Stages
  <2>5. TrackingExact'
    BY <1>5, <1>6, <2>1, ResolvedTracking
  <2> QED
    BY <2>2, <2>3, <2>4, <2>5 DEF Inv
<1>9. CASE cmd[c].kind = "start"
  <2>1. PICK u : u = [w EXCEPT !.reserved = FALSE]
    OBVIOUS
  <2>2. /\ u \in Worker /\ ~u.reserved /\ u.recTab = worker.recTab /\ u.listening = worker.listening
        /\ u.recording = worker.recording /\ u.tracked = worker.tracked
        /\ u.holds = worker.holds /\ u.lock = w.lock
    BY <1>5, <2>1 DEF Worker, SameRecorder
  <2>3. worker' = releaseDebuggerAttached(u, t)
    BY <1>6, <1>9, <2>1 DEF StartFailed
  <2>4. /\ worker' \in Worker /\ SameRecorder(worker', u) /\ worker'.tracked = worker.tracked
        /\ worker'.lock = [worker.lock EXCEPT ![cmd[c].tab] = None]
        /\ worker'.holds = [worker.holds EXCEPT ![t] = IF @ <= 1 THEN 0 ELSE @ - 1]
    <3>1. /\ releaseDebuggerAttached(u, t) \in Worker
          /\ SameRecorder(releaseDebuggerAttached(u, t), u)
          /\ releaseDebuggerAttached(u, t).tracked = u.tracked
          /\ releaseDebuggerAttached(u, t).lock = u.lock
          /\ releaseDebuggerAttached(u, t).holds
               = [u.holds EXCEPT ![t] = IF @ <= 1 THEN 0 ELSE @ - 1]
      BY <2>2, ReleaseFields
    <3> QED
      BY <1>5, <2>2, <2>3, <3>1
  <2>5. Busy(cmd[c])
    BY <1>9 DEF Busy, Listed, Attaching
  <2>6. lifecycle # <<>> /\ c = Head(lifecycle) /\ \A d \in Cmds \ {c} : ~Busy(cmd[d])
    BY <2>5, BusyIsHead, OneBusy
  <2>7. lifecycle' = Tail(lifecycle)
    BY <1>6, <1>9 DEF Leaves
  <2>8. lifecycle' \in Seq(Cmds)
    BY <1>2, <2>6, <2>7
  <2>9. TypeOK' /\ StagesMatch'
    BY <1>7, <2>4, <2>8, TypesKept
  <2>10. InPhase(worker, cmd[c])
    BY <2>5 DEF Inv, RecorderInPhase
  <2>11. worker.recTab = None /\ worker.listening = None /\ ~worker.recording
    BY <1>9, <2>10 DEF InPhase, Attaching
  <2>12. AtRest(worker')
    BY <2>2, <2>4, <2>11 DEF AtRest, SameRecorder
  <2>13. worker'.recTab = None
    BY <2>2, <2>4, <2>11 DEF SameRecorder
  <2>14. \A d \in Tabs :
           /\ worker.holds[d] \in Nat /\ worker.holds[d] <= 1
           /\ worker.holds[d] = 1 => worker.recTab = d \/ Recorders(cmd[c], d)
    BY <2>6, HoldsNow
  <2>15. \A d \in Tabs : worker'.holds[d] = 0
    <3> SUFFICES ASSUME NEW d \in Tabs PROVE worker'.holds[d] = 0
      OBVIOUS
    <3>1. worker.holds \in [Tabs -> Nat]
      BY <1>2 DEF Worker
    <3>2. CASE d = t
      BY <2>4, <2>14, <3>1, <3>2
    <3>3. CASE d # t
      <4>1. worker.holds[d] # 1
        BY <1>3, <2>11, <2>14, <3>3 DEF Recorders
      <4> QED
        BY <2>4, <2>14, <3>1, <3>3, <4>1
    <3> QED
      BY <3>2, <3>3
  <2>16. \A d \in Tabs :
           /\ worker'.holds[d] \in Nat /\ worker'.holds[d] <= 1
           /\ worker'.holds[d] = 1 => worker'.recTab = d
           /\ cancels = 0 /\ d \in open /\ worker'.recTab = d => worker'.holds[d] = 1
    BY <2>13, <2>15
  <2>17. LifecycleInOrder' /\ RecorderInPhase' /\ HoldsJustified' /\ HoldsKept'
    BY <1>7, <2>6, <2>7, <2>12, <2>16, LeaveStep DEF Browser
  <2>18. LocksHaveOwners'
    BY <1>6, <2>4, LocksResolved DEF Stages
  <2>19. TrackingExact'
    BY <1>6, <2>4, ResolvedTracking
  <2> QED
    BY <2>9, <2>17, <2>18, <2>19 DEF Inv
<1> QED
  BY <1>1, <1>8, <1>9

LEMMA AttachRefusedKeeps ==
  ASSUME Inv, NEW c \in Cmds, AttachRefused(c)
  PROVE  Inv'
BY AttachFailsKeeps DEF AttachRefused, Attaching

LEMMA TabMissingKeeps ==
  ASSUME Inv, NEW c \in Cmds, TabMissing(c)
  PROVE  Inv'
BY AttachFailsKeeps DEF TabMissing, Attaching, Inv, TypeOK

\* The debugger is attached and the tab is tracked.
LEMMA TabAnsweredKeeps ==
  ASSUME Inv, NEW c \in Cmds, TabAnswered(c)
  PROVE  Inv'
<1>1. /\ cmd[c].pc = "tab" /\ cmd[c].tab \in open
      /\ worker' = Unlock(trackTab(worker, cmd[c].tab), c, TRUE)
      /\ cmd' = Resolved(c, AfterAttach(cmd[c].kind))
      /\ UNCHANGED <<Browser, lifecycle>>
  BY DEF TabAnswered
<1>2. worker \in Worker /\ lifecycle \in Seq(Cmds)
  BY DEF Inv, TypeOK
<1>3. cmd[c].tab \in Tabs /\ cmd[c].pc \in Attaching
  BY <1>1, Attacher DEF Attaching
<1>4. PICK w \in Worker : w = trackTab(worker, cmd[c].tab)
  BY <1>2, <1>3 DEF trackTab, Worker
<1>5. /\ SameRecorder(w, worker) /\ w.lock = worker.lock /\ w.holds = worker.holds
      /\ w.tracked = worker.tracked \cup {cmd[c].tab}
  BY <1>2, <1>4 DEF trackTab, Worker, SameRecorder
<1>6. /\ worker' \in Worker /\ SameRecorder(worker', w)
      /\ worker'.tracked = w.tracked /\ worker'.holds = w.holds
      /\ worker'.lock = [worker.lock EXCEPT ![cmd[c].tab] = None]
  <2>1. worker' = [w EXCEPT !.lock[cmd[c].tab] = None]
    BY <1>1, <1>4 DEF Unlock
  <2> QED
    BY <1>3, <1>5, <2>1 DEF Worker, SameRecorder
<1>7. SameRecorder(worker', worker) /\ worker'.holds = worker.holds
      /\ worker'.tracked = worker.tracked \cup {cmd[c].tab}
  BY <1>5, <1>6 DEF SameRecorder
<1>8. PICK pc \in {AfterAttach(cmd[c].kind), "ended"} : pc = AfterAttach(cmd[c].kind)
  OBVIOUS
<1>9. pc # "ended" /\ pc # "wait" /\ pc \in Stages /\ cmd' = Resolved(c, pc)
  BY <1>1, <1>8 DEF AfterAttach, Stages, Starting
<1>10. /\ cmd' \in [Cmds -> Command] /\ \A d \in Cmds : InStage(cmd'[d])
       /\ \A d \in Cmds \ {c} : Alike(cmd'[d], cmd[d])
       /\ Alike(cmd'[c], cmd[c])
  BY <1>3, <1>9, ResolvedStages
<1>11. TypeOK' /\ StagesMatch'
  BY <1>1, <1>2, <1>6, <1>10, TypesKept
<1>12. LifecycleInOrder' /\ RecorderInPhase' /\ HoldsJustified' /\ HoldsKept'
  BY <1>1, <1>7, <1>10, AlikeStep DEF Browser
<1>13. LocksHaveOwners'
  BY <1>3, <1>6, <1>9, LocksResolved
<1>14. TrackingExact'
  BY <1>1, <1>3, <1>6, <1>7, <1>8, <1>9, ResolvedTracking
<1> QED
  BY <1>11, <1>12, <1>13, <1>14 DEF Inv

LEMMA FinishKeeps ==
  ASSUME Inv, NEW c \in Cmds, Finish(c)
  PROVE  Inv'
<1>1. /\ cmd[c].pc = "use" /\ worker' = scheduleDebuggerDetach(worker, cmd[c].tab)
      /\ cmd' = Stage(c, "ended") /\ UNCHANGED <<Browser, lifecycle>>
  BY DEF Finish, ScheduleDetach
<1>2. /\ worker \in Worker /\ lifecycle \in Seq(Cmds) /\ cmd \in [Cmds -> Command]
      /\ cmd[c].tab \in Tabs /\ cmd[c].kind = "run"
  BY <1>1, CommandFacts DEF Inv, TypeOK, InStage, Command
<1>3. /\ worker' \in Worker /\ SameRecorder(worker', worker)
      /\ worker'.tracked = worker.tracked /\ worker'.lock = worker.lock
      /\ worker'.holds = worker.holds
  BY <1>1, <1>2, ScheduleFields
<1>4. /\ cmd' \in [Cmds -> Command] /\ cmd'[c].pc = "ended" /\ cmd'[c].kind = "run"
      /\ \A d \in Cmds : d # c => cmd'[d] = cmd[d]
  BY <1>1, <1>2, StageFields DEF Stages
<1>5. \A d \in Cmds : InStage(cmd'[d]) /\ Alike(cmd'[d], cmd[d])
  BY <1>2, <1>4, CommandFacts DEF InStage, Alike, Attaching
<1>6. TypeOK' /\ StagesMatch'
  BY <1>1, <1>2, <1>3, <1>4, <1>5, TypesKept
<1>7. LifecycleInOrder' /\ RecorderInPhase' /\ HoldsJustified' /\ HoldsKept'
  BY <1>1, <1>3, <1>5, AlikeStep DEF Browser
<1>8. LocksHaveOwners'
  BY <1>1, <1>3, <1>4, LocksKept DEF Attaching
<1>9. TrackingExact'
  BY <1>1, <1>3, <1>4, TrackingApart DEF Browser, Attaching
<1> QED
  BY <1>6, <1>7, <1>8, <1>9 DEF Inv

-----------------------------------------------------------------------------
(* Recordings                                                                *)

\* A start or a stop that attaches nothing itself ends, with the recorder at rest.
LEMMA RecordingEnds ==
  ASSUME Inv, NEW c \in Cmds, lifecycle # <<>>, c = Head(lifecycle),
         \A d \in Cmds \ {c} : ~Busy(cmd[d]),
         cmd[c].pc \notin Attaching, cmd[c].kind # "run",
         cmd' = Stage(c, "ended"), Leaves(c), UNCHANGED Browser,
         worker' \in Worker, worker'.tracked = worker.tracked, worker'.lock = worker.lock,
         AtRest(worker'),
         \A t \in Tabs :
           /\ worker'.holds[t] \in Nat /\ worker'.holds[t] <= 1
           /\ worker'.holds[t] = 1 => worker'.recTab = t
           /\ cancels = 0 /\ t \in open /\ worker'.recTab = t => worker'.holds[t] = 1
  PROVE  Inv'
<1>1. cmd \in [Cmds -> Command] /\ lifecycle \in Seq(Cmds)
  BY DEF Inv, TypeOK
<1>2. /\ cmd' \in [Cmds -> Command] /\ cmd'[c].pc = "ended"
      /\ \A d \in Cmds : d # c => cmd'[d] = cmd[d]
  BY <1>1, StageFields DEF Stages
<1>3. InStage(cmd'[c])
  BY <1>2 DEF InStage, Attaching
<1>4. lifecycle' = Tail(lifecycle) /\ lifecycle' \in Seq(Cmds)
  BY <1>1 DEF Leaves
<1>5. TypeOK' /\ StagesMatch'
  BY <1>2, <1>3, <1>4, CommandFacts, TypesKept
<1>6. \A d \in Cmds \ {c} : Alike(cmd'[d], cmd[d])
  BY <1>2, AlikeItself
<1>7. LifecycleInOrder' /\ RecorderInPhase' /\ HoldsJustified' /\ HoldsKept'
  BY <1>2, <1>4, <1>6, LeaveStep DEF Browser
<1>8. LocksHaveOwners'
  BY <1>2, LocksKept
<1>9. TrackingExact'
  BY <1>2, TrackingApart DEF Browser, Attaching
<1> QED
  BY <1>5, <1>7, <1>8, <1>9 DEF Inv

\* It goes on, with the recorder in the phase that it is then.
LEMMA RecordingGoesOn ==
  ASSUME Inv, NEW c \in Cmds, lifecycle # <<>>, c = Head(lifecycle),
         \A d \in Cmds \ {c} : ~Busy(cmd[d]),
         cmd' \in [Cmds -> Command], \A d \in Cmds : d # c => cmd'[d] = cmd[d],
         Busy(cmd'[c]), InStage(cmd'[c]), InPhase(worker', cmd'[c]),
         UNCHANGED <<Browser, lifecycle>>, worker' \in Worker,
         \A t \in Tabs :
           /\ worker'.holds[t] \in Nat /\ worker'.holds[t] <= 1
           /\ worker'.holds[t] = 1 => worker'.recTab = t \/ Recorders(cmd'[c], t)
           /\ cancels = 0 /\ t \in open /\ (worker'.recTab = t \/ Recorders(cmd'[c], t)) =>
                worker'.holds[t] = 1,
         LocksHaveOwners', TrackingExact'
  PROVE  Inv'
<1>1. lifecycle \in Seq(Cmds)
  BY DEF Inv, TypeOK
<1>2. TypeOK' /\ StagesMatch'
  BY <1>1, CommandFacts, TypesKept
<1>3. \A d \in Cmds \ {c} : Alike(cmd'[d], cmd[d])
  BY AlikeItself
<1>4. Listed(cmd'[c])
  BY DEF Busy
<1>5. LifecycleInOrder' /\ RecorderInPhase'
  BY <1>3, <1>4, LifecycleProceeds, RecorderProceeds
<1>6. HoldsJustified' /\ HoldsKept'
  BY <1>3, HoldsOfOne DEF Browser
<1> QED
  BY <1>2, <1>5, <1>6 DEF Inv

\* Locks and debuggers are those of other commands, before and after.
LEMMA ApartFromDebugger ==
  ASSUME Inv, NEW c \in Cmds, \A d \in Cmds : d # c => cmd'[d] = cmd[d],
         cmd[c].pc \notin Attaching, cmd'[c].pc \notin Attaching \cup {"wait"},
         UNCHANGED Browser, worker'.tracked = worker.tracked, worker'.lock = worker.lock
  PROVE  LocksHaveOwners' /\ TrackingExact'
<1>1. LocksHaveOwners'
  BY LocksKept
<1>2. TrackingExact'
  BY TrackingApart DEF Browser
<1> QED
  BY <1>1, <1>2

\* What is known of a start or stop that is under way.
LEMMA UnderWay ==
  ASSUME Inv, NEW c \in Cmds, cmd[c].pc \in {"query", "begin", "inject", "abort", "unbind", "save"}
  PROVE  /\ cmd[c].kind = IF cmd[c].pc \in {"unbind", "save"} THEN "stop" ELSE "start"
         /\ cmd[c].pc \notin {"unbind", "save"} => cmd[c].tab \in Tabs
         /\ lifecycle # <<>> /\ c = Head(lifecycle) /\ \A d \in Cmds \ {c} : ~Busy(cmd[d])
         /\ InPhase(worker, cmd[c])
<1>1. /\ cmd[c].kind = IF cmd[c].pc \in {"unbind", "save"} THEN "stop" ELSE "start"
      /\ cmd[c].pc \notin {"unbind", "save"} => cmd[c].tab \in Tabs
  BY CommandFacts DEF InStage, Command
<1>2. Busy(cmd[c])
  BY <1>1 DEF Busy, Listed
<1>3. lifecycle # <<>> /\ c = Head(lifecycle) /\ \A d \in Cmds \ {c} : ~Busy(cmd[d])
  BY <1>2, BusyIsHead, OneBusy
<1> QED
  BY <1>1, <1>2, <1>3 DEF Inv, RecorderInPhase

LEMMA StartBusyKeeps ==
  ASSUME Inv, NEW c \in Cmds, StartBusy(c)
  PROVE  Inv'
<1>1. /\ MyTurn(c, "start") /\ cmd' = Stage(c, "ended") /\ Leaves(c) /\ UNCHANGED <<Browser, worker>>
  BY DEF StartBusy
<1>2. lifecycle # <<>> /\ c = Head(lifecycle) /\ \A d \in Cmds : ~Busy(cmd[d])
  BY <1>1, QueuedIsHead
<1>3. cmd[c].pc = "queued" /\ cmd[c].kind = "start" /\ \A t \in Tabs : ~Recorders(cmd[c], t)
  BY <1>1 DEF MyTurn, Recorders, Starting, Attaching
<1>4. AtRest(worker)
  BY <1>2 DEF Inv, RecorderInPhase
<1>5. AtRest(worker')
  BY <1>1, <1>4
<1>6. \A t \in Tabs :
        /\ worker'.holds[t] \in Nat /\ worker'.holds[t] <= 1
        /\ worker'.holds[t] = 1 => worker'.recTab = t
        /\ cancels = 0 /\ t \in open /\ worker'.recTab = t => worker'.holds[t] = 1
  BY <1>1, <1>2, <1>3, HoldsNow
<1> QED
  BY <1>1, <1>2, <1>3, <1>5, <1>6, RecordingEnds DEF Inv, TypeOK, Attaching

LEMMA StartReservesKeeps ==
  ASSUME Inv, NEW c \in Cmds, StartReserves(c)
  PROVE  Inv'
<1>1. /\ MyTurn(c, "start") /\ ~worker.reserved /\ ~worker.recording
      /\ worker' = [worker EXCEPT !.reserved = TRUE]
      /\ cmd' = Stage(c, "query") /\ UNCHANGED <<Browser, lifecycle>>
  BY DEF StartReserves
<1>2. lifecycle # <<>> /\ c = Head(lifecycle) /\ \A d \in Cmds : ~Busy(cmd[d])
  BY <1>1, QueuedIsHead
<1>3. cmd[c].pc = "queued" /\ cmd[c].kind = "start" /\ \A t \in Tabs : ~Recorders(cmd[c], t)
  BY <1>1 DEF MyTurn, Recorders, Starting, Attaching
<1>4. cmd \in [Cmds -> Command] /\ worker \in Worker
  BY DEF Inv, TypeOK
<1>5. /\ cmd' \in [Cmds -> Command] /\ cmd'[c].pc = "query"
      /\ cmd'[c].kind = "start" /\ cmd'[c].tab = cmd[c].tab
      /\ \A d \in Cmds : d # c => cmd'[d] = cmd[d]
  BY <1>1, <1>3, <1>4, StageFields DEF Stages
<1>6. /\ worker' \in Worker /\ worker'.tracked = worker.tracked /\ worker'.lock = worker.lock
      /\ worker'.holds = worker.holds /\ worker'.recTab = worker.recTab
      /\ worker'.listening = worker.listening /\ worker'.reserved /\ ~worker'.recording
  BY <1>1, <1>4 DEF Worker
<1>7. Busy(cmd'[c]) /\ InStage(cmd'[c])
  BY <1>3, <1>5, CommandFacts DEF Busy, Listed, InStage, Attaching
<1>8. AtRest(worker)
  BY <1>2 DEF Inv, RecorderInPhase
<1>9. InPhase(worker', cmd'[c])
  BY <1>1, <1>5, <1>6, <1>8 DEF InPhase, AtRest
<1>10. \A t \in Tabs : ~Recorders(cmd'[c], t)
  BY <1>5 DEF Recorders, Starting, Attaching
<1>11. \A t \in Tabs :
         /\ worker'.holds[t] \in Nat /\ worker'.holds[t] <= 1
         /\ worker'.holds[t] = 1 => worker'.recTab = t \/ Recorders(cmd'[c], t)
         /\ cancels = 0 /\ t \in open /\ (worker'.recTab = t \/ Recorders(cmd'[c], t)) =>
              worker'.holds[t] = 1
  BY <1>2, <1>3, <1>6, <1>10, HoldsNow
<1>12. LocksHaveOwners' /\ TrackingExact'
  BY <1>1, <1>3, <1>5, <1>6, ApartFromDebugger DEF Attaching
<1> QED
  BY <1>1, <1>2, <1>5, <1>6, <1>7, <1>9, <1>11, <1>12, RecordingGoesOn

LEMMA StartFindsNoTabKeeps ==
  ASSUME Inv, NEW c \in Cmds, StartFindsNoTab(c)
  PROVE  Inv'
<1>1. /\ cmd[c].pc = "query" /\ worker' = [worker EXCEPT !.reserved = FALSE]
      /\ cmd' = Stage(c, "ended") /\ Leaves(c) /\ UNCHANGED Browser
  BY DEF StartFindsNoTab, GiveUpReservation
<1>2. /\ cmd[c].kind = "start" /\ InPhase(worker, cmd[c])
      /\ lifecycle # <<>> /\ c = Head(lifecycle) /\ \A d \in Cmds \ {c} : ~Busy(cmd[d])
  BY <1>1, UnderWay
<1>3. /\ worker' \in Worker /\ worker'.tracked = worker.tracked /\ worker'.lock = worker.lock
      /\ worker'.holds = worker.holds /\ worker'.recTab = worker.recTab
      /\ worker'.listening = worker.listening /\ worker'.recording = worker.recording
      /\ ~worker'.reserved
  BY <1>1 DEF Inv, TypeOK, Worker
<1>4. AtRest(worker')
  BY <1>1, <1>2, <1>3 DEF InPhase, AtRest
<1>5. \A t \in Tabs : ~Recorders(cmd[c], t)
  BY <1>1 DEF Recorders, Starting, Attaching
<1>6. \A t \in Tabs :
        /\ worker'.holds[t] \in Nat /\ worker'.holds[t] <= 1
        /\ worker'.holds[t] = 1 => worker'.recTab = t
        /\ cancels = 0 /\ t \in open /\ worker'.recTab = t => worker'.holds[t] = 1
  BY <1>2, <1>3, <1>5, HoldsNow
<1> QED
  BY <1>1, <1>2, <1>3, <1>4, <1>6, RecordingEnds DEF Attaching

\* The hold comes before the attach, and is that of the start.
LEMMA StartHoldsKeeps ==
  ASSUME Inv, NEW c \in Cmds, StartHolds(c)
  PROVE  Inv'
<1>1. /\ cmd[c].pc = "query" /\ UNCHANGED <<Browser, lifecycle>>
      /\ Ensure(c, "start", cmd[c].tab, holdDebuggerAttached(worker, cmd[c].tab))
  BY DEF StartHolds
<1>2. /\ cmd[c].kind = "start" /\ cmd[c].tab \in Tabs /\ InPhase(worker, cmd[c])
      /\ lifecycle # <<>> /\ c = Head(lifecycle) /\ \A d \in Cmds \ {c} : ~Busy(cmd[d])
  BY <1>1, UnderWay
<1>3. PICK t \in Tabs : t = cmd[c].tab
  BY <1>2
<1>4. worker \in Worker
  BY DEF Inv, TypeOK
<1>5. PICK w \in Worker : w = holdDebuggerAttached(worker, t)
  BY <1>4, HoldFields
<1>6. /\ SameRecorder(w, worker) /\ w.tracked = worker.tracked /\ w.lock = worker.lock
      /\ w.holds = [worker.holds EXCEPT ![t] = @ + 1]
  BY <1>4, <1>5, HoldFields
<1>7. Ensure(c, "start", t, w)
  BY <1>1, <1>3, <1>5
<1>8. /\ worker' \in Worker /\ SameRecorder(worker', w) /\ worker'.holds = w.holds
      /\ Ensured(c, "start", t)
  BY <1>6, <1>7, EnsureFields
<1>9. /\ cmd' \in [Cmds -> Command] /\ \A d \in Cmds : d # c => cmd'[d] = cmd[d]
      /\ cmd'[c].kind = "start" /\ cmd'[c].tab = t
      /\ cmd'[c].pc \in {"begin", "wait", "targets"}
  BY <1>8 DEF Ensured, AfterAttach
<1>10. Busy(cmd'[c]) /\ InStage(cmd'[c])
  BY <1>9, DebuggerAssumption DEF Busy, Listed, InStage, Attaching
<1>11. worker.reserved /\ worker.recTab = None /\ ~worker.recording /\ worker.listening = None
  BY <1>1, <1>2 DEF InPhase
<1>12. worker'.reserved /\ worker'.recTab = None /\ ~worker'.recording /\ worker'.listening = None
  BY <1>6, <1>8, <1>11 DEF SameRecorder
<1>13. InPhase(worker', cmd'[c])
  BY <1>9, <1>12 DEF InPhase
<1>14. \A u \in Tabs : Recorders(cmd'[c], u) <=> u = t
  BY <1>9 DEF Recorders, Starting, Attaching
<1>15. \A u \in Tabs : worker.holds[u] = 0
  <2>1. \A u \in Tabs : ~Recorders(cmd[c], u)
    BY <1>1 DEF Recorders, Starting, Attaching
  <2>2. \A u \in Tabs :
          /\ worker.holds[u] \in Nat /\ worker.holds[u] <= 1
          /\ worker.holds[u] = 1 => worker.recTab = u \/ Recorders(cmd[c], u)
    BY <1>2, HoldsNow
  <2>3. \A u \in Tabs : worker.holds[u] # 1
    BY <1>11, <2>1, <2>2, DebuggerAssumption
  <2> QED
    BY <2>2, <2>3
<1>16. \A u \in Tabs : worker'.holds[u] = IF u = t THEN 1 ELSE 0
  BY <1>4, <1>6, <1>8, <1>15 DEF Worker
<1>17. \A u \in Tabs :
         /\ worker'.holds[u] \in Nat /\ worker'.holds[u] <= 1
         /\ worker'.holds[u] = 1 => worker'.recTab = u \/ Recorders(cmd'[c], u)
         /\ cancels = 0 /\ u \in open /\ (worker'.recTab = u \/ Recorders(cmd'[c], u)) =>
              worker'.holds[u] = 1
  BY <1>12, <1>14, <1>16, DebuggerAssumption
<1>18. LocksHaveOwners' /\ TrackingExact'
  BY <1>1, <1>8, EnsureKeepsLocks, EnsureKeepsTracking
<1> QED
  BY <1>1, <1>2, <1>8, <1>9, <1>10, <1>13, <1>17, <1>18, RecordingGoesOn

LEMMA StartRecordsKeeps ==
  ASSUME Inv, NEW c \in Cmds, StartRecords(c)
  PROVE  Inv'
<1>1. /\ cmd[c].pc = "begin" /\ cmd' = Stage(c, "inject") /\ UNCHANGED <<Browser, lifecycle>>
      /\ worker' = [worker EXCEPT !.recording = TRUE, !.listening = cmd[c].tab]
  BY DEF StartRecords
<1>2. /\ cmd[c].kind = "start" /\ cmd[c].tab \in Tabs /\ InPhase(worker, cmd[c])
      /\ lifecycle # <<>> /\ c = Head(lifecycle) /\ \A d \in Cmds \ {c} : ~Busy(cmd[d])
  BY <1>1, UnderWay
<1>3. cmd \in [Cmds -> Command] /\ worker \in Worker
  BY DEF Inv, TypeOK
<1>4. /\ cmd' \in [Cmds -> Command] /\ cmd'[c].pc = "inject"
      /\ cmd'[c].kind = "start" /\ cmd'[c].tab = cmd[c].tab
      /\ \A d \in Cmds : d # c => cmd'[d] = cmd[d]
  BY <1>1, <1>2, <1>3, StageFields DEF Stages, Starting
<1>5. /\ worker' \in Worker /\ worker'.tracked = worker.tracked /\ worker'.lock = worker.lock
      /\ worker'.holds = worker.holds /\ worker'.recTab = worker.recTab
      /\ worker'.listening = cmd[c].tab /\ worker'.recording
      /\ worker'.reserved = worker.reserved
  BY <1>1, <1>2, <1>3 DEF Worker
<1>6. Busy(cmd'[c]) /\ InStage(cmd'[c])
  BY <1>2, <1>4, DebuggerAssumption DEF Busy, Listed, InStage, Attaching
<1>7. InPhase(worker', cmd'[c])
  BY <1>2, <1>4, <1>5 DEF InPhase
<1>8. \A t \in Tabs : Recorders(cmd'[c], t) <=> Recorders(cmd[c], t)
  BY <1>1, <1>2, <1>4 DEF Recorders, Starting
<1>9. \A t \in Tabs :
        /\ worker'.holds[t] \in Nat /\ worker'.holds[t] <= 1
        /\ worker'.holds[t] = 1 => worker'.recTab = t \/ Recorders(cmd'[c], t)
        /\ cancels = 0 /\ t \in open /\ (worker'.recTab = t \/ Recorders(cmd'[c], t)) =>
             worker'.holds[t] = 1
  BY <1>2, <1>5, <1>8, HoldsNow
<1>10. LocksHaveOwners' /\ TrackingExact'
  BY <1>1, <1>4, <1>5, ApartFromDebugger DEF Attaching
<1> QED
  BY <1>1, <1>2, <1>4, <1>5, <1>6, <1>7, <1>9, <1>10, RecordingGoesOn

\* The hold of the start becomes that of the recording.
LEMMA StartDoneKeeps ==
  ASSUME Inv, NEW c \in Cmds, StartDone(c)
  PROVE  Inv'
<1>1. /\ cmd[c].pc = "inject" /\ worker' = [worker EXCEPT !.recTab = cmd[c].tab]
      /\ cmd' = Stage(c, "ended") /\ Leaves(c) /\ UNCHANGED Browser
  BY DEF StartDone
<1>2. /\ cmd[c].kind = "start" /\ cmd[c].tab \in Tabs /\ InPhase(worker, cmd[c])
      /\ lifecycle # <<>> /\ c = Head(lifecycle) /\ \A d \in Cmds \ {c} : ~Busy(cmd[d])
  BY <1>1, UnderWay
<1>3. /\ worker' \in Worker /\ worker'.tracked = worker.tracked /\ worker'.lock = worker.lock
      /\ worker'.holds = worker.holds /\ worker'.recTab = cmd[c].tab
      /\ worker'.listening = worker.listening /\ worker'.recording = worker.recording
      /\ worker'.reserved = worker.reserved
  BY <1>1, <1>2 DEF Inv, TypeOK, Worker
<1>4. AtRest(worker')
  BY <1>1, <1>2, <1>3, DebuggerAssumption DEF InPhase, AtRest
<1>5. worker.recTab = None /\ \A t \in Tabs : Recorders(cmd[c], t) <=> t = cmd[c].tab
  BY <1>1, <1>2 DEF InPhase, Recorders, Starting
<1>6. \A t \in Tabs :
        /\ worker'.holds[t] \in Nat /\ worker'.holds[t] <= 1
        /\ worker'.holds[t] = 1 => worker'.recTab = t
        /\ cancels = 0 /\ t \in open /\ worker'.recTab = t => worker'.holds[t] = 1
  BY <1>2, <1>3, <1>5, HoldsNow, DebuggerAssumption
<1> QED
  BY <1>1, <1>2, <1>3, <1>4, <1>6, RecordingEnds DEF Attaching

LEMMA InjectFailsKeeps ==
  ASSUME Inv, NEW c \in Cmds, InjectFails(c)
  PROVE  Inv'
<1>1. /\ cmd[c].pc = "inject" /\ cmd' = Stage(c, "abort")
      /\ UNCHANGED <<Browser, worker, lifecycle>>
  BY DEF InjectFails
<1>2. /\ cmd[c].kind = "start" /\ cmd[c].tab \in Tabs
      /\ cmd \in [Cmds -> Command] /\ worker \in Worker /\ lifecycle \in Seq(Cmds)
  BY <1>1, UnderWay DEF Inv, TypeOK
<1>3. /\ cmd' \in [Cmds -> Command] /\ cmd'[c].pc = "abort"
      /\ cmd'[c].kind = "start" /\ cmd'[c].tab = cmd[c].tab
      /\ \A d \in Cmds : d # c => cmd'[d] = cmd[d]
  BY <1>1, <1>2, StageFields DEF Stages, Starting
<1>4. \A d \in Cmds : Alike(cmd'[d], cmd[d])
  BY <1>1, <1>2, <1>3 DEF Alike
<1>5. InStage(cmd'[c])
  BY <1>2, <1>3, DebuggerAssumption DEF InStage, Attaching
<1>6. TypeOK' /\ StagesMatch'
  BY <1>1, <1>2, <1>3, <1>5, CommandFacts, TypesKept
<1>7. LifecycleInOrder' /\ RecorderInPhase' /\ HoldsJustified' /\ HoldsKept'
  BY <1>1, <1>4, AlikeStep DEF SameRecorder, Browser
<1>8. LocksHaveOwners' /\ TrackingExact'
  BY <1>1, <1>3, ApartFromDebugger DEF Attaching
<1> QED
  BY <1>6, <1>7, <1>8 DEF Inv

\* A tab's hold is given up: nothing is left of it.
LEMMA ReleasedHolds ==
  ASSUME Inv, NEW c \in Cmds, \A d \in Cmds \ {c} : ~Busy(cmd[d]), NEW t \in Tabs,
         \A u \in Tabs : u # t => worker.recTab # u /\ ~Recorders(cmd[c], u),
         worker'.holds = [worker.holds EXCEPT ![t] = IF @ <= 1 THEN 0 ELSE @ - 1]
  PROVE  \A u \in Tabs : worker'.holds[u] = 0
<1>1. worker.holds \in [Tabs -> Nat]
  BY DEF Inv, TypeOK, Worker
<1>2. \A u \in Tabs :
        /\ worker.holds[u] \in Nat /\ worker.holds[u] <= 1
        /\ worker.holds[u] = 1 => worker.recTab = u \/ Recorders(cmd[c], u)
  BY HoldsNow
<1>3. \A u \in Tabs : u # t => worker.holds[u] # 1
  BY <1>2
<1> QED
  BY <1>1, <1>2, <1>3

\* Nothing is recorded, and nothing is held.
LEMMA NoneHeld ==
  ASSUME \A u \in Tabs : worker'.holds[u] = 0, worker'.recTab = None
  PROVE  \A u \in Tabs :
           /\ worker'.holds[u] \in Nat /\ worker'.holds[u] <= 1
           /\ worker'.holds[u] = 1 => worker'.recTab = u
           /\ cancels = 0 /\ u \in open /\ worker'.recTab = u => worker'.holds[u] = 1
BY DebuggerAssumption

LEMMA StartAbortsKeeps ==
  ASSUME Inv, NEW c \in Cmds, StartAborts(c)
  PROVE  Inv'
<1>1. /\ cmd[c].pc = "abort" /\ cmd' = Stage(c, "ended") /\ Leaves(c) /\ UNCHANGED Browser
      /\ worker' = StartFailed([worker EXCEPT !.listening = None, !.recording = FALSE], cmd[c].tab)
  BY DEF StartAborts
<1>2. /\ cmd[c].kind = "start" /\ cmd[c].tab \in Tabs /\ InPhase(worker, cmd[c])
      /\ lifecycle # <<>> /\ c = Head(lifecycle) /\ \A d \in Cmds \ {c} : ~Busy(cmd[d])
  BY <1>1, UnderWay
<1>3. worker.recTab = None /\ worker \in Worker
  BY <1>2 DEF InPhase, Inv, TypeOK
<1>4. PICK t \in Tabs : t = cmd[c].tab
  BY <1>2
<1>5. PICK u : u = [worker EXCEPT !.listening = None, !.recording = FALSE, !.reserved = FALSE]
  OBVIOUS
<1>6. /\ u \in Worker /\ u.tracked = worker.tracked /\ u.lock = worker.lock
      /\ u.holds = worker.holds /\ u.recTab = None
      /\ u.listening = None /\ ~u.recording /\ ~u.reserved
  BY <1>3, <1>5 DEF Worker
<1>7. worker' = releaseDebuggerAttached(u, t)
  BY <1>1, <1>3, <1>4, <1>5 DEF StartFailed, Worker
<1>8. /\ worker' \in Worker /\ SameRecorder(worker', u)
      /\ worker'.tracked = worker.tracked /\ worker'.lock = worker.lock
      /\ worker'.holds = [worker.holds EXCEPT ![t] = IF @ <= 1 THEN 0 ELSE @ - 1]
  BY <1>6, <1>7, ReleaseFields
<1>9. worker'.recTab = None /\ AtRest(worker')
  BY <1>6, <1>8 DEF SameRecorder, AtRest
<1>10. \A d \in Tabs : d # t => worker.recTab # d /\ ~Recorders(cmd[c], d)
  BY <1>3, <1>4, DebuggerAssumption DEF Recorders
<1>11. \A d \in Tabs : worker'.holds[d] = 0
  BY <1>2, <1>8, <1>10, ReleasedHolds
<1>12. \A d \in Tabs :
         /\ worker'.holds[d] \in Nat /\ worker'.holds[d] <= 1
         /\ worker'.holds[d] = 1 => worker'.recTab = d
         /\ cancels = 0 /\ d \in open /\ worker'.recTab = d => worker'.holds[d] = 1
  BY <1>9, <1>11, NoneHeld
<1> QED
  BY <1>1, <1>2, <1>8, <1>9, <1>12, RecordingEnds DEF Attaching

LEMMA StopBeginsKeeps ==
  ASSUME Inv, NEW c \in Cmds, StopBegins(c)
  PROVE  Inv'
<1>1. /\ MyTurn(c, "stop") /\ UNCHANGED <<Browser, worker, lifecycle>>
      /\ cmd' = [cmd EXCEPT ![c].pc = "unbind", ![c].tab = worker.recTab]
  BY DEF StopBegins
<1>2. lifecycle # <<>> /\ c = Head(lifecycle) /\ \A d \in Cmds : ~Busy(cmd[d])
  BY <1>1, QueuedIsHead
<1>3. cmd[c].pc = "queued" /\ cmd[c].kind = "stop"
  BY <1>1 DEF MyTurn
<1>4. cmd \in [Cmds -> Command] /\ worker \in Worker /\ worker.recTab \in Tabs \cup {None}
  BY DEF Inv, TypeOK, Worker
<1>5. PICK r : r = [cmd[c] EXCEPT !.pc = "unbind", !.tab = worker.recTab]
  OBVIOUS
<1>6. r \in Command /\ r.pc = "unbind" /\ r.kind = "stop" /\ r.tab = worker.recTab
  BY <1>3, <1>4, <1>5 DEF Command, Stages
<1>7. cmd' = [cmd EXCEPT ![c] = r]
  BY <1>1, <1>4, <1>5 DEF Command
<1>8. cmd' \in [Cmds -> Command] /\ cmd'[c] = r /\ \A d \in Cmds : d # c => cmd'[d] = cmd[d]
  BY <1>4, <1>6, <1>7
<1>9. Busy(cmd'[c]) /\ InStage(cmd'[c])
  BY <1>6, <1>8 DEF Busy, Listed, InStage, Attaching
<1>10. AtRest(worker)
  BY <1>2 DEF Inv, RecorderInPhase
<1>11. InPhase(worker', cmd'[c])
  BY <1>1, <1>6, <1>8, <1>10 DEF InPhase
<1>12. \A t \in Tabs : ~Recorders(cmd'[c], t) /\ ~Recorders(cmd[c], t)
  BY <1>3, <1>6, <1>8 DEF Recorders
<1>13. \A t \in Tabs :
         /\ worker'.holds[t] \in Nat /\ worker'.holds[t] <= 1
         /\ worker'.holds[t] = 1 => worker'.recTab = t \/ Recorders(cmd'[c], t)
         /\ cancels = 0 /\ t \in open /\ (worker'.recTab = t \/ Recorders(cmd'[c], t)) =>
              worker'.holds[t] = 1
  BY <1>1, <1>2, <1>12, HoldsNow
<1>14. LocksHaveOwners' /\ TrackingExact'
  BY <1>1, <1>3, <1>6, <1>8, ApartFromDebugger DEF Attaching
<1> QED
  BY <1>1, <1>2, <1>4, <1>8, <1>9, <1>11, <1>13, <1>14, RecordingGoesOn

LEMMA StopFindsRecordingKeeps ==
  ASSUME Inv, NEW c \in Cmds, StopFindsRecording(c)
  PROVE  Inv'
<1>1. /\ cmd[c].pc = "unbind" /\ worker.recording
      /\ worker' = [worker EXCEPT !.listening = None, !.recording = FALSE]
      /\ cmd' = Stage(c, "save") /\ UNCHANGED <<Browser, lifecycle>>
  BY DEF StopFindsRecording
<1>2. /\ cmd[c].kind = "stop" /\ InPhase(worker, cmd[c])
      /\ lifecycle # <<>> /\ c = Head(lifecycle) /\ \A d \in Cmds \ {c} : ~Busy(cmd[d])
  BY <1>1, UnderWay
<1>3. cmd \in [Cmds -> Command] /\ worker \in Worker
  BY DEF Inv, TypeOK
<1>4. /\ cmd' \in [Cmds -> Command] /\ cmd'[c].pc = "save"
      /\ cmd'[c].kind = "stop" /\ cmd'[c].tab = cmd[c].tab
      /\ \A d \in Cmds : d # c => cmd'[d] = cmd[d]
  BY <1>1, <1>2, <1>3, StageFields DEF Stages
<1>5. /\ worker' \in Worker /\ worker'.tracked = worker.tracked /\ worker'.lock = worker.lock
      /\ worker'.holds = worker.holds /\ worker'.recTab = worker.recTab
      /\ worker'.listening = None /\ ~worker'.recording
  BY <1>1, <1>3 DEF Worker
<1>6. Busy(cmd'[c]) /\ InStage(cmd'[c])
  BY <1>4 DEF Busy, Listed, InStage, Attaching
<1>7. cmd[c].tab = worker.recTab /\ worker.recTab # None
  BY <1>1, <1>2 DEF InPhase, AtRest
<1>8. InPhase(worker', cmd'[c])
  BY <1>4, <1>5, <1>7 DEF InPhase
<1>9. \A t \in Tabs : ~Recorders(cmd'[c], t) /\ ~Recorders(cmd[c], t)
  BY <1>2, <1>4 DEF Recorders
<1>10. \A t \in Tabs :
         /\ worker'.holds[t] \in Nat /\ worker'.holds[t] <= 1
         /\ worker'.holds[t] = 1 => worker'.recTab = t \/ Recorders(cmd'[c], t)
         /\ cancels = 0 /\ t \in open /\ (worker'.recTab = t \/ Recorders(cmd'[c], t)) =>
              worker'.holds[t] = 1
  BY <1>2, <1>5, <1>9, HoldsNow
<1>11. LocksHaveOwners' /\ TrackingExact'
  BY <1>1, <1>4, <1>5, ApartFromDebugger DEF Attaching
<1> QED
  BY <1>1, <1>2, <1>4, <1>5, <1>6, <1>8, <1>10, <1>11, RecordingGoesOn

LEMMA StopFindsNoneKeeps ==
  ASSUME Inv, NEW c \in Cmds, StopFindsNone(c)
  PROVE  Inv'
<1>1. /\ cmd[c].pc = "unbind" /\ ~worker.recording
      /\ worker' = StopEnds([worker EXCEPT !.listening = None], cmd[c].tab)
      /\ cmd' = Stage(c, "ended") /\ Leaves(c) /\ UNCHANGED Browser
  BY DEF StopFindsNone
<1>2. /\ cmd[c].kind = "stop" /\ InPhase(worker, cmd[c])
      /\ lifecycle # <<>> /\ c = Head(lifecycle) /\ \A d \in Cmds \ {c} : ~Busy(cmd[d])
  BY <1>1, UnderWay
<1>3. cmd[c].tab = None /\ worker.recTab = None
  BY <1>1, <1>2 DEF InPhase, AtRest
<1>4. worker \in Worker
  BY DEF Inv, TypeOK
<1>5. worker' = [worker EXCEPT !.listening = None, !.reserved = FALSE]
  BY <1>1, <1>3, <1>4 DEF StopEnds, GiveUpReservation, Worker
<1>6. /\ worker' \in Worker /\ worker'.tracked = worker.tracked /\ worker'.lock = worker.lock
      /\ worker'.holds = worker.holds /\ worker'.recTab = worker.recTab
      /\ worker'.listening = None /\ worker'.recording = worker.recording /\ ~worker'.reserved
  BY <1>4, <1>5 DEF Worker
<1>7. AtRest(worker')
  BY <1>1, <1>3, <1>6 DEF AtRest
<1>8. \A t \in Tabs : ~Recorders(cmd[c], t)
  BY <1>2 DEF Recorders
<1>9. \A t \in Tabs :
        /\ worker'.holds[t] \in Nat /\ worker'.holds[t] <= 1
        /\ worker'.holds[t] = 1 => worker'.recTab = t
        /\ cancels = 0 /\ t \in open /\ worker'.recTab = t => worker'.holds[t] = 1
  BY <1>2, <1>6, <1>8, HoldsNow
<1> QED
  BY <1>1, <1>2, <1>6, <1>7, <1>9, RecordingEnds DEF Attaching

LEMMA StopSavedKeeps ==
  ASSUME Inv, NEW c \in Cmds, StopSaved(c)
  PROVE  Inv'
<1>1. /\ cmd[c].pc = "save" /\ worker' = StopEnds(worker, cmd[c].tab)
      /\ cmd' = Stage(c, "ended") /\ Leaves(c) /\ UNCHANGED Browser
  BY DEF StopSaved
<1>2. /\ cmd[c].kind = "stop" /\ InPhase(worker, cmd[c])
      /\ lifecycle # <<>> /\ c = Head(lifecycle) /\ \A d \in Cmds \ {c} : ~Busy(cmd[d])
  BY <1>1, UnderWay
<1>3. /\ cmd[c].tab = worker.recTab /\ cmd[c].tab # None
      /\ ~worker.recording /\ worker.listening = None
  BY <1>1, <1>2 DEF InPhase
<1>4. worker \in Worker
  BY DEF Inv, TypeOK
<1>5. PICK t \in Tabs : t = cmd[c].tab
  BY <1>3, <1>4 DEF Worker
<1>6. PICK u : u = [worker EXCEPT !.reserved = FALSE, !.recTab = None]
  OBVIOUS
<1>7. /\ u \in Worker /\ u.tracked = worker.tracked /\ u.lock = worker.lock
      /\ u.holds = worker.holds /\ u.recTab = None
      /\ u.listening = None /\ ~u.recording /\ ~u.reserved
  BY <1>3, <1>4, <1>6 DEF Worker
<1>8. worker' = releaseDebuggerAttached(u, t)
  BY <1>1, <1>3, <1>4, <1>5, <1>6 DEF StopEnds, GiveUpReservation, Worker
<1>9. /\ worker' \in Worker /\ SameRecorder(worker', u)
      /\ worker'.tracked = worker.tracked /\ worker'.lock = worker.lock
      /\ worker'.holds = [worker.holds EXCEPT ![t] = IF @ <= 1 THEN 0 ELSE @ - 1]
  BY <1>7, <1>8, ReleaseFields
<1>10. worker'.recTab = None /\ AtRest(worker')
  BY <1>7, <1>9 DEF SameRecorder, AtRest
<1>11. \A d \in Tabs : d # t => worker.recTab # d /\ ~Recorders(cmd[c], d)
  BY <1>2, <1>3, <1>5 DEF Recorders
<1>12. \A d \in Tabs : worker'.holds[d] = 0
  BY <1>2, <1>9, <1>11, ReleasedHolds
<1>13. \A d \in Tabs :
         /\ worker'.holds[d] \in Nat /\ worker'.holds[d] <= 1
         /\ worker'.holds[d] = 1 => worker'.recTab = d
         /\ cancels = 0 /\ d \in open /\ worker'.recTab = d => worker'.holds[d] = 1
  BY <1>10, <1>12, NoneHeld
<1> QED
  BY <1>1, <1>2, <1>9, <1>10, <1>13, RecordingEnds DEF Attaching

-----------------------------------------------------------------------------
(* Timers, the browser and its user                                          *)

\* No command goes on: locks are deleted at most, and the holds of gone are forgotten.
LEMMA TabStep ==
  ASSUME Inv, UNCHANGED <<cmd, lifecycle>>, worker' \in Worker, SameRecorder(worker', worker),
         \A u \in Tabs : worker'.lock[u] \in {worker.lock[u], None},
         NEW gone \in SUBSET Tabs,
         \A u \in Tabs : worker'.holds[u] = IF u \in gone THEN 0 ELSE worker.holds[u],
         open' \subseteq open, cancels' = 0 => cancels = 0 /\ open' \cap gone = {}
  PROVE  /\ StagesMatch' /\ LifecycleInOrder' /\ LocksHaveOwners' /\ RecorderInPhase'
         /\ HoldsJustified' /\ HoldsKept'
<1>1. StagesMatch'
  BY DEF Inv, StagesMatch
<1>2. \A d \in Cmds : Alike(cmd'[d], cmd[d])
  BY AlikeItself
<1>3. LifecycleInOrder' /\ RecorderInPhase'
  BY <1>2, LifecycleKept, RecorderKept
<1>4. LocksHaveOwners'
  BY LocksKept
<1>5. worker'.recTab = worker.recTab
  BY DEF SameRecorder
<1>6. HoldsJustified' /\ HoldsKept'
  BY <1>5, HoldsKeptBy
<1> QED
  BY <1>1, <1>3, <1>4, <1>6

\* The other tabs do not notice.
LEMMA TrackingElsewhere ==
  ASSUME Inv, NEW t \in Tabs, UNCHANGED cmd, cancels = 0,
         \A u \in Tabs \ {t} :
           /\ u \in worker'.tracked <=> u \in worker.tracked
           /\ worker'.lock[u] = worker.lock[u]
           /\ u \in attached' <=> u \in attached
           /\ detaching'[u] = detaching[u]
  PROVE  \A u \in open \ {t} : Tracking(u)'
<1>1. open \subseteq Tabs
  BY DEF Inv, TypeOK
<1>2. ASSUME NEW u \in open \ {t}
      PROVE  Tracking(u)'
  <2>1. Tracking(u)
    BY DEF Inv, TrackingExact
  <2> QED
    BY <1>1, <2>1, TrackingKept
<1> QED
  BY <1>2

\* Of a tab that is tracked, nobody attaches the debugger.
LEMMA TimerFiresKeeps ==
  ASSUME Inv, NEW t \in Tabs, TimerFires(t)
  PROVE  Inv'
<1>1. /\ detaching[t] = "no" /\ worker' = clearDetachTimer(worker, t)
      /\ UNCHANGED <<open, dropped, cancels, cmd, lifecycle>>
      /\ \/ /\ Detachable(t) /\ attached' = attached \ {t}
            /\ detaching' = [detaching EXCEPT ![t] = IF t \in attached THEN "done" ELSE "refused"]
         \/ UNCHANGED <<attached, detaching>>
  BY DEF TimerFires
<1>2. worker \in Worker /\ attached \subseteq open /\ detaching \in [Tabs -> {"no", "done", "refused"}]
  BY DEF Inv, TypeOK
<1>3. /\ worker' \in Worker /\ SameRecorder(worker', worker) /\ worker'.tracked = worker.tracked
      /\ worker'.lock = worker.lock /\ worker'.holds = worker.holds
  BY <1>1, <1>2, ClearFields
<1>4. attached' \subseteq open /\ detaching' \in [Tabs -> {"no", "done", "refused"}]
  BY <1>1, <1>2
<1>5. TypeOK'
  BY <1>1, <1>3, <1>4 DEF Inv, TypeOK
<1>6. PICK gone \in SUBSET Tabs : gone = {}
  OBVIOUS
<1>7. /\ StagesMatch' /\ LifecycleInOrder' /\ LocksHaveOwners' /\ RecorderInPhase'
      /\ HoldsJustified' /\ HoldsKept'
  BY <1>1, <1>3, <1>6, TabStep
<1>8. ASSUME cancels = 0
      PROVE  \A u \in open : Tracking(u)'
  <2>1. \A u \in open \ {t} : Tracking(u)'
    BY <1>1, <1>2, <1>3, <1>8, TrackingElsewhere
  <2>2. ASSUME t \in open
        PROVE  Tracking(t)'
    <3>1. Tracking(t)
      BY <1>8, <2>2 DEF Inv, TrackingExact
    <3>2. CASE UNCHANGED <<attached, detaching>>
      BY <1>1, <1>3, <3>1, <3>2, TrackingKept
    <3>3. CASE /\ Detachable(t) /\ attached' = attached \ {t}
               /\ detaching' = [detaching EXCEPT ![t] = IF t \in attached THEN "done" ELSE "refused"]
      <4>1. t \in worker.tracked /\ t \in attached
        BY <1>1, <3>1, <3>3 DEF Detachable, Tracking
      <4>2. detaching'[t] = "done" /\ t \notin attached' /\ t \in worker'.tracked
        BY <1>2, <1>3, <3>3, <4>1
      <4>3. \A d \in Cmds : ~(cmd[d].tab = t /\ cmd[d].pc \in Attaching)
        BY <3>1, <4>1 DEF Tracking
      <4> QED
        BY <1>1, <4>2, <4>3 DEF Tracking
    <3> QED
      BY <1>1, <3>2, <3>3
  <2> QED
    BY <2>1, <2>2
<1>9. TrackingExact'
  BY <1>1, <1>3, <1>8 DEF Inv, TrackingExact
<1> QED
  BY <1>5, <1>7, <1>9 DEF Inv

LEMMA DetachAnsweredKeeps ==
  ASSUME Inv, NEW t \in Tabs, DetachAnswered(t)
  PROVE  Inv'
<1>1. /\ detaching[t] # "no" /\ detaching' = [detaching EXCEPT ![t] = "no"]
      /\ worker' = IF detaching[t] = "done" THEN Untrack(worker, t) ELSE worker
      /\ UNCHANGED <<open, attached, dropped, cancels, cmd, lifecycle>>
  BY DEF DetachAnswered
<1>2. worker \in Worker /\ detaching \in [Tabs -> {"no", "done", "refused"}]
  BY DEF Inv, TypeOK
<1>3. /\ worker' \in Worker /\ SameRecorder(worker', worker) /\ worker'.holds = worker.holds
      /\ worker'.tracked \subseteq worker.tracked
      /\ \A u \in Tabs \ {t} : /\ u \in worker'.tracked <=> u \in worker.tracked
                               /\ worker'.lock[u] = worker.lock[u]
      /\ \A u \in Tabs : worker'.lock[u] \in {worker.lock[u], None}
  <2>1. CASE detaching[t] = "done"
    <3>1. /\ worker' \in Worker /\ SameRecorder(worker', worker) /\ worker'.holds = worker.holds
          /\ worker'.tracked = worker.tracked \ {t}
          /\ worker'.lock = [worker.lock EXCEPT ![t] = None]
      BY <1>1, <1>2, <2>1, UntrackFields
    <3>2. worker.lock \in [Tabs -> Cmds \cup {None}]
      BY <1>2 DEF Worker
    <3> QED
      BY <3>1, <3>2
  <2>2. CASE detaching[t] # "done"
    BY <1>1, <1>2, <2>2 DEF SameRecorder
  <2> QED
    BY <2>1, <2>2
<1>4. detaching' \in [Tabs -> {"no", "done", "refused"}] /\ detaching'[t] = "no"
      /\ \A u \in Tabs \ {t} : detaching'[u] = detaching[u]
  BY <1>1, <1>2
<1>5. TypeOK'
  BY <1>1, <1>3, <1>4 DEF Inv, TypeOK
<1>6. PICK gone \in SUBSET Tabs : gone = {}
  OBVIOUS
<1>7. /\ StagesMatch' /\ LifecycleInOrder' /\ LocksHaveOwners' /\ RecorderInPhase'
      /\ HoldsJustified' /\ HoldsKept'
  BY <1>1, <1>3, <1>6, TabStep
<1>8. ASSUME cancels = 0
      PROVE  \A u \in open : Tracking(u)'
  <2>1. \A u \in open \ {t} : Tracking(u)'
    BY <1>1, <1>3, <1>4, <1>8, TrackingElsewhere
  <2>2. ASSUME t \in open
        PROVE  Tracking(t)'
    <3>1. Tracking(t)
      BY <1>8, <2>2 DEF Inv, TrackingExact
    <3>2. detaching[t] = "done" /\ t \in worker.tracked /\ t \notin attached
      BY <1>1, <3>1 DEF Tracking
    <3>3. worker'.tracked = worker.tracked \ {t}
      BY <1>1, <1>2, <3>2, UntrackFields
    <3>4. \A d \in Cmds : ~(cmd[d].tab = t /\ cmd[d].pc \in Attaching)
      BY <3>1, <3>2 DEF Tracking
    <3> QED
      BY <1>1, <1>4, <3>2, <3>3, <3>4 DEF Tracking
  <2> QED
    BY <2>1, <2>2
<1>9. TrackingExact'
  BY <1>1, <1>3, <1>8 DEF Inv, TrackingExact
<1> QED
  BY <1>5, <1>7, <1>9 DEF Inv

\* From now on less is known of the debugger and of the recorder's hold.
LEMMA UserCancelsKeeps ==
  ASSUME Inv, NEW t \in Tabs, UserCancels(t)
  PROVE  Inv'
<1>1. /\ t \in attached /\ cancels < MaxCancels
      /\ attached' = attached \ {t} /\ dropped' = dropped \cup {t} /\ cancels' = cancels + 1
      /\ UNCHANGED <<open, detaching, worker, cmd, lifecycle>>
  BY DEF UserCancels
<1>2. cancels \in 0..MaxCancels /\ MaxCancels \in Nat
  BY DebuggerAssumption DEF Inv, TypeOK
<1>3. cancels' \in 0..MaxCancels /\ cancels' # 0
  BY <1>1, <1>2
<1>4. TypeOK'
  BY <1>1, <1>3 DEF Inv, TypeOK
<1>5. worker \in Worker
  BY DEF Inv, TypeOK
<1>6. PICK gone \in SUBSET Tabs : gone = {}
  OBVIOUS
<1>7. /\ StagesMatch' /\ LifecycleInOrder' /\ LocksHaveOwners' /\ RecorderInPhase'
      /\ HoldsJustified' /\ HoldsKept'
  BY <1>1, <1>3, <1>5, <1>6, TabStep DEF SameRecorder
<1>8. TrackingExact'
  BY <1>1, <1>3 DEF Inv, TrackingExact
<1> QED
  BY <1>4, <1>7, <1>8 DEF Inv

\* The event is that of a session the user has ended.
LEMMA OnDetachKeeps ==
  ASSUME Inv, NEW t \in Tabs, OnDetach(t)
  PROVE  Inv'
<1>1. /\ t \in dropped /\ worker' = Forget(worker, t) /\ dropped' = dropped \ {t}
      /\ UNCHANGED <<open, attached, detaching, cancels, cmd, lifecycle>>
  BY DEF OnDetach
<1>2. worker \in Worker /\ worker.lock \in [Tabs -> Cmds \cup {None}] /\ worker.holds \in [Tabs -> Nat]
  BY DEF Inv, TypeOK, Worker
<1>3. cancels # 0
  BY <1>1 DEF Inv, TrackingExact
<1>4. /\ worker' \in Worker /\ SameRecorder(worker', worker)
      /\ worker'.tracked = worker.tracked \ {t}
      /\ worker'.lock = [worker.lock EXCEPT ![t] = None]
      /\ worker'.holds = [worker.holds EXCEPT ![t] = 0]
  BY <1>1, <1>2, ForgetFields
<1>5. TypeOK'
  BY <1>1, <1>4 DEF Inv, TypeOK
<1>6. PICK gone \in SUBSET Tabs : gone = {t}
  OBVIOUS
<1>7. /\ \A u \in Tabs : worker'.lock[u] \in {worker.lock[u], None}
      /\ \A u \in Tabs : worker'.holds[u] = IF u \in gone THEN 0 ELSE worker.holds[u]
  BY <1>2, <1>4, <1>6
<1>8. /\ StagesMatch' /\ LifecycleInOrder' /\ LocksHaveOwners' /\ RecorderInPhase'
      /\ HoldsJustified' /\ HoldsKept'
  BY <1>1, <1>3, <1>4, <1>7, TabStep
<1>9. TrackingExact'
  BY <1>1, <1>3, <1>4 DEF Inv, TrackingExact
<1> QED
  BY <1>5, <1>8, <1>9 DEF Inv

LEMMA TabClosesKeeps ==
  ASSUME Inv, NEW t \in Tabs, TabCloses(t)
  PROVE  Inv'
<1>1. /\ open' = open \ {t} /\ attached' = attached \ {t} /\ dropped' = dropped \ {t}
      /\ worker' = Forget(worker, t) /\ UNCHANGED <<detaching, cancels, cmd, lifecycle>>
  BY DEF TabCloses
<1>2. worker \in Worker /\ worker.lock \in [Tabs -> Cmds \cup {None}] /\ worker.holds \in [Tabs -> Nat]
  BY DEF Inv, TypeOK, Worker
<1>3. /\ worker' \in Worker /\ SameRecorder(worker', worker)
      /\ worker'.tracked = worker.tracked \ {t}
      /\ worker'.lock = [worker.lock EXCEPT ![t] = None]
      /\ worker'.holds = [worker.holds EXCEPT ![t] = 0]
  BY <1>1, <1>2, ForgetFields
<1>4. TypeOK'
  BY <1>1, <1>3 DEF Inv, TypeOK
<1>5. PICK gone \in SUBSET Tabs : gone = {t}
  OBVIOUS
<1>6. /\ \A u \in Tabs : worker'.lock[u] \in {worker.lock[u], None}
      /\ \A u \in Tabs : worker'.holds[u] = IF u \in gone THEN 0 ELSE worker.holds[u]
      /\ open' \subseteq open /\ open' \cap gone = {}
  BY <1>1, <1>2, <1>3, <1>5
<1>7. /\ StagesMatch' /\ LifecycleInOrder' /\ LocksHaveOwners' /\ RecorderInPhase'
      /\ HoldsJustified' /\ HoldsKept'
  BY <1>1, <1>3, <1>6, TabStep
<1>8. ASSUME cancels = 0
      PROVE  \A u \in open' : Tracking(u)'
  BY <1>1, <1>2, <1>3, <1>8, TrackingElsewhere
<1>9. TrackingExact'
  BY <1>1, <1>3, <1>8 DEF Inv, TrackingExact
<1> QED
  BY <1>4, <1>7, <1>9 DEF Inv

-----------------------------------------------------------------------------
(* The invariant and the theorems                                            *)

LEMMA InitInv ==
  ASSUME Init
  PROVE  Inv
<1> USE DebuggerAssumption
<1>1. /\ open = Tabs /\ attached = {} /\ dropped = {} /\ detaching = [t \in Tabs |-> "no"]
      /\ worker = NewWorker /\ cmd = [c \in Cmds |-> NewCommand] /\ lifecycle = <<>> /\ cancels = 0
  BY DEF Init
<1>2. /\ worker \in Worker /\ worker.tracked = {} /\ worker.recTab = None
      /\ worker.listening = None /\ ~worker.reserved /\ ~worker.recording
      /\ \A t \in Tabs : worker.lock[t] = None /\ worker.holds[t] = 0
  BY <1>1 DEF NewWorker, Worker
<1>3. NewCommand \in Command /\ NewCommand.pc = "new" /\ NewCommand.kind = "run"
  BY DEF NewCommand, Command, Stages
<1>4. cmd \in [Cmds -> Command] /\ \A c \in Cmds : cmd[c].pc = "new" /\ cmd[c].kind = "run"
  BY <1>1, <1>3
<1>5. cancels \in 0..MaxCancels /\ lifecycle \in Seq(Cmds)
  BY <1>1
<1>6. TypeOK
  BY <1>1, <1>2, <1>4, <1>5 DEF TypeOK
<1>7. StagesMatch
  BY <1>4 DEF StagesMatch, InStage, Attaching
<1>8. LifecycleInOrder
  BY <1>1, <1>4 DEF LifecycleInOrder, Listed
<1>9. LocksHaveOwners
  BY <1>2, <1>4 DEF LocksHaveOwners
<1>10. RecorderInPhase
  BY <1>2, <1>4 DEF RecorderInPhase, AtRest, Busy, Listed
<1>11. HoldsJustified
  BY <1>2 DEF HoldsJustified
<1>12. HoldsKept
  <2>1. \A c \in Cmds, t \in Tabs : ~Recorders(cmd[c], t)
    BY <1>4 DEF Recorders
  <2>2. \A t \in Tabs : worker.recTab # t
    BY <1>2
  <2> QED
    BY <1>1, <2>1, <2>2 DEF HoldsKept
<1>13. TrackingExact
  BY <1>1, <1>2, <1>4 DEF TrackingExact, Tracking, Attaching
<1> QED
  BY <1>6, <1>7, <1>8, <1>9, <1>10, <1>11, <1>12, <1>13 DEF Inv

LEMMA NextInv ==
  ASSUME Inv, [Next]_vars
  PROVE  Inv'
<1>1. CASE UNCHANGED vars
  BY <1>1 DEF vars, Inv, TypeOK, StagesMatch, LifecycleInOrder, LocksHaveOwners, RecorderInPhase,
              HoldsJustified, HoldsKept, TrackingExact, Tracking
<1>2. ASSUME NEW c \in Cmds, Answered(c) PROVE Inv'
  BY <1>2, TargetsAnsweredKeeps, AttachSucceedsKeeps, AttachRefusedKeeps, TabAnsweredKeeps,
     TabMissingKeeps, FinishKeeps DEF Answered
<1>3. ASSUME NEW c \in Cmds, RecordingStep(c) PROVE Inv'
  BY <1>3, StartBusyKeeps, StartReservesKeeps, StartFindsNoTabKeeps, StartHoldsKeeps,
     StartRecordsKeeps, StartDoneKeeps, InjectFailsKeeps, StartAbortsKeeps, StopBeginsKeeps,
     StopFindsRecordingKeeps, StopFindsNoneKeeps, StopSavedKeeps DEF RecordingStep
<1>4. ASSUME NEW c \in Cmds, NEW kind \in {"run", "start", "stop"}, Receive(c, kind) PROVE Inv'
  BY <1>4, ReceiveRunKeeps, ReceiveRecordingKeeps
<1>5. ASSUME NEW t \in Tabs,
             TimerFires(t) \/ DetachAnswered(t) \/ UserCancels(t) \/ OnDetach(t) \/ TabCloses(t)
      PROVE  Inv'
  BY <1>5, TimerFiresKeeps, DetachAnsweredKeeps, UserCancelsKeeps, OnDetachKeeps, TabClosesKeeps
<1> QED
  BY <1>1, <1>2, <1>3, <1>4, <1>5 DEF Next

\* Every reachable state satisfies the inductive invariant: who is at which stage of an
\* attach or of a recording, which locks and holds there are for it, and what the worker
\* believes of the debugger of each tab.
THEOREM Invariance == Spec => []Inv
BY InitInv, NextInv, PTL DEF Spec

\* The variables have their types, the tabs with a debugger are open and the holds,
\* locks and recorder variables of the worker are well formed, however many commands
\* overlap.
THEOREM TypeCorrect == Spec => []TypeOK
<1>1. Inv => TypeOK
  BY DEF Inv
<1> QED
  BY <1>1, Invariance, PTL

\* Every lock, and every promise a command waits for, is that of a command that is still
\* attaching; and until the user ends a session, trackedTabs is true of every tab but for
\* answers under way.
THEOREM AttachmentsAreAccurate == Spec => []AttachmentsAccurate
<1>1. ASSUME Inv PROVE TrackedIsAttached
  <2> SUFFICES ASSUME cancels = 0, NEW t \in Tabs
               PROVE  /\ t \in worker.tracked => t \in attached \/ detaching[t] = "done"
                      /\ t \in attached =>
                           t \in worker.tracked \/ \E c \in Cmds : cmd[c].tab = t /\ cmd[c].pc = "tab"
    BY DEF TrackedIsAttached
  <2>1. CASE t \in open
    BY <1>1, <2>1 DEF Inv, TrackingExact, Tracking
  <2>2. CASE t \notin open
    BY <1>1, <2>2 DEF Inv, TypeOK, TrackingExact
  <2> QED
    BY <2>1, <2>2
<1>2. Inv => AttachmentsAccurate
  BY <1>1 DEF Inv, AttachmentsAccurate
<1> QED
  BY <1>2, Invariance, PTL

\* Every hold is that of a start under way, of the recording or of the stop that ends it,
\* and there is one at most; when no start or stop is under way, the reservation, the
\* recording and the two tabs of the recorder agree, wherever the last one failed.
THEOREM RecorderIsConsistent == Spec => []RecorderConsistent
<1>1. ASSUME Inv PROVE RecorderAtRest
  <2> SUFFICES ASSUME lifecycle = <<>>
               PROVE  /\ worker.reserved = worker.recording
                      /\ worker.recording = (worker.recTab /= None)
                      /\ worker.listening = worker.recTab
    BY DEF RecorderAtRest
  <2>1. \A c \in Cmds : ~Busy(cmd[c])
    BY <1>1, BusyIsHead
  <2>2. AtRest(worker)
    BY <1>1, <2>1 DEF Inv, RecorderInPhase
  <2>3. worker.reserved \in BOOLEAN /\ worker.recording \in BOOLEAN
    BY <1>1 DEF Inv, TypeOK, Worker
  <2>4. worker.reserved = worker.recording
    BY <2>2, <2>3 DEF AtRest
  <2>5. worker.recording = (worker.recTab /= None)
    BY <2>2, <2>3 DEF AtRest
  <2> QED
    BY <2>2, <2>4, <2>5 DEF AtRest
<1>2. Inv => RecorderConsistent
  BY <1>1 DEF Inv, RecorderConsistent
<1> QED
  BY <1>2, Invariance, PTL

\* As long as the user ends no session, the recorded tab keeps its debugger until it is
\* closed: the recorder's hold is counted and stops every idle timer, whichever command
\* has set it.
THEOREM RecordingHoldsDebugger == Spec => RecordingKeepsDebugger
<1>1. ASSUME Inv, [Next]_vars, cancels' = 0, NEW t \in Tabs,
             worker.recTab = t, t \in attached, t \in open'
      PROVE  t \in attached'
  <2>1. cancels \in Nat /\ attached \subseteq open
    BY <1>1 DEF Inv, TypeOK
  <2>2. CASE UNCHANGED attached
    BY <1>1, <2>2
  <2>3. CASE \E c \in Cmds : AttachSucceeds(c)
    BY <1>1, <2>3 DEF AttachSucceeds
  <2>4. ASSUME NEW u \in Tabs, TimerFires(u), t \notin attached'
        PROVE  FALSE
    <3>1. u = t /\ Detachable(t) /\ cancels = 0
      BY <1>1, <2>4 DEF TimerFires
    <3>2. worker.holds[t] = 1
      BY <1>1, <2>1, <3>1 DEF Inv, HoldsKept
    <3> QED
      BY <3>1, <3>2 DEF Detachable
  <2>5. ASSUME NEW u \in Tabs, UserCancels(u)
        PROVE  FALSE
    BY <1>1, <2>1, <2>5 DEF UserCancels
  <2>6. ASSUME NEW u \in Tabs, TabCloses(u)
        PROVE  t \in attached'
    BY <1>1, <2>6 DEF TabCloses
  <2>7. ASSUME NEW u \in Tabs, DetachAnswered(u) \/ OnDetach(u)
        PROVE  UNCHANGED attached
    BY <2>7 DEF DetachAnswered, OnDetach
  <2>8. ASSUME NEW c \in Cmds,
               \/ Answered(c) /\ ~AttachSucceeds(c)
               \/ RecordingStep(c)
               \/ \E kind \in {"run", "start", "stop"} : Receive(c, kind)
        PROVE  UNCHANGED attached
    BY <2>8 DEF Answered, RecordingStep, Receive, TargetsAnswered, AttachRefused, TabAnswered,
                TabMissing, Finish, StartBusy, StartReserves, StartFindsNoTab, StartHolds,
                StartRecords, StartDone, InjectFails, StartAborts, StopBegins, StopFindsRecording,
                StopFindsNone, StopSaved, Browser
  <2> QED
    BY <1>1, <2>2, <2>3, <2>4, <2>5, <2>6, <2>7, <2>8 DEF Next, vars
<1>2. ASSUME Inv, [Next]_vars
      PROVE  [cancels' = 0 => \A t \in Tabs :
                worker.recTab = t /\ t \in attached /\ t \in open' => t \in attached']_vars
  BY <1>1, <1>2
<1> QED
  BY <1>2, Invariance, PTL DEF Spec, RecordingKeepsDebugger
=============================================================================
