--------------------------- MODULE BrokerLauncher ---------------------------
(***************************************************************************)
(* How independent processes agree on one Broker: ensureBroker and         *)
(* stopBroker of mcp-server/src/broker-launcher.ts, each run by a process  *)
(* of its own, the lock file they share, and the Brokers they spawn        *)
(* (broker-entry.ts).                                                      *)
(*                                                                         *)
(* One step is one system call or one answered probe: other processes run  *)
(* in between.  The lock file is known by the process that created it      *)
(* (its inode), because a descriptor and a path may name different files.  *)
(* The delays between two probes and the 5 s of a call are not counted: a  *)
(* call may time out in every state in which the code looks at the clock.  *)
(***************************************************************************)
EXTENDS Naturals, FiniteSets

CONSTANTS
  Starters,      \* processes that call ensureBroker
  Stoppers,      \* processes that call stopBroker
  Children,      \* pids of the Brokers that may be spawned
  Ports,         \* ports the callers may be configured with
  ForeignPorts,  \* ports held by something that is not an Arc Tunnel Broker
  MaxFaults,     \* bound on processes killed from outside, failed spawns, failed
                 \* writes of the lock and deadlines
  None,          \* no value
  Empty          \* the lock file of length zero

ASSUME LauncherAssumption ==
  /\ ForeignPorts \subseteq Ports
  /\ MaxFaults \in Nat
  /\ Starters \cap Stoppers = {}
  /\ (Starters \cup Stoppers) \cap Children = {}

VARIABLES
  caller,   \* the calls, by process
  lock,     \* the file at lockPath
  broker,   \* the Brokers, by pid
  faults    \* faults so far

vars == <<caller, lock, broker, faults>>

Callers == Starters \cup Stoppers
Pids == Callers \cup Children

\* A lock's content: who is starting or running the Broker, on which port.
Raw == [pid : Pids, port : Ports]

LockFile == [file : Callers, data : Raw \cup {Empty}]

LaunchSteps ==
  {"probe", "open", "write", "spawn", "truncate", "record", "health", "kill"}
WaitSteps == {"wait", "look", "otherPort", "judge"}
StopSteps == {"stopProbe", "gone", "stopLook", "dying", "stopCheck"}
RemoveSteps == {"compare", "unlink"}
Ends == {"ok", "failed", "crashed"}

(***************************************************************************)
(* A call: port is its configuration, snap the lock content it has read or *)
(* written, fd the file its descriptor names, child the Broker it spawned, *)
(* saw the Broker its last successful probe reached, and role what it      *)
(* removes the lock for.                                                   *)
(***************************************************************************)
Call ==
  [pc : {"idle"} \cup LaunchSteps \cup WaitSteps \cup StopSteps \cup RemoveSteps \cup Ends,
   port : Ports \cup {None}, snap : Raw \cup {None}, fd : Callers \cup {None},
   child : Children \cup {None}, saw : Children \cup {None},
   role : {"none", "fail", "wait", "stop"}]

\* starting: not yet listening; stopping: has the signal and still listens;
\* closing: listens no more, but the process is still there.
Broker ==
  [st : {"unused", "starting", "serving", "stopping", "closing", "dead"},
   port : Ports \cup {None}]

TypeOK ==
  /\ caller \in [Callers -> Call]
  /\ lock \in LockFile \cup {None}
  /\ broker \in [Children -> Broker]
  /\ faults \in 0..MaxFaults

NewCall ==
  [pc |-> "idle", port |-> None, snap |-> None, fd |-> None,
   child |-> None, saw |-> None, role |-> "none"]

Init ==
  /\ caller = [p \in Callers |-> NewCall]
  /\ lock = None
  /\ broker = [c \in Children |-> [st |-> "unused", port |-> None]]
  /\ faults = 0

-----------------------------------------------------------------------------
(* What a process can find out about the others.                           *)

Listens(c, port) == broker[c].port = port /\ broker[c].st \in {"serving", "stopping"}

\* The outcomes of a probe.  A Broker that is being stopped may still answer,
\* or reset the connection, which is the transient kind of foreign.
Arc(port, c) == Listens(c, port)
Absent(port) == port \notin ForeignPorts /\ \A c \in Children : ~Listens(c, port)
Transient(port) == \E c \in Children : Listens(c, port) /\ broker[c].st = "stopping"
Foreign(port) == port \in ForeignPorts \/ Transient(port)

pidAlive(pid) ==
  IF pid \in Children
  THEN broker[pid].st \in {"starting", "serving", "stopping", "closing"}
  ELSE caller[pid].pc \notin {"failed", "crashed"}

\* SIGTERM kills a Broker that has not installed its handler yet.
Signalled(c) ==
  [broker EXCEPT ![c].st = IF @ = "starting" THEN "dead"
                           ELSE IF @ = "serving" THEN "stopping" ELSE @]

Fault == faults < MaxFaults /\ faults' = faults + 1

At(p, pc) == caller[p].pc = pc
Goto(p, pc) == caller' = [caller EXCEPT ![p].pc = pc]
Reached(p, c) == caller' = [caller EXCEPT ![p].pc = "ok", ![p].saw = c]
RemoveFor(p, role, raw) ==
  caller' = [caller EXCEPT ![p].pc = "compare", ![p].role = role, ![p].snap = raw]

-----------------------------------------------------------------------------
(* launch                                                                  *)

EnsureBroker(p, port) ==
  /\ At(p, "idle")
  /\ caller' = [caller EXCEPT ![p].pc = "probe", ![p].port = port]
  /\ UNCHANGED <<lock, broker, faults>>

LaunchProbe(p) ==
  /\ At(p, "probe")
  /\ \/ \E c \in Children : Arc(caller[p].port, c) /\ Reached(p, c)
     \/ Foreign(caller[p].port) /\ Goto(p, "failed")
     \/ Absent(caller[p].port) /\ Goto(p, "open")
  /\ UNCHANGED <<lock, broker, faults>>

\* A bug: The lock is opened with 'w': whoever comes last has it.
CreateLockOver(p) ==
  /\ At(p, "open")
  /\ lock' = [file |-> p, data |-> Empty]
  /\ Goto(p, "write")
  /\ UNCHANGED <<broker, faults>>

\* openSync(lockPath, 'wx')
CreateLock(p) ==
  /\ At(p, "open")
  /\ IF lock = None
     THEN lock' = [file |-> p, data |-> Empty] /\ Goto(p, "write")
     ELSE UNCHANGED lock /\ Goto(p, "wait")
  /\ UNCHANGED <<broker, faults>>

\* The descriptor still names the file this process created, even if it has
\* been unlinked and another one is at lockPath.  A write that fails leaves
\* the file without a content that can be read, and the catch of launch, which
\* expects the content that was to be written, leaves it there.
WriteLock(p) ==
  /\ At(p, "write")
  /\ LET owned == [pid |-> p, port |-> caller[p].port]
     IN \/ /\ lock' = IF lock /= None /\ lock.file = p
                      THEN [lock EXCEPT !.data = owned] ELSE lock
           /\ Goto(p, "spawn")
           /\ UNCHANGED faults
        \/ Fault /\ RemoveFor(p, "fail", owned) /\ UNCHANGED lock
  /\ UNCHANGED broker

\* The spawn may fail, as may the close of the descriptor before it.
Spawn(p) ==
  /\ At(p, "spawn")
  /\ \/ \E c \in Children :
          /\ broker[c].st = "unused"
          /\ broker' = [broker EXCEPT ![c] = [st |-> "starting", port |-> caller[p].port]]
          /\ caller' = [caller EXCEPT ![p].pc = "truncate", ![p].child = c]
          /\ UNCHANGED faults
     \/ /\ Fault
        /\ RemoveFor(p, "fail", [pid |-> p, port |-> caller[p].port])
        /\ UNCHANGED broker
  /\ UNCHANGED lock

\* The open or the write throws: the lock names the starter still, or nobody
\* any more, and launch gives up.
RewriteFails(p) == Fault /\ Goto(p, "kill") /\ UNCHANGED lock

\* writeFileSync(lockPath, ...) opens whatever is at lockPath, creates it if
\* there is nothing, and truncates it before it writes.
TruncateLock(p) ==
  /\ At(p, "truncate")
  /\ LET file == IF lock = None THEN p ELSE lock.file
     IN \/ /\ lock' = [file |-> file, data |-> Empty]
           /\ caller' = [caller EXCEPT ![p].pc = "record", ![p].fd = file]
           /\ UNCHANGED faults
        \/ RewriteFails(p)
  /\ UNCHANGED broker

RecordChild(p) ==
  /\ At(p, "record")
  /\ \/ /\ lock' = IF lock /= None /\ lock.file = caller[p].fd
                   THEN [lock EXCEPT !.data = [pid |-> caller[p].child, port |-> caller[p].port]]
                   ELSE lock
        /\ Goto(p, "health")
        /\ UNCHANGED faults
     \/ RewriteFails(p)
  /\ UNCHANGED broker

\* waitForBroker
AwaitHealth(p) ==
  /\ At(p, "health")
  /\ \/ \E c \in Children : Arc(caller[p].port, c) /\ Reached(p, c)
     \/ Foreign(caller[p].port) /\ Goto(p, "kill")
  /\ UNCHANGED <<lock, broker, faults>>

HealthTimesOut(p) ==
  /\ Fault
  /\ At(p, "health")
  /\ Goto(p, "kill")
  /\ UNCHANGED <<lock, broker>>

\* The catch of launch: kill the child, then remove the lock that names it.
KillChild(p) ==
  /\ At(p, "kill")
  /\ broker' = Signalled(caller[p].child)
  /\ RemoveFor(p, "fail", [pid |-> caller[p].child, port |-> caller[p].port])
  /\ UNCHANGED <<lock, faults>>

-----------------------------------------------------------------------------
(* removeLock: read and compare, then unlink whatever is there by then.    *)

Removed(p) ==
  Goto(p, CASE caller[p].role = "fail" -> "failed"
            [] caller[p].role = "wait" -> "probe"
            [] OTHER -> "ok")

NotRemoved(p) ==
  Goto(p, CASE caller[p].role = "fail" -> "failed"
            [] caller[p].role = "wait" -> "wait"
            [] OTHER -> "failed")

CompareLock(p) ==
  /\ At(p, "compare")
  /\ IF lock /= None /\ lock.data = caller[p].snap THEN Goto(p, "unlink") ELSE NotRemoved(p)
  /\ UNCHANGED <<lock, broker, faults>>

UnlinkLock(p) ==
  /\ At(p, "unlink")
  /\ lock' = None
  /\ IF lock = None THEN NotRemoved(p) ELSE Removed(p)
  /\ UNCHANGED <<broker, faults>>

-----------------------------------------------------------------------------
(* waitForLockOwner                                                        *)

WaitProbe(p) ==
  /\ At(p, "wait")
  /\ \/ \E c \in Children : Arc(caller[p].port, c) /\ Reached(p, c)
     \/ Foreign(caller[p].port) /\ Goto(p, "failed")
     \/ Absent(caller[p].port) /\ Goto(p, "look")
  /\ UNCHANGED <<lock, broker, faults>>

LookAtLock(p) ==
  /\ At(p, "look")
  /\ IF lock = None \/ lock.data = Empty
     THEN Goto(p, "wait")
     ELSE caller' = [caller EXCEPT
            ![p].pc = IF lock.data.port = caller[p].port THEN "judge" ELSE "otherPort",
            ![p].snap = lock.data]
  /\ UNCHANGED <<lock, broker, faults>>

\* A bug: Only the own port is ever probed.
ProbeNoOtherPort(p) ==
  /\ At(p, "otherPort")
  /\ Goto(p, "judge")
  /\ UNCHANGED <<lock, broker, faults>>

ProbeOtherPort(p) ==
  /\ At(p, "otherPort")
  /\ \/ (\E c \in Children : Arc(caller[p].snap.port, c)) /\ Goto(p, "failed")
     \/ Foreign(caller[p].snap.port) /\ Goto(p, "judge")
     \/ Absent(caller[p].snap.port) /\ Goto(p, "judge")
  /\ UNCHANGED <<lock, broker, faults>>

JudgeOwner(p) ==
  /\ At(p, "judge")
  /\ IF pidAlive(caller[p].snap.pid)
     THEN Goto(p, "wait")
     ELSE RemoveFor(p, "wait", caller[p].snap)
  /\ UNCHANGED <<lock, broker, faults>>

WaitTimesOut(p) ==
  /\ Fault
  /\ At(p, "wait")
  /\ Goto(p, "failed")
  /\ UNCHANGED <<lock, broker>>

-----------------------------------------------------------------------------
(* stopBroker and removeStoppedLock                                        *)

StopBroker(p, port) ==
  /\ At(p, "idle")
  /\ caller' = [caller EXCEPT ![p].pc = "stopProbe", ![p].port = port]
  /\ UNCHANGED <<lock, broker, faults>>

\* A transient foreign answer is probed again; every other outcome decides.
StopProbe(p) ==
  /\ At(p, "stopProbe")
  /\ \/ \E c \in Children :
          /\ Arc(caller[p].port, c)
          /\ broker' = Signalled(c)
          /\ caller' = [caller EXCEPT ![p].pc = "gone", ![p].saw = c]
     \/ caller[p].port \in ForeignPorts /\ Goto(p, "failed") /\ UNCHANGED broker
     \/ Absent(caller[p].port) /\ Goto(p, "stopLook") /\ UNCHANGED broker
  /\ UNCHANGED <<lock, faults>>

AwaitGone(p) ==
  /\ At(p, "gone")
  /\ Absent(caller[p].port)
  /\ Goto(p, "stopLook")
  /\ UNCHANGED <<lock, broker, faults>>

LookAtStoppedLock(p) ==
  /\ At(p, "stopLook")
  /\ IF lock = None THEN Goto(p, "ok")
     ELSE IF lock.data = Empty THEN Goto(p, "failed")
     ELSE IF lock.data.port /= caller[p].port THEN Goto(p, "ok")
     ELSE caller' = [caller EXCEPT ![p].pc = "dying", ![p].snap = lock.data]
  /\ UNCHANGED <<lock, broker, faults>>

\* Only a call that has itself stopped a Broker waits for the process to end.
AwaitDead(p) ==
  /\ At(p, "dying")
  /\ \/ ~pidAlive(caller[p].snap.pid) /\ Goto(p, "stopCheck")
     \/ pidAlive(caller[p].snap.pid) /\ caller[p].saw = None /\ Goto(p, "failed")
  /\ UNCHANGED <<lock, broker, faults>>

\* A bug: A stop is done when the port is free.
CheckAbsentOnly(p) ==
  /\ At(p, "stopCheck")
  /\ Goto(p, IF Absent(caller[p].port) THEN "ok" ELSE "failed")
  /\ UNCHANGED <<lock, broker, faults>>

CheckAbsent(p) ==
  /\ At(p, "stopCheck")
  /\ IF Absent(caller[p].port) THEN RemoveFor(p, "stop", caller[p].snap) ELSE Goto(p, "failed")
  /\ UNCHANGED <<lock, broker, faults>>

StopTimesOut(p) ==
  /\ Fault
  /\ caller[p].pc \in {"stopProbe", "gone", "dying", "stopCheck"}
  /\ Goto(p, "failed")
  /\ UNCHANGED <<lock, broker>>

-----------------------------------------------------------------------------
(* The Brokers, and what ends processes from outside.                      *)

\* main of broker-entry.ts: a Broker that cannot listen exits.
Listen(c) ==
  /\ broker[c].st = "starting"
  /\ broker' = [broker EXCEPT ![c].st = IF Absent(broker[c].port) THEN "serving" ELSE "dead"]
  /\ UNCHANGED <<caller, lock, faults>>

\* performStop stops listening, then main exits.
StopListening(c) ==
  /\ broker[c].st = "stopping"
  /\ broker' = [broker EXCEPT ![c].st = "closing"]
  /\ UNCHANGED <<caller, lock, faults>>

Exit(c) ==
  /\ broker[c].st = "closing"
  /\ broker' = [broker EXCEPT ![c].st = "dead"]
  /\ UNCHANGED <<caller, lock, faults>>

BrokerCrashes(c) ==
  /\ Fault
  /\ broker[c].st \in {"starting", "serving"}
  /\ broker' = [broker EXCEPT ![c].st = "dead"]
  /\ UNCHANGED <<caller, lock>>

CallerCrashes(p) ==
  /\ Fault
  /\ caller[p].pc \notin {"idle"} \cup Ends
  /\ Goto(p, "crashed")
  /\ UNCHANGED <<lock, broker>>

-----------------------------------------------------------------------------
\* What a call does by itself, without reaching its deadline.
Proceeds(p) ==
  \/ LaunchProbe(p) \/ CreateLock(p) \/ WriteLock(p) \/ Spawn(p)
  \/ TruncateLock(p) \/ RecordChild(p) \/ AwaitHealth(p) \/ KillChild(p)
  \/ CompareLock(p) \/ UnlinkLock(p)
  \/ WaitProbe(p) \/ LookAtLock(p) \/ ProbeOtherPort(p) \/ JudgeOwner(p)
  \/ StopProbe(p) \/ AwaitGone(p) \/ LookAtStoppedLock(p) \/ AwaitDead(p) \/ CheckAbsent(p)

Next ==
  \/ \E p \in Starters, port \in Ports : EnsureBroker(p, port)
  \/ \E p \in Stoppers, port \in Ports : StopBroker(p, port)
  \/ \E p \in Callers :
       \/ Proceeds(p)
       \/ HealthTimesOut(p) \/ WaitTimesOut(p) \/ StopTimesOut(p)
       \/ CallerCrashes(p)
  \/ \E c \in Children : Listen(c) \/ StopListening(c) \/ Exit(c) \/ BrokerCrashes(c)

Spec == Init /\ [][Next]_vars

\* A process that can run runs, and a Broker gets on with starting and
\* stopping: nothing is assumed of timeouts and crashes.
FairSpec ==
  /\ Spec
  /\ \A p \in Callers : WF_vars(Proceeds(p))
  /\ \A c \in Children : WF_vars(Listen(c) \/ StopListening(c) \/ Exit(c))

-----------------------------------------------------------------------------
(* Properties                                                              *)

Failed(p) == At(p, "failed")
Succeeded(p) == At(p, "ok")

\* Only starts so far: no stop, no fault.
OnlyStarts == faults = 0 /\ \A p \in Stoppers : At(p, "idle")

\* The lock, and the probe of the port it names, admit one Broker at a time,
\* also when its starters are configured with different ports: as long as no
\* process dies, no call reaches its deadline and nobody stops a Broker, no
\* second one is spawned (launch).
OneBroker ==
  OnlyStarts => Cardinality({c \in Children : broker[c].st \in {"starting", "serving"}}) <= 1

\* Whoever loses the race for the lock ends up at the winner's Broker, unless
\* the port is taken or that Broker serves another one (waitForLockOwner).
EveryStartConnects ==
  \A p \in Starters :
    At(p, "probe") ~>
      \/ ~OnlyStarts
      \/ Succeeded(p)
      \/ Failed(p) /\ caller[p].port \in ForeignPorts
      \/ Failed(p) /\ \E c \in Children :
           broker[c].st = "serving" /\ broker[c].port /= caller[p].port

\* A start that gave up leaves neither its Broker running nor the lock naming
\* it, whatever other calls, failed writes, deadlines and crashes come in
\* between.
FailedStartCleansUp ==
  \A p \in Starters : Failed(p) /\ caller[p].child /= None =>
    /\ broker[caller[p].child].st \notin {"starting", "serving"}
    /\ lock /= None /\ lock.data /= Empty => lock.data.pid /= caller[p].child

\* When a stop that signalled a Broker succeeds, no lock names this Broker any
\* more, and it does not listen, whatever starts go on meanwhile, as long as
\* nobody dies or gives up (removeStoppedLock).
StoppedBrokerForgotten ==
  \A p \in Stoppers : faults = 0 /\ Succeeded(p) /\ caller[p].saw /= None =>
    /\ broker[caller[p].saw].st \in {"closing", "dead"}
    /\ lock /= None /\ lock.data /= Empty => lock.data.pid /= caller[p].saw

\* Both: no Broker and no lock outlives the call that was to remove them.
NothingLeftBehind == FailedStartCleansUp /\ StoppedBrokerForgotten

\* removeLock only unlinks the lock it has compared: a lock that another
\* process has put in its place is retained.
ReplacementLockRetained ==
  [][\A p \in Callers :
       At(p, "unlink") /\ caller'[p].pc \in {"ok", "failed", "probe"} /\ lock /= None
         => lock.data = caller[p].snap]_vars

\* A lock file without content is one that somebody is about to write.
EmptyLockInProgress ==
  lock /= None /\ lock.data = Empty =>
    \E p \in Callers : \/ At(p, "write") /\ lock.file = p
                       \/ At(p, "record") /\ lock.file = caller[p].fd

\* A start that gives up does not kill a Broker that another start has already
\* reported as healthy to its caller.
ReportedBrokerKept ==
  [][\A p, q \in Starters :
       At(q, "kill") /\ caller'[q].pc = "compare" /\ Succeeded(p)
         => caller[p].saw /= caller[q].child]_vars
=============================================================================
