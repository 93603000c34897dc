--------------------------- MODULE PageCommandsProofs ---------------------------
(***************************************************************************)
(* Theorems about PageCommands, for any number of commands, elements and   *)
(* changes of the page: the snapshots an Agent is shown include the input  *)
(* and the navigations that were answered before, and a script is run at   *)
(* most twice.                                                             *)
(***************************************************************************)
EXTENDS PageCommands, FiniteSetTheorems, TLAPS

-----------------------------------------------------------------------------
(* The inductive invariant                                                   *)

Acts(r) == r.kind \in {"click", "check", "press"}
Runs(r) == r.kind \in {"script", "wait"}

\* A script is where a script can be, and the runs it has had, with the one that
\* may still come of an attempt that was given up (stray), are those of the stages
\* it has been through.
ScriptInStage(r, stray) ==
  /\ r.pc \in {"light", "attached"} => Runs(r)
  /\ Runs(r) => r.pc \in {"light", "attached", "done"}
  /\ r.pc \in {"new", "light"} => r.runs = 0
  /\ r.pc # "done" => ~r.ok
  /\ stray => r.kind = "script" /\ r.pc \in {"attached", "done"}
  /\ r.kind = "script" =>
       /\ r.pc = "attached" => r.runs <= IF stray THEN 0 ELSE 1
       /\ r.pc = "done" => r.runs <= IF stray THEN 1 ELSE 2
       /\ r.pc = "done" /\ r.ok => r.runs >= 1

\* The stages of a navigation.
Travels == {"enable", "going", "loading", "history"}

\* A command that acts on the page counts the change it has made, and reads the
\* tree it answers with after that; a navigation answers with none.
TreeInStage(r, now) ==
  /\ r.hitAt <= now
  /\ r.pc = "new" => r.hitAt = 0
  /\ r.pc = "title" => r.tree.at >= r.hitAt
  /\ r.pc = "done" /\ r.ok /\ Acts(r) => r.tree.at >= r.hitAt
  /\ r.then = "find" => r.ref >= 1
  /\ r.pc \in Travels => ~Acts(r) /\ r.kind \notin Answers

\* A snapshot shows all that was done before it, of the commands cs and of the last
\* answered action, or is marked as overtaken.
Covers(s, cs, last) ==
  s.overtaken \/ (s.at >= last /\ \A c \in Cmds : Acts(cs[c]) => s.at >= cs[c].hitAt)

CommandsInStage ==
  \A c \in Cmds : ScriptInStage(cmd[c], c \in strays) /\ TreeInStage(cmd[c], page.at)

SnapshotsCover ==
  /\ acted <= page.at
  /\ Cached => Covers(cache, cmd, acted)
  /\ \A c \in Cmds : cmd[c].pc = "title" => Covers(cmd[c].tree, cmd, acted)

\* A command on its own reads no tree that is overtaken, no action is answered
\* while it is under way, and its answer shows the last action before it.
InTurn(r, last) ==
  /\ r.pc = "title" => ~r.tree.overtaken
  /\ r.pc \notin {"new", "done"} /\ r.kind \in Answers => r.after = last
  /\ r.pc = "done" /\ r.ok /\ r.kind \in Answers => r.tree.at >= r.after

\* As long as none has overlapped another, one command at most is under way.
OneAfterAnother ==
  /\ \A c \in Cmds : At(c, "new") => cmd[c].alone
  /\ ~Overlapped =>
       /\ \A c, d \in Cmds : c = d \/ Idle(c) \/ Idle(d)
       /\ ~cache.overtaken
       /\ \A c \in Cmds : InTurn(cmd[c], acted)

Inv == TypeOK /\ CommandsInStage /\ SnapshotsCover /\ OneAfterAnother

-----------------------------------------------------------------------------
(* The page and the snapshots of it                                          *)

\* The contents of the page are sequences of its elements.
LEMMA ContentsAreSequences == Contents \subseteq Seq(Elements)
<1> USE PageAssumption
<1>1. SUFFICES ASSUME NEW els \in Contents PROVE els \in Seq(Elements)
  OBVIOUS
<1>2. Cardinality(Elements) \in Nat
  BY FS_CardinalityType
<1>3. PICK n \in 0..Cardinality(Elements) : els \in [1..n -> Elements]
  BY DEF Contents
<1>4. n \in Nat
  BY <1>2, <1>3
<1> QED
  BY <1>3, <1>4

\* What may have changed the page has counted it, and has kept within the bound.
LEMMA MayChangeCounts ==
  ASSUME TypeOK, NEW p \in MayChange(page)
  PROVE  /\ p \in [at : 1..(MaxChanges + 1), els : Seq(Elements)]
         /\ p.at >= page.at
<1> USE PageAssumption
<1>1. page \in [at : 1..(MaxChanges + 1), els : Seq(Elements)]
  BY DEF TypeOK
<1>2. CASE p = page
  BY <1>1, <1>2
<1>3. CASE p # page
  <2>1. page.at <= MaxChanges
    BY <1>1, <1>3 DEF MayChange
  <2>2. PICK els \in Contents : p = [at |-> page.at + 1, els |-> els]
    BY <1>3, <2>1 DEF MayChange
  <2> QED
    BY <1>1, <2>1, <2>2, ContentsAreSequences
<1> QED
  BY <1>2, <1>3

\* A page that is left alone may be said to have changed, too.
LEMMA SamePage == page \in MayChange(page)
BY DEF MayChange

LEMMA NoSnapshotType == NoSnapshot \in Snapshots
<1>1. <<>> \in Seq(Elements)
  OBVIOUS
<1> QED
  BY <1>1, PageAssumption DEF NoSnapshot, Snapshot, Snapshots

\* A snapshot of the page as it is now covers all that was done.
LEMMA NewSnapshotCovers ==
  ASSUME Inv
  PROVE  /\ Snapshot(page.at, page.els, FALSE) \in Snapshots
         /\ Covers(Snapshot(page.at, page.els, FALSE), cmd, acted)
<1> USE PageAssumption DEF Inv, TypeOK
<1>1. page \in [at : 1..(MaxChanges + 1), els : Seq(Elements)]
  OBVIOUS
<1>2. Snapshot(page.at, page.els, FALSE) \in Snapshots
  BY <1>1 DEF Snapshot, Snapshots
<1>3. \A c \in Cmds : page.at >= cmd[c].hitAt
  BY DEF CommandsInStage, TreeInStage, Command
<1>4. page.at >= acted
  BY <1>1 DEF SnapshotsCover
<1> QED
  BY <1>2, <1>3, <1>4 DEF Covers, Snapshot

-----------------------------------------------------------------------------
(* Steps that change one command                                             *)

\* What covers the commands and the last action covers them when one of them has
\* changed, unless it has acted by that; the action that is answered is one of theirs.
LEMMA CoversKept ==
  ASSUME NEW c \in Cmds, NEW r \in Command, NEW f \in [Cmds -> Command],
         NEW a \in Nat, NEW b \in Nat, NEW s \in Snapshots,
         Covers(s, f, a),
         b = a \/ (Acts(f[c]) /\ b = f[c].hitAt),
         Acts(r) /\ r.hitAt # 0 => Acts(f[c]) /\ r.hitAt = f[c].hitAt
  PROVE  Covers(s, [f EXCEPT ![c] = r], b)
<1> SUFFICES ASSUME ~s.overtaken
             PROVE  /\ s.at >= b
                    /\ \A d \in Cmds : Acts([f EXCEPT ![c] = r][d])
                         => s.at >= [f EXCEPT ![c] = r][d].hitAt
  BY DEF Covers
<1>1. s.at \in Nat /\ r.hitAt \in Nat
  BY PageAssumption DEF Snapshots, Command
<1>2. /\ s.at >= a
      /\ \A d \in Cmds : Acts(f[d]) => s.at >= f[d].hitAt
  BY DEF Covers
<1>3. s.at >= b
  BY <1>2
<1>4. Acts(r) => s.at >= r.hitAt
  BY <1>1, <1>2
<1> QED
  BY <1>2, <1>3, <1>4

\* What a step of a command may do to the rest of the state.
Surroundings(c) ==
  /\ page' \in MayChange(page)
  /\ strays' \in SUBSET Cmds /\ \A d \in Cmds \ {c} : d \in strays' <=> d \in strays
  /\ seen' \in Snapshots
  /\ navigations' \in [Cmds -> {"none", "waiting", "over"}]
  /\ pageEnabled' \in BOOLEAN /\ delivering' \in BOOLEAN

\* A command c takes its turn: it begins, goes on, or a run of its script comes when it
\* has ended.
Turn(c, r) ==
  /\ r.pc # "new"
  /\ IF At(c, "new") THEN r.alone => \A d \in Cmds \ {c} : Idle(d) ELSE r.alone = cmd[c].alone
  /\ At(c, "done") => r.pc = "done" /\ acted' = acted
  /\ ~Overlapped /\ r.alone => ~cache'.overtaken /\ InTurn(r, acted')

\* The state r of a command c is one it may be in after a step in these surroundings.
Fits(c, r) ==
  /\ r \in Command
  /\ ScriptInStage(r, c \in strays') /\ TreeInStage(r, page'.at)
  /\ Turn(c, r)

\* The commands stay one after the other when one of them takes its turn, and others
\* learn at most that what they have read is overtaken.
LEMMA TurnKept ==
  ASSUME Inv, NEW c \in Cmds, NEW r \in Command, cmd'[c] = r, Turn(c, r),
         \A d \in Cmds \ {c} :
           \/ cmd'[d] = cmd[d]
           \/ ~Idle(c) /\ cmd[d].pc = "title" /\ cmd'[d].pc = "title" /\ cmd'[d].alone = cmd[d].alone
  PROVE  OneAfterAnother'
<1>1. \A d \in Cmds \ {c} : cmd'[d].pc = cmd[d].pc /\ cmd'[d].alone = cmd[d].alone
  OBVIOUS
<1>2. \A d \in Cmds : cmd'[d].pc = "new" => cmd'[d].alone
  BY <1>1 DEF Inv, OneAfterAnother, At, Turn
<1>3. ~Overlapped' => ~Overlapped /\ r.alone
  BY <1>1 DEF Inv, OneAfterAnother, Overlapped, At, Turn
<1>4. ASSUME ~Overlapped'
      PROVE  /\ \A d, e \in Cmds : d = e \/ Idle(d)' \/ Idle(e)'
             /\ ~cache'.overtaken
             /\ \A d \in Cmds : InTurn(cmd'[d], acted')
  <2>1. ~cache'.overtaken /\ InTurn(r, acted')
    BY <1>3, <1>4 DEF Turn
  <2>2. /\ \A d, e \in Cmds : d = e \/ Idle(d) \/ Idle(e)
        /\ \A d \in Cmds : InTurn(cmd[d], acted)
    BY <1>3, <1>4 DEF Inv, OneAfterAnother
  <2>3. CASE At(c, "done")
    <3>1. r.pc = "done" /\ acted' = acted /\ Idle(c)
      BY <2>3 DEF Turn, Idle
    <3>2. \A d \in Cmds \ {c} : cmd'[d] = cmd[d]
      BY <3>1
    <3> QED
      BY <2>1, <2>2, <3>1, <3>2 DEF Idle, At
  <2>4. CASE ~At(c, "done")
    <3>1. \A d \in Cmds \ {c} : Idle(d)
      BY <1>3, <1>4, <2>2, <2>4 DEF Turn, Idle
    <3>2. \A d \in Cmds \ {c} : cmd'[d] = cmd[d]
      BY <3>1 DEF Idle, At
    <3>3. \A d \in Cmds \ {c} : InTurn(cmd[d], acted')
      BY <2>2, <3>1 DEF InTurn, Idle, At
    <3> QED
      BY <2>1, <3>1, <3>2, <3>3 DEF Idle, At
  <2> QED
    BY <2>3, <2>4
<1> QED
  BY <1>2, <1>4 DEF OneAfterAnother, At

\* The other commands are in their stages after a step of c.
LEMMA OthersInStage ==
  ASSUME Inv, NEW c \in Cmds, Surroundings(c), NEW d \in Cmds, d # c
  PROVE  ScriptInStage(cmd[d], d \in strays') /\ TreeInStage(cmd[d], page'.at)
<1>1. ScriptInStage(cmd[d], d \in strays) /\ TreeInStage(cmd[d], page.at)
  BY DEF Inv, CommandsInStage
<1>2. d \in strays' <=> d \in strays
  BY DEF Surroundings
<1>3. ScriptInStage(cmd[d], d \in strays')
  BY <1>1, <1>2 DEF ScriptInStage
<1>4. page'.at >= page.at /\ page'.at \in Nat /\ page.at \in Nat
  BY MayChangeCounts, PageAssumption DEF Surroundings, Inv, TypeOK
<1>5. cmd[d].hitAt \in Nat
  BY PageAssumption DEF Inv, TypeOK, Command
<1> QED
  BY <1>1, <1>3, <1>4, <1>5 DEF TreeInStage, Travels

\* A step that changes one command only, and the cache by what it has read.
LEMMA SetKeepsInv ==
  ASSUME Inv, NEW c \in Cmds, NEW r, Set(c, r), Surroundings(c), Fits(c, r),
         cache' \in {cache, NoSnapshot} \/ (cache' \in Snapshots /\ Covers(cache', cmd, acted)),
         acted' = acted \/ (Acts(cmd[c]) /\ acted' = cmd[c].hitAt),
         Acts(r) /\ r.hitAt # 0 => Acts(cmd[c]) /\ r.hitAt = cmd[c].hitAt,
         r.pc = "title" => Covers(r.tree, cmd, acted)
  PROVE  Inv'
<1> USE PageAssumption
<1>1. /\ cmd \in [Cmds -> Command] /\ r \in Command
      /\ cmd' = [cmd EXCEPT ![c] = r]
  BY DEF Inv, TypeOK, Fits, Set
<1>2. /\ acted \in 0..(MaxChanges + 1) /\ acted' \in 0..(MaxChanges + 1)
      /\ acted <= page.at /\ acted' <= page.at
  BY <1>1 DEF Inv, TypeOK, Command, SnapshotsCover, CommandsInStage, TreeInStage
<1>3. page' \in [at : 1..(MaxChanges + 1), els : Seq(Elements)] /\ page'.at >= page.at
  BY MayChangeCounts DEF Inv, Surroundings
<1>4. cache' \in Snapshots
  BY NoSnapshotType DEF Inv, TypeOK
<1>5. TypeOK'
  BY <1>1, <1>2, <1>3, <1>4 DEF TypeOK, Surroundings
<1>6. CommandsInStage'
  BY <1>1, OthersInStage DEF CommandsInStage, Fits
<1>7. ASSUME NEW s \in Snapshots, Covers(s, cmd, acted)
      PROVE  Covers(s, cmd', acted')
  <2>1. acted \in Nat /\ acted' \in Nat
    BY <1>2
  <2>2. acted' = acted \/ (Acts(cmd[c]) /\ acted' = cmd[c].hitAt)
    OBVIOUS
  <2>3. Covers(s, [cmd EXCEPT ![c] = r], acted')
    BY ONLY c \in Cmds, s \in Snapshots, <1>1, <1>7, <2>1, <2>2, CoversKept,
            Acts(r) /\ r.hitAt # 0 => Acts(cmd[c]) /\ r.hitAt = cmd[c].hitAt
  <2> QED
    BY <1>1, <2>3
<1>8. acted' <= page'.at
  BY <1>2, <1>3 DEF Inv, TypeOK
<1>9. ASSUME Cached'
      PROVE  Covers(cache', cmd', acted')
  BY <1>4, <1>7, <1>9 DEF Cached, Inv, SnapshotsCover
<1>10. ASSUME NEW d \in Cmds, cmd'[d].pc = "title"
       PROVE  Covers(cmd'[d].tree, cmd', acted')
  <2>1. cmd'[d].tree \in Snapshots
    BY <1>1 DEF Command
  <2>2. Covers(cmd'[d].tree, cmd, acted)
    BY <1>1, <1>10 DEF Inv, SnapshotsCover
  <2> QED
    BY <2>1, <2>2, <1>7
<1>11. SnapshotsCover'
  BY <1>8, <1>9, <1>10 DEF SnapshotsCover
<1>12. OneAfterAnother'
  BY <1>1, TurnKept DEF Fits
<1> QED
  BY <1>5, <1>6, <1>11, <1>12 DEF Inv

\* An action on the page is done: the cache is thrown away, and what was read
\* before is marked.
LEMMA InvalidatedKeepsInv ==
  ASSUME Inv, NEW c \in Cmds, ~Idle(c), NEW r, cmd' = Invalidated([cmd EXCEPT ![c] = r]),
         Surroundings(c), Fits(c, r), cache' = NoSnapshot,
         acted' \in 0..page'.at, r.pc # "title"
  PROVE  Inv'
<1> USE PageAssumption
<1>1. page' \in [at : 1..(MaxChanges + 1), els : Seq(Elements)] /\ page'.at >= page.at
  BY MayChangeCounts DEF Inv, Surroundings
<1>2. cmd' \in [Cmds -> Command]
  <2>1. ASSUME NEW q \in Command
        PROVE  [q EXCEPT !.tree.overtaken = TRUE] \in Command
    BY <2>1 DEF Command, Snapshots
  <2>2. [cmd EXCEPT ![c] = r] \in [Cmds -> Command]
    BY DEF Inv, TypeOK, Fits
  <2> QED
    BY <2>1, <2>2 DEF Invalidated
<1>3. TypeOK'
  <2>1. acted' \in 0..(MaxChanges + 1)
    BY <1>1
  <2> QED
    BY <1>1, <1>2, <2>1, NoSnapshotType DEF TypeOK, Surroundings
<1>4. cmd'[c] = r
  BY DEF Invalidated, Inv, TypeOK
<1>5. ASSUME NEW d \in Cmds, d # c
      PROVE  cmd'[d] = IF cmd[d].pc = "title" THEN [cmd[d] EXCEPT !.tree.overtaken = TRUE] ELSE cmd[d]
  BY <1>5 DEF Invalidated, Inv, TypeOK
<1>6. ASSUME NEW q \in Command, NEW stray \in BOOLEAN, NEW now \in Nat,
             ScriptInStage(q, stray), TreeInStage(q, now)
      PROVE  /\ ScriptInStage([q EXCEPT !.tree.overtaken = TRUE], stray)
             /\ TreeInStage([q EXCEPT !.tree.overtaken = TRUE], now)
  BY <1>6 DEF ScriptInStage, TreeInStage, Command, Snapshots, Acts, Runs
<1>7. CommandsInStage'
  <2> SUFFICES ASSUME NEW d \in Cmds
               PROVE  ScriptInStage(cmd'[d], d \in strays') /\ TreeInStage(cmd'[d], page'.at)
    BY DEF CommandsInStage
  <2>1. CASE d = c
    BY <2>1, <1>4 DEF Fits
  <2>2. CASE d # c
    <3>1. ScriptInStage(cmd[d], d \in strays') /\ TreeInStage(cmd[d], page'.at)
      BY <2>2, OthersInStage
    <3>2. cmd[d] \in Command /\ page'.at \in Nat
      BY <1>1 DEF Inv, TypeOK
    <3>3. CASE cmd[d].pc = "title"
      <4>1. cmd'[d] = [cmd[d] EXCEPT !.tree.overtaken = TRUE]
        BY <2>2, <3>3, <1>5
      <4>2. (d \in strays') \in BOOLEAN
        OBVIOUS
      <4> QED
        BY <3>1, <3>2, <4>1, <4>2, <1>6
    <3>4. CASE cmd[d].pc # "title"
      BY <2>2, <3>1, <3>4, <1>5
    <3> QED
      BY <3>3, <3>4
  <2> QED
    BY <2>1, <2>2
<1>8. ASSUME NEW d \in Cmds, cmd'[d].pc = "title"
      PROVE  cmd'[d].tree.overtaken
  <2>1. d # c
    BY <1>4, <1>8
  <2>2. cmd[d] \in Command
    BY DEF Inv, TypeOK
  <2>3. cmd'[d] = [cmd[d] EXCEPT !.tree.overtaken = TRUE]
    BY <1>5, <1>8, <2>1
  <2> QED
    BY <2>2, <2>3 DEF Command, Snapshots
<1>9. SnapshotsCover'
  <2>1. acted' <= page'.at
    BY <1>1
  <2>2. ~Cached'
    BY DEF Cached
  <2>3. \A d \in Cmds : cmd'[d].pc = "title" => Covers(cmd'[d].tree, cmd', acted')
    BY <1>8 DEF Covers
  <2> QED
    BY <2>1, <2>2, <2>3 DEF SnapshotsCover
<1>10. OneAfterAnother'
  <2>1. ASSUME NEW d \in Cmds \ {c}
        PROVE  \/ cmd'[d] = cmd[d]
               \/ cmd[d].pc = "title" /\ cmd'[d].pc = "title" /\ cmd'[d].alone = cmd[d].alone
    <3>1. cmd[d] \in Command
      BY DEF Inv, TypeOK
    <3> QED
      BY <1>5, <3>1 DEF Command
  <2>2. r \in Command /\ Turn(c, r)
    BY DEF Fits
  <2> QED
    BY <1>4, <2>1, <2>2, TurnKept
<1> QED
  BY <1>3, <1>7, <1>9, <1>10 DEF Inv

-----------------------------------------------------------------------------
(* Where a command is                                                        *)

LEMMA InStage ==
  ASSUME Inv, NEW c \in Cmds
  PROVE  /\ cmd[c] \in Command
         /\ ScriptInStage(cmd[c], c \in strays)
         /\ TreeInStage(cmd[c], page.at)
         /\ cmd[c].pc = "title" => Covers(cmd[c].tree, cmd, acted)
         /\ ~Overlapped => InTurn(cmd[c], acted) /\ ~cache.overtaken
BY DEF Inv, TypeOK, CommandsInStage, SnapshotsCover, OneAfterAnother

\* A command that goes on, with the cache and the last action as they are, takes its
\* turn; so does one that ends without the snapshot of an answer.
LEMMA GoesOn ==
  ASSUME Inv, NEW c \in Cmds, ~At(c, "new"), NEW r, UNCHANGED <<cache, acted>>,
         r.pc \notin {"new", "title"}, r.alone = cmd[c].alone,
         At(c, "done") => r.pc = "done",
         IF r.pc = "done" THEN ~r.ok \/ r.kind \notin Answers
         ELSE r.kind = cmd[c].kind /\ r.after = cmd[c].after
  PROVE  Turn(c, r)
BY InStage DEF Turn, InTurn, At

\* A step that leaves the page and the events alone, and answers with a snapshot
\* or not at all.
LEMMA StillSurroundings ==
  ASSUME Inv, NEW c \in Cmds, UNCHANGED <<page, Navigation, strays>>, seen' \in Snapshots
  PROVE  Surroundings(c)
BY SamePage DEF Inv, TypeOK, Surroundings, Navigation

\* In the stages that only commands other than scripts go through.
LEMMA PlainCommands ==
  ASSUME Inv, NEW c \in Cmds, cmd[c].pc \notin {"new", "light", "attached", "done"}
  PROVE  ~Runs(cmd[c]) /\ c \notin strays /\ ~cmd[c].ok
BY InStage DEF ScriptInStage

\* A new command has had no run and has not acted.
LEMMA NewCommands ==
  ASSUME Inv, NEW c \in Cmds, At(c, "new")
  PROVE  cmd[c].runs = 0 /\ cmd[c].hitAt = 0 /\ c \notin strays /\ ~cmd[c].ok
BY InStage DEF At, ScriptInStage, TreeInStage

\* resolveRef: a command goes on with a snapshot, and the snapshot is its answer
\* or has its target.
LEMMA ContinueReturns ==
  ASSUME NEW r \in Command, NEW s \in Snapshots, ~r.ok, r.then = "find" => r.ref >= 1
  PROVE  LET q == Continue(r, s)
         IN  /\ q \in Command
             /\ q.pc \in {"done", "actionable"}
             /\ q.pc = "actionable" => ~q.ok
             /\ q.ok => q.tree = s
             /\ \A f \in {"kind", "after", "alone", "ref", "hitAt", "then", "runs"} : q[f] = r[f]
<1> DEFINE q == Continue(r, s)
<1> USE DEF Command, Stages
<1>1. CASE r.then = "answer"
  <2>1. q = [r EXCEPT !.pc = "done", !.ok = TRUE, !.tree = s]
    BY <1>1 DEF Continue
  <2> QED
    BY <2>1
<1>2. CASE r.then = "find" /\ r.ref <= Len(s.els)
  <2>1. q = [r EXCEPT !.pc = "actionable", !.target = s.els[r.ref], !.tree = NoSnapshot]
    BY <1>2 DEF Continue
  <2>2. s.els[r.ref] \in Elements
    BY <1>2 DEF Snapshots
  <2> QED
    BY <2>1, <2>2, NoSnapshotType
<1>3. CASE r.then = "find" /\ ~(r.ref <= Len(s.els))
  <2>1. q = [r EXCEPT !.pc = "done"]
    BY <1>3 DEF Continue, Fail
  <2> QED
    BY <2>1
<1> QED
  BY <1>1, <1>2, <1>3

\* getSnapshot: so it is with the snapshot of the cache, and without one the tree
\* is to be read.
LEMMA GetSnapshotReturns ==
  ASSUME NEW r \in Command, cache \in Snapshots, ~r.ok, r.then = "find" => r.ref >= 1
  PROVE  LET q == GetSnapshot(r, TRUE)
         IN  /\ q \in Command
             /\ q.pc \in {"done", "actionable", "tree"}
             /\ q.pc # "done" => ~q.ok
             /\ q.ok => Cached /\ q.tree = cache
             /\ \A f \in {"kind", "after", "alone", "ref", "hitAt", "then", "runs"} : q[f] = r[f]
<1> DEFINE q == GetSnapshot(r, TRUE)
<1>1. CASE Cached
  <2>1. PICK s \in Snapshots : s = cache
    OBVIOUS
  <2>2. q = Continue(r, s)
    BY <1>1, <2>1 DEF GetSnapshot
  <2>3. /\ Continue(r, s) \in Command
        /\ Continue(r, s).pc \in {"done", "actionable"}
        /\ Continue(r, s).pc = "actionable" => ~Continue(r, s).ok
        /\ Continue(r, s).ok => Continue(r, s).tree = s
        /\ \A f \in {"kind", "after", "alone", "ref", "hitAt", "then", "runs"} : Continue(r, s)[f] = r[f]
    BY ContinueReturns, ZenonT(30)
  <2> HIDE DEF q
  <2>4. /\ q \in Command /\ q.pc \in {"done", "actionable"}
        /\ q.pc = "actionable" => ~q.ok
        /\ q.ok => q.tree = cache
        /\ \A f \in {"kind", "after", "alone", "ref", "hitAt", "then", "runs"} : q[f] = r[f]
    BY <2>1, <2>2, <2>3
  <2> QED
    BY <1>1, <2>4 DEF q
<1>2. CASE ~Cached
  <2>1. q = [r EXCEPT !.pc = "tree"]
    BY <1>2 DEF GetSnapshot
  <2> QED
    BY <2>1 DEF Command, Stages
<1> QED
  BY <1>1, <1>2

-----------------------------------------------------------------------------
(* SnapshotEngine                                                            *)

LEMMA ReadTreeKeeps ==
  ASSUME Inv, NEW c \in Cmds, ReadTree(c)
  PROVE  Inv'
<1> USE PageAssumption
<1>1. PICK s : s = Snapshot(page.at, page.els, FALSE)
  OBVIOUS
<1>2. s \in Snapshots /\ Covers(s, cmd, acted) /\ s.at = page.at
  BY <1>1, NewSnapshotCovers DEF Snapshot
<1>3. PICK r : r = [cmd[c] EXCEPT !.pc = "title", !.tree = s]
  OBVIOUS
<1>4. cmd[c] \in Command /\ cmd[c].pc = "tree" /\ TreeInStage(cmd[c], page.at)
  BY InStage DEF ReadTree, At
<1>5. ~Runs(cmd[c]) /\ c \notin strays /\ ~cmd[c].ok
  BY <1>4, PlainCommands
<1>6. r \in Command /\ r.pc = "title" /\ r.tree = s
  BY <1>2, <1>3, <1>4 DEF Command, Stages
<1>7. \A f \in {"kind", "after", "alone", "ref", "hitAt", "then", "runs", "ok"} : r[f] = cmd[c][f]
  BY <1>3, <1>4 DEF Command
<1>8. ScriptInStage(r, c \in strays)
  BY <1>5, <1>6, <1>7 DEF ScriptInStage, Runs
<1>9. TreeInStage(r, page.at)
  BY <1>2, <1>4, <1>6, <1>7 DEF TreeInStage, Travels
<1>10. Surroundings(c)
  BY StillSurroundings DEF ReadTree, Inv, TypeOK
<1>11. ~s.overtaken
  BY <1>1 DEF Snapshot
<1>12. Turn(c, r)
  BY <1>4, <1>6, <1>7, <1>11, InStage DEF ReadTree, Turn, InTurn, At
<1>13. Fits(c, r) /\ Set(c, r)
  BY <1>1, <1>3, <1>6, <1>8, <1>9, <1>12 DEF ReadTree, Fits
<1> QED
  BY <1>2, <1>6, <1>7, <1>10, <1>13, SetKeepsInv DEF ReadTree, Acts

\* A command that changes no more than what it is itself, and its stage, with the
\* rest of the state as it is.
LEMMA OwnStep ==
  ASSUME Inv, NEW c \in Cmds, NEW r \in Command, Set(c, r),
         UNCHANGED <<page, cache, seen, acted, Navigation, strays>>,
         ScriptInStage(r, c \in strays), TreeInStage(r, page.at),
         Acts(r) /\ r.hitAt # 0 => Acts(cmd[c]) /\ r.hitAt = cmd[c].hitAt,
         r.pc # "title", Turn(c, r)
  PROVE  Inv'
<1>1. Surroundings(c)
  BY StillSurroundings DEF Inv, TypeOK
<1>2. Fits(c, r)
  BY DEF Fits
<1> QED
  BY <1>1, <1>2, SetKeepsInv

\* A command that is no script goes to another stage, or fails.
LEMMA PlainStep ==
  ASSUME Inv, NEW c \in Cmds, cmd[c].pc \notin {"new", "light", "attached", "done"},
         NEW r \in Command, Set(c, r),
         UNCHANGED <<page, cache, seen, acted, Navigation, strays>>,
         r.pc \in {"aim", "dispatch", "done"}, r.ok = cmd[c].ok,
         \A f \in {"kind", "after", "alone", "ref", "hitAt", "then"} : r[f] = cmd[c][f]
  PROVE  Inv'
<1>1. ~Runs(cmd[c]) /\ c \notin strays /\ ~cmd[c].ok
  BY PlainCommands
<1>2. ScriptInStage(r, c \in strays)
  BY <1>1 DEF ScriptInStage, Runs
<1>3. TreeInStage(cmd[c], page.at)
  BY InStage
<1>4. TreeInStage(r, page.at)
  BY <1>1, <1>3 DEF TreeInStage, Travels
<1>5. Turn(c, r)
  BY <1>1, GoesOn DEF At
<1> QED
  BY <1>2, <1>4, <1>5, OwnStep DEF Acts

LEMMA SnapshotFailsKeeps ==
  ASSUME Inv, NEW c \in Cmds, SnapshotFails(c)
  PROVE  Inv'
<1>1. PICK r : r = Fail(cmd[c])
  OBVIOUS
<1>2. cmd[c] \in Command
  BY InStage
<1>3. r \in Command /\ r.pc = "done" /\ r.ok = cmd[c].ok
  BY <1>1, <1>2 DEF Fail, Command, Stages
<1>4. \A f \in {"kind", "after", "alone", "ref", "hitAt", "then"} : r[f] = cmd[c][f]
  BY <1>1, <1>2 DEF Fail, Command
<1> QED
  BY <1>1, <1>3, <1>4, PlainStep DEF SnapshotFails, At

\* The tree is stored as it was read, and is the answer of an action that came
\* before it.
LEMMA ReadTitleKeeps ==
  ASSUME Inv, NEW c \in Cmds, ReadTitle(c)
  PROVE  Inv'
<1> USE PageAssumption
<1>1. PICK s : s = cmd[c].tree
  OBVIOUS
<1>2. PICK r : r = Continue(cmd[c], s)
  OBVIOUS
<1>3. cmd[c] \in Command /\ cmd[c].pc = "title" /\ TreeInStage(cmd[c], page.at)
  BY InStage DEF ReadTitle, At
<1>4. s \in Snapshots /\ Covers(s, cmd, acted) /\ s.at >= cmd[c].hitAt
  BY <1>1, <1>3, InStage DEF Command, TreeInStage
<1>5. ~Runs(cmd[c]) /\ c \notin strays /\ ~cmd[c].ok
  BY <1>3, PlainCommands
<1>6. cmd[c].then = "find" => cmd[c].ref >= 1
  BY <1>3 DEF TreeInStage, Travels
<1>7. /\ r \in Command
      /\ r.pc \in {"done", "actionable"}
      /\ r.pc = "actionable" => ~r.ok
      /\ r.ok => r.tree = s
      /\ \A f \in {"kind", "after", "alone", "ref", "hitAt", "then", "runs"} : r[f] = cmd[c][f]
  BY <1>2, <1>3, <1>4, <1>5, <1>6, ContinueReturns
<1>8. ScriptInStage(r, c \in strays)
  BY <1>5, <1>7 DEF ScriptInStage, Runs
<1>9. TreeInStage(r, page.at)
  BY <1>3, <1>4, <1>7 DEF TreeInStage, Travels
<1>10. /\ Set(c, r) /\ Answered(r) /\ cache' = s
       /\ UNCHANGED <<page, Navigation, strays>>
  BY <1>1, <1>2 DEF ReadTitle
<1>11. seen' \in Snapshots
  BY <1>7, <1>10 DEF Answered, Inv, TypeOK, Command
<1>12. Surroundings(c)
  BY <1>10, <1>11, StillSurroundings
<1>13. ASSUME ~Overlapped, r.alone
       PROVE  ~s.overtaken /\ InTurn(r, acted')
  <2>1. /\ ~s.overtaken
        /\ cmd[c].kind \in Answers => cmd[c].after = acted
    BY <1>1, <1>3, <1>13, InStage DEF InTurn
  <2>2. s.at >= acted
    BY <1>4, <2>1 DEF Covers
  <2>3. r.pc = "actionable" => acted' = acted
    BY <1>10 DEF Answered
  <2> QED
    BY <1>7, <2>1, <2>2, <2>3 DEF InTurn
<1>14. Turn(c, r)
  BY <1>3, <1>7, <1>10, <1>13 DEF Turn, At
<1>15. Fits(c, r)
  BY <1>7, <1>8, <1>9, <1>10, <1>14 DEF Fits
<1>16. acted' = acted \/ (Acts(cmd[c]) /\ acted' = cmd[c].hitAt)
  BY <1>7, <1>10 DEF Answered, Acts
<1>17. Acts(r) /\ r.hitAt # 0 => Acts(cmd[c]) /\ r.hitAt = cmd[c].hitAt
  BY <1>7 DEF Acts
<1>18. r.pc # "title"
  BY <1>7
<1> QED
  BY <1>4, <1>10, <1>12, <1>15, <1>16, <1>17, <1>18, SetKeepsInv

-----------------------------------------------------------------------------
(* snapshot and interact                                                     *)

\* A new command of any kind is on its way: it has had no run and has not acted.
LEMMA StartStep ==
  ASSUME Inv, NEW c \in Cmds, At(c, "new"), NEW r \in Command, Set(c, r),
         Surroundings(c), UNCHANGED <<page, cache, acted, strays>>,
         r.hitAt = 0, r.runs = 0, r.pc \notin {"new", "title"},
         IF Runs(r) THEN r.pc = "light" ELSE r.pc \notin {"light", "attached"},
         r.pc # "done" => ~r.ok, r.then = "find" => r.ref >= 1, r.pc \in Travels => ~Acts(r) /\ r.kind \notin Answers,
         r.alone => \A d \in Cmds \ {c} : Idle(d),
         r.kind \in Answers => r.after = acted,
         r.pc = "done" /\ r.ok => Cached /\ r.tree = cache
  PROVE  Inv'
<1> USE PageAssumption
<1>1. c \notin strays
  BY NewCommands
<1>2. ScriptInStage(r, c \in strays')
  BY <1>1 DEF ScriptInStage, Runs
<1>3. r.tree.at \in Nat /\ page.at \in Nat
  BY DEF Command, Snapshots, Inv, TypeOK
<1>4. TreeInStage(r, page'.at)
  BY <1>3 DEF TreeInStage, Travels
<1>5. ASSUME ~Overlapped
      PROVE  ~cache'.overtaken /\ InTurn(r, acted')
  <2>1. ~cache.overtaken
    BY <1>5, InStage
  <2>2. Cached => cache.at >= acted
    BY <2>1 DEF Inv, SnapshotsCover, Covers
  <2> QED
    BY <2>1, <2>2 DEF InTurn
<1>6. Turn(c, r)
  BY <1>5 DEF Turn, At
<1>7. Fits(c, r)
  BY <1>2, <1>4, <1>6 DEF Fits
<1> QED
  BY <1>7, SetKeepsInv

\* A command that begins has a kind, and is otherwise as it was.
LEMMA BegunReturns ==
  ASSUME Inv, NEW c \in Cmds, NEW kind \in Kinds
  PROVE  LET q == Begun(c, kind)
         IN  /\ q \in Command /\ q.kind = kind
             /\ q.after = IF kind \in Answers THEN acted ELSE 0
             /\ q.alone <=> \A d \in Cmds \ {c} : Idle(d)
             /\ \A f \in {"pc", "ref", "hitAt", "then", "runs", "ok", "tree"} : q[f] = cmd[c][f]
<1> USE PageAssumption
<1>1. cmd[c] \in Command /\ acted \in 0..(MaxChanges + 1)
  BY DEF Inv, TypeOK
<1>2. PICK after : after = IF kind \in Answers THEN acted ELSE 0
  OBVIOUS
<1>3. PICK alone : alone = \A d \in Cmds \ {c} : Idle(d)
  OBVIOUS
<1>4. after \in 0..(MaxChanges + 1) /\ alone \in BOOLEAN
  BY <1>1, <1>2, <1>3
<1>5. PICK q : q = [cmd[c] EXCEPT !.kind = kind, !.after = after, !.alone = alone]
  OBVIOUS
<1>6. q = Begun(c, kind)
  BY <1>2, <1>3, <1>5 DEF Begun
<1>7. /\ q \in Command /\ q.kind = kind /\ q.after = after /\ q.alone = alone
      /\ \A f \in {"pc", "ref", "hitAt", "then", "runs", "ok", "tree"} : q[f] = cmd[c][f]
  BY <1>1, <1>4, <1>5 DEF Command
<1> QED
  BY <1>2, <1>3, <1>6, <1>7

\* That is, with no run and nothing done.
LEMMA BegunCommands ==
  ASSUME Inv, NEW c \in Cmds, At(c, "new"), NEW kind \in Kinds
  PROVE  LET q == Begun(c, kind)
         IN  /\ q \in Command /\ q.kind = kind
             /\ q.runs = 0 /\ q.hitAt = 0 /\ ~q.ok /\ (q.then = "find" => q.ref >= 1)
             /\ q.alone => \A d \in Cmds \ {c} : Idle(d)
             /\ q.kind \in Answers => q.after = acted
<1>1. cmd[c].then = "find" => cmd[c].ref >= 1
  BY InStage DEF TreeInStage
<1>2. cmd[c].runs = 0 /\ cmd[c].hitAt = 0 /\ ~cmd[c].ok
  BY NewCommands
<1>3. PICK q : q = Begun(c, kind)
  OBVIOUS
<1>4. /\ q \in Command /\ q.kind = kind
      /\ q.after = IF kind \in Answers THEN acted ELSE 0
      /\ q.alone <=> \A d \in Cmds \ {c} : Idle(d)
      /\ \A f \in {"pc", "ref", "hitAt", "then", "runs", "ok", "tree"} : q[f] = cmd[c][f]
  BY <1>3, BegunReturns
<1>5. /\ q.runs = cmd[c].runs /\ q.hitAt = cmd[c].hitAt /\ q.ok = cmd[c].ok
      /\ q.then = cmd[c].then /\ q.ref = cmd[c].ref
  BY <1>4
<1> QED
  BY <1>1, <1>2, <1>3, <1>4, <1>5

LEMMA StartSnapshotKeeps ==
  ASSUME Inv, NEW c \in Cmds, StartSnapshot(c)
  PROVE  Inv'
<1>1. At(c, "new") /\ "snapshot" \in Kinds
  BY DEF StartSnapshot, Kinds
<1>2. PICK q : q = Begun(c, "snapshot")
  OBVIOUS
<1>3. /\ q \in Command /\ q.kind = "snapshot" /\ q.runs = 0 /\ q.hitAt = 0 /\ ~q.ok
      /\ q.then = "find" => q.ref >= 1
      /\ q.alone => \A d \in Cmds \ {c} : Idle(d)
      /\ q.kind \in Answers => q.after = acted
  BY <1>1, <1>2, BegunCommands
<1>4. PICK r : r = GetSnapshot(q, TRUE)
  OBVIOUS
<1>5. cache \in Snapshots
  BY DEF Inv, TypeOK
<1>6. /\ r \in Command
      /\ r.pc \in {"done", "actionable", "tree"}
      /\ r.pc # "done" => ~r.ok
      /\ r.ok => Cached /\ r.tree = cache
      /\ \A f \in {"kind", "after", "alone", "ref", "hitAt", "then", "runs"} : r[f] = q[f]
  BY <1>3, <1>4, <1>5, GetSnapshotReturns
<1>7. Set(c, r) /\ Answered(r) /\ UNCHANGED <<page, cache, Navigation, strays>>
  BY <1>2, <1>4 DEF StartSnapshot
<1>8. seen' \in Snapshots /\ acted' = acted
  BY <1>3, <1>6, <1>7 DEF Answered, Inv, TypeOK, Command
<1>9. Surroundings(c)
  BY <1>7, <1>8, StillSurroundings
<1> QED
  BY <1>1, <1>3, <1>6, <1>7, <1>8, <1>9, StartStep DEF Runs, Travels

LEMMA StartInteractKeeps ==
  ASSUME Inv, NEW c \in Cmds, NEW kind \in {"click", "check", "hover"}, NEW ref \in Nat,
         StartInteract(c, kind, ref)
  PROVE  Inv'
<1>1. At(c, "new") /\ kind \in Kinds
  BY DEF StartInteract, Kinds
<1>2. PICK b : b = Begun(c, kind)
  OBVIOUS
<1>3. cache \in Snapshots /\ seen \in Snapshots /\ seen.els \in Seq(Elements)
  BY DEF Inv, TypeOK, Snapshots
<1>4. ref \in DOMAIN seen.els /\ ref >= 1 /\ seen.els[ref] \in Elements
  BY <1>3 DEF StartInteract
<1>5. PICK q : q = [b EXCEPT !.ref = ref, !.then = "find", !.chosen = seen.els[ref]]
  OBVIOUS
<1>6. /\ q \in Command /\ q.kind = kind /\ q.runs = 0 /\ q.hitAt = 0 /\ ~q.ok
      /\ q.then = "find" /\ q.ref >= 1
      /\ q.alone => \A d \in Cmds \ {c} : Idle(d)
      /\ q.kind \in Answers => q.after = acted
  <2>1. /\ b \in Command /\ b.kind = kind /\ b.runs = 0 /\ b.hitAt = 0 /\ ~b.ok
        /\ b.alone => \A d \in Cmds \ {c} : Idle(d)
        /\ b.kind \in Answers => b.after = acted
    BY <1>1, <1>2, BegunCommands
  <2> QED
    BY <1>4, <1>5, <2>1 DEF Command
<1>7. PICK r : r = GetSnapshot(q, TRUE)
  OBVIOUS
<1>8. /\ r \in Command
      /\ r.pc \in {"done", "actionable", "tree"}
      /\ r.pc # "done" => ~r.ok
      /\ r.ok => Cached /\ r.tree = cache
      /\ \A f \in {"kind", "after", "alone", "ref", "hitAt", "then", "runs"} : r[f] = q[f]
  BY <1>3, <1>6, <1>7, GetSnapshotReturns
<1>9. Set(c, r) /\ UNCHANGED <<page, cache, seen, acted, Navigation, strays>>
  BY <1>2, <1>5, <1>7 DEF StartInteract
<1>10. Surroundings(c)
  BY <1>3, <1>9, StillSurroundings
<1> QED
  BY <1>1, <1>6, <1>8, <1>9, <1>10, StartStep DEF Runs, Travels

LEMMA StartPressKeeps ==
  ASSUME Inv, NEW c \in Cmds, StartPress(c)
  PROVE  Inv'
<1>1. At(c, "new") /\ "press" \in Kinds
  BY DEF StartPress, Kinds
<1>2. PICK q : q = Begun(c, "press")
  OBVIOUS
<1>3. PICK r : r = [q EXCEPT !.pc = "dispatch"]
  OBVIOUS
<1>4. /\ r \in Command /\ r.kind = "press" /\ r.pc = "dispatch" /\ r.runs = 0 /\ r.hitAt = 0
      /\ ~r.ok
      /\ r.then = "find" => r.ref >= 1
      /\ r.alone => \A d \in Cmds \ {c} : Idle(d)
      /\ r.kind \in Answers => r.after = acted
  <2>1. /\ q \in Command /\ q.kind = "press" /\ q.runs = 0 /\ q.hitAt = 0 /\ ~q.ok
        /\ q.then = "find" => q.ref >= 1
        /\ q.alone => \A d \in Cmds \ {c} : Idle(d)
        /\ q.kind \in Answers => q.after = acted
    BY <1>1, <1>2, BegunCommands
  <2> QED
    BY <1>3, <2>1 DEF Command, Stages
<1>5. Set(c, r) /\ UNCHANGED <<page, cache, seen, acted, Navigation, strays>>
  BY <1>2, <1>3 DEF StartPress
<1>6. Surroundings(c)
  BY <1>5, StillSurroundings DEF Inv, TypeOK
<1> QED
  BY <1>1, <1>4, <1>5, <1>6, StartStep DEF Runs, Travels

LEMMA ActionableKeeps ==
  ASSUME Inv, NEW c \in Cmds, Actionable(c)
  PROVE  Inv'
<1>1. cmd[c] \in Command
  BY InStage
<1>2. PICK r : r = [cmd[c] EXCEPT !.pc = IF cmd[c].kind = "check" THEN "dispatch" ELSE "aim"]
  OBVIOUS
<1>3. r \in Command /\ r.pc \in {"dispatch", "aim"} /\ r.ok = cmd[c].ok
  BY <1>1, <1>2 DEF Command, Stages
<1>4. \A f \in {"kind", "after", "alone", "ref", "hitAt", "then"} : r[f] = cmd[c][f]
  BY <1>1, <1>2 DEF Command
<1> QED
  BY <1>2, <1>3, <1>4, PlainStep DEF Actionable, At

LEMMA AimKeeps ==
  ASSUME Inv, NEW c \in Cmds, Aim(c)
  PROVE  Inv'
<1>1. cmd[c] \in Command
  BY InStage
<1>2. PICK i \in DOMAIN page.els : Set(c, [cmd[c] EXCEPT !.pc = "dispatch", !.position = i])
  BY DEF Aim
<1>3. i \in Nat
  BY <1>2 DEF Inv, TypeOK
<1>4. PICK r : r = [cmd[c] EXCEPT !.pc = "dispatch", !.position = i]
  OBVIOUS
<1>5. r \in Command /\ r.pc = "dispatch" /\ r.ok = cmd[c].ok
  BY <1>1, <1>3, <1>4 DEF Command, Stages
<1>6. \A f \in {"kind", "after", "alone", "ref", "hitAt", "then"} : r[f] = cmd[c][f]
  BY <1>1, <1>4 DEF Command
<1>7. Set(c, r)
  BY <1>2, <1>4
<1> QED
  BY <1>5, <1>6, <1>7, PlainStep DEF Aim, At

\* What the failed request did to the page may be done all the same.
LEMMA InteractFailsKeeps ==
  ASSUME Inv, NEW c \in Cmds, InteractFails(c)
  PROVE  Inv'
<1>1. cmd[c] \in Command /\ TreeInStage(cmd[c], page.at)
  BY InStage
<1>2. ~Runs(cmd[c]) /\ c \notin strays /\ ~cmd[c].ok
  BY PlainCommands DEF InteractFails, At
<1>3. PICK r : r = Fail(cmd[c])
  OBVIOUS
<1>4. r \in Command /\ r.pc = "done" /\ r.ok = cmd[c].ok
  BY <1>1, <1>3 DEF Fail, Command, Stages
<1>5. \A f \in {"kind", "after", "alone", "ref", "hitAt", "then"} : r[f] = cmd[c][f]
  BY <1>1, <1>3 DEF Fail, Command
<1>6. page' \in MayChange(page)
  BY SamePage DEF InteractFails
<1>7. Surroundings(c)
  BY <1>6 DEF InteractFails, Surroundings, Inv, TypeOK, Navigation
<1>8. ScriptInStage(r, c \in strays')
  BY <1>2, <1>4, <1>5 DEF InteractFails, ScriptInStage, Runs
<1>9. page'.at >= page.at /\ page'.at \in Nat /\ page.at \in Nat /\ r.hitAt \in Nat
  <2>1. page'.at >= page.at /\ page'.at \in Nat /\ page.at \in Nat
    BY <1>6, MayChangeCounts, PageAssumption DEF Inv, TypeOK
  <2>2. r.hitAt \in Nat
    BY <1>4, PageAssumption DEF Command
  <2> QED
    BY <2>1, <2>2
<1>10. TreeInStage(r, page'.at)
  BY <1>1, <1>2, <1>4, <1>5, <1>9 DEF TreeInStage, Travels
<1>11. Turn(c, r)
  BY <1>2, <1>4, <1>5, GoesOn DEF InteractFails, At
<1>12. Fits(c, r)
  BY <1>4, <1>8, <1>10, <1>11 DEF Fits
<1> QED
  BY <1>3, <1>4, <1>5, <1>7, <1>12, SetKeepsInv DEF InteractFails, Acts

\* What is hit is an element or nothing.
LEMMA HitType ==
  ASSUME Inv, NEW c \in Cmds
  PROVE  Hit(c) \in Elements \cup {None}
<1>1. cmd[c].target \in Elements \cup {None}
  BY InStage DEF Command
<1>2. page.els \in Seq(Elements)
  BY DEF Inv, TypeOK
<1>3. cmd[c].position \in DOMAIN page.els => page.els[cmd[c].position] \in Elements
  BY <1>2
<1> QED
  BY <1>1, <1>3 DEF Hit

\* An action on the page counts its change and will read the tree; a hover only
\* answers with a snapshot, be it that of the cache.
LEMMA DispatchKeeps ==
  ASSUME Inv, NEW c \in Cmds, Dispatch(c)
  PROVE  Inv'
<1> USE PageAssumption
<1>1. cmd[c] \in Command /\ TreeInStage(cmd[c], page.at) /\ cmd[c].pc = "dispatch"
  BY InStage DEF Dispatch, At
<1>2. ~Runs(cmd[c]) /\ c \notin strays /\ ~cmd[c].ok
  BY <1>1, PlainCommands
<1>3. page' \in [at : 1..(MaxChanges + 1), els : Seq(Elements)] /\ page'.at >= page.at
  BY MayChangeCounts DEF Dispatch, Inv
<1>4. page.at \in Nat /\ page'.at \in Nat
  BY <1>3 DEF Inv, TypeOK
<1>5. PICK acts : acts = [cmd[c] EXCEPT !.hit = Hit(c), !.hitAt = page'.at, !.then = "answer"]
  OBVIOUS
<1>6. /\ acts \in Command /\ acts.hitAt = page'.at /\ acts.then = "answer"
      /\ \A f \in {"kind", "after", "alone", "ref", "runs", "ok", "pc"} : acts[f] = cmd[c][f]
  <2>1. PICK hit : hit = Hit(c)
    OBVIOUS
  <2>2. PICK now : now = page'.at
    OBVIOUS
  <2>3. hit \in Elements \cup {None} /\ now \in 0..(MaxChanges + 1)
    BY <1>3, <2>1, <2>2, HitType
  <2>4. acts = [cmd[c] EXCEPT !.hit = hit, !.hitAt = now, !.then = "answer"]
    BY <1>5, <2>1, <2>2
  <2> QED
    BY <1>1, <2>2, <2>3, <2>4 DEF Command
<1>7. CASE ChangesPage(cmd[c].kind)
  <2>1. PICK r : r = [acts EXCEPT !.pc = "tree"]
    OBVIOUS
  <2>2. /\ r \in Command /\ r.pc = "tree" /\ r.hitAt = page'.at /\ r.then = "answer"
        /\ \A f \in {"kind", "after", "alone", "ref", "runs", "ok"} : r[f] = cmd[c][f]
    BY <1>6, <2>1 DEF Command, Stages
  <2>3. /\ cache' = NoSnapshot /\ cmd' = Invalidated([cmd EXCEPT ![c] = r])
        /\ UNCHANGED <<seen, acted>> /\ UNCHANGED <<Navigation, strays>>
    BY <1>5, <1>7, <2>1 DEF Dispatch
  <2>4. Surroundings(c)
    BY <2>3 DEF Dispatch, Surroundings, Inv, TypeOK, Navigation
  <2>5. ScriptInStage(r, c \in strays')
    BY <1>2, <2>2, <2>3 DEF ScriptInStage, Runs
  <2>6. TreeInStage(r, page'.at)
    BY <1>4, <2>2 DEF TreeInStage, Travels
  <2>7. ~NoSnapshot.overtaken
    BY DEF NoSnapshot, Snapshot
  <2>8. Turn(c, r)
    BY <1>1, <2>2, <2>3, <2>7, InStage DEF Turn, InTurn, At
  <2>9. Fits(c, r)
    BY <2>2, <2>5, <2>6, <2>8 DEF Fits
  <2>10. acted' \in 0..page'.at
    BY <1>3, <1>4, <2>3 DEF Inv, TypeOK, SnapshotsCover
  <2> QED
    BY <1>1, <2>2, <2>3, <2>4, <2>9, <2>10, InvalidatedKeepsInv DEF Idle, At
<1>8. CASE ~ChangesPage(cmd[c].kind)
  <2>1. cmd[c].kind = "hover"
    BY <1>8 DEF ChangesPage
  <2>2. PICK r : r = GetSnapshot(acts, TRUE)
    OBVIOUS
  <2>3. cache \in Snapshots
    BY DEF Inv, TypeOK
  <2>4. /\ r \in Command
        /\ r.pc \in {"done", "actionable", "tree"}
        /\ r.pc # "done" => ~r.ok
        /\ r.ok => Cached /\ r.tree = cache
        /\ \A f \in {"kind", "after", "alone", "ref", "hitAt", "then", "runs"} : r[f] = acts[f]
    BY <1>2, <1>6, <2>2, <2>3, GetSnapshotReturns
  <2>5. Set(c, r) /\ Answered(r) /\ UNCHANGED <<cache, Navigation, strays>>
    BY <1>5, <1>8, <2>2 DEF Dispatch
  <2>6. seen' \in Snapshots /\ acted' = acted
    BY <1>6, <2>1, <2>4, <2>5 DEF Answered, Inv, TypeOK, Command
  <2>7. Surroundings(c)
    BY <2>5, <2>6 DEF Dispatch, Surroundings, Inv, TypeOK, Navigation
  <2>8. r.kind = "hover"
    BY <1>6, <2>1, <2>4
  <2>9. ScriptInStage(r, c \in strays')
    BY <1>2, <2>4, <2>5, <2>8 DEF ScriptInStage, Runs
  <2>10. TreeInStage(r, page'.at)
    BY <1>4, <1>6, <2>4, <2>8 DEF TreeInStage, Travels, Acts, Answers
  <2>11. r.after = cmd[c].after /\ r.alone = cmd[c].alone
    BY <1>6, <2>4
  <2>12. ASSUME ~Overlapped
         PROVE  ~cache'.overtaken /\ InTurn(r, acted')
    <3>1. ~cache.overtaken /\ r.after = acted
      BY <1>1, <2>1, <2>11, <2>12, InStage DEF InTurn, Answers
    <3>2. Cached => cache.at >= acted
      BY <3>1 DEF Inv, SnapshotsCover, Covers
    <3> QED
      BY <2>4, <2>5, <2>6, <3>1, <3>2 DEF InTurn
  <2>13. Turn(c, r)
    BY <1>1, <2>4, <2>11, <2>12 DEF Turn, At
  <2>14. Fits(c, r)
    BY <2>4, <2>9, <2>10, <2>13 DEF Fits
  <2> QED
    BY <2>4, <2>5, <2>6, <2>7, <2>8, <2>14, SetKeepsInv DEF Acts
<1> QED
  BY <1>7, <1>8

-----------------------------------------------------------------------------
(* navigate                                                                  *)

LEMMA StartGotoKeeps ==
  ASSUME Inv, NEW c \in Cmds, StartGoto(c)
  PROVE  Inv'
<1>1. At(c, "new") /\ "goto" \in Kinds
  BY DEF StartGoto, Kinds
<1>2. PICK q : q = Begun(c, "goto")
  OBVIOUS
<1>3. PICK pc \in {"going", "enable"} : Set(c, [q EXCEPT !.pc = pc])
  BY <1>2 DEF StartGoto, Going
<1>4. PICK r : r = [q EXCEPT !.pc = pc]
  OBVIOUS
<1>5. /\ r \in Command /\ r.kind = "goto" /\ r.pc \in {"going", "enable"}
      /\ r.runs = 0 /\ r.hitAt = 0 /\ ~r.ok
      /\ r.then = "find" => r.ref >= 1
      /\ r.alone => \A d \in Cmds \ {c} : Idle(d)
      /\ r.kind \in Answers => r.after = acted
  <2>1. /\ q \in Command /\ q.kind = "goto" /\ q.runs = 0 /\ q.hitAt = 0 /\ ~q.ok
        /\ q.then = "find" => q.ref >= 1
        /\ q.alone => \A d \in Cmds \ {c} : Idle(d)
        /\ q.kind \in Answers => q.after = acted
    BY <1>1, <1>2, BegunCommands
  <2> QED
    BY <1>4, <2>1 DEF Command, Stages
<1>6. Surroundings(c)
  BY SamePage DEF StartGoto, Surroundings, Inv, TypeOK
<1>7. Set(c, r)
  BY <1>3, <1>4
<1> QED
  BY <1>1, <1>5, <1>6, <1>7, StartStep DEF StartGoto, Runs, Acts, Answers

LEMMA EnablePageKeeps ==
  ASSUME Inv, NEW c \in Cmds, EnablePage(c)
  PROVE  Inv'
<1>1. cmd[c] \in Command /\ TreeInStage(cmd[c], page.at)
  BY InStage
<1>2. ~Runs(cmd[c]) /\ c \notin strays /\ ~cmd[c].ok
  BY PlainCommands DEF EnablePage, At
<1>3. PICK r : r = [cmd[c] EXCEPT !.pc = "going"]
  OBVIOUS
<1>4. /\ r \in Command /\ r.pc = "going"
      /\ \A f \in {"kind", "after", "alone", "ref", "hitAt", "then", "runs", "ok"} : r[f] = cmd[c][f]
  BY <1>1, <1>3 DEF Command, Stages
<1>5. Surroundings(c)
  BY SamePage DEF EnablePage, Surroundings, Inv, TypeOK
<1>6. ScriptInStage(r, c \in strays')
  BY <1>2, <1>4 DEF EnablePage, ScriptInStage, Runs
<1>7. TreeInStage(r, page'.at)
  BY <1>1, <1>2, <1>4 DEF EnablePage, At, TreeInStage, Travels, Acts, Answers
<1>8. Turn(c, r)
  BY <1>4, GoesOn DEF EnablePage, At
<1>9. Fits(c, r) /\ Set(c, r)
  BY <1>3, <1>4, <1>6, <1>7, <1>8 DEF Fits, EnablePage, Going
<1> QED
  BY <1>4, <1>5, <1>9, SetKeepsInv DEF EnablePage, Acts

\* A navigation is over: it is no action with a tree to answer, and what was read
\* before it is marked.
LEMMA NavigatedKeeps ==
  ASSUME Inv, NEW c \in Cmds, cmd[c].pc \in {"going", "loading", "history"},
         page' \in MayChange(page), Navigated(c), UNCHANGED <<Navigation, strays>>
  PROVE  Inv'
<1> USE PageAssumption
<1>1. cmd[c] \in Command /\ TreeInStage(cmd[c], page.at)
  BY InStage
<1>2. ~Runs(cmd[c]) /\ c \notin strays /\ ~cmd[c].ok
  BY PlainCommands
<1>3. page' \in [at : 1..(MaxChanges + 1), els : Seq(Elements)] /\ page'.at >= page.at
  BY MayChangeCounts DEF Inv
<1>4. Surroundings(c)
  BY DEF Surroundings, Navigated, Navigation, Inv, TypeOK
<1>5. PICK r : r = [cmd[c] EXCEPT !.pc = "done", !.ok = TRUE]
  OBVIOUS
<1>6. /\ r \in Command /\ r.pc = "done" /\ r.ok
      /\ \A f \in {"kind", "after", "alone", "ref", "hitAt", "then", "runs", "tree"} : r[f] = cmd[c][f]
  BY <1>1, <1>5 DEF Command, Stages
<1>7. [cmd EXCEPT ![c].pc = "done", ![c].ok = TRUE] = [cmd EXCEPT ![c] = r]
  BY <1>5 DEF Inv, TypeOK, Command
<1>8. ScriptInStage(r, c \in strays')
  BY <1>2, <1>6 DEF ScriptInStage, Runs
<1>9. ~Acts(r) /\ r.kind \notin Answers
  BY <1>1, <1>6 DEF TreeInStage, Travels, Acts, Answers
<1>10. page.at \in Nat /\ page'.at \in Nat /\ cmd[c].hitAt \in Nat
  BY <1>1, <1>3 DEF Inv, TypeOK, Command
<1>11. TreeInStage(r, page'.at)
  BY <1>1, <1>3, <1>6, <1>9, <1>10 DEF TreeInStage, Travels
<1>12. ~cache'.overtaken
  BY DEF Navigated, Invalidates, NoSnapshot, Snapshot
<1>13. Turn(c, r)
  BY <1>6, <1>9, <1>12 DEF Turn, InTurn, At
<1>14. Fits(c, r)
  BY <1>6, <1>8, <1>11, <1>13 DEF Fits
<1>15. cmd' = Invalidated([cmd EXCEPT ![c] = r]) /\ cache' = NoSnapshot /\ acted' = page'.at
  BY <1>7 DEF Navigated, Invalidates
<1>16. acted' \in 0..page'.at
  BY <1>10, <1>15
<1> QED
  BY <1>4, <1>6, <1>14, <1>15, <1>16, InvalidatedKeepsInv DEF Idle, At

LEMMA NavigateAnsweredKeeps ==
  ASSUME Inv, NEW c \in Cmds, NavigateAnswered(c)
  PROVE  Inv'
<1> USE PageAssumption
<1>1. CASE navigations[c] = "over"
  BY <1>1, NavigatedKeeps DEF NavigateAnswered, At
<1>2. CASE navigations[c] # "over"
  <2>1. cmd[c] \in Command /\ TreeInStage(cmd[c], page.at) /\ cmd[c].pc = "going"
    BY InStage DEF NavigateAnswered, At
  <2>2. ~Runs(cmd[c]) /\ c \notin strays /\ ~cmd[c].ok
    BY <2>1, PlainCommands
  <2>3. page' \in [at : 1..(MaxChanges + 1), els : Seq(Elements)] /\ page'.at >= page.at
    BY MayChangeCounts DEF Inv, NavigateAnswered
  <2>4. PICK r : r = [cmd[c] EXCEPT !.pc = "loading"]
    OBVIOUS
  <2>5. /\ r \in Command /\ r.pc = "loading"
        /\ \A f \in {"kind", "after", "alone", "ref", "hitAt", "then", "runs", "ok"} : r[f] = cmd[c][f]
    BY <2>1, <2>4 DEF Command, Stages
  <2>6. Surroundings(c)
    BY <1>2 DEF NavigateAnswered, Surroundings, Inv, TypeOK, Navigation
  <2>7. ScriptInStage(r, c \in strays')
    BY <2>2, <2>5 DEF NavigateAnswered, ScriptInStage, Runs
  <2>8. page.at \in Nat /\ page'.at \in Nat /\ cmd[c].hitAt \in Nat
    BY <2>1, <2>3 DEF Inv, TypeOK, Command
  <2>9. TreeInStage(r, page'.at)
    BY <2>1, <2>2, <2>3, <2>5, <2>8 DEF TreeInStage, Travels, Acts, Answers
  <2>10. Turn(c, r)
    BY <1>2, <2>1, <2>5, GoesOn DEF NavigateAnswered, At
  <2>11. Fits(c, r)
    BY <2>5, <2>7, <2>9, <2>10 DEF Fits
  <2>12. Set(c, r) /\ UNCHANGED <<cache, seen, acted>>
    BY <1>2, <2>4 DEF NavigateAnswered
  <2> QED
    BY <2>5, <2>6, <2>11, <2>12, SetKeepsInv DEF Acts
<1> QED
  BY <1>1, <1>2

LEMMA LoadedKeeps ==
  ASSUME Inv, NEW c \in Cmds, Loaded(c)
  PROVE  Inv'
BY NavigatedKeeps, SamePage DEF Loaded, At

LEMMA StartHistoryKeeps ==
  ASSUME Inv, NEW c \in Cmds, StartHistory(c)
  PROVE  Inv'
<1>1. At(c, "new") /\ "history" \in Kinds
  BY DEF StartHistory, Kinds
<1>2. PICK q : q = Begun(c, "history")
  OBVIOUS
<1>3. PICK r : r = [q EXCEPT !.pc = "history"]
  OBVIOUS
<1>4. /\ r \in Command /\ r.kind = "history" /\ r.pc = "history" /\ r.runs = 0 /\ r.hitAt = 0
      /\ ~r.ok
      /\ r.then = "find" => r.ref >= 1
      /\ r.alone => \A d \in Cmds \ {c} : Idle(d)
      /\ r.kind \in Answers => r.after = acted
  <2>1. /\ q \in Command /\ q.kind = "history" /\ q.runs = 0 /\ q.hitAt = 0 /\ ~q.ok
        /\ q.then = "find" => q.ref >= 1
        /\ q.alone => \A d \in Cmds \ {c} : Idle(d)
        /\ q.kind \in Answers => q.after = acted
    BY <1>1, <1>2, BegunCommands
  <2> QED
    BY <1>3, <2>1 DEF Command, Stages
<1>5. Set(c, r) /\ UNCHANGED <<page, cache, seen, acted, Navigation, strays>>
  BY <1>2, <1>3 DEF StartHistory
<1>6. Surroundings(c)
  BY <1>5, StillSurroundings DEF Inv, TypeOK
<1> QED
  BY <1>1, <1>4, <1>5, <1>6, StartStep DEF Runs, Acts, Answers

LEMMA HistoryAnsweredKeeps ==
  ASSUME Inv, NEW c \in Cmds, HistoryAnswered(c)
  PROVE  Inv'
BY NavigatedKeeps DEF HistoryAnswered, At

LEMMA HistoryEndsKeeps ==
  ASSUME Inv, NEW c \in Cmds, HistoryEnds(c)
  PROVE  Inv'
<1>1. cmd[c] \in Command /\ TreeInStage(cmd[c], page.at) /\ cmd[c].pc = "history"
  BY InStage DEF HistoryEnds, At
<1>2. ~Runs(cmd[c]) /\ c \notin strays
  BY <1>1, PlainCommands
<1>3. PICK r : r = [cmd[c] EXCEPT !.pc = "done", !.ok = TRUE]
  OBVIOUS
<1>4. /\ r \in Command /\ r.pc = "done"
      /\ \A f \in {"kind", "after", "alone", "ref", "hitAt", "then", "runs"} : r[f] = cmd[c][f]
  BY <1>1, <1>3 DEF Command, Stages
<1>5. ~Acts(r) /\ r.kind \notin Answers
  BY <1>1, <1>4 DEF TreeInStage, Travels, Acts, Answers
<1>6. ScriptInStage(r, c \in strays)
  BY <1>2, <1>4 DEF ScriptInStage, Runs
<1>7. TreeInStage(r, page.at)
  BY <1>1, <1>4, <1>5 DEF TreeInStage, Travels
<1>8. Turn(c, r)
  BY <1>1, <1>4, <1>5, GoesOn DEF HistoryEnds, At
<1> QED
  BY <1>3, <1>4, <1>5, <1>6, <1>7, <1>8, OwnStep DEF HistoryEnds

LEMMA NavigateFailsKeeps ==
  ASSUME Inv, NEW c \in Cmds, NavigateFails(c)
  PROVE  Inv'
<1>1. PICK r : r = Fail(cmd[c])
  OBVIOUS
<1>2. cmd[c] \in Command
  BY InStage
<1>3. r \in Command /\ r.pc = "done" /\ r.ok = cmd[c].ok
  BY <1>1, <1>2 DEF Fail, Command, Stages
<1>4. \A f \in {"kind", "after", "alone", "ref", "hitAt", "then"} : r[f] = cmd[c][f]
  BY <1>1, <1>2 DEF Fail, Command
<1> QED
  BY <1>1, <1>3, <1>4, PlainStep DEF NavigateFails, At

-----------------------------------------------------------------------------
(* Scripts                                                                   *)

LEMMA StartScriptKeeps ==
  ASSUME Inv, NEW c \in Cmds, NEW kind \in {"script", "wait"}, NEW e \in Elements \cup {None},
         StartScript(c, kind, e)
  PROVE  Inv'
<1>1. At(c, "new") /\ kind \in Kinds
  BY DEF StartScript, Kinds
<1>2. PICK q : q = Begun(c, kind)
  OBVIOUS
<1>3. PICK r : r = [q EXCEPT !.pc = "light", !.target = e]
  OBVIOUS
<1>4. /\ r \in Command /\ r.kind = kind /\ r.pc = "light" /\ r.runs = 0 /\ r.hitAt = 0
      /\ ~r.ok
      /\ r.then = "find" => r.ref >= 1
      /\ r.alone => \A d \in Cmds \ {c} : Idle(d)
      /\ r.kind \in Answers => r.after = acted
  <2>1. /\ q \in Command /\ q.kind = kind /\ q.runs = 0 /\ q.hitAt = 0 /\ ~q.ok
        /\ q.then = "find" => q.ref >= 1
        /\ q.alone => \A d \in Cmds \ {c} : Idle(d)
        /\ q.kind \in Answers => q.after = acted
    BY <1>1, <1>2, BegunCommands
  <2> QED
    BY <1>3, <2>1 DEF Command, Stages
<1>5. Set(c, r) /\ UNCHANGED <<page, cache, seen, acted, Navigation, strays>>
  BY <1>2, <1>3 DEF StartScript
<1>6. Surroundings(c)
  BY <1>5, StillSurroundings DEF Inv, TypeOK
<1> QED
  BY <1>1, <1>4, <1>5, <1>6, StartStep DEF Runs, Travels

\* A script goes on to a stage q where it may be with the runs it has had.
LEMMA ScriptStep ==
  ASSUME Inv, NEW c \in Cmds, Runs(cmd[c]), NEW r \in Command, Set(c, r),
         Surroundings(c), UNCHANGED <<cache, acted>>,
         r.kind = cmd[c].kind, r.then = cmd[c].then, r.ref = cmd[c].ref, r.hitAt = cmd[c].hitAt,
         r.pc \in {"light", "attached", "done"}, r.alone = cmd[c].alone,
         At(c, "done") => r.pc = "done",
         ScriptInStage(r, c \in strays')
  PROVE  Inv'
<1> USE PageAssumption
<1>1. ~Acts(r) /\ r.kind \notin Answers /\ TreeInStage(cmd[c], page.at) /\ ~At(c, "new")
  BY InStage DEF Acts, Runs, Answers, ScriptInStage, At
<1>2. page'.at >= page.at /\ page'.at \in Nat /\ page.at \in Nat /\ r.hitAt \in Nat
  <2>1. page'.at >= page.at /\ page'.at \in Nat /\ page.at \in Nat
    BY MayChangeCounts DEF Surroundings, Inv, TypeOK
  <2>2. r.hitAt \in Nat
    BY DEF Command
  <2> QED
    BY <2>1, <2>2
<1>3. TreeInStage(r, page'.at)
  BY <1>1, <1>2 DEF TreeInStage, Travels
<1>4. Turn(c, r)
  BY <1>1, InStage DEF Turn, InTurn, At
<1>5. Fits(c, r)
  BY <1>3, <1>4 DEF Fits
<1> QED
  BY <1>1, <1>5, SetKeepsInv

\* The script runs in the page: a script that may change the page counts the run.
LEMMA RunReturns ==
  ASSUME Inv, NEW c \in Cmds, NEW next \in {"light", "attached", "done"}, NEW ok \in BOOLEAN,
         Run(c, next, ok), strays' \in SUBSET Cmds,
         \A d \in Cmds \ {c} : d \in strays' <=> d \in strays
  PROVE  /\ Surroundings(c) /\ UNCHANGED <<cache, acted>>
         /\ \E r \in Command :
              /\ Set(c, r) /\ r.pc = next /\ r.ok = ok
              /\ r.runs = IF cmd[c].kind = "script" THEN cmd[c].runs + 1 ELSE cmd[c].runs
              /\ r.kind = cmd[c].kind /\ r.then = cmd[c].then /\ r.ref = cmd[c].ref
              /\ r.hitAt = cmd[c].hitAt /\ r.alone = cmd[c].alone
<1>1. page' \in MayChange(page)
  BY SamePage DEF Run
<1>2. Surroundings(c) /\ UNCHANGED <<cache, acted>>
  BY <1>1 DEF Run, Surroundings, Navigation, Inv, TypeOK
<1>3. PICK n : n = IF cmd[c].kind = "script" THEN cmd[c].runs + 1 ELSE cmd[c].runs
  OBVIOUS
<1>4. cmd[c] \in Command /\ n \in Nat
  BY <1>3, InStage DEF Command
<1>5. PICK r : r = [cmd[c] EXCEPT !.pc = next, !.ok = ok, !.runs = n]
  OBVIOUS
<1>6. Set(c, r)
  BY <1>3, <1>4, <1>5 DEF Run, Is, Command
<1>7. r \in Command /\ r.pc = next /\ r.ok = ok /\ r.runs = n
  BY <1>4, <1>5 DEF Command, Stages
<1>8. r.kind = cmd[c].kind /\ r.then = cmd[c].then /\ r.ref = cmd[c].ref /\ r.hitAt = cmd[c].hitAt /\ r.alone = cmd[c].alone
  BY <1>4, <1>5 DEF Command
<1> QED
  BY <1>2, <1>3, <1>6, <1>7, <1>8

LEMMA LightRunsKeeps ==
  ASSUME Inv, NEW c \in Cmds, LightRuns(c)
  PROVE  Inv'
<1>1. ScriptInStage(cmd[c], c \in strays) /\ cmd[c].pc = "light" /\ cmd[c].runs \in Nat
  BY InStage DEF LightRuns, At, Command
<1>2. Runs(cmd[c]) /\ c \notin strays /\ cmd[c].runs = 0
  BY <1>1 DEF ScriptInStage
<1>3. PICK next \in {"attached", "done"}, ok \in BOOLEAN :
        Run(c, next, ok) /\ (ok => next = "done") /\ (next = "done" /\ ~ok => cmd[c].kind = "wait")
  BY DEF LightRuns, Is
<1>4. strays' \in SUBSET Cmds /\ strays' = strays
  BY DEF LightRuns, Inv, TypeOK
<1>5. /\ Surroundings(c) /\ UNCHANGED <<cache, acted>>
      /\ \E r \in Command :
           /\ Set(c, r) /\ r.pc = next /\ r.ok = ok
           /\ r.runs = IF cmd[c].kind = "script" THEN cmd[c].runs + 1 ELSE cmd[c].runs
           /\ r.kind = cmd[c].kind /\ r.then = cmd[c].then /\ r.ref = cmd[c].ref
           /\ r.hitAt = cmd[c].hitAt /\ r.alone = cmd[c].alone
  BY <1>3, <1>4, RunReturns
<1>6. PICK r \in Command :
        /\ Set(c, r) /\ r.pc = next /\ r.ok = ok
        /\ r.runs = IF cmd[c].kind = "script" THEN cmd[c].runs + 1 ELSE cmd[c].runs
        /\ r.kind = cmd[c].kind /\ r.then = cmd[c].then /\ r.ref = cmd[c].ref
        /\ r.hitAt = cmd[c].hitAt /\ r.alone = cmd[c].alone
  BY <1>5
<1>7. ScriptInStage(r, c \in strays')
  BY <1>2, <1>3, <1>4, <1>6 DEF ScriptInStage, Runs
<1> QED
  BY <1>2, <1>3, <1>5, <1>6, <1>7, <1>1, ScriptStep DEF At

LEMMA DebuggerRunsKeeps ==
  ASSUME Inv, NEW c \in Cmds, DebuggerRuns(c)
  PROVE  Inv'
<1>1. ScriptInStage(cmd[c], c \in strays) /\ cmd[c].pc = "attached" /\ cmd[c].runs \in Nat
  BY InStage DEF DebuggerRuns, At, Command
<1>2. Runs(cmd[c])
  BY <1>1 DEF ScriptInStage
<1>3. PICK ok \in BOOLEAN : Run(c, "done", ok)
  BY DEF DebuggerRuns
<1>4. strays' \in SUBSET Cmds /\ strays' = strays
  BY DEF DebuggerRuns, Inv, TypeOK
<1>5. /\ Surroundings(c) /\ UNCHANGED <<cache, acted>>
      /\ \E r \in Command :
           /\ Set(c, r) /\ r.pc = "done" /\ r.ok = ok
           /\ r.runs = IF cmd[c].kind = "script" THEN cmd[c].runs + 1 ELSE cmd[c].runs
           /\ r.kind = cmd[c].kind /\ r.then = cmd[c].then /\ r.ref = cmd[c].ref
           /\ r.hitAt = cmd[c].hitAt /\ r.alone = cmd[c].alone
  BY <1>3, <1>4, RunReturns
<1>6. PICK r \in Command :
        /\ Set(c, r) /\ r.pc = "done" /\ r.ok = ok
        /\ r.runs = IF cmd[c].kind = "script" THEN cmd[c].runs + 1 ELSE cmd[c].runs
        /\ r.kind = cmd[c].kind /\ r.then = cmd[c].then /\ r.ref = cmd[c].ref
        /\ r.hitAt = cmd[c].hitAt /\ r.alone = cmd[c].alone
  BY <1>5
<1>7. ScriptInStage(r, c \in strays')
  BY <1>1, <1>2, <1>4, <1>6 DEF ScriptInStage, Runs
<1> QED
  BY <1>2, <1>5, <1>6, <1>7, ScriptStep DEF At

\* The attempt that was given up runs, at whatever stage its command is by then.
LEMMA StrayRunsKeeps ==
  ASSUME Inv, NEW c \in Cmds, StrayRuns(c)
  PROVE  Inv'
<1>1. ScriptInStage(cmd[c], c \in strays) /\ cmd[c].runs \in Nat /\ cmd[c].ok \in BOOLEAN
  BY InStage DEF Command
<1>2. c \in strays /\ Runs(cmd[c]) /\ cmd[c].kind = "script" /\ cmd[c].pc \in {"attached", "done"}
  BY <1>1 DEF ScriptInStage, StrayRuns, Runs
<1>3. PICK next \in {"attached", "done"}, ok \in BOOLEAN :
        Run(c, next, ok) /\ next = cmd[c].pc /\ ok = cmd[c].ok
  BY <1>1, <1>2 DEF StrayRuns
<1>4. /\ strays' \in SUBSET Cmds /\ c \notin strays'
      /\ \A d \in Cmds \ {c} : d \in strays' <=> d \in strays
  BY DEF StrayRuns, Inv, TypeOK
<1>5. /\ Surroundings(c) /\ UNCHANGED <<cache, acted>>
      /\ \E r \in Command :
           /\ Set(c, r) /\ r.pc = next /\ r.ok = ok
           /\ r.runs = IF cmd[c].kind = "script" THEN cmd[c].runs + 1 ELSE cmd[c].runs
           /\ r.kind = cmd[c].kind /\ r.then = cmd[c].then /\ r.ref = cmd[c].ref
           /\ r.hitAt = cmd[c].hitAt /\ r.alone = cmd[c].alone
  BY <1>3, <1>4, RunReturns
<1>6. PICK r \in Command :
        /\ Set(c, r) /\ r.pc = next /\ r.ok = ok
        /\ r.runs = IF cmd[c].kind = "script" THEN cmd[c].runs + 1 ELSE cmd[c].runs
        /\ r.kind = cmd[c].kind /\ r.then = cmd[c].then /\ r.ref = cmd[c].ref
        /\ r.hitAt = cmd[c].hitAt /\ r.alone = cmd[c].alone
  BY <1>5
<1>7. ScriptInStage(r, c \in strays')
  BY <1>1, <1>2, <1>3, <1>4, <1>6 DEF ScriptInStage, Runs
<1> QED
  BY <1>2, <1>3, <1>5, <1>6, <1>7, ScriptStep DEF At

\* The lightweight attempt is refused or given up: the debugger is next, and what
\* was given up may still come.
LEMMA LightEndsKeeps ==
  ASSUME Inv, NEW c \in Cmds, LightRefused(c) \/ LightTimeout(c)
  PROVE  Inv'
<1>1. cmd[c] \in Command /\ ScriptInStage(cmd[c], c \in strays) /\ cmd[c].pc = "light"
  BY InStage DEF LightRefused, LightTimeout, At
<1>2. Runs(cmd[c]) /\ c \notin strays /\ cmd[c].runs = 0 /\ ~cmd[c].ok
  BY <1>1 DEF ScriptInStage
<1>3. PICK r : r = [cmd[c] EXCEPT !.pc = "attached"]
  OBVIOUS
<1>4. r \in Command /\ r.pc = "attached" /\ r.runs = 0 /\ ~r.ok
  BY <1>1, <1>2, <1>3 DEF Command, Stages
<1>5. r.kind = cmd[c].kind /\ r.then = cmd[c].then /\ r.ref = cmd[c].ref /\ r.hitAt = cmd[c].hitAt /\ r.alone = cmd[c].alone
  BY <1>1, <1>3 DEF Command
<1>6. Set(c, r) /\ UNCHANGED <<page, cache, seen, acted, Navigation>>
  BY <1>3 DEF LightRefused, LightTimeout
<1>7. strays' = strays \/ (cmd[c].kind = "script" /\ strays' = strays \cup {c})
  BY DEF LightRefused, LightTimeout, Is
<1>8. Surroundings(c)
  BY <1>6, <1>7, SamePage DEF Surroundings, Navigation, Inv, TypeOK
<1>9. ScriptInStage(r, c \in strays')
  BY <1>2, <1>4, <1>5, <1>7 DEF ScriptInStage, Runs
<1> QED
  BY <1>2, <1>4, <1>5, <1>6, <1>8, <1>9, <1>1, ScriptStep DEF At

LEMMA ScriptFailsKeeps ==
  ASSUME Inv, NEW c \in Cmds, ScriptFails(c)
  PROVE  Inv'
<1>1. cmd[c] \in Command /\ ScriptInStage(cmd[c], c \in strays) /\ cmd[c].pc = "attached"
  BY InStage DEF ScriptFails, At
<1>2. Runs(cmd[c]) /\ ~cmd[c].ok /\ cmd[c].runs \in Nat
  BY <1>1 DEF ScriptInStage, Command
<1>3. PICK r : r = Fail(cmd[c])
  OBVIOUS
<1>4. r \in Command /\ r.pc = "done" /\ r.runs = cmd[c].runs /\ ~r.ok
  BY <1>1, <1>2, <1>3 DEF Fail, Command, Stages
<1>5. r.kind = cmd[c].kind /\ r.then = cmd[c].then /\ r.ref = cmd[c].ref /\ r.hitAt = cmd[c].hitAt /\ r.alone = cmd[c].alone
  BY <1>1, <1>3 DEF Fail, Command
<1>6. Set(c, r) /\ UNCHANGED <<page, cache, seen, acted, Navigation, strays>>
  BY <1>3 DEF ScriptFails
<1>7. Surroundings(c)
  BY <1>6, StillSurroundings DEF Inv, TypeOK
<1>8. ScriptInStage(r, c \in strays')
  BY <1>1, <1>2, <1>4, <1>5, <1>6 DEF ScriptInStage, Runs
<1> QED
  BY <1>2, <1>4, <1>5, <1>6, <1>7, <1>8, ScriptStep

-----------------------------------------------------------------------------
(* The page and the debugger                                                 *)

\* Nothing of the commands, their attempts and the page has changed.
LEMMA WaitsKeep ==
  ASSUME Inv, UNCHANGED <<page, cmd, seen, acted, strays>>, cache' \in {cache, NoSnapshot},
         navigations' \in [Cmds -> {"none", "waiting", "over"}],
         pageEnabled' \in BOOLEAN, delivering' \in BOOLEAN
  PROVE  Inv'
<1>1. TypeOK'
  BY NoSnapshotType DEF Inv, TypeOK
<1>2. CommandsInStage'
  BY DEF Inv, CommandsInStage
<1>3. Cached' => Covers(cache', cmd', acted')
  BY DEF Inv, SnapshotsCover, Cached
<1>4. SnapshotsCover'
  BY <1>3 DEF Inv, SnapshotsCover
<1>5. ~NoSnapshot.overtaken
  BY DEF NoSnapshot, Snapshot
<1>6. OneAfterAnother'
  BY <1>5 DEF Inv, OneAfterAnother, Overlapped, Idle, At
<1> QED
  BY <1>1, <1>2, <1>4, <1>6 DEF Inv

LEMMA CompletesKeeps ==
  ASSUME Inv, NEW cs, Completes(cs)
  PROVE  Inv'
<1>1. navigations' \in [Cmds -> {"none", "waiting", "over"}]
  BY DEF Completes, Inv, TypeOK
<1> QED
  BY <1>1, WaitsKeep DEF Completes, Inv, TypeOK

LEMMA PageChangesKeeps ==
  ASSUME Inv, PageChanges
  PROVE  Inv'
<1> USE PageAssumption
<1>1. page' \in [at : 1..(MaxChanges + 1), els : Seq(Elements)] /\ page'.at >= page.at
  BY MayChangeCounts DEF PageChanges, Inv
<1>2. page.at \in Nat /\ page'.at \in Nat /\ acted \in Nat
  BY <1>1 DEF Inv, TypeOK
<1>3. TypeOK'
  BY <1>1 DEF PageChanges, Inv, TypeOK, Navigation
<1>4. CommandsInStage'
  <2>1. ASSUME NEW c \in Cmds
        PROVE  TreeInStage(cmd[c], page'.at)
    <3>1. cmd[c].hitAt \in Nat /\ TreeInStage(cmd[c], page.at)
      BY InStage, PageAssumption DEF Command
    <3> QED
      BY <1>1, <1>2, <3>1 DEF TreeInStage
  <2> QED
    BY <2>1 DEF PageChanges, Inv, CommandsInStage
<1>5. acted' <= page'.at
  BY <1>1, <1>2 DEF PageChanges, Inv, SnapshotsCover
<1>6. SnapshotsCover'
  BY <1>5 DEF PageChanges, Inv, SnapshotsCover, Cached
<1>7. OneAfterAnother'
  BY DEF PageChanges, Inv, OneAfterAnother, Overlapped, Idle, At
<1> QED
  BY <1>3, <1>4, <1>6, <1>7 DEF Inv

-----------------------------------------------------------------------------
(* The theorems                                                              *)

LEMMA InitInv == Init => Inv
<1> SUFFICES ASSUME Init PROVE Inv
  OBVIOUS
<1> USE PageAssumption
<1>1. NewCommand \in Command
  BY NoSnapshotType DEF NewCommand, Command, Stages, Kinds
<1>2. /\ \A c \in Cmds : cmd[c] = NewCommand
      /\ cmd \in [Cmds -> Command] /\ strays = {} /\ acted = 0 /\ ~Cached
  BY <1>1 DEF Init, Cached
<1>3. page.at = 1 /\ page \in [at : 1..(MaxChanges + 1), els : Seq(Elements)]
  BY ContentsAreSequences DEF Init
<1>4. TypeOK
  <2>1. cache \in Snapshots /\ seen \in Snapshots
    BY NoSnapshotType DEF Init
  <2>2. acted \in 0..(MaxChanges + 1)
    BY <1>2
  <2>3. navigations \in [Cmds -> {"none", "waiting", "over"}]
    BY DEF Init
  <2> QED
    BY <1>2, <1>3, <2>1, <2>2, <2>3 DEF Init, TypeOK
<1>5. ScriptInStage(NewCommand, FALSE) /\ TreeInStage(NewCommand, 1)
  BY DEF ScriptInStage, TreeInStage, NewCommand, Runs, Acts, Travels
<1>6. CommandsInStage
  BY <1>2, <1>3, <1>5 DEF CommandsInStage, ScriptInStage
<1>7. SnapshotsCover
  BY <1>2, <1>3 DEF SnapshotsCover, NewCommand
<1>8. OneAfterAnother
  BY <1>2 DEF Init, NewCommand, NoSnapshot, Snapshot, OneAfterAnother, InTurn, Idle, At
<1> QED
  BY <1>4, <1>6, <1>7, <1>8 DEF Inv

LEMMA StartKeeps ==
  ASSUME Inv, NEW c \in Cmds, Start(c)
  PROVE  Inv'
<1>1. CASE StartSnapshot(c) \/ StartPress(c) \/ StartGoto(c) \/ StartHistory(c)
  BY <1>1, StartSnapshotKeeps, StartPressKeeps, StartGotoKeeps, StartHistoryKeeps
<1>2. CASE \E kind \in {"click", "check", "hover"}, ref \in 1..Cardinality(Elements) :
             StartInteract(c, kind, ref)
  BY <1>2, StartInteractKeeps, FS_CardinalityType, PageAssumption
<1>3. CASE StartScript(c, "script", None)
  BY <1>3, StartScriptKeeps
<1>4. CASE \E e \in Elements : StartScript(c, "wait", e)
  BY <1>4, StartScriptKeeps
<1> QED
  BY <1>1, <1>2, <1>3, <1>4 DEF Start

LEMMA StepKeeps ==
  ASSUME Inv, NEW c \in Cmds, Step(c)
  PROVE  Inv'
<1>1. CASE ReadTree(c) \/ ReadTitle(c) \/ SnapshotFails(c)
  BY <1>1, ReadTreeKeeps, ReadTitleKeeps, SnapshotFailsKeeps
<1>2. CASE Actionable(c) \/ Aim(c) \/ Dispatch(c) \/ InteractFails(c)
  BY <1>2, ActionableKeeps, AimKeeps, DispatchKeeps, InteractFailsKeeps
<1>3. CASE EnablePage(c) \/ NavigateAnswered(c) \/ Loaded(c) \/ NavigateFails(c)
  BY <1>3, EnablePageKeeps, NavigateAnsweredKeeps, LoadedKeeps, NavigateFailsKeeps
<1>4. CASE HistoryAnswered(c) \/ HistoryEnds(c)
  BY <1>4, HistoryAnsweredKeeps, HistoryEndsKeeps
<1>5. CASE LightRuns(c) \/ LightRefused(c) \/ LightTimeout(c) \/ DebuggerRuns(c) \/ ScriptFails(c)
  BY <1>5, LightRunsKeeps, LightEndsKeeps, DebuggerRunsKeeps, ScriptFailsKeeps
<1> QED
  BY <1>1, <1>2, <1>3, <1>4, <1>5 DEF Step

LEMMA NextInv == Inv /\ [Next]_vars => Inv'
<1> SUFFICES ASSUME Inv, [Next]_vars PROVE Inv'
  OBVIOUS
<1>1. ASSUME NEW c \in Cmds, Start(c) PROVE Inv'
  BY <1>1, StartKeeps
<1>2. ASSUME NEW c \in Cmds, Step(c) PROVE Inv'
  BY <1>2, StepKeeps
<1>3. ASSUME NEW c \in Cmds, NavigationTimer(c) PROVE Inv'
  BY <1>3, CompletesKeeps DEF NavigationTimer
<1>4. ASSUME NEW c \in Cmds, StrayRuns(c) PROVE Inv'
  BY <1>4, StrayRunsKeeps
<1>5. CASE NavigationEvent
  BY <1>5, CompletesKeeps DEF NavigationEvent
<1>6. CASE Expire
  BY <1>6, WaitsKeep DEF Expire, Navigation, Inv, TypeOK
<1>7. CASE PageChanges
  BY <1>7, PageChangesKeeps
<1>8. CASE Detach
  BY <1>8, WaitsKeep DEF Detach, Inv, TypeOK
<1>9. CASE UNCHANGED vars
  BY <1>9, WaitsKeep DEF vars, Inv, TypeOK
<1> QED
  BY <1>1, <1>2, <1>3, <1>4, <1>5, <1>6, <1>7, <1>8, <1>9 DEF Next

\* Whatever the commands, the page and the debugger do, in whatever order, every
\* command stays in its stage and every snapshot covers what was done before it.
THEOREM Invariance == Spec => []Inv
BY InitInv, NextInv, PTL DEF Spec

\* The state of the worker keeps its types: refs are looked up inside the snapshot,
\* targets and hits are elements of the page, counts stay within their bound.
THEOREM TypeCorrect == Spec => []TypeOK
<1>1. Inv => TypeOK
  BY DEF Inv
<1> QED
  BY <1>1, Invariance, PTL

\* For any number of commands: the answer of a click, a check or a key press shows the
\* page after it, whatever else is under way; and as long as the commands of the tab are
\* one after the other, no answer and no snapshot that is kept (SnapshotEngine, getSnapshot
\* and invalidateCache) is older than an input or a navigation that was answered before.
THEOREM AnswersAreCurrent == Spec => []SnapshotsAreCurrent
<1>1. ASSUME Inv PROVE ActionsAreSeen
  BY <1>1 DEF Inv, CommandsInStage, TreeInStage, ActionsAreSeen, At, Is, Acts
<1>2. ASSUME Inv, ~Overlapped PROVE NothingStale
  <2>1. ~cache.overtaken /\ \A c \in Cmds : InTurn(cmd[c], acted)
    BY <1>2 DEF Inv, OneAfterAnother
  <2>2. Cached => cache.at >= acted
    BY <1>2, <2>1 DEF Inv, SnapshotsCover, Covers
  <2> QED
    BY <2>1, <2>2 DEF InTurn, NothingStale, At, Is
<1> QED
  BY <1>1, <1>2, Invariance, PTL DEF SnapshotsAreCurrent

\* runLightweightFirst runs a script at most twice, counting an attempt that was given
\* up and may still run, and has run it when it tells the Agent of a result.
THEOREM TwoRunsAtMost == Spec => []ScriptRunsAtMostTwice
<1>1. ASSUME Inv PROVE ScriptRunsAtMostTwice
  <2> SUFFICES ASSUME NEW c \in Cmds, Is(c, {"script"})
               PROVE  /\ cmd[c].runs + Cardinality(strays \cap {c}) <= 2
                      /\ At(c, "light") => cmd[c].runs = 0
                      /\ At(c, "done") /\ cmd[c].ok => cmd[c].runs >= 1
    BY DEF ScriptRunsAtMostTwice
  <2>1. /\ cmd[c].kind = "script" /\ cmd[c].runs \in Nat
        /\ ScriptInStage(cmd[c], c \in strays)
    BY <1>1, InStage DEF Is, Command
  <2>2. cmd[c].pc \in {"light", "attached", "done"}
    BY <2>1 DEF ScriptInStage, Runs
  <2>3. cmd[c].runs <= IF c \in strays THEN 1 ELSE 2
    BY <2>1, <2>2 DEF ScriptInStage
  <2>4. Cardinality(strays \cap {c}) = IF c \in strays THEN 1 ELSE 0
    <3>1. CASE c \in strays
      <4>1. strays \cap {c} = {c}
        BY <3>1
      <4> QED
        BY <3>1, <4>1, FS_Singleton
    <3>2. CASE c \notin strays
      <4>1. strays \cap {c} = {}
        BY <3>2
      <4> QED
        BY <3>2, <4>1, FS_EmptySet
    <3> QED
      BY <3>1, <3>2
  <2> QED
    BY <2>1, <2>3, <2>4 DEF ScriptInStage, At
<1> QED
  BY <1>1, Invariance, PTL
=============================================================================
