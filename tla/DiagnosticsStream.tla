-------------------------- MODULE DiagnosticsStream --------------------------
(***************************************************************************)
(* The Broker's diagnostic events on their way to the dashboard:           *)
(* DiagnosticsStore (mcp-server/src/broker/diagnostics-store.ts),          *)
(* openEventStream and the stop of broker-server.ts, and the EventSource   *)
(* of mcp-server/src/dashboard/dashboard.js, which reconnects by itself    *)
(* with the id of the last event it was given.                             *)
(*                                                                         *)
(* An event is its Broker's run and its sequence number; what it says is   *)
(* left out.  A response is a socket buffer of HighWater frames in front   *)
(* of a wire; write() takes any frame and says whether there is room for   *)
(* another.                                                                *)
(***************************************************************************)
EXTENDS Naturals, Sequences, FiniteSets, SequencesExt

CONSTANTS
  Streams,    \* identities of responses
  Ring,       \* events the store keeps, and the page shows (200 in the code)
  MaxFrames,  \* frames openEventStream queues for a stream (256 in the code)
  HighWater,  \* frames in a socket buffer when write() returns false
  MaxEvents,  \* bound on the events of one Broker
  MaxRuns,    \* bound on Brokers, one after the other
  MaxFaults,  \* bound on dropped connections and drain timeouts
  None

ASSUME StreamAssumption ==
  /\ IsFiniteSet(Streams) /\ None \notin Streams
  /\ {Ring, HighWater, MaxEvents, MaxRuns} \subseteq Nat \ {0}
  /\ MaxFaults \in Nat
  /\ MaxFrames \in Nat /\ MaxFrames > Ring

VARIABLES
  up,        \* whether a Broker runs
  run,       \* its number
  sequence,  \* the last event's
  stream,    \* the responses of openEventStream
  page       \* the dashboard

vars == <<up, run, sequence, stream, page>>

\* RESET is a frame with the run it comes from and no sequence number.
Event == [run : 1..MaxRuns, seq : 1..MaxEvents]
Reset(r) == [run |-> r, seq |-> 0]
Frame == [run : 1..MaxRuns, seq : 0..MaxEvents]

\* draining: the pump waits for the drain event; sock and wire: what write()
\* has taken; listening: the store has its listener.
Stream ==
  [st : {"new", "open", "closed"}, lastSent : 0..MaxEvents, draining : BOOLEAN,
   frames : Seq(Frame), sock : Seq(Frame), wire : Seq(Frame), listening : BOOLEAN]
NewStream ==
  [st |-> "new", lastSent |-> 0, draining |-> FALSE,
   frames |-> <<>>, sock |-> <<>>, wire |-> <<>>, listening |-> FALSE]

Page == [stream : Streams \cup {None}, lastId : 0..MaxEvents, shown : Seq(Event), faults : 0..MaxFaults]

Init ==
  /\ up = TRUE /\ run = 1 /\ sequence = 1   \* BROKER_STARTED
  /\ stream = [s \in Streams |-> NewStream]
  /\ page = [stream |-> None, lastId |-> 0, shown |-> <<>>, faults |-> 0]

-----------------------------------------------------------------------------
(* The store.                                                               *)

\* The sequence number of the oldest event that is kept.
First(last) == IF last > Ring THEN last - Ring + 1 ELSE 1

\* eventsAfter: whether events after the cursor are missing, and which are kept.
MissesEvents(cursor) == cursor < First(sequence) - 1
EventsAfter(cursor) ==
  LET from == IF cursor + 1 > First(sequence) THEN cursor + 1 ELSE First(sequence)
  IN [i \in 1..(sequence + 1 - from) |-> [run |-> run, seq |-> from + i - 1]]

-----------------------------------------------------------------------------
(* openEventStream: the functions it closes over.                           *)

\* What has not left for the network is lost.
close(v) == [NewStream EXCEPT !.st = "closed", !.wire = v.wire]

\* Writes frames as long as write() returns true.
pump(v) ==
  IF v.st = "closed" \/ v.draining THEN v
  ELSE LET room == HighWater - Len(v.sock)
           n == IF Len(v.frames) < room THEN Len(v.frames) ELSE room
       IN [v EXCEPT !.sock = @ \o SubSeq(v.frames, 1, n),
                    !.frames = SubSeq(@, n + 1, Len(@)),
                    !.draining = Len(v.sock) + n >= HighWater]

\* A bug: a frame is dropped when the queue is full.
DropsFrame(v, frame) ==
  IF v.st = "closed" \/ Len(v.frames) >= MaxFrames THEN v
  ELSE pump([v EXCEPT !.frames = Append(@, frame)])

\* A stream whose queue is full is closed.
writeFrame(v, frame) ==
  IF v.st = "closed" THEN v
  ELSE IF Len(v.frames) >= MaxFrames THEN close(v)
  ELSE pump([v EXCEPT !.frames = Append(@, frame)])

\* An event is sent once, in order.
write(v, event) ==
  IF event.seq <= v.lastSent \/ v.st = "closed" THEN v
  ELSE LET w == writeFrame(v, event)
       IN IF w.st = "closed" THEN w ELSE [w EXCEPT !.lastSent = event.seq]

\* A bug: the stream goes on from the newest event.
OpenAtEnd(cursor) == [NewStream EXCEPT !.st = "open", !.listening = TRUE, !.lastSent = sequence]

\* RESET if events are missing, then those that are kept.
OpenStream(cursor) ==
  LET v == [NewStream EXCEPT !.st = "open", !.listening = TRUE, !.lastSent = cursor]
      w == IF MissesEvents(cursor) THEN writeFrame(v, Reset(run)) ELSE v
  IN FoldLeft(write, w, EventsAfter(cursor))

-----------------------------------------------------------------------------
(* The Broker.                                                              *)

\* record: every listener writes the event.
Record ==
  /\ up /\ sequence < MaxEvents
  /\ sequence' = sequence + 1
  /\ stream' = [s \in Streams |->
       IF stream[s].listening THEN write(stream[s], [run |-> run, seq |-> sequence + 1])
       ELSE stream[s]]
  /\ UNCHANGED <<up, run, page>>

\* performStop, which has recorded BROKER_STOPPING like any other event, destroys
\* every response; so does the end of the process.
Stop ==
  /\ up /\ run < MaxRuns
  /\ up' = FALSE
  /\ stream' = [s \in Streams |-> IF stream[s].st = "open" THEN close(stream[s]) ELSE stream[s]]
  /\ UNCHANGED <<run, sequence, page>>

\* Another Broker starts: its store is empty but for BROKER_STARTED.
Restart ==
  /\ ~up
  /\ up' = TRUE /\ run' = run + 1 /\ sequence' = 1
  /\ UNCHANGED <<stream, page>>

\* The network takes a frame; the drain event comes when the buffer is empty.
Flush(s) ==
  /\ stream[s].st = "open" /\ stream[s].sock /= <<>> /\ Len(stream[s].wire) < HighWater
  /\ LET v == [stream[s] EXCEPT !.wire = Append(@, Head(stream[s].sock)), !.sock = Tail(@)]
     IN stream' = [stream EXCEPT ![s] =
          IF v.sock = <<>> /\ v.draining THEN pump([v EXCEPT !.draining = FALSE]) ELSE v]
  /\ UNCHANGED <<up, run, sequence, page>>

Fault == page.faults < MaxFaults /\ page' = [page EXCEPT !.faults = @ + 1]

\* No drain event within 100 ms: the slow client is cut off.
DrainTimeout(s) ==
  /\ stream[s].st = "open" /\ stream[s].draining
  /\ Fault
  /\ stream' = [stream EXCEPT ![s] = close(stream[s])]
  /\ UNCHANGED <<up, run, sequence>>

\* The close event of a connection the page has lost.
CloseEvent(s) ==
  /\ stream[s].st = "open" /\ page.stream /= s
  /\ stream' = [stream EXCEPT ![s] = [close(@) EXCEPT !.wire = <<>>]]
  /\ UNCHANGED <<up, run, sequence, page>>

-----------------------------------------------------------------------------
(* The page.                                                                *)

\* An identity is used again when its stream is closed and nobody reads it.
Connect(s) ==
  /\ up /\ page.stream = None /\ stream[s].st /= "open"
  /\ stream' = [stream EXCEPT ![s] = OpenStream(page.lastId)]
  /\ page' = [page EXCEPT !.stream = s]
  /\ UNCHANGED <<up, run, sequence>>

\* appendEvent
Shown(shown, event) ==
  LET all == Append(shown, event)
  IN IF Len(all) > Ring THEN SubSeq(all, Len(all) - Ring + 1, Len(all)) ELSE all

Receive ==
  /\ page.stream /= None /\ stream[page.stream].wire /= <<>>
  /\ LET frame == Head(stream[page.stream].wire) IN
       page' = IF frame.seq = 0 THEN [page EXCEPT !.shown = <<>>]
               ELSE [page EXCEPT !.shown = Shown(@, frame), !.lastId = frame.seq]
  /\ stream' = [stream EXCEPT ![page.stream].wire = Tail(@)]
  /\ UNCHANGED <<up, run, sequence>>

\* The page learns that the Broker has closed its stream: what was under way
\* may be lost.
NoticeClosed ==
  /\ page.stream /= None /\ stream[page.stream].st = "closed"
  /\ page' = [page EXCEPT !.stream = None]
  /\ stream' = [stream EXCEPT ![page.stream].wire = <<>>]
  /\ UNCHANGED <<up, run, sequence>>

\* The connection breaks on the page's side first.
Disconnect ==
  /\ page.stream /= None /\ stream[page.stream].st = "open"
  /\ page.faults < MaxFaults
  /\ page' = [page EXCEPT !.stream = None, !.faults = @ + 1]
  /\ UNCHANGED <<up, run, sequence, stream>>

Next ==
  \/ Record \/ Stop \/ Restart \/ Receive \/ NoticeClosed \/ Disconnect
  \/ \E s \in Streams : Flush(s) \/ DrainTimeout(s) \/ CloseEvent(s) \/ Connect(s)

Spec == Init /\ [][Next]_vars

\* The network delivers, the page reads and reconnects, a Broker comes back.
FairSpec ==
  /\ Spec
  /\ WF_vars(Restart) /\ WF_vars(Receive) /\ WF_vars(NoticeClosed)
  /\ WF_vars(\E s \in Streams : Connect(s))
  /\ \A s \in Streams : WF_vars(Flush(s)) /\ WF_vars(CloseEvent(s))

-----------------------------------------------------------------------------
(* Properties.                                                              *)

TypeOK ==
  /\ up \in BOOLEAN /\ run \in 1..MaxRuns /\ sequence \in 1..MaxEvents
  /\ stream \in [Streams -> Stream]
  /\ \A s \in Streams : Len(stream[s].frames) <= MaxFrames /\ Len(stream[s].sock) <= HighWater
  /\ page \in Page
  /\ Len(page.shown) <= Ring

\* Operations-dashboard design, line 105: a listener is removed with its
\* connection.  No stream is served after it was closed, by whichever of the
\* four ways, and every open one hears of new events.
ListenersAreStreams ==
  \A s \in Streams : stream[s].listening <=> stream[s].st = "open"

\* The page shows the events of each Broker without a gap or a repetition:
\* events its store has lost show as a RESET, reconnecting repeats none, and a
\* queue that overflows drops none but ends the stream.  Those of a later
\* Broker come after those of an earlier one.  What is between the two is
\* NothingLostAtRestart's.
ShownWithoutGaps ==
  \A i \in 1..(Len(page.shown) - 1) :
    LET a == page.shown[i] b == page.shown[i + 1]
    IN \/ a.run = b.run /\ b.seq = a.seq + 1
       \/ a.run < b.run

\* What a stream still holds is without a gap too, and ends with the last event
\* it was given: a stream whose queue overflows drops nothing and goes on, it ends.
StreamConsecutive ==
  \A s \in Streams :
    LET sent == SelectSeq(stream[s].wire \o stream[s].sock \o stream[s].frames, LAMBDA f : f.seq > 0)
    IN stream[s].st = "open" =>
         /\ \A i \in 1..(Len(sent) - 1) : sent[i + 1].seq = sent[i].seq + 1
         /\ sent /= <<>> => sent[Len(sent)].seq = stream[s].lastSent

\* All three: no event of a Broker is lost on the way, neither in a stream nor
\* on the page.
NothingLost == ListenersAreStreams /\ ShownWithoutGaps /\ StreamConsecutive

\* The page shows the newest event again and again.
UpToDate ==
  []<>(up /\ page.shown /= <<>> /\ Last(page.shown) = [run |-> run, seq |-> sequence])

\* Operations-dashboard design, line 102: events the page has missed are
\* sent first, then the new ones.  If the Broker stays up, the page shows the
\* newest event in the end, whatever became of its connections.
CaughtUp == [](run = 1) => UpToDate

\* Not so: the first event shown of a Broker that follows another is its
\* first.  The page asks for what comes after lastId, a number of the Broker
\* before, and eventsAfter, who knows of no other run, holds every event up to
\* that number for seen: they are lost without a RESET.
NothingLostAtRestart ==
  \A i \in 1..(Len(page.shown) - 1) :
    page.shown[i].run < page.shown[i + 1].run => page.shown[i + 1].seq = 1

\* Not so: the same as CaughtUp whether or not a Broker follows another.
CaughtUpAfterRestart == UpToDate
=============================================================================
