--------------------------- MODULE AgentCallsProofs ---------------------------
(***************************************************************************)
(* Theorems about AgentCalls, for any number of calls: the properties of   *)
(* the run agent_calls but liveness, among them that the MCP server, the   *)
(* connection and the Broker together implement CallService.               *)
(***************************************************************************)
EXTENDS AgentCalls, SequenceTheorems, FiniteSetTheorems, TLAPS

-----------------------------------------------------------------------------
(* The inductive invariant                                                   *)

\* The phases of the client: calls are made once it is ready, and it has seen
\* the end of the connection only when its socket is closed.
ClientInPhase ==
  /\ phase = "handshake" => \A c \in Calls : outcome[c] = "idle"
  /\ \A c \in Calls : outcome[c] # "idle" => phase = "ready"
  /\ ws = "CONNECTING" => phase = "handshake"
  /\ closed => ws = "CLOSED"

\* A request is on its way once, and only until the Broker has it.
RequestsOnce ==
  /\ \A i \in 1..Len(up) : up[i].type = "request" =>
       /\ up[i].call \in Calls
       /\ outcome[up[i].call] \notin {"idle", "refused"} /\ stage[up[i].call] = "free"
       /\ \A j \in 1..Len(up) :
            up[j].type = "request" /\ up[j].call = up[i].call => i = j
  /\ \A c \in Calls : stage[c] # "free" => outcome[c] \notin {"idle", "refused"}

\* A command is executed once, after its request's turn has come.
CommandsOnce ==
  /\ \A c \in executing \cup executed : stage[c] \in {"routed", "done"}
  /\ executing \cap executed = {}

\* Only an executed command is answered with success.
SuccessIsExecuted ==
  \A i \in 1..Len(down) : down[i].success => down[i].call \in executed

\* A client that has given up the connection, or a call with it, has told the
\* Broker, or the connection has been cut for both.
EndsAreTold ==
  (\/ phase = "ready" /\ ws \in {"CLOSING", "CLOSED"}
   \/ \E c \in Calls : outcome[c] = "CONNECTION_LOST")
    => Ends(up) \/ session = "gone"

\* The answer to c arrives before the end of the connection.
AnswerComes(c) ==
  \E i \in 1..Len(down) : /\ down[i].call = c /\ down[i].type = "response"
                          /\ \A j \in 1..i : down[j].type # "end"

\* The calls the Broker answered when it stopped.
StoppedAnswered ==
  /\ stopped # {} => session \in {"live", "gone"}
  /\ \A c \in stopped :
       /\ stage[c] # "free" /\ outcome[c] # "CONNECTION_LOST"
       /\ outcome[c] = "open" => ws = "OPEN" /\ AnswerComes(c)

Inv ==
  /\ TypeOK /\ NoCallForgotten /\ ClientInPhase /\ RequestsOnce
  /\ CommandsOnce /\ SuccessIsExecuted /\ EndsAreTold /\ StoppedAnswered

-----------------------------------------------------------------------------
(* Queues of frames                                                          *)

\* new begins with all of old.
Grows(old, new) ==
  Len(old) <= Len(new) /\ \A i \in 1..Len(old) : new[i] = old[i]

\* What is not in old, at the same place, is the end of the connection.
Kept(old, new) ==
  \A i \in 1..Len(new) :
    \/ i \in 1..Len(old) /\ new[i] = old[i]
    \/ new[i].type = "end" /\ new[i].success = FALSE

Codes == {"closed", "cut", "hello required", "AUTH_FAILED", "PROTOCOL_MISMATCH"}

LEMMA EndIsFrame ==
  ASSUME NEW code \in Codes
  PROVE  End(code) \in Frames /\ End(code).type = "end" /\ End(code).success = FALSE
BY DEF Codes, End, Frame, Frames

LEMMA RequestIsFrame ==
  ASSUME NEW c \in Calls
  PROVE  /\ Frame("request", c, FALSE) \in Frames /\ Frame("request", c, FALSE).type = "request"
         /\ Frame("request", c, FALSE).call = c
BY DEF Frame, Frames

LEMMA PlainIsFrame ==
  ASSUME NEW type \in {"hello", "welcome", "error"}
  PROVE  Plain(type) \in Frames /\ Plain(type).type = type /\ Plain(type).success = FALSE
BY DEF Plain, Frame, Frames

\* Closing a queue keeps its frames, and ends it.
LEMMA ClosesKeeps ==
  ASSUME NEW q \in Seq(Frames), NEW code \in Codes
  PROVE  /\ Closes(q, code) \in Seq(Frames)
         /\ Grows(q, Closes(q, code)) /\ Kept(q, Closes(q, code))
         /\ Ends(Closes(q, code))
<1>1. CASE Ends(q)
  BY <1>1 DEF Closes, Grows, Kept
<1>2. CASE ~Ends(q)
  <2>1. PICK e \in Frames : e = End(code) /\ e.type = "end" /\ e.success = FALSE
    BY EndIsFrame
  <2>2. Closes(q, code) = Append(q, e)
    BY <1>2, <2>1 DEF Closes
  <2>3. /\ Append(q, e) \in Seq(Frames) /\ Len(Append(q, e)) = Len(q) + 1
        /\ \A i \in 1..Len(q) : Append(q, e)[i] = q[i]
        /\ Append(q, e)[Len(q) + 1] = e
    BY AppendProperties
  <2>4. Len(q) \in Nat
    OBVIOUS
  <2>5. Grows(q, Append(q, e)) /\ Kept(q, Append(q, e))
    BY <2>1, <2>3, <2>4 DEF Grows, Kept
  <2>6. Ends(Append(q, e))
    BY <2>1, <2>3, <2>4 DEF Ends
  <2> QED
    BY <2>2, <2>3, <2>5, <2>6
<1> QED
  BY <1>1, <1>2

\* So does cutting it, for the frames before the cut.
LEMMA LostFromKeeps ==
  ASSUME NEW q \in Seq(Frames), NEW k \in 0..Len(q)
  PROVE  LostFrom(q, k) \in Seq(Frames) /\ Kept(q, LostFrom(q, k)) /\ Ends(LostFrom(q, k))
<1> DEFINE head == SubSeq(q, 1, k)
<1>1. /\ head \in Seq(Frames) /\ Len(head) = k
      /\ \A i \in 1..k : head[i] = q[i]
  BY SubSeqProperties
<1>2. "cut" \in Codes
  BY DEF Codes
<1>3. LostFrom(q, k) = Closes(head, "cut")
  BY DEF LostFrom
<1> HIDE DEF head
<1>4. /\ Closes(head, "cut") \in Seq(Frames) /\ Kept(head, Closes(head, "cut"))
      /\ Ends(Closes(head, "cut"))
  BY <1>1, <1>2, ClosesKeeps
<1>5. Kept(q, Closes(head, "cut"))
  <2>1. 1..k \subseteq 1..Len(q)
    OBVIOUS
  <2> QED
    BY <1>1, <1>4, <2>1 DEF Kept
<1> QED
  BY <1>3, <1>4, <1>5

\* The frames after the first, each a place further to the front.
LEMMA TailFrames ==
  ASSUME NEW q \in Seq(Frames), q # <<>>
  PROVE  /\ Tail(q) \in Seq(Frames) /\ Len(q) \in Nat \ {0} /\ Len(Tail(q)) = Len(q) - 1
         /\ \A i \in 1..Len(Tail(q)) : i + 1 \in 1..Len(q) /\ Tail(q)[i] = q[i + 1]
         /\ Head(q) = q[1] /\ q[1] \in Frames
OBVIOUS

\* A connection that is over stays so, in a queue that grows, ...
LEMMA EndsStay ==
  ASSUME NEW q \in Seq(Frames), NEW r \in Seq(Frames), Grows(q, r), Ends(q)
  PROVE  Ends(r)
BY DEF Grows, Ends

\* ... and in one that loses another frame.
LEMMA EndsAfter ==
  ASSUME NEW q \in Seq(Frames), q # <<>>, Ends(q), Head(q).type # "end"
  PROVE  Ends(Tail(q))
<1>1. PICK i \in 1..Len(q) : q[i].type = "end"
  BY DEF Ends
<1>2. i - 1 \in 1..Len(Tail(q)) /\ Tail(q)[i - 1] = q[i]
  BY <1>1, TailFrames
<1> QED
  BY <1>1, <1>2 DEF Ends

\* The answers of the Broker come after what is on its way already; none is an
\* end, and an Agent that can be reached gets the answer to each request.
LEMMA RepliesGrow ==
  ASSUME TypeOK, NEW cs \in SUBSET Calls, NEW success \in BOOLEAN,
         NEW d \in Replies(cs, success)
  PROVE  /\ d \in Seq(Frames) /\ Grows(down, d)
         /\ \A i \in 1..Len(d) :
              \/ i \in 1..Len(down)
              \/ d[i].type = "response" /\ d[i].call \in cs /\ d[i].success = success
         /\ CanReply => \A c \in cs : \E i \in 1..Len(d) : i > Len(down) /\ d[i].call = c
<1>1. down \in Seq(Frames) /\ Len(down) \in Nat
  BY DEF TypeOK
<1>2. CASE ~CanReply
  BY <1>1, <1>2 DEF Replies, Grows
<1>3. CASE CanReply
  <2>0. PICK n \in Nat : n = Cardinality(cs)
    BY CallsAssumption, FS_Subset, FS_CardinalityType
  <2>1. PICK p \in [1..n -> cs] :
          /\ {p[i] : i \in 1..n} = cs
          /\ d = down \o [i \in 1..n |-> Frame("response", p[i], success)]
    BY <1>3, <2>0 DEF Replies
  <2>2. PICK a : a = [i \in 1..n |-> Frame("response", p[i], success)]
    OBVIOUS
  <2>3. a \in Seq(Frames) /\ Len(a) = n
    <3>1. \A i \in 1..n : Frame("response", p[i], success) \in Frames
      BY DEF Frame, Frames
    <3>2. a \in [1..n -> Frames]
      BY <2>2, <3>1
    <3> QED
      BY <3>2
  <2>4. \A i \in 1..n : /\ a[i].type = "response" /\ a[i].call = p[i]
                        /\ a[i].success = success
    BY <2>2 DEF Frame
  <2>5. d = down \o a
    BY <2>1, <2>2
  <2>6. /\ d \in Seq(Frames) /\ Len(d) = Len(down) + n
        /\ \A i \in 1..Len(d) :
             d[i] = IF i <= Len(down) THEN down[i] ELSE a[i - Len(down)]
    <3>1. /\ down \o a \in Seq(Frames) /\ Len(down \o a) = Len(down) + Len(a)
          /\ \A i \in 1..(Len(down) + Len(a)) :
               (down \o a)[i] = IF i <= Len(down) THEN down[i] ELSE a[i - Len(down)]
      BY <1>1, <2>3, ConcatProperties, ZenonT(30)
    <3> QED
      BY <2>3, <2>5, <3>1
  <2>7. Grows(down, d)
    BY <1>1, <2>6 DEF Grows
  <2>8. \A i \in 1..Len(d) :
          \/ i \in 1..Len(down)
          \/ d[i].type = "response" /\ d[i].call \in cs /\ d[i].success = success
    <3> SUFFICES ASSUME NEW i \in 1..Len(d), i > Len(down)
                 PROVE  d[i].type = "response" /\ d[i].call \in cs /\ d[i].success = success
      BY <1>1
    <3>1. i - Len(down) \in 1..n /\ d[i] = a[i - Len(down)]
      BY <1>1, <2>6
    <3> QED
      BY <2>4, <3>1
  <2>9. \A c \in cs : \E i \in 1..Len(d) : i > Len(down) /\ d[i].call = c
    <3> SUFFICES ASSUME NEW c \in cs
                 PROVE  \E i \in 1..Len(d) : i > Len(down) /\ d[i].call = c
      OBVIOUS
    <3>1. PICK k \in 1..n : p[k] = c
      BY <2>1
    <3>2. Len(down) + k \in 1..Len(d) /\ d[Len(down) + k] = a[k]
      BY <1>1, <2>6
    <3> QED
      BY <1>1, <2>4, <3>1, <3>2
  <2> QED
    BY <2>6, <2>7, <2>8, <2>9
<1> QED
  BY <1>2, <1>3

-----------------------------------------------------------------------------
(* What each part of the invariant is left alone by                          *)

\* The requests under way, when frames are lost and nothing else changes.
LEMMA RequestsStay ==
  ASSUME TypeOK, RequestsOnce, up' \in Seq(Frames), Kept(up, up'),
         \A c \in Calls : stage'[c] # "free" <=> stage[c] # "free",
         \A c \in Calls : outcome[c] \notin {"idle", "refused"}
                             => outcome'[c] \notin {"idle", "refused"}
  PROVE  RequestsOnce'
<1>1. \A i \in 1..Len(up') : up'[i].type = "request" => i \in 1..Len(up) /\ up'[i] = up[i]
  BY DEF Kept
<1>2. ASSUME NEW i \in 1..Len(up'), up'[i].type = "request"
      PROVE  /\ up'[i].call \in Calls
             /\ outcome'[up'[i].call] \notin {"idle", "refused"} /\ stage'[up'[i].call] = "free"
             /\ \A j \in 1..Len(up') :
                  up'[j].type = "request" /\ up'[j].call = up'[i].call => i = j
  BY <1>1, <1>2 DEF RequestsOnce
<1>3. \A c \in Calls : stage'[c] # "free" => outcome'[c] \notin {"idle", "refused"}
  BY DEF RequestsOnce
<1> QED
  BY <1>2, <1>3 DEF RequestsOnce

\* The successes under way, when answers are added.
LEMMA SuccessStays ==
  ASSUME TypeOK, SuccessIsExecuted, executed \subseteq executed',
         down' \in Seq(Frames), Grows(down, down'),
         \A i \in 1..Len(down') : \/ i \in 1..Len(down)
                                  \/ down'[i].success = FALSE \/ down'[i].call \in executed'
  PROVE  SuccessIsExecuted'
BY DEF TypeOK, SuccessIsExecuted, Grows, Frames

\* The answers to the requests of a stopped Broker, when frames are added behind
\* them and no call is made.
LEMMA AnswersStay ==
  ASSUME TypeOK, StoppedAnswered, stopped' = stopped, ws' = ws,
         down' \in Seq(Frames), Grows(down, down'),
         session' = session \/ session' = "gone",
         \A c \in Calls : stage[c] # "free" => stage'[c] # "free",
         \A c \in stopped : /\ outcome'[c] # "CONNECTION_LOST"
                            /\ outcome'[c] = "open" => outcome[c] = "open"
  PROVE  StoppedAnswered'
<1>1. \A c \in stopped : c \in Calls
  BY DEF TypeOK
<1>2. ASSUME NEW c \in stopped, AnswerComes(c)
      PROVE  AnswerComes(c)'
  <2>1. PICK i \in 1..Len(down) : /\ down[i].call = c /\ down[i].type = "response"
                                  /\ \A j \in 1..i : down[j].type # "end"
    BY <1>2 DEF AnswerComes
  <2>2. i \in 1..Len(down') /\ \A j \in 1..i : down'[j] = down[j]
    BY DEF TypeOK, Grows
  <2> QED
    BY <2>1, <2>2 DEF AnswerComes
<1>3. stopped' # {} => session' \in {"live", "gone"}
  BY DEF StoppedAnswered
<1>4. ASSUME NEW c \in stopped
      PROVE  /\ stage'[c] # "free" /\ outcome'[c] # "CONNECTION_LOST"
             /\ outcome'[c] = "open" => ws' = "OPEN" /\ AnswerComes(c)'
  <2>1. /\ stage[c] # "free"
        /\ outcome[c] = "open" => ws = "OPEN" /\ AnswerComes(c)
    BY DEF StoppedAnswered
  <2>2. stage'[c] # "free" /\ outcome'[c] # "CONNECTION_LOST"
    BY <1>1, <2>1
  <2>3. ASSUME outcome'[c] = "open"
        PROVE  ws' = "OPEN" /\ AnswerComes(c)'
    <3>1. ws = "OPEN" /\ AnswerComes(c)
      BY <2>1, <2>3
    <3> QED
      BY <1>2, <3>1
  <2> QED
    BY <2>2, <2>3
<1> QED
  BY <1>3, <1>4 DEF StoppedAnswered

\* The promises of some calls are settled; the others are left alone.
Verdicts == {"content", "ERROR", "INTERNAL_ERROR", "COMMAND_TIMEOUT", "CONNECTION_LOST"}

LEMMA Settled ==
  ASSUME TypeOK, NoCallForgotten, NEW cs \in SUBSET pending, NEW told \in Verdicts,
         Settle(cs, told)
  PROVE  /\ outcome' \in [Calls -> {"idle", "open", "content", "ERROR", "INTERNAL_ERROR",
                                     "COMMAND_TIMEOUT", "CONNECTION_LOST", "refused"}]
         /\ pending' \in SUBSET Calls /\ pending' = {c \in Calls : outcome'[c] = "open"}
         /\ pending' \subseteq pending
         /\ \A c \in Calls : c \notin cs => outcome'[c] = outcome[c]
         /\ \A c \in cs : c \in Calls /\ outcome[c] = "open" /\ outcome'[c] = told
         /\ \A c \in Calls : outcome'[c] = "open" => outcome[c] = "open"
         /\ \A c \in Calls : outcome[c] = "idle" <=> outcome'[c] = "idle"
         /\ \A c \in Calls : outcome[c] \notin {"idle", "refused"}
                               <=> outcome'[c] \notin {"idle", "refused"}
<1>1. outcome' \in [Calls -> {"idle", "open", "content", "ERROR", "INTERNAL_ERROR",
                              "COMMAND_TIMEOUT", "CONNECTION_LOST", "refused"}]
  BY DEF TypeOK, Settle, Verdicts
<1>2. \A c \in cs : c \in Calls /\ outcome[c] = "open" /\ outcome'[c] = told
  BY DEF NoCallForgotten, Settle
<1>3. \A c \in Calls : c \notin cs => outcome'[c] = outcome[c]
  BY DEF Settle
<1>4. pending' = pending \ cs
  BY DEF Settle
<1>5. \A c \in Calls : c \in pending <=> outcome[c] = "open"
  BY DEF NoCallForgotten
<1>6. told \notin {"idle", "open", "refused"}
  BY DEF Verdicts
<1>7. pending \in SUBSET Calls
  BY DEF TypeOK
<1>8. pending' \in SUBSET Calls /\ pending' \subseteq pending
  BY <1>4, <1>7
<1>9. pending' = {c \in Calls : outcome'[c] = "open"}
  BY <1>2, <1>3, <1>4, <1>5, <1>6, <1>7
<1> QED
  BY <1>1, <1>2, <1>3, <1>6, <1>8, <1>9

\* In the handshake no call has been made, so the Broker has no request yet.
LEMMA NothingAsked ==
  ASSUME Inv, phase # "ready"
  PROVE  /\ \A c \in Calls : outcome[c] = "idle" /\ stage[c] = "free"
         /\ stopped = {} /\ pending = {}
<1>1. \A c \in Calls : outcome[c] = "idle"
  BY DEF Inv, ClientInPhase
<1>2. \A c \in Calls : stage[c] = "free"
  BY <1>1 DEF Inv, RequestsOnce
<1> QED
  BY <1>1, <1>2 DEF Inv, TypeOK, NoCallForgotten, StoppedAnswered

\* A step of the Broker that adds at most answers and ends, and lets requests go
\* on from stage to stage.
LEMMA BrokerInv ==
  ASSUME Inv, UNCHANGED <<hello, clientVars, up>>,
         session' \in {session, "gone"},
         stage' \in [Calls -> {"free", "waiting", "routed", "done"}],
         \A c \in Calls : stage'[c] # "free" <=> stage[c] # "free",
         down' \in Seq(Frames), online' \in BOOLEAN,
         executing' \in SUBSET Calls, executed' \in SUBSET Calls,
         stop' \in {"no", "rejected", "closed"}, stopped' \in SUBSET Calls,
         CommandsOnce', SuccessIsExecuted', StoppedAnswered'
  PROVE  Inv'
<1>1. TypeOK'
  BY DEF Inv, TypeOK, clientVars
<1>2. NoCallForgotten' /\ ClientInPhase'
  BY DEF Inv, NoCallForgotten, ClientInPhase, clientVars
<1>3. RequestsOnce'
  <2>1. Kept(up, up')
    BY DEF Inv, TypeOK, Kept
  <2> QED
    BY <1>1, <2>1, RequestsStay DEF Inv, clientVars, TypeOK
<1>4. EndsAreTold'
  BY DEF Inv, EndsAreTold, Ends, clientVars
<1> QED
  BY <1>1, <1>2, <1>3, <1>4 DEF Inv

-----------------------------------------------------------------------------
(* The steps of the client                                                   *)

\* Nothing has been asked and nothing answered when the socket opens.
LEMMA SocketOpensInv == Inv /\ SocketOpens => Inv'
<1> SUFFICES ASSUME Inv, SocketOpens
             PROVE  Inv'
  OBVIOUS
<1>1. phase = "handshake"
  BY DEF Inv, ClientInPhase, SocketOpens
<1>2. (\A c \in Calls : outcome[c] = "idle" /\ stage[c] = "free") /\ stopped = {}
  BY <1>1, NothingAsked
<1>3. PICK f \in Frames : f = Plain("hello") /\ f.type = "hello"
  BY PlainIsFrame
<1>4. up' = <<f>> /\ up' \in Seq(Frames) /\ Len(up') = 1 /\ up'[1] = f
  BY <1>3 DEF SocketOpens
<1>5. TypeOK'
  BY <1>4 DEF Inv, TypeOK, SocketOpens
<1>6. NoCallForgotten' /\ ClientInPhase'
  BY <1>1 DEF Inv, NoCallForgotten, ClientInPhase, SocketOpens
<1>7. RequestsOnce'
  BY <1>2, <1>3, <1>4 DEF RequestsOnce, SocketOpens
<1>8. CommandsOnce' /\ SuccessIsExecuted'
  BY DEF Inv, CommandsOnce, SuccessIsExecuted, SocketOpens
<1>9. EndsAreTold'
  BY <1>1, <1>2 DEF EndsAreTold, SocketOpens
<1>10. StoppedAnswered'
  BY <1>2 DEF StoppedAnswered, SocketOpens
<1> QED
  BY <1>5, <1>6, <1>7, <1>8, <1>9, <1>10 DEF Inv

\* A handshake that fails closes the socket before any call.
LEMMA FailsInv ==
  ASSUME Inv, phase = "handshake",
         NEW code \in {"CONNECTION_LOST", "PROTOCOL_MISMATCH", "AUTH_FAILED"}, Fails(code),
         hello' = hello, UNCHANGED brokerVars,
         down' = down \/ (down # <<>> /\ down' = Tail(down))
  PROVE  Inv'
<1>1. (\A c \in Calls : outcome[c] = "idle" /\ stage[c] = "free") /\ stopped = {}
  BY NothingAsked
<1>2. up' \in Seq(Frames) /\ Kept(up, up')
  <2>1. up \in Seq(Frames) /\ "closed" \in Codes
    BY DEF Inv, TypeOK, Codes
  <2>2. CASE ws = "CONNECTING"
    BY <2>1, <2>2 DEF Fails, Kept
  <2>3. CASE ws # "CONNECTING"
    <3>1. up' = Closes(up, "closed")
      BY <2>3 DEF Fails
    <3> QED
      BY <2>1, <3>1, ClosesKeeps
  <2> QED
    BY <2>2, <2>3
<1>3. /\ down' \in Seq(Frames)
      /\ \A i \in 1..Len(down') : \E k \in 1..Len(down) : down'[i] = down[k]
  <2>1. CASE down' = down
    BY <2>1 DEF Inv, TypeOK
  <2>2. CASE down # <<>> /\ down' = Tail(down)
    BY <2>2, TailFrames DEF Inv, TypeOK
  <2> QED
    BY <2>1, <2>2
<1>4. TypeOK'
  BY <1>2, <1>3 DEF Inv, TypeOK, Fails, brokerVars
<1>5. NoCallForgotten' /\ ClientInPhase'
  BY <1>1 DEF Inv, NoCallForgotten, ClientInPhase, Fails, brokerVars
<1>6. RequestsOnce'
  BY <1>1, <1>2, RequestsStay DEF Inv, Fails, brokerVars
<1>7. CommandsOnce'
  BY DEF Inv, CommandsOnce, brokerVars
<1>8. SuccessIsExecuted'
  BY <1>3 DEF Inv, SuccessIsExecuted, brokerVars
<1>9. EndsAreTold'
  BY <1>1 DEF EndsAreTold, Fails
<1>10. StoppedAnswered'
  BY <1>1 DEF StoppedAnswered, brokerVars
<1> QED
  BY <1>4, <1>5, <1>6, <1>7, <1>8, <1>9, <1>10 DEF Inv

\* A call is refused, or its request is sent behind those under way.
LEMMA CallInv ==
  ASSUME Inv, NEW c \in Calls, Call(c)
  PROVE  Inv'
<1>1. /\ phase = "ready" /\ outcome[c] = "idle" /\ stage[c] = "free" /\ c \notin stopped
      /\ \A i \in 1..Len(up) : up[i].type = "request" => up[i].call # c
      /\ ws # "CONNECTING"
  BY DEF Inv, Call, RequestsOnce, ClientInPhase, StoppedAnswered
<1>2. CASE closed \/ ws # "OPEN"
  <2>1. /\ outcome' = [outcome EXCEPT ![c] = "refused"]
        /\ UNCHANGED <<pending, up, hello, ws, phase, closed, down, brokerVars>>
    BY <1>2 DEF Call
  <2>2. /\ \A d \in Calls : d # c => outcome'[d] = outcome[d]
        /\ outcome'[c] = "refused"
    BY <2>1 DEF Inv, TypeOK
  <2>3. TypeOK'
    BY <2>1 DEF Inv, TypeOK, brokerVars
  <2>4. NoCallForgotten' /\ ClientInPhase'
    BY <1>1, <2>1, <2>2 DEF Inv, NoCallForgotten, ClientInPhase
  <2>5. RequestsOnce'
    BY <1>1, <2>1, <2>2 DEF Inv, RequestsOnce, brokerVars
  <2>6. CommandsOnce' /\ SuccessIsExecuted'
    BY <2>1 DEF Inv, CommandsOnce, SuccessIsExecuted, brokerVars
  <2>7. EndsAreTold'
    BY <2>1, <2>2 DEF Inv, EndsAreTold, Ends, brokerVars
  <2>8. StoppedAnswered'
    BY <1>1, <2>1, <2>2 DEF Inv, TypeOK, StoppedAnswered, AnswerComes, brokerVars
  <2> QED
    BY <2>3, <2>4, <2>5, <2>6, <2>7, <2>8 DEF Inv
<1>3. CASE ~closed /\ ws = "OPEN"
  <2>1. /\ outcome' = [outcome EXCEPT ![c] = "open"] /\ pending' = pending \cup {c}
        /\ UNCHANGED <<hello, ws, phase, closed, down, brokerVars>>
    BY <1>3 DEF Call
  <2>2. /\ \A d \in Calls : d # c => outcome'[d] = outcome[d]
        /\ outcome'[c] = "open"
    BY <2>1 DEF Inv, TypeOK
  <2>3. /\ up' \in Seq(Frames) /\ Grows(up, up')
        /\ \A i \in 1..Len(up') : \/ i \in 1..Len(up)
                                  \/ i = Len(up) + 1 /\ up'[i].type = "request" /\ up'[i].call = c
    <3>1. CASE Ends(up)
      BY <1>3, <3>1 DEF Inv, TypeOK, Call, Grows
    <3>2. CASE ~Ends(up)
      <4>1. PICK f \in Frames : /\ f = Frame("request", c, FALSE)
                                /\ f.type = "request" /\ f.call = c
        BY RequestIsFrame
      <4>2. up' = Append(up, f)
        BY <1>3, <3>2, <4>1 DEF Call
      <4>3. up \in Seq(Frames) /\ Len(up) \in Nat
        BY DEF Inv, TypeOK
      <4>4. /\ up' \in Seq(Frames) /\ Len(up') = Len(up) + 1
            /\ \A i \in 1..Len(up) : up'[i] = up[i]
            /\ up'[Len(up) + 1] = f
        BY <4>2, <4>3, AppendProperties
      <4>5. Grows(up, up')
        BY <4>3, <4>4 DEF Grows
      <4>6. \A i \in 1..Len(up') : i \in 1..Len(up) \/ (i = Len(up) + 1 /\ up'[i] = f)
        <5>1. PICK n \in Nat : n = Len(up)
          BY <4>3
        <5>2. \A i \in 1..(n + 1) : i \in 1..n \/ i = n + 1
          BY <5>1
        <5> QED
          BY <4>4, <5>1, <5>2
      <4> QED
        BY <4>1, <4>4, <4>5, <4>6
    <3> QED
      BY <3>1, <3>2
  <2>4. up \in Seq(Frames) /\ Len(up) \in Nat
    BY DEF Inv, TypeOK
  <2>5. TypeOK'
    BY <2>1, <2>3 DEF Inv, TypeOK, brokerVars
  <2>6. NoCallForgotten' /\ ClientInPhase'
    BY <1>1, <1>3, <2>1, <2>2 DEF Inv, NoCallForgotten, ClientInPhase
  <2>7. RequestsOnce'
    <3>1. \A d \in Calls : stage'[d] # "free" => outcome'[d] \notin {"idle", "refused"}
      BY <2>1, <2>2 DEF Inv, RequestsOnce, brokerVars
    <3>2. ASSUME NEW i \in 1..Len(up'), up'[i].type = "request"
          PROVE  /\ up'[i].call \in Calls
                 /\ outcome'[up'[i].call] \notin {"idle", "refused"}
                 /\ stage'[up'[i].call] = "free"
                 /\ \A j \in 1..Len(up') :
                      up'[j].type = "request" /\ up'[j].call = up'[i].call => i = j
      <4>1. CASE i \in 1..Len(up)
        <5>1. up'[i] = up[i] /\ up[i].type = "request" /\ up[i].call # c
          BY <1>1, <2>3, <3>2, <4>1 DEF Grows
        <5>2. /\ up[i].call \in Calls
              /\ outcome[up[i].call] \notin {"idle", "refused"} /\ stage[up[i].call] = "free"
              /\ \A j \in 1..Len(up) :
                   up[j].type = "request" /\ up[j].call = up[i].call => i = j
          BY <4>1, <5>1 DEF Inv, RequestsOnce
        <5> QED
          BY <2>1, <2>2, <2>3, <5>1, <5>2 DEF Grows, brokerVars
      <4>2. CASE i \notin 1..Len(up)
        BY <1>1, <2>1, <2>2, <2>3, <2>4, <4>2 DEF Grows, brokerVars
      <4> QED
        BY <4>1, <4>2
    <3> QED
      BY <3>1, <3>2 DEF RequestsOnce
  <2>8. CommandsOnce' /\ SuccessIsExecuted'
    BY <2>1 DEF Inv, CommandsOnce, SuccessIsExecuted, brokerVars
  <2>9. EndsAreTold'
    <3>1. Ends(up) => Ends(up)'
      BY <2>3, <2>4, EndsStay
    <3> QED
      BY <2>1, <2>2, <3>1 DEF Inv, EndsAreTold, brokerVars
  <2>10. StoppedAnswered'
    BY <1>1, <2>1, <2>2 DEF Inv, TypeOK, StoppedAnswered, AnswerComes, brokerVars
  <2> QED
    BY <2>5, <2>6, <2>7, <2>8, <2>9, <2>10 DEF Inv
<1> QED
  BY <1>2, <1>3

\* Promises are settled: for a lost connection only when the Broker has been told,
\* and no call the stopped Broker answered.
LEMMA SettleInv ==
  ASSUME Inv, NEW cs \in SUBSET pending, NEW told \in Verdicts, Settle(cs, told),
         UNCHANGED <<hello, ws, phase, closed, up, brokerVars>>, down' \in Seq(Frames),
         SuccessIsExecuted',
         told = "CONNECTION_LOST" => Ends(up) /\ cs \cap stopped = {},
         \A c \in stopped : outcome'[c] = "open" /\ AnswerComes(c) => AnswerComes(c)'
  PROVE  Inv'
<1>1. /\ outcome' \in [Calls -> {"idle", "open", "content", "ERROR", "INTERNAL_ERROR",
                                  "COMMAND_TIMEOUT", "CONNECTION_LOST", "refused"}]
      /\ pending' \in SUBSET Calls /\ pending' = {c \in Calls : outcome'[c] = "open"}
      /\ pending' \subseteq pending
      /\ \A c \in Calls : c \notin cs => outcome'[c] = outcome[c]
      /\ \A c \in cs : c \in Calls /\ outcome[c] = "open" /\ outcome'[c] = told
      /\ \A c \in Calls : outcome'[c] = "open" => outcome[c] = "open"
      /\ \A c \in Calls : outcome[c] = "idle" <=> outcome'[c] = "idle"
      /\ \A c \in Calls : outcome[c] \notin {"idle", "refused"}
                            <=> outcome'[c] \notin {"idle", "refused"}
  BY Settled DEF Inv
<1>2. TypeOK'
  BY <1>1 DEF Inv, TypeOK, brokerVars
<1>3. NoCallForgotten' /\ ClientInPhase'
  <2>1. NoCallForgotten'
    BY <1>1 DEF Inv, NoCallForgotten
  <2>2. ClientInPhase'
    BY <1>1 DEF Inv, ClientInPhase
  <2> QED
    BY <2>1, <2>2
<1>4. RequestsOnce'
  <2>1. Kept(up, up') /\ up' \in Seq(Frames) /\ stage' = stage
    BY DEF Inv, TypeOK, Kept, brokerVars
  <2> QED
    BY <1>1, <2>1, RequestsStay DEF Inv
<1>5. CommandsOnce'
  BY DEF Inv, CommandsOnce, brokerVars
<1>6. EndsAreTold'
  <2>1. CASE told = "CONNECTION_LOST"
    BY <2>1 DEF EndsAreTold, Ends
  <2>2. CASE told # "CONNECTION_LOST"
    <3>1. \A c \in Calls : outcome'[c] = "CONNECTION_LOST" => outcome[c] = "CONNECTION_LOST"
      BY <1>1, <2>2
    <3> QED
      BY <3>1 DEF Inv, EndsAreTold, Ends, brokerVars
  <2> QED
    BY <2>1, <2>2
<1>7. StoppedAnswered'
  <2>1. stopped' = stopped /\ stage' = stage /\ session' = session /\ ws' = ws
    BY DEF brokerVars
  <2>2. ASSUME NEW c \in stopped
        PROVE  /\ stage[c] # "free" /\ outcome'[c] # "CONNECTION_LOST"
               /\ outcome'[c] = "open" => ws = "OPEN" /\ AnswerComes(c)'
    <3>1. /\ c \in Calls /\ stage[c] # "free" /\ outcome[c] # "CONNECTION_LOST"
          /\ outcome[c] = "open" => ws = "OPEN" /\ AnswerComes(c)
      BY DEF Inv, TypeOK, StoppedAnswered
    <3>2. outcome'[c] # "CONNECTION_LOST"
      BY <1>1, <3>1
    <3>3. ASSUME outcome'[c] = "open"
          PROVE  ws = "OPEN" /\ AnswerComes(c)'
      BY <1>1, <3>1, <3>3
    <3> QED
      BY <3>1, <3>2, <3>3
  <2>3. stopped # {} => session \in {"live", "gone"}
    BY DEF Inv, StoppedAnswered
  <2> QED
    BY <2>1, <2>2, <2>3 DEF StoppedAnswered
<1> QED
  BY <1>2, <1>3, <1>4, <1>5, <1>6, <1>7 DEF Inv

\* The timer of a call, and the callback of a send that failed.
LEMMA TimersInv ==
  ASSUME Inv, NEW c \in Calls, CallTimeout(c) \/ SendFails(c)
  PROVE  Inv'
<1>1. /\ {c} \in SUBSET pending
      /\ UNCHANGED <<hello, ws, phase, closed, up, down, brokerVars>>
  BY DEF CallTimeout, SendFails
<1>2. down' \in Seq(Frames)
  BY <1>1 DEF Inv, TypeOK
<1>3. SuccessIsExecuted'
  BY <1>1 DEF Inv, SuccessIsExecuted, brokerVars
<1>4. ASSUME NEW d \in stopped, AnswerComes(d)
      PROVE  AnswerComes(d)'
  BY <1>1, <1>4 DEF AnswerComes
<1>5. CASE CallTimeout(c)
  <2>1. Settle({c}, "COMMAND_TIMEOUT") /\ "COMMAND_TIMEOUT" \in Verdicts
    BY <1>5 DEF CallTimeout, Verdicts
  <2> QED
    BY <1>1, <1>2, <1>3, <1>4, <2>1, SettleInv
<1>6. CASE SendFails(c)
  <2>1. /\ Settle({c}, "CONNECTION_LOST") /\ "CONNECTION_LOST" \in Verdicts
        /\ Ends(up) /\ stage[c] = "free"
    BY <1>6 DEF SendFails, Verdicts
  <2>2. c \notin stopped
    BY <2>1 DEF Inv, StoppedAnswered
  <2> QED
    BY <1>1, <1>2, <1>3, <1>4, <2>1, <2>2, SettleInv
<1> QED
  BY <1>5, <1>6

\* Frames taken from a queue leave its successes and the answers behind them.
LEMMA AfterHead ==
  ASSUME Inv, down # <<>>, down' = Tail(down), executed' = executed
  PROVE  /\ down' \in Seq(Frames) /\ SuccessIsExecuted'
         /\ \A c \in Calls : AnswerComes(c)
              => \/ down[1].type = "response" /\ down[1].call = c
                 \/ down[1].type # "end" /\ AnswerComes(c)'
<1>1. /\ down' \in Seq(Frames) /\ Len(down) \in Nat /\ Len(down') = Len(down) - 1
      /\ \A i \in 1..Len(down') : i + 1 \in 1..Len(down) /\ down'[i] = down[i + 1]
  BY TailFrames DEF Inv, TypeOK
<1>2. SuccessIsExecuted'
  BY <1>1 DEF Inv, SuccessIsExecuted
<1>3. ASSUME NEW c \in Calls, AnswerComes(c)
      PROVE  \/ down[1].type = "response" /\ down[1].call = c
             \/ down[1].type # "end" /\ AnswerComes(c)'
  <2>1. PICK i \in 1..Len(down) : /\ down[i].call = c /\ down[i].type = "response"
                                  /\ \A j \in 1..i : down[j].type # "end"
    BY <1>3 DEF AnswerComes
  <2>2. CASE i = 1
    BY <2>1, <2>2
  <2>3. CASE i # 1
    <3>1. /\ i - 1 \in 1..Len(down') /\ (i - 1) + 1 = i
          /\ \A j \in 1..(i - 1) : j + 1 \in 1..i /\ j \in 1..Len(down')
          /\ 1 \in 1..i
      BY <1>1, <2>3
    <3>2. /\ down'[i - 1].call = c /\ down'[i - 1].type = "response"
          /\ \A j \in 1..(i - 1) : down'[j].type # "end"
      BY <1>1, <2>1, <3>1
    <3> QED
      BY <2>1, <3>1, <3>2 DEF AnswerComes
  <2> QED
    BY <2>2, <2>3
<1> QED
  BY <1>1, <1>2, <1>3

\* The socket is told to close and will be: no call the stopped Broker answered is
\* open behind an end that has arrived.
LEMMA ReceivesEndInv ==
  ASSUME Inv, Receive, phase = "ready", down[1].type = "end",
         ws' = "CLOSING", up' = Closes(up, "closed"),
         UNCHANGED <<phase, closed, pending, outcome>>
  PROVE  Inv'
<1>1. /\ ws = "OPEN" /\ down # <<>> /\ down' = Tail(down)
      /\ UNCHANGED <<hello, brokerVars>>
  BY DEF Receive
<1>2. /\ down' \in Seq(Frames) /\ SuccessIsExecuted'
      /\ \A c \in Calls : ~AnswerComes(c)
  <2>1. executed' = executed
    BY <1>1 DEF brokerVars
  <2>2. down[1].type # "response"
    OBVIOUS
  <2> QED
    BY <1>1, <2>1, <2>2, AfterHead
<1>3. up' \in Seq(Frames) /\ Kept(up, up') /\ Ends(up)'
  <2>1. up \in Seq(Frames) /\ "closed" \in Codes
    BY DEF Inv, TypeOK, Codes
  <2>2. /\ Closes(up, "closed") \in Seq(Frames) /\ Kept(up, Closes(up, "closed"))
        /\ Ends(Closes(up, "closed"))
    BY <2>1, ClosesKeeps
  <2> QED
    BY <2>2 DEF Ends
<1>4. TypeOK'
  BY <1>1, <1>2, <1>3 DEF Inv, TypeOK, brokerVars
<1>5. NoCallForgotten' /\ ClientInPhase'
  BY <1>1 DEF Inv, NoCallForgotten, ClientInPhase
<1>6. RequestsOnce'
  BY <1>1, <1>3, RequestsStay DEF Inv, brokerVars
<1>7. CommandsOnce'
  BY <1>1 DEF Inv, CommandsOnce, brokerVars
<1>8. EndsAreTold'
  BY <1>3 DEF EndsAreTold
<1>9. StoppedAnswered'
  BY <1>1, <1>2 DEF Inv, TypeOK, StoppedAnswered, brokerVars
<1> QED
  BY <1>2, <1>4, <1>5, <1>6, <1>7, <1>8, <1>9 DEF Inv

LEMMA ReceiveInv == Inv /\ Receive => Inv'
<1> SUFFICES ASSUME Inv, Receive
             PROVE  Inv'
  OBVIOUS
<1>1. /\ ws = "OPEN" /\ down # <<>> /\ down' = Tail(down) /\ hello' = hello
      /\ UNCHANGED brokerVars
  BY DEF Receive
<1>2. PICK f \in Frames : f = Head(down) /\ f = down[1]
  BY <1>1, TailFrames DEF Inv, TypeOK
<1>3. CASE phase = "handshake" /\ HandshakeFrame(f)
  <2>1. CASE f.type # "end" /\ f.type = "welcome"
    <3>1. phase' = "ready" /\ UNCHANGED <<ws, closed, pending, outcome, up>>
      BY <1>3, <2>1 DEF HandshakeFrame
    <3>2. (\A c \in Calls : outcome[c] = "idle" /\ stage[c] = "free") /\ stopped = {}
      BY <1>3, NothingAsked
    <3>3. down' \in Seq(Frames) /\ SuccessIsExecuted'
      BY <1>1, AfterHead DEF brokerVars
    <3>4. TypeOK'
      BY <1>1, <3>1, <3>3 DEF Inv, TypeOK, brokerVars
    <3>5. NoCallForgotten' /\ ClientInPhase' /\ EndsAreTold'
      BY <1>1, <3>1, <3>2 DEF Inv, NoCallForgotten, ClientInPhase, EndsAreTold
    <3>6. RequestsOnce' /\ CommandsOnce' /\ StoppedAnswered'
      BY <1>1, <3>1, <3>2 DEF Inv, RequestsOnce, CommandsOnce, StoppedAnswered, brokerVars
    <3> QED
      BY <3>3, <3>4, <3>5, <3>6 DEF Inv
  <2>2. CASE ~(f.type # "end" /\ f.type = "welcome")
    <3>1. PICK code \in {"CONNECTION_LOST", "PROTOCOL_MISMATCH", "AUTH_FAILED"} : Fails(code)
      BY <1>3, <2>2 DEF HandshakeFrame
    <3> QED
      BY <1>1, <1>3, <3>1, FailsInv
  <2> QED
    BY <2>1, <2>2
<1>4. ASSUME phase = "ready", NEW wellFormed \in BOOLEAN, ReadyFrame(f, wellFormed)
      PROVE  Inv'
  <2>1. CASE f.type = "end"
    BY <1>2, <1>4, <2>1, ReceivesEndInv DEF ReadyFrame
  <2>2. CASE f.type # "end"
    <3>1. PICK told : told = Told(f, wellFormed)
      OBVIOUS
    <3>2. told \in {"content", "ERROR", "INTERNAL_ERROR"}
      BY <3>1 DEF Told
    <3>3. /\ Settle({f.call} \cap pending, told)
          /\ UNCHANGED <<ws, phase, closed, up>>
      BY <1>4, <2>2, <3>1 DEF ReadyFrame, handleMessage
    <3>4. {f.call} \cap pending \in SUBSET pending /\ told \in Verdicts
      BY <3>2 DEF Verdicts
    <3>5. /\ down' \in Seq(Frames) /\ SuccessIsExecuted'
          /\ \A c \in Calls : AnswerComes(c) => f.call = c \/ AnswerComes(c)'
      BY <1>1, <1>2, AfterHead DEF brokerVars
    <3>6. ASSUME NEW c \in stopped, outcome'[c] = "open", AnswerComes(c)
          PROVE  AnswerComes(c)'
      <4>1. c \in Calls
        BY DEF Inv, TypeOK
      <4>2. f.call # c
        <5>1. SUFFICES ASSUME f.call = c
                       PROVE  FALSE
          OBVIOUS
        <5>2. outcome[c] = "open"
          BY <3>3, <3>4, <3>6, <4>1, Settled DEF Inv
        <5>3. c \in {f.call} \cap pending
          BY <4>1, <5>1, <5>2 DEF Inv, NoCallForgotten
        <5>4. outcome'[c] = told
          BY <3>3, <4>1, <5>3 DEF Settle
        <5> QED
          BY <3>2, <3>6, <5>4
      <4> QED
        BY <3>5, <3>6, <4>1, <4>2
    <3>7. told # "CONNECTION_LOST"
      BY <3>2
    <3> QED
      BY <1>1, <3>3, <3>4, <3>5, <3>6, <3>7, SettleInv
  <2> QED
    BY <2>1, <2>2
<1> QED
  BY <1>2, <1>3, <1>4 DEF Receive

\* The end of the connection settles all calls; none is open that the stopped
\* Broker answered, since such a call has its socket open.
LEMMA CloseEventInv == Inv /\ CloseEvent => Inv'
<1> SUFFICES ASSUME Inv, CloseEvent
             PROVE  Inv'
  OBVIOUS
<1>1. /\ ws = "CLOSING" /\ ws' = "CLOSED" /\ closed' = TRUE
      /\ Settle(pending, "CONNECTION_LOST") /\ "CONNECTION_LOST" \in Verdicts
      /\ UNCHANGED <<hello, phase, up, down, brokerVars>>
  BY DEF CloseEvent, rejectPending, Verdicts
<1>2. /\ outcome' \in [Calls -> {"idle", "open", "content", "ERROR", "INTERNAL_ERROR",
                                  "COMMAND_TIMEOUT", "CONNECTION_LOST", "refused"}]
      /\ pending' \in SUBSET Calls /\ pending' = {c \in Calls : outcome'[c] = "open"}
      /\ \A c \in Calls : c \notin pending => outcome'[c] = outcome[c]
      /\ \A c \in Calls : outcome[c] = "idle" <=> outcome'[c] = "idle"
      /\ \A c \in Calls : outcome[c] \notin {"idle", "refused"}
                            <=> outcome'[c] \notin {"idle", "refused"}
  BY <1>1, Settled DEF Inv
<1>3. pending' = {}
  BY <1>1 DEF Settle
<1>4. TypeOK'
  BY <1>1, <1>2 DEF Inv, TypeOK, brokerVars
<1>5. NoCallForgotten'
  BY <1>2, <1>3 DEF NoCallForgotten
<1>6. ClientInPhase'
  BY <1>1, <1>2 DEF Inv, ClientInPhase
<1>7. RequestsOnce'
  <2>1. Kept(up, up') /\ up' \in Seq(Frames) /\ stage' = stage
    BY <1>1 DEF Inv, TypeOK, Kept, brokerVars
  <2> QED
    BY <1>2, <2>1, RequestsStay DEF Inv
<1>8. CommandsOnce' /\ SuccessIsExecuted'
  BY <1>1 DEF Inv, CommandsOnce, SuccessIsExecuted, brokerVars
<1>9. EndsAreTold'
  <2>1. CASE phase = "ready"
    BY <1>1, <2>1 DEF Inv, EndsAreTold, Ends, brokerVars
  <2>2. CASE phase # "ready"
    <3>1. \A c \in Calls : outcome'[c] = "idle"
      BY <1>2, <2>2, NothingAsked
    <3> QED
      BY <1>1, <2>2, <3>1 DEF EndsAreTold
  <2> QED
    BY <2>1, <2>2
<1>10. StoppedAnswered'
  <2>1. stopped' = stopped /\ stage' = stage /\ session' = session
    BY <1>1 DEF brokerVars
  <2>2. ASSUME NEW c \in stopped
        PROVE  /\ stage[c] # "free" /\ outcome'[c] # "CONNECTION_LOST"
               /\ outcome'[c] # "open"
    <3>1. c \in Calls /\ stage[c] # "free" /\ outcome[c] # "CONNECTION_LOST" /\ outcome[c] # "open"
      BY <1>1 DEF Inv, TypeOK, StoppedAnswered
    <3>2. outcome'[c] = outcome[c]
      BY <1>2, <3>1 DEF Inv, NoCallForgotten
    <3> QED
      BY <3>1, <3>2
  <2> QED
    BY <2>1, <2>2 DEF Inv, StoppedAnswered
<1> QED
  BY <1>4, <1>5, <1>6, <1>7, <1>8, <1>9, <1>10 DEF Inv

\* The MCP server is shut down: it tells the Broker.
LEMMA ShutdownInv == Inv /\ Shutdown => Inv'
<1> SUFFICES ASSUME Inv, Shutdown
             PROVE  Inv'
  OBVIOUS
<1>1. /\ phase = "ready" /\ ws' = "CLOSED" /\ closed' = TRUE /\ up' = Closes(up, "closed")
      /\ Settle(pending, "CONNECTION_LOST") /\ "CONNECTION_LOST" \in Verdicts /\ stopped' = {}
      /\ UNCHANGED <<hello, phase, down, session, stage, online, executing, executed, stop>>
  BY DEF Shutdown, rejectPending, Verdicts
<1>2. /\ outcome' \in [Calls -> {"idle", "open", "content", "ERROR", "INTERNAL_ERROR",
                                  "COMMAND_TIMEOUT", "CONNECTION_LOST", "refused"}]
      /\ pending' \in SUBSET Calls /\ pending' = {c \in Calls : outcome'[c] = "open"}
      /\ \A c \in Calls : outcome[c] = "idle" <=> outcome'[c] = "idle"
      /\ \A c \in Calls : outcome[c] \notin {"idle", "refused"}
                            <=> outcome'[c] \notin {"idle", "refused"}
  BY <1>1, Settled DEF Inv
<1>3. up' \in Seq(Frames) /\ Kept(up, up') /\ Ends(up)'
  <2>1. up \in Seq(Frames) /\ "closed" \in Codes
    BY DEF Inv, TypeOK, Codes
  <2>2. /\ Closes(up, "closed") \in Seq(Frames) /\ Kept(up, Closes(up, "closed"))
        /\ Ends(Closes(up, "closed"))
    BY <2>1, ClosesKeeps
  <2> QED
    BY <1>1, <2>2 DEF Ends
<1>4. pending' = {}
  BY <1>1 DEF Settle
<1>5. TypeOK'
  BY <1>1, <1>2, <1>3 DEF Inv, TypeOK
<1>6. NoCallForgotten'
  BY <1>2, <1>4 DEF NoCallForgotten
<1>7. ClientInPhase'
  BY <1>1, <1>2 DEF Inv, ClientInPhase
<1>8. RequestsOnce'
  BY <1>1, <1>2, <1>3, RequestsStay DEF Inv
<1>9. CommandsOnce' /\ SuccessIsExecuted'
  BY <1>1 DEF Inv, CommandsOnce, SuccessIsExecuted
<1>10. EndsAreTold'
  BY <1>3 DEF EndsAreTold
<1>11. StoppedAnswered'
  BY <1>1 DEF StoppedAnswered
<1> QED
  BY <1>5, <1>6, <1>7, <1>8, <1>9, <1>10, <1>11 DEF Inv

-----------------------------------------------------------------------------
(* The steps of the connection and of the Broker                             *)

LEMMA CutInv == Inv /\ Cut => Inv'
<1> SUFFICES ASSUME Inv, Cut
             PROVE  Inv'
  OBVIOUS
<1>1. /\ UNCHANGED <<hello, clientVars, session, stage, online, executing, executed, stop>>
      /\ stopped' = {}
  BY DEF Cut
<1>2. up' \in Seq(Frames) /\ Kept(up, up') /\ Ends(up)'
  <2>1. PICK k \in 0..Len(up) : up' = LostFrom(up, k)
    BY DEF Cut
  <2>2. LostFrom(up, k) \in Seq(Frames) /\ Kept(up, LostFrom(up, k)) /\ Ends(LostFrom(up, k))
    BY LostFromKeeps DEF Inv, TypeOK
  <2> QED
    BY <2>1, <2>2 DEF Ends
<1>3. down' \in Seq(Frames) /\ Kept(down, down')
  <2>1. PICK k \in 0..Len(down) : down' = LostFrom(down, k)
    BY DEF Cut
  <2>2. LostFrom(down, k) \in Seq(Frames) /\ Kept(down, LostFrom(down, k))
    BY LostFromKeeps DEF Inv, TypeOK
  <2> QED
    BY <2>1, <2>2
<1>4. TypeOK'
  BY <1>1, <1>2, <1>3 DEF Inv, TypeOK, clientVars
<1>5. NoCallForgotten' /\ ClientInPhase'
  BY <1>1 DEF Inv, NoCallForgotten, ClientInPhase, clientVars
<1>6. RequestsOnce'
  BY <1>1, <1>2, RequestsStay DEF Inv, clientVars
<1>7. CommandsOnce'
  BY <1>1 DEF Inv, CommandsOnce
<1>8. SuccessIsExecuted'
  BY <1>1, <1>3 DEF Inv, SuccessIsExecuted, Kept
<1>9. EndsAreTold' /\ StoppedAnswered'
  BY <1>1, <1>2 DEF EndsAreTold, StoppedAnswered
<1> QED
  BY <1>4, <1>5, <1>6, <1>7, <1>8, <1>9 DEF Inv

\* The Broker gives up waiting for the hello, or answers one with a welcome, an
\* error or the end of the connection: nobody waits for anything yet.
LEMMA HelloTimeoutInv == Inv /\ HelloTimeout => Inv'
<1> SUFFICES ASSUME Inv, HelloTimeout
             PROVE  Inv'
  OBVIOUS
<1>1. /\ session = "hello" /\ session' = "gone" /\ down' = Closes(down, "hello required")
      /\ UNCHANGED <<hello, clientVars, up, stage, online, executing, executed, stop, stopped>>
  BY DEF HelloTimeout
<1>2. down' \in Seq(Frames) /\ Kept(down, down')
  BY <1>1, ClosesKeeps DEF Inv, TypeOK, Codes
<1>3. SuccessIsExecuted'
  BY <1>1, <1>2 DEF Inv, SuccessIsExecuted, Kept
<1>4. CommandsOnce' /\ StoppedAnswered'
  BY <1>1 DEF Inv, CommandsOnce, StoppedAnswered
<1> QED
  BY <1>1, <1>2, <1>3, <1>4, BrokerInv DEF Inv, TypeOK

\* A frame arrives at the Broker, one that it takes without asking for anything.
LEMMA TakesInv ==
  ASSUME Inv, up # <<>>, up' = Tail(up),
         UNCHANGED <<hello, clientVars, online, executing, executed, stop, stopped>>,
         session' \in {session, "live", "gone"}, Head(up).type = "end" => session' = "gone",
         session = "gone" => session' = "gone",
         stage' \in [Calls -> {"free", "waiting", "routed", "done"}],
         \A c \in Calls : stage'[c] # "free" <=> stage[c] # "free",
         down' \in Seq(Frames), CommandsOnce', SuccessIsExecuted', StoppedAnswered'
  PROVE  Inv'
<1>1. TypeOK'
  BY TailFrames DEF Inv, TypeOK, clientVars
<1>2. NoCallForgotten' /\ ClientInPhase'
  BY DEF Inv, NoCallForgotten, ClientInPhase, clientVars
<1>3. RequestsOnce'
  <2>1. /\ \A i \in 1..Len(up') : i + 1 \in 1..Len(up) /\ up'[i] = up[i + 1]
        /\ \A i, j \in 1..Len(up') : i + 1 = j + 1 => i = j
    BY TailFrames DEF Inv, TypeOK
  <2>2. outcome' = outcome
    BY DEF clientVars
  <2>3. ASSUME NEW i \in 1..Len(up'), up'[i].type = "request"
        PROVE  /\ up'[i].call \in Calls
               /\ outcome[up'[i].call] \notin {"idle", "refused"} /\ stage[up'[i].call] = "free"
               /\ \A j \in 1..Len(up') :
                    up'[j].type = "request" /\ up'[j].call = up'[i].call => i = j
    <3>1. i + 1 \in 1..Len(up) /\ up'[i] = up[i + 1] /\ up[i + 1].type = "request"
      BY <2>1, <2>3
    <3> QED
      BY <2>1, <3>1 DEF Inv, RequestsOnce
  <2> QED
    BY <2>2, <2>3 DEF Inv, RequestsOnce
<1>4. EndsAreTold'
  <2>1. CASE session' = "gone"
    BY <2>1 DEF EndsAreTold
  <2>2. CASE session' # "gone"
    <3>1. Head(up).type # "end" /\ session # "gone"
      BY <2>2
    <3>2. Ends(up) => Ends(up)'
      <4>1. Ends(up) => Ends(Tail(up))
        BY <3>1, EndsAfter DEF Inv, TypeOK
      <4> QED
        BY <4>1 DEF Ends
    <3> QED
      BY <3>1, <3>2 DEF Inv, EndsAreTold, clientVars
  <2> QED
    BY <2>1, <2>2
<1> QED
  BY <1>1, <1>2, <1>3, <1>4 DEF Inv

\* The hello is answered while nothing has been asked.
LEMMA HelloInv ==
  ASSUME Inv, BrokerReceives, Head(up).type = "hello", session = "hello", Hello, stage' = stage
  PROVE  Inv'
<1>1. /\ up # <<>> /\ up' = Tail(up) /\ session' \in {"live", "gone"}
      /\ UNCHANGED <<hello, clientVars, online, executing, executed, stop, stopped>>
  BY DEF BrokerReceives, Hello
<1>2. /\ down' \in Seq(Frames)
      /\ \A i \in 1..Len(down') : \/ i \in 1..Len(down) /\ down'[i] = down[i]
                                  \/ down'[i].success = FALSE
  <2>1. PICK a \in Frames, b \in Frames, d \in Frames, e \in Frames :
          /\ a = Plain("welcome") /\ b = Plain("error")
          /\ d = End("PROTOCOL_MISMATCH") /\ e = End("AUTH_FAILED")
          /\ a.success = FALSE /\ b.success = FALSE /\ d.success = FALSE /\ e.success = FALSE
    <3>1. "PROTOCOL_MISMATCH" \in Codes /\ "AUTH_FAILED" \in Codes
      BY DEF Codes
    <3> QED
      BY <3>1, PlainIsFrame, EndIsFrame
  <2>2. \/ Ends(down) /\ down' = down
        \/ down' = <<a>> \/ down' = <<b, d>> \/ down' = <<e>>
    BY <2>1 DEF Hello, Inv, TypeOK
  <2>3. /\ <<a>> \in Seq(Frames) /\ <<b, d>> \in Seq(Frames) /\ <<e>> \in Seq(Frames)
        /\ Len(<<a>>) = 1 /\ Len(<<b, d>>) = 2 /\ Len(<<e>>) = 1
    OBVIOUS
  <2>4. CASE down' = down
    BY <2>4 DEF Inv, TypeOK
  <2>5. CASE down' = <<a>>
    BY <2>1, <2>3, <2>5
  <2>6. CASE down' = <<b, d>>
    BY <2>1, <2>3, <2>6
  <2>7. CASE down' = <<e>>
    BY <2>1, <2>3, <2>7
  <2> QED
    BY <2>2, <2>4, <2>5, <2>6, <2>7
<1>3. SuccessIsExecuted'
  BY <1>1, <1>2 DEF Inv, SuccessIsExecuted
<1>4. CommandsOnce' /\ StoppedAnswered'
  BY <1>1 DEF Inv, CommandsOnce, StoppedAnswered
<1> QED
  BY <1>1, <1>2, <1>3, <1>4, TakesInv DEF Inv, TypeOK

\* A request arrives: it waits for its turn, or is refused at once.
LEMMA ForwardInv ==
  ASSUME Inv, BrokerReceives, Head(up).type = "request", session = "live",
         Forward(Head(up).call), session' = session
  PROVE  Inv'
<1>1. PICK c : c = Head(up).call
  OBVIOUS
<1>2. /\ up # <<>> /\ up' = Tail(up) /\ session' = session
      /\ UNCHANGED <<hello, clientVars, online, executing, executed, stop, stopped>>
  BY DEF BrokerReceives
<1>3. /\ up' \in Seq(Frames) /\ Len(up) \in Nat \ {0} /\ 1 \in 1..Len(up) /\ Head(up) = up[1]
      /\ \A i \in 1..Len(up') : i + 1 \in 1..Len(up) /\ up'[i] = up[i + 1]
      /\ \A i, j \in 1..Len(up') : i + 1 = j + 1 => i = j
      /\ \A i \in 1..Len(up') : i + 1 # 1
  BY <1>2, TailFrames DEF Inv, TypeOK
<1>4. /\ c \in Calls /\ outcome[c] \notin {"idle", "refused"} /\ stage[c] = "free"
      /\ \A j \in 1..Len(up) : up[j].type = "request" /\ up[j].call = c => 1 = j
  BY <1>1, <1>3 DEF Inv, RequestsOnce
<1>5. /\ stage' \in [Calls -> {"free", "waiting", "routed", "done"}]
      /\ stage'[c] \in {"waiting", "done"}
      /\ \A d \in Calls : d # c => stage'[d] = stage[d]
  BY <1>1, <1>4 DEF Forward, Inv, TypeOK
<1>6. /\ down' \in Seq(Frames) /\ Grows(down, down')
      /\ \A i \in 1..Len(down') : i \in 1..Len(down) \/ down'[i].success = FALSE
  <2>1. CASE down' = down
    BY <2>1 DEF Inv, TypeOK, Grows
  <2>2. CASE down' \in Replies({c}, FALSE)
    <3>1. {c} \in SUBSET Calls /\ FALSE \in BOOLEAN
      BY <1>4
    <3> QED
      BY <2>2, <3>1, RepliesGrow DEF Inv
  <2> QED
    BY <1>1, <2>1, <2>2 DEF Forward
<1>7. TypeOK'
  BY <1>2, <1>3, <1>5, <1>6 DEF Inv, TypeOK, clientVars
<1>8. NoCallForgotten' /\ ClientInPhase'
  BY <1>2 DEF Inv, NoCallForgotten, ClientInPhase, clientVars
<1>9. RequestsOnce'
  <2>1. outcome' = outcome
    BY <1>2 DEF clientVars
  <2>2. ASSUME NEW i \in 1..Len(up'), up'[i].type = "request"
        PROVE  /\ up'[i].call \in Calls
               /\ outcome[up'[i].call] \notin {"idle", "refused"} /\ stage'[up'[i].call] = "free"
               /\ \A j \in 1..Len(up') :
                    up'[j].type = "request" /\ up'[j].call = up'[i].call => i = j
    <3>1. i + 1 \in 1..Len(up) /\ up'[i] = up[i + 1] /\ up[i + 1].type = "request"
      BY <1>3, <2>2
    <3>2. up[i + 1].call # c
      BY <1>3, <1>4, <3>1
    <3>3. /\ up[i + 1].call \in Calls
          /\ outcome[up[i + 1].call] \notin {"idle", "refused"}
          /\ stage[up[i + 1].call] = "free"
          /\ \A j \in 1..Len(up) :
               up[j].type = "request" /\ up[j].call = up[i + 1].call => i + 1 = j
      BY <3>1 DEF Inv, RequestsOnce
    <3> QED
      BY <1>3, <1>5, <3>1, <3>2, <3>3
  <2>3. \A d \in Calls : stage'[d] # "free" => outcome[d] \notin {"idle", "refused"}
    BY <1>4, <1>5 DEF Inv, RequestsOnce
  <2> QED
    BY <2>1, <2>2, <2>3 DEF RequestsOnce
<1>10. CommandsOnce'
  BY <1>2, <1>4, <1>5 DEF Inv, TypeOK, CommandsOnce
<1>11. SuccessIsExecuted'
  BY <1>2, <1>6, SuccessStays DEF Inv
<1>12. EndsAreTold'
  <2>1. Ends(up) => Ends(Tail(up))
    BY <1>2, EndsAfter DEF Inv, TypeOK
  <2>2. Ends(up) => Ends(up)'
    BY <1>2, <2>1 DEF Ends
  <2> QED
    BY <1>2, <2>2 DEF Inv, EndsAreTold, clientVars
<1>13. StoppedAnswered'
  <2>1. /\ stopped' = stopped /\ ws' = ws /\ outcome' = outcome /\ session' = session
        /\ \A d \in Calls : stage[d] # "free" => stage'[d] # "free"
    BY <1>2, <1>5 DEF clientVars
  <2>2. \A d \in stopped : outcome[d] # "CONNECTION_LOST"
    BY DEF Inv, StoppedAnswered
  <2> QED
    BY <1>6, <2>1, <2>2, AnswersStay DEF Inv
<1> QED
  BY <1>7, <1>8, <1>9, <1>10, <1>11, <1>12, <1>13 DEF Inv

LEMMA BrokerReceivesInv == Inv /\ BrokerReceives => Inv'
<1> SUFFICES ASSUME Inv, BrokerReceives
             PROVE  Inv'
  OBVIOUS
<1>1. /\ up # <<>> /\ up' = Tail(up)
      /\ UNCHANGED <<hello, clientVars, online, executing, executed, stop, stopped>>
  BY DEF BrokerReceives
<1>2. CASE Head(up).type = "hello" /\ session = "hello" /\ Hello /\ stage' = stage
  BY <1>2, HelloInv
<1>3. CASE Head(up).type = "request" /\ session = "live" /\ Forward(Head(up).call) /\ session' = session
  BY <1>3, ForwardInv
<1>4. CASE Head(up).type = "end" /\ AgentGone
  <2>1. /\ session' = "gone" /\ down' = down
        /\ stage' = [c \in Calls |-> IF stage[c] = "routed" THEN "done" ELSE stage[c]]
    BY <1>4 DEF AgentGone
  <2>2. /\ stage' \in [Calls -> {"free", "waiting", "routed", "done"}]
        /\ \A c \in Calls : stage'[c] # "free" <=> stage[c] # "free"
        /\ \A c \in Calls : stage[c] \in {"routed", "done"} => stage'[c] = "done"
    BY <2>1 DEF Inv, TypeOK
  <2>3. CommandsOnce' /\ SuccessIsExecuted'
    BY <1>1, <2>1, <2>2 DEF Inv, TypeOK, CommandsOnce, SuccessIsExecuted
  <2>4. StoppedAnswered'
    BY <1>1, <2>1, <2>2 DEF Inv, TypeOK, StoppedAnswered, AnswerComes, clientVars
  <2> QED
    BY <1>1, <2>1, <2>2, <2>3, <2>4, TakesInv DEF Inv, TypeOK
<1>5. CASE Head(up).type # "end" /\ session = "gone" /\ UNCHANGED <<session, stage, down>>
  <2>1. CommandsOnce' /\ SuccessIsExecuted'
    BY <1>1, <1>5 DEF Inv, CommandsOnce, SuccessIsExecuted
  <2>2. StoppedAnswered'
    BY <1>1, <1>5 DEF Inv, StoppedAnswered, AnswerComes, clientVars
  <2> QED
    BY <1>1, <1>5, <2>1, <2>2, TakesInv DEF Inv, TypeOK
<1> QED
  BY <1>2, <1>3, <1>4, <1>5 DEF BrokerReceives

\* Routes end: their requests are done, and their answers come last.
LEMMA RoutesEnd ==
  ASSUME Inv, NEW cs \in SUBSET Calls, NEW success \in BOOLEAN, EndRoutes(cs, success),
         \A c \in cs : stage[c] # "free"
  PROVE  /\ stage' \in [Calls -> {"free", "waiting", "routed", "done"}]
         /\ \A c \in Calls : stage'[c] = IF c \in cs THEN "done" ELSE stage[c]
         /\ \A c \in Calls : stage'[c] # "free" <=> stage[c] # "free"
         /\ \A c \in Calls : stage[c] \in {"routed", "done"} => stage'[c] \in {"routed", "done"}
         /\ down' \in Seq(Frames) /\ Grows(down, down')
         /\ \A i \in 1..Len(down') :
              \/ i \in 1..Len(down)
              \/ /\ down'[i].type = "response" /\ down'[i].call \in cs
                 /\ down'[i].success = success
<1>1. stage' = [c \in Calls |-> IF c \in cs THEN "done" ELSE stage[c]]
  BY DEF EndRoutes
<1>2. down' \in Replies(cs, success)
  BY DEF EndRoutes
<1>3. /\ down' \in Seq(Frames) /\ Grows(down, down')
      /\ \A i \in 1..Len(down') :
           \/ i \in 1..Len(down)
           \/ down'[i].type = "response" /\ down'[i].call \in cs /\ down'[i].success = success
  BY <1>2, RepliesGrow DEF Inv
<1>4. /\ stage' \in [Calls -> {"free", "waiting", "routed", "done"}]
      /\ \A c \in Calls : stage'[c] = IF c \in cs THEN "done" ELSE stage[c]
  BY <1>1 DEF Inv, TypeOK
<1> QED
  BY <1>3, <1>4

\* The answers under way of the stopped Broker are untouched by a step of the Broker
\* that adds frames behind them.
LEMMA BrokerAnswersStay ==
  ASSUME Inv, UNCHANGED <<clientVars, session, stopped>>,
         down' \in Seq(Frames), Grows(down, down'),
         \A c \in Calls : stage'[c] # "free" <=> stage[c] # "free"
  PROVE  StoppedAnswered'
<1>1. stopped' = stopped /\ ws' = ws /\ outcome' = outcome /\ session' = session
  BY DEF clientVars
<1>2. \A d \in stopped : outcome[d] # "CONNECTION_LOST"
  BY DEF Inv, StoppedAnswered
<1> QED
  BY <1>1, <1>2, AnswersStay DEF Inv

LEMMA TurnComesInv ==
  ASSUME Inv, NEW c \in Calls, TurnComes(c)
  PROVE  Inv'
<1>1. /\ UNCHANGED <<hello, clientVars, up, session, online, executed, stop, stopped>>
      /\ stage[c] = "waiting" /\ c \notin executing /\ c \notin executed
  BY DEF TurnComes, Inv, CommandsOnce
<1>2. CASE session = "live" /\ online
  <2>1. /\ stage' = [stage EXCEPT ![c] = "routed"]
        /\ executing' = executing \cup {c} /\ down' = down
    BY <1>2 DEF TurnComes
  <2>2. /\ stage' \in [Calls -> {"free", "waiting", "routed", "done"}]
        /\ stage'[c] = "routed" /\ \A d \in Calls : d # c => stage'[d] = stage[d]
    BY <2>1 DEF Inv, TypeOK
  <2>3. \A d \in Calls : stage'[d] # "free" <=> stage[d] # "free"
    BY <1>1, <2>2
  <2>4. down' \in Seq(Frames) /\ Grows(down, down')
    BY <2>1 DEF Inv, TypeOK, Grows
  <2>5. CommandsOnce' /\ SuccessIsExecuted'
    BY <1>1, <2>1, <2>2 DEF Inv, TypeOK, CommandsOnce, SuccessIsExecuted
  <2>6. StoppedAnswered'
    BY <1>1, <2>3, <2>4, BrokerAnswersStay
  <2> QED
    BY <1>1, <2>1, <2>2, <2>3, <2>4, <2>5, <2>6, BrokerInv DEF Inv, TypeOK
<1>3. CASE ~(session = "live" /\ online)
  <2>1. /\ stage' = [stage EXCEPT ![c] = "done"]
        /\ executing' = executing /\ down' \in Replies({c}, FALSE)
    BY <1>3 DEF TurnComes
  <2>2. /\ stage' \in [Calls -> {"free", "waiting", "routed", "done"}]
        /\ stage'[c] = "done" /\ \A d \in Calls : d # c => stage'[d] = stage[d]
    BY <2>1 DEF Inv, TypeOK
  <2>3. \A d \in Calls : stage'[d] # "free" <=> stage[d] # "free"
    BY <1>1, <2>2
  <2>4. /\ down' \in Seq(Frames) /\ Grows(down, down')
        /\ \A i \in 1..Len(down') : i \in 1..Len(down) \/ down'[i].success = FALSE
    <3>1. {c} \in SUBSET Calls /\ FALSE \in BOOLEAN
      OBVIOUS
    <3> QED
      BY <2>1, <3>1, RepliesGrow DEF Inv
  <2>5. CommandsOnce'
    BY <1>1, <2>1, <2>2 DEF Inv, TypeOK, CommandsOnce
  <2>6. SuccessIsExecuted'
    BY <1>1, <2>4, SuccessStays DEF Inv
  <2>7. StoppedAnswered'
    BY <1>1, <2>3, <2>4, BrokerAnswersStay
  <2> QED
    BY <1>1, <2>1, <2>2, <2>3, <2>4, <2>5, <2>6, <2>7, BrokerInv DEF Inv, TypeOK
<1> QED
  BY <1>2, <1>3

LEMMA RouteFailsInv ==
  ASSUME Inv, NEW c \in Calls, RouteFails(c)
  PROVE  Inv'
<1>1. /\ UNCHANGED <<hello, clientVars, up, session, online, executing, executed, stop, stopped>>
      /\ {c} \in SUBSET Calls /\ FALSE \in BOOLEAN /\ EndRoutes({c}, FALSE)
      /\ \A d \in {c} : stage[d] # "free"
  BY DEF RouteFails
<1>2. /\ stage' \in [Calls -> {"free", "waiting", "routed", "done"}]
      /\ \A d \in Calls : stage'[d] # "free" <=> stage[d] # "free"
      /\ \A d \in Calls : stage[d] \in {"routed", "done"} => stage'[d] \in {"routed", "done"}
      /\ down' \in Seq(Frames) /\ Grows(down, down')
      /\ \A i \in 1..Len(down') : i \in 1..Len(down) \/ down'[i].success = FALSE
  BY <1>1, RoutesEnd
<1>3. CommandsOnce'
  BY <1>1, <1>2 DEF Inv, TypeOK, CommandsOnce
<1>4. SuccessIsExecuted'
  BY <1>1, <1>2, SuccessStays DEF Inv
<1>5. StoppedAnswered'
  BY <1>1, <1>2, BrokerAnswersStay
<1> QED
  BY <1>1, <1>2, <1>3, <1>4, <1>5, BrokerInv DEF Inv, TypeOK

\* A command is finished: it was not finished before, and a success that is now
\* answered is that of this command.
LEMMA ExecutesInv ==
  ASSUME Inv, NEW c \in Calls, Executes(c)
  PROVE  Inv'
<1>1. /\ UNCHANGED <<hello, clientVars, up, session, online, stop, stopped>>
      /\ c \in executing /\ executing' = executing \ {c} /\ executed' = executed \cup {c}
      /\ stage[c] \in {"routed", "done"}
  BY DEF Executes, Inv, CommandsOnce
<1>2. /\ stage' \in [Calls -> {"free", "waiting", "routed", "done"}]
      /\ \A d \in Calls : stage'[d] # "free" <=> stage[d] # "free"
      /\ \A d \in Calls : stage[d] \in {"routed", "done"} => stage'[d] \in {"routed", "done"}
      /\ down' \in Seq(Frames) /\ Grows(down, down')
      /\ \A i \in 1..Len(down') : i \in 1..Len(down) \/ down'[i].call \in executed'
  <2>1. CASE c \in Routed /\ online
    <3>1. PICK success \in BOOLEAN : EndRoutes({c}, success)
      BY <2>1 DEF Executes
    <3>2. {c} \in SUBSET Calls /\ \A d \in {c} : stage[d] # "free"
      BY <1>1
    <3>3. /\ stage' \in [Calls -> {"free", "waiting", "routed", "done"}]
          /\ \A d \in Calls : stage'[d] # "free" <=> stage[d] # "free"
          /\ \A d \in Calls : stage[d] \in {"routed", "done"} => stage'[d] \in {"routed", "done"}
          /\ down' \in Seq(Frames) /\ Grows(down, down')
          /\ \A i \in 1..Len(down') :
               \/ i \in 1..Len(down)
               \/ down'[i].type = "response" /\ down'[i].call \in {c} /\ down'[i].success = success
      BY <3>1, <3>2, RoutesEnd, ZenonT(30)
    <3> QED
      BY <1>1, <3>3
  <2>2. CASE ~(c \in Routed /\ online)
    BY <2>2 DEF Executes, Inv, TypeOK, Grows
  <2> QED
    BY <2>1, <2>2
<1>3. CommandsOnce'
  BY <1>1, <1>2 DEF Inv, TypeOK, CommandsOnce
<1>4. SuccessIsExecuted'
  BY <1>1, <1>2, SuccessStays DEF Inv
<1>5. StoppedAnswered'
  BY <1>1, <1>2, BrokerAnswersStay
<1> QED
  BY <1>1, <1>2, <1>3, <1>4, <1>5, BrokerInv DEF Inv, TypeOK

LEMMA ExtensionInv ==
  ASSUME Inv, ExtensionLeaves \/ ExtensionComes
  PROVE  Inv'
<1>1. /\ UNCHANGED <<hello, clientVars, up, session, executed, stop, stopped>>
      /\ executing' \in SUBSET executing /\ online' \in BOOLEAN
  BY DEF ExtensionLeaves, ExtensionComes
<1>2. /\ stage' \in [Calls -> {"free", "waiting", "routed", "done"}]
      /\ \A d \in Calls : stage'[d] # "free" <=> stage[d] # "free"
      /\ \A d \in Calls : stage[d] \in {"routed", "done"} => stage'[d] \in {"routed", "done"}
      /\ down' \in Seq(Frames) /\ Grows(down, down')
      /\ \A i \in 1..Len(down') : i \in 1..Len(down) \/ down'[i].success = FALSE
  <2>1. CASE ExtensionLeaves
    <3>1. /\ Routed \in SUBSET Calls /\ FALSE \in BOOLEAN /\ EndRoutes(Routed, FALSE)
          /\ \A c \in Routed : stage[c] # "free"
      BY <2>1 DEF ExtensionLeaves, Routed
    <3> QED
      BY <3>1, RoutesEnd
  <2>2. CASE ExtensionComes
    BY <2>2 DEF ExtensionComes, Inv, TypeOK, Grows
  <2> QED
    BY <2>1, <2>2
<1>3. CommandsOnce'
  BY <1>1, <1>2 DEF Inv, TypeOK, CommandsOnce
<1>4. SuccessIsExecuted'
  BY <1>1, <1>2, SuccessStays DEF Inv
<1>5. StoppedAnswered'
  BY <1>1, <1>2, BrokerAnswersStay
<1> QED
  BY <1>1, <1>2, <1>3, <1>4, <1>5, BrokerInv DEF Inv, TypeOK

\* The Broker is told to stop.  An Agent it can still answer has its socket open,
\* since a client that gives up tells the Broker so, and no end is ahead of the
\* answers.
LEMMA StopInv == Inv /\ Stop => Inv'
<1> SUFFICES ASSUME Inv, Stop
             PROVE  Inv'
  OBVIOUS
<1>1. /\ UNCHANGED <<hello, clientVars, up, session, online, executing, executed>>
      /\ stop' = "rejected" /\ stopped' = {c \in Routed : CanReply /\ ~Ends(up)}
      /\ EndRoutes(Routed, FALSE)
  BY DEF Stop
<1>2. /\ Routed \in SUBSET Calls /\ FALSE \in BOOLEAN
      /\ \A c \in Routed : stage[c] # "free"
  BY DEF Routed
<1>3. /\ stage' \in [Calls -> {"free", "waiting", "routed", "done"}]
      /\ \A d \in Calls : stage'[d] # "free" <=> stage[d] # "free"
      /\ \A d \in Calls : stage[d] \in {"routed", "done"} => stage'[d] \in {"routed", "done"}
      /\ down' \in Seq(Frames) /\ Grows(down, down')
      /\ \A i \in 1..Len(down') : \/ i \in 1..Len(down)
                                  \/ down'[i].type = "response" /\ down'[i].success = FALSE
  BY <1>1, <1>2, RoutesEnd
<1>4. CommandsOnce'
  BY <1>1, <1>3 DEF Inv, TypeOK, CommandsOnce
<1>5. SuccessIsExecuted'
  BY <1>1, <1>3, SuccessStays DEF Inv
<1>6. StoppedAnswered'
  <2>1. ASSUME stopped' # {}
        PROVE  CanReply /\ ~Ends(up) /\ session = "live"
    BY <1>1, <2>1 DEF CanReply
  <2>2. ASSUME NEW c \in stopped'
        PROVE  /\ stage'[c] # "free" /\ outcome'[c] # "CONNECTION_LOST"
               /\ outcome'[c] = "open" => ws' = "OPEN" /\ AnswerComes(c)'
    <3>1. c \in Routed /\ c \in Calls /\ stage[c] # "free" /\ ~Ends(up) /\ session = "live"
      BY <1>1, <1>2, <2>1, <2>2
    <3>2. outcome[c] # "CONNECTION_LOST"
      BY <3>1 DEF Inv, EndsAreTold
    <3>3. ASSUME outcome[c] = "open"
          PROVE  ws = "OPEN"
      <4>1. phase = "ready"
        BY <3>1, <3>3 DEF Inv, ClientInPhase
      <4>2. ws # "CONNECTING"
        BY <4>1 DEF Inv, ClientInPhase
      <4> QED
        BY <3>1, <4>1, <4>2 DEF Inv, TypeOK, EndsAreTold
    <3>4. AnswerComes(c)'
      <4>1. down' \in Replies(Routed, FALSE) /\ CanReply
        BY <1>1, <2>1, <2>2 DEF EndRoutes
      <4>2. PICK i \in 1..Len(down') : i > Len(down) /\ down'[i].call = c
        <5>1. TypeOK
          BY DEF Inv
        <5>2. CanReply => \A d \in Routed : \E i \in 1..Len(down') :
                                              i > Len(down) /\ down'[i].call = d
          BY <1>2, <4>1, <5>1, RepliesGrow, ZenonT(30)
        <5> QED
          BY <3>1, <4>1, <5>2
      <4>3. down'[i].type = "response"
        <5>1. i \notin 1..Len(down)
          BY <4>2 DEF Inv, TypeOK
        <5> QED
          BY <1>3, <5>1
      <4>4. \A j \in 1..Len(down') : down'[j].type # "end"
        <5>1. \A j \in 1..Len(down) : down'[j] = down[j] /\ down[j].type # "end"
          BY <1>3, <4>1 DEF CanReply, Ends, Grows
        <5> QED
          BY <1>3, <5>1
      <4>5. 1..i \subseteq 1..Len(down')
        BY <1>3
      <4> QED
        BY <4>2, <4>3, <4>4, <4>5 DEF AnswerComes
    <3>5. stage'[c] # "free" /\ outcome' = outcome /\ ws' = ws
      BY <1>1, <1>3, <3>1 DEF clientVars
    <3> QED
      BY <3>2, <3>3, <3>4, <3>5
  <2>3. session' = session
    BY <1>1
  <2> QED
    BY <2>1, <2>2, <2>3 DEF StoppedAnswered
<1>7. stopped' \in SUBSET Calls
  BY <1>1, <1>2
<1> QED
  BY <1>1, <1>3, <1>4, <1>5, <1>6, <1>7, BrokerInv DEF Inv, TypeOK

LEMMA StopClosesInv == Inv /\ StopCloses => Inv'
<1> SUFFICES ASSUME Inv, StopCloses
             PROVE  Inv'
  OBVIOUS
<1>1. /\ UNCHANGED <<hello, clientVars, up, session, stage, executed, stopped>>
      /\ stop' = "closed" /\ online' = FALSE /\ executing' \in SUBSET executing
  BY DEF StopCloses
<1>2. down' \in Seq(Frames) /\ Grows(down, down') /\ Kept(down, down')
  <2>1. down \in Seq(Frames) /\ "closed" \in Codes
    BY DEF Inv, TypeOK, Codes
  <2>2. CASE session = "none"
    BY <2>1, <2>2 DEF StopCloses, Grows, Kept
  <2>3. CASE session # "none"
    <3>1. down' = Closes(down, "closed")
      BY <2>3 DEF StopCloses
    <3> QED
      BY <2>1, <3>1, ClosesKeeps
  <2> QED
    BY <2>2, <2>3
<1>3. CommandsOnce'
  BY <1>1 DEF Inv, CommandsOnce
<1>4. SuccessIsExecuted'
  BY <1>1, <1>2 DEF Inv, SuccessIsExecuted, Kept
<1>5. StoppedAnswered'
  BY <1>1, <1>2, BrokerAnswersStay
<1> QED
  BY <1>1, <1>2, <1>3, <1>4, <1>5, BrokerInv DEF Inv, TypeOK

-----------------------------------------------------------------------------
(* The theorems                                                              *)

LEMMA InitInv == Init => Inv
<1> SUFFICES ASSUME Init
             PROVE  Inv
  OBVIOUS
<1>1. TypeOK
  <2>1. <<>> \in Seq(Frames)
    OBVIOUS
  <2> QED
    BY <2>1 DEF Init, TypeOK
<1>2. NoCallForgotten /\ ClientInPhase
  BY DEF Init, NoCallForgotten, ClientInPhase
<1>3. RequestsOnce /\ CommandsOnce /\ SuccessIsExecuted
  BY DEF Init, RequestsOnce, CommandsOnce, SuccessIsExecuted
<1>4. EndsAreTold /\ StoppedAnswered
  BY DEF Init, EndsAreTold, StoppedAnswered
<1> QED
  BY <1>1, <1>2, <1>3, <1>4 DEF Inv

LEMMA StepInv == Inv /\ [Next]_vars => Inv'
<1> SUFFICES ASSUME Inv, [Next]_vars
             PROVE  Inv'
  OBVIOUS
<1>1. CASE SocketOpens
  BY <1>1, SocketOpensInv
<1>2. CASE HandshakeFails
  BY <1>2, FailsInv DEF HandshakeFails
<1>3. CASE Receive
  BY <1>3, ReceiveInv
<1>4. CASE CloseEvent
  BY <1>4, CloseEventInv
<1>5. CASE Shutdown
  BY <1>5, ShutdownInv
<1>6. CASE Cut
  BY <1>6, CutInv
<1>7. ASSUME NEW c \in Calls,
             Call(c) \/ CallTimeout(c) \/ SendFails(c) \/ TurnComes(c) \/ RouteFails(c) \/ Executes(c)
      PROVE  Inv'
  BY <1>7, CallInv, TimersInv, TurnComesInv, RouteFailsInv, ExecutesInv
<1>8. CASE HelloTimeout
  BY <1>8, HelloTimeoutInv
<1>9. CASE BrokerReceives
  BY <1>9, BrokerReceivesInv
<1>10. CASE ExtensionLeaves \/ ExtensionComes
  BY <1>10, ExtensionInv
<1>11. CASE Stop
  BY <1>11, StopInv
<1>12. CASE StopCloses
  BY <1>12, StopClosesInv
<1>13. CASE UNCHANGED vars
  BY <1>13 DEF Inv, TypeOK, NoCallForgotten, ClientInPhase, RequestsOnce, CommandsOnce,
               SuccessIsExecuted, EndsAreTold, Ends, StoppedAnswered, AnswerComes,
               vars, clientVars, brokerVars
<1> QED
  BY <1>1, <1>2, <1>3, <1>4, <1>5, <1>6, <1>7, <1>8, <1>9, <1>10, <1>11, <1>12, <1>13 DEF Next

\* The inductive invariant holds in every reachable state.
THEOREM Invariance == Spec => []Inv
<1> QED
  BY InitInv, StepInv, PTL DEF Spec

\* Every variable keeps its type (the clauses of TypeOK).
THEOREM TypeCorrect == Spec => []TypeOK
<1>1. Inv => TypeOK
  BY DEF Inv
<1> QED
  BY <1>1, Invariance, PTL

\* The client has a timer for each call it has not settled, and for no other, and
\* none is left once the end of the connection has been handled (BrokerClient's
\* pending, rejectPending).
THEOREM CallsAreSettled == Spec => []NoCallForgotten
<1>1. Inv => NoCallForgotten
  BY DEF Inv
<1> QED
  BY <1>1, Invariance, PTL

\* A call whose command the extension had when the Broker was told to stop is not
\* reported as lost with the connection, as long as both ends keep the connection
\* (BrokerServer.stop: rejectAllRoutes before the sockets are closed).
THEOREM StopIsAnswered == Spec => []StopAnswersRoutes
<1>1. Inv => StopAnswersRoutes
  BY DEF Inv, StoppedAnswered, StopAnswersRoutes
<1> QED
  BY <1>1, Invariance, PTL

-----------------------------------------------------------------------------
(* The abstract service: calls, executed and alive of CallService            *)

Outcomes == {"idle", "open", "content", "ERROR", "INTERNAL_ERROR", "COMMAND_TIMEOUT",
             "CONNECTION_LOST", "refused"}
States == [c \in Calls |-> CallState(outcome[c])]
Alive == ~closed /\ ws \in {"CONNECTING", "OPEN"}

\* What a step must be to the service.
ServiceStep == [Service!ServiceNext]_<<States, executed, Alive>>

LEMMA CallStates ==
  /\ CallState("idle") = "idle" /\ CallState("open") = "open"
  /\ CallState("refused") = "refused" /\ CallState("content") = "ok"
  /\ \A told \in {"ERROR", "INTERNAL_ERROR", "COMMAND_TIMEOUT", "CONNECTION_LOST"} :
       CallState(told) = "failed"
  /\ \A told \in Outcomes : CallState(told) = "open" <=> told = "open"
  /\ \A told \in Outcomes : CallState(told) \in {"idle", "refused"} => told \in {"idle", "refused"}
BY DEF CallState, Outcomes

\* A step that changes nothing the service shows.
LEMMA Stutters ==
  ASSUME UNCHANGED <<outcome, executed>>, Alive' = Alive
  PROVE  ServiceStep
BY DEF ServiceStep, States

\* A step that ends the connection at most.
LEMMA Dies ==
  ASSUME UNCHANGED <<outcome, executed>>, ~Alive'
  PROVE  ServiceStep
<1>1. States' = States
  BY DEF States
<1>2. CASE Alive
  BY <1>1, <1>2 DEF ServiceStep, Service!ServiceNext, Service!Die, States, Alive
<1>3. CASE ~Alive
  <2>1. Alive' = Alive
    BY <1>3 DEF Alive
  <2> QED
    BY <2>1, Stutters
<1> QED
  BY <1>2, <1>3

\* A step that changes the outcome of one call.
LEMMA OneOutcome ==
  ASSUME TypeOK, NEW c \in Calls, NEW told \in Outcomes,
         outcome' = [d \in Calls |-> IF d = c THEN told ELSE outcome[d]]
  PROVE  States[c] = CallState(outcome[c]) /\ States' = [States EXCEPT ![c] = CallState(told)]
BY DEF States

LEMMA Settling ==
  ASSUME Inv, NEW c \in pending, NEW told \in Verdicts, Settle({c}, told),
         UNCHANGED executed, Alive' = Alive,
         told = "content" => Alive /\ c \in executed
  PROVE  ServiceStep
<1>1. c \in Calls /\ outcome[c] = "open" /\ told \in Outcomes
  BY DEF Inv, TypeOK, NoCallForgotten, Verdicts, Outcomes
<1>2. States[c] = "open" /\ States' = [States EXCEPT ![c] = CallState(told)]
  <2>1. outcome' = [d \in Calls |-> IF d = c THEN told ELSE outcome[d]]
    BY DEF Settle
  <2> QED
    BY <1>1, <2>1, OneOutcome, CallStates DEF Inv
<1>3. CASE told = "content"
  <2>1. Service!Succeed(c)
    BY <1>2, <1>3, CallStates DEF Service!Succeed, Service!Become, States, Alive
  <2> QED
    BY <1>1, <2>1 DEF ServiceStep, Service!ServiceNext
<1>4. CASE told # "content"
  <2>1. CallState(told) = "failed"
    BY <1>4, CallStates DEF Verdicts
  <2>2. Service!Fail(c)
    BY <1>2, <2>1 DEF Service!Fail, Service!Become, States, Alive
  <2> QED
    BY <1>1, <2>2 DEF ServiceStep, Service!ServiceNext
<1> QED
  BY <1>3, <1>4

\* A call is submitted while the client knows of no end, and refused otherwise.
LEMMA CallServed ==
  ASSUME Inv, NEW c \in Calls, Call(c)
  PROVE  ServiceStep
<1>1. /\ phase = "ready" /\ outcome[c] = "idle" /\ ws # "CONNECTING"
      /\ UNCHANGED <<executed, ws, closed>>
  BY DEF Call, Inv, ClientInPhase, brokerVars
<1>2. CASE closed \/ ws # "OPEN"
  <2>1. outcome' = [d \in Calls |-> IF d = c THEN "refused" ELSE outcome[d]]
    BY <1>2 DEF Call, Inv, TypeOK
  <2>2. States[c] = "idle" /\ States' = [States EXCEPT ![c] = "refused"]
    BY <1>1, <2>1, OneOutcome, CallStates DEF Inv, Outcomes
  <2>3. ~Alive /\ ~Alive'
    BY <1>1, <1>2 DEF Alive
  <2>4. Service!Refuse(c)
    BY <1>1, <2>2, <2>3 DEF Service!Refuse, Service!Become, States, Alive
  <2> QED
    BY <2>4 DEF ServiceStep, Service!ServiceNext
<1>3. CASE ~closed /\ ws = "OPEN"
  <2>1. outcome' = [d \in Calls |-> IF d = c THEN "open" ELSE outcome[d]]
    BY <1>3 DEF Call, Inv, TypeOK
  <2>2. States[c] = "idle" /\ States' = [States EXCEPT ![c] = "open"]
    BY <1>1, <2>1, OneOutcome, CallStates DEF Inv, Outcomes
  <2>3. Service!Submit(c)
    BY <1>1, <1>3, <2>2 DEF Service!Submit, Service!Become, States
  <2> QED
    BY <2>3 DEF ServiceStep, Service!ServiceNext
<1> QED
  BY <1>2, <1>3

LEMMA TimersServed ==
  ASSUME Inv, NEW c \in Calls, CallTimeout(c) \/ SendFails(c)
  PROVE  ServiceStep
<1>1. c \in pending /\ UNCHANGED <<executed, ws, closed>>
  BY DEF CallTimeout, SendFails, brokerVars
<1>2. PICK told \in {"COMMAND_TIMEOUT", "CONNECTION_LOST"} : Settle({c}, told)
  BY DEF CallTimeout, SendFails
<1>3. Alive' = Alive
  BY <1>1 DEF Alive
<1> QED
  BY <1>1, <1>2, <1>3, Settling DEF Verdicts

\* An answer settles the call it is for, if that is still open: with success only
\* for an executed command.
LEMMA ReceiveServed == Inv /\ Receive => ServiceStep
<1> SUFFICES ASSUME Inv, Receive
             PROVE  ServiceStep
  OBVIOUS
<1>1. /\ ws = "OPEN" /\ down # <<>> /\ executed' = executed /\ ~closed
  BY DEF Receive, brokerVars, Inv, ClientInPhase
<1>2. PICK f \in Frames : f = Head(down) /\ f = down[1] /\ 1 \in 1..Len(down)
  BY <1>1, TailFrames DEF Inv, TypeOK
<1>3. CASE phase = "handshake" /\ HandshakeFrame(f)
  <2>1. CASE ws' = "CLOSED"
    BY <1>1, <1>3, <2>1, Dies DEF HandshakeFrame, Fails, Alive
  <2>2. CASE ws' # "CLOSED"
    <3>1. UNCHANGED <<ws, closed, outcome>>
      BY <1>3, <2>2 DEF HandshakeFrame, Fails
    <3> QED
      BY <1>1, <3>1, Stutters DEF Alive
  <2> QED
    BY <2>1, <2>2
<1>4. ASSUME NEW wellFormed \in BOOLEAN, ReadyFrame(f, wellFormed)
      PROVE  ServiceStep
  <2>1. CASE f.type = "end"
    BY <1>1, <1>4, <2>1, Dies DEF ReadyFrame, Alive
  <2>2. CASE f.type # "end"
    <3>1. PICK told : told = Told(f, wellFormed)
      OBVIOUS
    <3>2. told \in Verdicts /\ (told = "content" => f.success)
      BY <3>1 DEF Told, Verdicts
    <3>3. Settle({f.call} \cap pending, told) /\ UNCHANGED <<ws, closed>>
      BY <1>4, <2>2, <3>1 DEF ReadyFrame, handleMessage
    <3>4. Alive /\ Alive' = Alive
      BY <1>1, <3>3 DEF Alive
    <3>5. CASE f.call \in pending
      <4>1. {f.call} \cap pending = {f.call}
        BY <3>5
      <4>2. told = "content" => f.call \in executed
        BY <1>2, <3>2 DEF Inv, SuccessIsExecuted
      <4>3. Settle({f.call}, told)
        BY <3>3, <4>1
      <4> QED
        BY <1>1, <3>2, <3>4, <3>5, <4>2, <4>3, Settling
    <3>6. CASE f.call \notin pending
      <4>1. outcome' = outcome
        BY <3>3, <3>6 DEF Settle, Inv, TypeOK
      <4> QED
        BY <1>1, <3>4, <4>1, Stutters
    <3> QED
      BY <3>5, <3>6
  <2> QED
    BY <2>1, <2>2
<1> QED
  BY <1>2, <1>3, <1>4 DEF Receive

\* The calls open at the end of the connection fail together.
LEMMA AllFail ==
  ASSUME Inv, rejectPending, UNCHANGED executed
  PROVE  ServiceStep
<1>1. closed' = TRUE
  BY DEF rejectPending
<1>2. outcome' = [c \in Calls |-> IF outcome[c] = "open" THEN "CONNECTION_LOST" ELSE outcome[c]]
  BY DEF rejectPending, Settle, Inv, NoCallForgotten
<1>3. \A c \in Calls : States[c] = "open" <=> outcome[c] = "open"
  BY CallStates DEF States, Inv, TypeOK, Outcomes
<1>4. States' = [c \in Calls |-> IF States[c] = "open" THEN "failed" ELSE States[c]]
  BY <1>2, <1>3, CallStates DEF States
<1>5. Service!FailAll
  BY <1>1, <1>4 DEF Service!FailAll, States
<1> QED
  BY <1>5 DEF ServiceStep, Service!ServiceNext

\* A command is executed once, and after its call was submitted.
LEMMA ExecutesServed ==
  ASSUME Inv, NEW c \in Calls, Executes(c)
  PROVE  ServiceStep
<1>1. /\ UNCHANGED <<outcome, closed, ws>>
      /\ c \in executing /\ executed' = executed \cup {c}
  BY DEF Executes, clientVars
<1>2. c \notin executed /\ outcome[c] \notin {"idle", "refused"} /\ outcome[c] \in Outcomes
  BY <1>1 DEF Inv, TypeOK, CommandsOnce, RequestsOnce, Outcomes
<1>3. States[c] \notin {"idle", "refused"} /\ States' = States /\ Alive' = Alive
  BY <1>1, <1>2, CallStates DEF States, Alive
<1>4. Service!Execute(c)
  BY <1>1, <1>2, <1>3 DEF Service!Execute, States, Alive
<1> QED
  BY <1>4 DEF ServiceStep, Service!ServiceNext

LEMMA StepServed == Inv /\ [Next]_vars => ServiceStep
<1> SUFFICES ASSUME Inv, [Next]_vars
             PROVE  ServiceStep
  OBVIOUS
<1>1. CASE SocketOpens
  BY <1>1, Stutters DEF SocketOpens, Alive
<1>2. CASE HandshakeFails
  BY <1>2, Dies DEF HandshakeFails, Fails, Alive, brokerVars
<1>3. CASE Receive
  BY <1>3, ReceiveServed
<1>4. CASE CloseEvent \/ Shutdown
  BY <1>4, AllFail DEF CloseEvent, Shutdown, brokerVars
<1>5. ASSUME NEW c \in Calls, Call(c)
      PROVE  ServiceStep
  BY <1>5, CallServed
<1>6. ASSUME NEW c \in Calls, CallTimeout(c) \/ SendFails(c)
      PROVE  ServiceStep
  BY <1>6, TimersServed
<1>7. ASSUME NEW c \in Calls, Executes(c)
      PROVE  ServiceStep
  BY <1>7, ExecutesServed
<1>8. CASE \/ Cut \/ HelloTimeout \/ BrokerReceives \/ ExtensionLeaves \/ ExtensionComes
           \/ Stop \/ StopCloses \/ (\E c \in Calls : TurnComes(c) \/ RouteFails(c))
           \/ UNCHANGED vars
  <2>1. UNCHANGED clientVars /\ UNCHANGED executed
    BY <1>8 DEF Cut, HelloTimeout, BrokerReceives, ExtensionLeaves, ExtensionComes, Stop,
                StopCloses, TurnComes, RouteFails, vars, brokerVars
  <2> QED
    BY <2>1, Stutters DEF Alive, clientVars
<1> QED
  BY <1>1, <1>2, <1>3, <1>4, <1>5, <1>6, <1>7, <1>8 DEF Next

\* The MCP server, the connection and the Broker together implement CallService: a
\* call has one outcome, it succeeds only after its command was executed and while
\* the client knows of no end of the connection, and a command is executed at most
\* once.  Each step of AgentCalls is a step of the service or none.
THEOREM Implementation == Spec => ImplementsCallService
<1>1. Init => Service!ServiceInit
  <2> SUFFICES ASSUME Init
               PROVE  Service!ServiceInit
    OBVIOUS
  <2>1. [c \in Calls |-> CallState(outcome[c])] = [c \in Calls |-> "idle"]
    BY CallStates DEF Init
  <2>2. executed = {} /\ (~closed /\ ws \in {"CONNECTING", "OPEN"}) = TRUE
    BY DEF Init
  <2> QED
    BY <2>1, <2>2 DEF Service!ServiceInit
<1>2. Inv /\ [Next]_vars
        => [Service!ServiceNext]_<<[c \in Calls |-> CallState(outcome[c])], executed,
                                  ~closed /\ ws \in {"CONNECTING", "OPEN"}>>
  BY StepServed DEF ServiceStep, States, Alive
<1> QED
  BY <1>1, <1>2, Invariance, PTL DEF Spec, ImplementsCallService, Service!ServiceSpec

=============================================================================
