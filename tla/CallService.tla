----------------------------- MODULE CallService -----------------------------
(***************************************************************************)
(* What an MCP server promises of the tool calls it forwards: a call has   *)
(* one outcome; it succeeds only if its command was executed, and then it  *)
(* was executed once; once the connection is lost no call succeeds, those  *)
(* open fail together and later ones are refused.  A failed call may       *)
(* nevertheless be executed, before or after its failure: nothing is       *)
(* promised about that.                                                    *)
(***************************************************************************)
CONSTANT Calls
VARIABLES call, executed, alive

ServiceInit ==
  /\ call = [c \in Calls |-> "idle"]
  /\ executed = {} /\ alive = TRUE

Become(c, from, to) == call[c] = from /\ call' = [call EXCEPT ![c] = to]

Submit(c) == alive /\ Become(c, "idle", "open") /\ UNCHANGED <<executed, alive>>
Refuse(c) == ~alive /\ Become(c, "idle", "refused") /\ UNCHANGED <<executed, alive>>

Execute(c) ==
  /\ call[c] \notin {"idle", "refused"} /\ c \notin executed
  /\ executed' = executed \cup {c}
  /\ UNCHANGED <<call, alive>>

Succeed(c) ==
  /\ alive /\ c \in executed
  /\ Become(c, "open", "ok") /\ UNCHANGED <<executed, alive>>

Fail(c) == Become(c, "open", "failed") /\ UNCHANGED <<executed, alive>>

Die == alive /\ alive' = FALSE /\ UNCHANGED <<call, executed>>

FailAll ==
  /\ alive' = FALSE
  /\ call' = [c \in Calls |-> IF call[c] = "open" THEN "failed" ELSE call[c]]
  /\ UNCHANGED executed

ServiceNext ==
  \/ \E c \in Calls : Submit(c) \/ Refuse(c) \/ Execute(c) \/ Succeed(c) \/ Fail(c)
  \/ Die \/ FailAll

ServiceSpec == ServiceInit /\ [][ServiceNext]_<<call, executed, alive>>
=============================================================================
