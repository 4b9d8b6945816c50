---------------------------- MODULE AtMostOnceCalls ----------------------------
(***************************************************************************)
(* What an MCP session promises the agent: calls made one after another,   *)
(* each of which takes effect at most once and in the order of the calls.  *)
(* A call that succeeds has taken effect.  A call that fails has or has    *)
(* not, and may still take effect later, but not once the session is       *)
(* closed.                                                                 *)
(***************************************************************************)
EXTENDS Naturals

CONSTANT Ids   \* the calls, numbered in the order in which they are made

VARIABLES
  status,   \* of each call: "new", "open", "done" or "failed"
  ran,      \* the calls that have taken effect
  closed

Init ==
  /\ status = [id \in Ids |-> "new"]
  /\ ran = {}
  /\ closed = FALSE

Open == {id \in Ids : status[id] = "open"}

Issue(id) ==
  /\ ~closed /\ Open = {}
  /\ status[id] = "new"
  /\ \A before \in Ids : before < id => status[before] # "new"
  /\ status' = [status EXCEPT ![id] = "open"]
  /\ UNCHANGED <<ran, closed>>

\* The tool runs.
Run(id) ==
  /\ ~closed
  /\ status[id] # "new"
  /\ \A earlier \in ran : earlier < id
  /\ ran' = ran \cup {id}
  /\ UNCHANGED <<status, closed>>

Succeed(id) ==
  /\ status[id] = "open"
  /\ id \in ran
  /\ status' = [status EXCEPT ![id] = "done"]
  /\ UNCHANGED <<ran, closed>>

Fail(id) ==
  /\ status[id] = "open"
  /\ status' = [status EXCEPT ![id] = "failed"]
  /\ UNCHANGED <<ran, closed>>

Close ==
  /\ ~closed /\ Open = {}
  /\ closed' = TRUE
  /\ UNCHANGED <<status, ran>>

Next == Close \/ \E id \in Ids : Issue(id) \/ Run(id) \/ Succeed(id) \/ Fail(id)

Spec == Init /\ [][Next]_<<status, ran, closed>>
===============================================================================
