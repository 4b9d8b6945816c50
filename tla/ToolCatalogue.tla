----------------------------- MODULE ToolCatalogue -----------------------------
(***************************************************************************)
(* What the proxy's tool cache promises, without lock, flag or channels: a *)
(* register with the last good catalogue and the error of the last failure *)
(* since, which requests read or refresh in one step.  Refreshes are       *)
(* numbered in the order in which they take effect.                        *)
(***************************************************************************)
EXTENDS Integers

CONSTANT Requests

VARIABLES
  refreshes,  \* the refreshes that took effect
  tools,      \* the number of the refresh with the current catalogue, 0: none
  error,      \* the number of the failed refresh since then, 0: none
  lost,       \* the requests whose client has gone
  answer      \* what each request was answered

vars == <<refreshes, tools, error, lost, answer>>

None       == [kind |-> "none", fetch |-> 0]
Tools(n)   == [kind |-> "tools", fetch |-> n]
Error(n)   == [kind |-> "error", fetch |-> n]
Context(n) == [kind |-> "context", fetch |-> n]

Unanswered(r) == answer[r] = None
Answer(r, a)  == answer' = [answer EXCEPT ![r] = a]

Init ==
  /\ refreshes = 0 /\ tools = 0 /\ error = 0
  /\ lost = {}
  /\ answer = [r \in Requests |-> None]

Lose(r) ==
  /\ lost' = lost \cup {r}
  /\ UNCHANGED <<refreshes, tools, error, answer>>

\* A request reads the register: the current catalogue, or the error since.
Read(r) ==
  /\ Unanswered(r)
  /\ \/ tools # 0 /\ Answer(r, Tools(tools))
     \/ error # 0 /\ Answer(r, Error(error))
  /\ UNCHANGED <<refreshes, tools, error, lost>>

\* A request refreshes the register and is answered with what it fetched.  A
\* good catalogue ends the error; a failure leaves the old catalogue in place;
\* a refresh that is aborted changes nothing and is its requester's affair.
Refresh(r) ==
  LET n == refreshes + 1 IN
  /\ Unanswered(r)
  /\ refreshes' = n
  /\ \/ tools' = n /\ error' = 0 /\ Answer(r, Tools(n))
     \/ tools' = tools /\ error' = n /\ Answer(r, Error(n))
     \/ UNCHANGED <<tools, error>> /\ Answer(r, Context(n))
  /\ UNCHANGED lost

\* A request whose client has gone need not be answered from the register.
Abandon(r) ==
  /\ Unanswered(r)
  /\ r \in lost
  /\ Answer(r, Context(0))
  /\ UNCHANGED <<refreshes, tools, error, lost>>

Next == \E r \in Requests : Lose(r) \/ Read(r) \/ Refresh(r) \/ Abandon(r)

Spec == Init /\ [][Next]_vars
================================================================================
