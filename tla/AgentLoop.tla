------------------------------- MODULE AgentLoop -------------------------------
(***************************************************************************)
(* The bounded tool loop of the one-shot agent: Session.Loop of            *)
(* src/internal/agent/agent.go with runToolCall and validateCall of        *)
(* toolcall.go and pruneMessages of context.go.                            *)
(*                                                                         *)
(* The model is free: any reply, with any number of tool calls, each of    *)
(* which is chosen when the loop looks at it (nothing looks at it before). *)
(* A call is its duplicate key and what validation says of it; a message   *)
(* is its role, where it comes from and its size in tokens.  The system    *)
(* message and the user request are in every prompt and are left out: what *)
(* they and the tool schemas leave of the context is the constant Budget.  *)
(***************************************************************************)
EXTENDS Integers, Sequences, FiniteSetsExt, SequencesExt

CONSTANTS
  MaxModelRounds, MaxTotalToolCalls,   \* agent.go:25-26
  PerTurnLimit,      \* Config.MaxToolCallsPerTurn, defaulted by Validate
  Budget,            \* ContextTokens less all that every prompt holds
  MaxResult,         \* MaxResultBytes, in tokens
  MaxKept,           \* maxToolResultBytes, in tokens
  ResultSizes,       \* the sizes, in tokens, of what tools answer
  ReplySize,         \* the size of an assistant message with tool calls
  Keys,              \* duplicate keys: tool name and trimmed arguments
  MaxReply           \* bound of the model: the tool calls of one reply

ASSUME LimitAssumption ==
  /\ MaxModelRounds \in Nat \ {0}
  /\ MaxTotalToolCalls \in Nat
  /\ PerTurnLimit \in Nat \ {0}
  /\ MaxReply \in Nat
ASSUME SizeAssumption ==
  /\ Budget \in Int
  /\ MaxResult \in Nat \ {0} /\ MaxKept \in Nat \ {0}
  /\ ResultSizes \subseteq Nat \ {0} /\ ReplySize \in Nat \ {0}

VARIABLES
  pc,         \* "round": about to prompt; "call": in a reply; "tool": in
              \* CallTool; "stopped"
  round,      \* the local round
  messages,   \* the local messages after the user request
  calls,      \* len(reply.ToolCalls)
  index,      \* the local index, counted from 0 as in the code
  seen,       \* the local seenThisTurn
  toolCalls,  \* Session.toolCalls
  outcome,    \* how the loop ended
  prompt,     \* history: the pruned messages of the last prompt
  executed    \* history: the calls handed to an MCP client

vars == <<pc, round, messages, calls, index, seen, toolCalls, outcome, prompt, executed>>

Assistant(n)     == [role |-> "assistant", round |-> round, calls |-> n, size |-> ReplySize]
ToolMessage(size) == [role |-> "tool", round |-> round, calls |-> 0, size |-> size]

\* errorPayload and the normalized empty result: a few tokens.
ErrorSize == 1

-------------------------------------------------------------------------------
(***************************************************************************)
(* pruneMessages                                                           *)
(***************************************************************************)

Size(tail) == FoldLeft(LAMBDA total, m : total + m.size, 0, tail)

\* clampText on the content of a tool message.
Clamped(m) ==
  IF m.role = "tool" /\ m.size > MaxKept THEN [m EXCEPT !.size = MaxKept] ELSE m

\* Mutant of Cuts: one message is dropped at a time.
CutsMutant(tail) == 1..(Len(tail) + 1)

\* Where dropOldestExchange can cut: it drops the first message and the tool
\* messages after it, until a message of another role or nothing is first.
Cuts(tail) ==
  {i \in 1..(Len(tail) + 1) : i = 1 \/ i = Len(tail) + 1 \/ tail[i].role # "tool"}

\* The longest rest that fits: the loop drops until used <= budget, which an
\* empty rest always is.
Pruned(tail) ==
  LET clamped == [i \in DOMAIN tail |-> Clamped(tail[i])]
      rest(i) == SubSeq(clamped, i, Len(tail))
  IN  rest(Min({i \in Cuts(tail) : i = Len(tail) + 1 \/ Size(rest(i)) <= Budget}))

-------------------------------------------------------------------------------

Init ==
  /\ pc = "round"
  /\ round = 1
  /\ messages = << >>
  /\ calls = 0 /\ index = 0 /\ seen = {}
  /\ toolCalls = 0
  /\ outcome = "running"
  /\ prompt = << >>
  /\ executed = << >>

Stop(how) ==
  /\ pc' = "stopped"
  /\ outcome' = how

\* pruneMessages and model.Complete succeed and the reply has no tool calls:
\* its content is printed.
Answer ==
  /\ pc = "round" /\ round <= MaxModelRounds
  /\ Budget > 0
  /\ prompt' = Pruned(messages)
  /\ Stop("answer")
  /\ UNCHANGED <<round, messages, calls, index, seen, toolCalls, executed>>

\* The reply has tool calls.
Reply(n) ==
  /\ pc = "round" /\ round <= MaxModelRounds
  /\ Budget > 0
  /\ prompt' = Pruned(messages)
  /\ messages' = Append(messages, Assistant(n))
  /\ pc' = "call"
  /\ calls' = n /\ index' = 0 /\ seen' = {}
  /\ UNCHANGED <<round, toolCalls, outcome, executed>>

\* The request does not fit into the context, or model.Complete fails on it.
PromptFails ==
  /\ pc = "round" /\ round <= MaxModelRounds
  /\ prompt' = IF Budget > 0 THEN Pruned(messages) ELSE prompt
  /\ Stop("error")
  /\ UNCHANGED <<round, messages, calls, index, seen, toolCalls, executed>>

\* Both guards of the loop come before the call is even validated.
Guarded == index >= PerTurnLimit

TooManyCalls ==
  /\ pc = "call" /\ index < calls
  /\ Guarded
  /\ Stop("limit")
  /\ UNCHANGED <<round, messages, calls, index, seen, toolCalls, prompt, executed>>

Duplicate(key) ==
  /\ pc = "call" /\ index < calls
  /\ ~Guarded
  /\ key \in seen
  /\ Stop("duplicate")
  /\ UNCHANGED <<round, messages, calls, index, seen, toolCalls, prompt, executed>>

\* The call passes the guards.
Admitted(key) ==
  /\ pc = "call" /\ index < calls
  /\ ~Guarded
  /\ key \notin seen
  /\ seen' = seen \cup {key}

Proceed(message) ==
  /\ messages' = Append(messages, message)
  /\ index' = index + 1

\* runToolCall answers with an error and executes nothing: the id is missing,
\* the call is invalid (validateCall), or the total budget is spent.
Reject(key, valid) ==
  /\ Admitted(key)
  /\ ~valid \/ toolCalls >= MaxTotalToolCalls
  /\ Proceed(ToolMessage(ErrorSize))
  /\ UNCHANGED <<pc, round, calls, toolCalls, outcome, prompt, executed>>

\* Mutant of Spend: only calls that answer are counted.
SpendMutant(key) ==
  /\ toolCalls < MaxTotalToolCalls
  /\ toolCalls' = toolCalls
  /\ executed' = Append(executed, [round |-> round, key |-> key])

\* toolCalls++ comes before the call.
Spend(key) ==
  /\ toolCalls < MaxTotalToolCalls
  /\ toolCalls' = toolCalls + 1
  /\ executed' = Append(executed, [round |-> round, key |-> key])

\* The call is valid and goes to the server of its tool.
Call(key) ==
  /\ Admitted(key)
  /\ Spend(key)
  /\ pc' = "tool"
  /\ UNCHANGED <<round, messages, calls, index, outcome, prompt>>

\* The tool answers; an answer over MaxResultBytes is replaced by an error.
Execute(size) ==
  /\ pc = "tool" /\ pc' = "call"
  /\ Proceed(ToolMessage(IF size > MaxResult THEN ErrorSize ELSE size))
  /\ UNCHANGED <<round, calls, seen, toolCalls, outcome, prompt, executed>>

\* CallTool fails or the context ends: fatal, although the tool may have run.
CallFails ==
  /\ pc = "tool"
  /\ Stop("error")
  /\ UNCHANGED <<round, messages, calls, index, seen, toolCalls, prompt, executed>>

\* The reply is done: the next round, or the end of the budget of rounds.
NextRound ==
  /\ pc = "call" /\ index = calls
  /\ round' = round + 1
  /\ IF round < MaxModelRounds THEN pc' = "round" /\ UNCHANGED outcome ELSE Stop("rounds")
  /\ UNCHANGED <<messages, calls, index, seen, toolCalls, prompt, executed>>

Next ==
  \/ Answer \/ PromptFails \/ TooManyCalls \/ CallFails \/ NextRound
  \/ \E n \in 1..MaxReply : Reply(n)
  \/ \E size \in ResultSizes : Execute(size)
  \/ \E key \in Keys :
       \/ Duplicate(key) \/ Call(key)
       \/ \E valid \in BOOLEAN : Reject(key, valid)

Spec == Init /\ [][Next]_vars

-------------------------------------------------------------------------------

Messages == [role : {"assistant", "tool"}, round : Nat, calls : Nat, size : Nat]

\* The types of the loop's locals and of the history.
TypeOK ==
  /\ pc \in {"round", "call", "tool", "stopped"}
  /\ round \in 1..(MaxModelRounds + 1) /\ (pc # "stopped" => round <= MaxModelRounds)
  /\ messages \in Seq(Messages) /\ prompt \in Seq(Messages)
  /\ calls \in Nat /\ index \in 0..calls /\ (pc = "tool" => index < calls)
  /\ seen \subseteq Keys
  /\ toolCalls \in Nat
  /\ outcome \in {"running", "answer", "limit", "duplicate", "rounds", "error"}
  /\ executed \in Seq([round : Nat, key : Keys])

\* Over the whole request the tools run at most MaxTotalToolCalls times, and in
\* one turn at most PerTurnLimit times and never twice with the same arguments,
\* whatever the model replies, and even when calls fail or are rejected in
\* between (toolcall.go:55,84, agent.go:299-307).
CallBudget ==
  /\ Len(executed) <= MaxTotalToolCalls
  /\ \A r \in 1..MaxModelRounds :
       LET turn == {i \in DOMAIN executed : executed[i].round = r} IN
         /\ Cardinality(turn) <= PerTurnLimit
         /\ \A i, j \in turn : executed[i].key = executed[j].key => i = j

FromModel(s, i) == s[i].role = "assistant"

\* The message at i has all its results, and what follows them is a new exchange.
CompleteAt(s, i) ==
  /\ i + s[i].calls <= Len(s)
  /\ \A k \in (i + 1)..(i + s[i].calls) : s[k].role = "tool" /\ s[k].round = s[i].round
  /\ i + s[i].calls < Len(s) => FromModel(s, i + s[i].calls + 1)

WellFormed(s) ==
  \A i \in DOMAIN s : (i = 1 => FromModel(s, i)) /\ (FromModel(s, i) => CompleteAt(s, i))

\* Every prompt is a sequence of complete exchanges: an assistant message with
\* n tool calls followed by its n results, so that no result comes before its
\* call and no call is left without a result, however much was pruned
\* (context.go:76-77).
PromptIsWellFormed == WellFormed(prompt)

\* What the proofs rest on.  The executions are counted, and those of the turn
\* under way are among the keys seen in it.
ThisTurn == {i \in DOMAIN executed : executed[i].round = round}

BudgetInv ==
  /\ Len(executed) = toolCalls /\ toolCalls <= MaxTotalToolCalls
  /\ \A i \in DOMAIN executed : executed[i].round <= round
  /\ pc = "round" => ThisTurn = {}
  /\ pc \in {"call", "tool"} =>
       LET looked == index + (IF pc = "tool" THEN 1 ELSE 0) IN
         /\ \A i \in ThisTurn : executed[i].key \in seen
         /\ Cardinality(ThisTurn) <= looked /\ looked <= PerTurnLimit

\* Between replies the messages are complete exchanges; within one, the last
\* exchange has as many results as the loop has looked at calls.
Current == Len(messages) - index

MessagesInv ==
  /\ pc = "round" => WellFormed(messages)
  /\ pc \in {"call", "tool"} =>
       /\ Current \in DOMAIN messages /\ FromModel(messages, Current)
       /\ messages[Current].calls = calls /\ messages[Current].round = round
       /\ \A i \in DOMAIN messages :
            /\ i = 1 => FromModel(messages, i)
            /\ i < Current /\ FromModel(messages, i) => CompleteAt(messages, i)
            /\ i > Current => messages[i].role = "tool" /\ messages[i].round = round

\* A doc comment of pruneMessages says that it keeps unresolved tool activity:
\* the results of the turn before, which the model has not seen yet, are in the
\* prompt (context.go:38-41).
UnresolvedActivityIsKept ==
  [][prompt' # prompt /\ messages # << >> =>
       prompt' # << >> /\ Last(prompt').round = round - 1]_vars
===============================================================================
