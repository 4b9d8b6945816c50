----------------------------- MODULE ProxyRequest -----------------------------
(***************************************************************************)
(* A chat completion request from its first byte to its reply: Handler and *)
(* handleChatCompletions of src/internal/openaiproxy/proxy.go, over the    *)
(* shared catalogue of ToolsCache, whose actions are the steps a request   *)
(* takes while it asks for tools.                                          *)
(*                                                                         *)
(* A tool call of the model is its key (toolCallKey), or Junk when it is   *)
(* not an object.                                                          *)
(***************************************************************************)
EXTENDS ToolsCache, FiniteSets, SequencesExt

CONSTANTS
  Forms,           \* the requests clients send
  Responses,       \* what the upstream may answer
  EmptyFetches,    \* the fetches of /tools that list no usable tool
  MaxToolCalls,    \* Proxy.maxToolCallsPerTurn
  Distinct,        \* Proxy.disableDuplicateToolCalls
  Junk             \* a tool call that is not an object

ASSUME GuardAssumption == MaxToolCalls \in Nat \ {0} /\ Distinct \in BOOLEAN

ASSUME ResponseAssumption ==
  \A u \in Responses : u.kind \in {"failed", "other", "json"} /\ u.calls \in Seq(ToSet(u.calls))

VARIABLES
  mcpEnabled,   \* Proxy.mcpEnabled
  up,           \* the process runs
  stage,        \* where each request stands in handleChatCompletions
  form,         \* what its client sent
  offered,      \* the tools it is forwarded with
  response,     \* history: what the upstream answered it
  reply         \* what the client was answered

request   == <<stage, form, offered, response, reply>>
catalogue == <<clock, pc, cancelled, locals, answer, flight, cache, fetches>>
allVars   == <<catalogue, mcpEnabled, up, request>>

NoForm  == [body |-> "none", stream |-> FALSE, tools |-> FALSE]
NoReply == [kind |-> "none", calls |-> << >>, label |-> ""]
Nothing == [kind |-> "none", calls |-> << >>]

ProxyInit ==
  /\ Init
  /\ mcpEnabled \in BOOLEAN /\ up = TRUE
  /\ stage = [r \in Requests |-> "new"]
  /\ form = [r \in Requests |-> NoForm]
  /\ offered = [r \in Requests |-> None]
  /\ response = [r \in Requests |-> Nothing]
  /\ reply = [r \in Requests |-> NoReply]

-------------------------------------------------------------------------------
(***************************************************************************)
(* applyToolCallGuards                                                     *)
(***************************************************************************)

\* Mutant of GuardStep: one call more than the limit.
GuardStepMutant(s, c) ==
  IF s.label = "limited" \/ c = Junk THEN s
  ELSE IF Len(s.kept) > MaxToolCalls THEN [s EXCEPT !.label = "limited"]
  ELSE IF Distinct /\ c \in ToSet(s.kept)
    THEN [s EXCEPT !.label = IF @ = "" THEN "duplicate" ELSE @]
  ELSE [s EXCEPT !.kept = Append(@, c)]

\* One turn of the loop: the limit ends it, and is looked at before duplicates.
GuardStep(s, c) ==
  IF s.label = "limited" \/ c = Junk THEN s
  ELSE IF Len(s.kept) >= MaxToolCalls THEN [s EXCEPT !.label = "limited"]
  ELSE IF Distinct /\ c \in ToSet(s.kept)
    THEN [s EXCEPT !.label = IF @ = "" THEN "duplicate" ELSE @]
  ELSE [s EXCEPT !.kept = Append(@, c)]

\* What has been kept and said after each turn.
Guarding(calls) ==
  LET after[i \in 0 .. Len(calls)] ==
        IF i = 0 THEN [kept |-> << >>, label |-> ""] ELSE GuardStep(after[i - 1], calls[i])
  IN  after

\* A response with nothing to say against it goes as it is.
Guarded(calls) ==
  LET s == Guarding(calls)[Len(calls)]
  IN  [calls |-> IF s.label = "" THEN calls ELSE s.kept, label |-> s.label]

-------------------------------------------------------------------------------
(***************************************************************************)
(* handleChatCompletions                                                   *)
(***************************************************************************)

Goto(r, s)     == stage' = [stage EXCEPT ![r] = s]
Reply(r, k, calls, label) ==
  /\ reply' = [reply EXCEPT ![r] = [kind |-> k, calls |-> calls, label |-> label]]
  /\ Goto(r, "over")
InTools(r)     == stage[r] = "tools"

Arrive(r, f) ==
  /\ stage[r] = "new"
  /\ form' = [form EXCEPT ![r] = f]
  /\ Goto(r, "reading")
  /\ UNCHANGED <<catalogue, offered, response, reply>>

\* The client goes away, or the server ends the context of the request.
Disconnect(r) ==
  /\ stage[r] \notin {"new", "over"} /\ r \notin cancelled
  /\ cancelled' = cancelled \cup {r}
  /\ UNCHANGED <<clock, pc, locals, answer, flight, cache, fetches, request>>

\* The body is read and parsed: what is not JSON, and what is not a chat
\* completion at all, is passed on untouched; tools are asked for unless the
\* client brought its own.
ReadBody(r) ==
  /\ stage[r] = "reading"
  /\ \/ /\ form[r].body \in {"unreadable", "large"} \/ r \in cancelled
        /\ Reply(r, "refused", << >>, "")
     \/ form[r].body \in {"other", "null", "chat"} /\ UNCHANGED reply
        /\ Goto(r, IF form[r].body # "other" /\ mcpEnabled /\ ~form[r].tools THEN "tools" ELSE "forward")
  /\ UNCHANGED <<catalogue, form, offered, response>>

\* Mutant of ToolsStep: getOpenAITools gets a context of its own.
DetachedStep(r) ==
  /\ InTools(r) /\ (Sample(r) \/ Decide(r) \/ Wake(r) \/ Publish(r))
  /\ UNCHANGED request

\* The steps of getOpenAITools.
ToolsStep(r)  == InTools(r) /\ Run(r) /\ UNCHANGED request
ToolsFetch(r) == InTools(r) /\ Fetch(r) /\ UNCHANGED request

\* It returned: the catalogue goes into the request, if it has a tool and if
\* the body was an object to put it in (a null body panics, and the server
\* drops the connection); an error is answered by a completion that says so,
\* the upstream not being asked.
UseTools(r) ==
  /\ InTools(r) /\ pc[r] = "done"
  /\ LET found == answer[r].kind = "tools" /\ answer[r].fetch \notin EmptyFetches
     IN  CASE answer[r].kind # "tools" -> Reply(r, "diagnostic", << >>, "") /\ UNCHANGED offered
           [] found /\ form[r].body = "null" -> Reply(r, "dropped", << >>, "") /\ UNCHANGED offered
           [] OTHER -> /\ Goto(r, "forward") /\ UNCHANGED reply
                       /\ offered' = [offered EXCEPT ![r] = IF found THEN answer[r] ELSE None]
  /\ UNCHANGED <<catalogue, form, response>>

\* forwardJSON sends it.
Forward(r) ==
  /\ stage[r] = "forward" /\ Goto(r, "upstream")
  /\ UNCHANGED <<catalogue, form, offered, response, reply>>

\* The upstream answers, or the request fails, as it does when its context
\* ends.  Only a whole JSON answer with status 200 is guarded; a stream is
\* copied as it comes and says that it was not.
Upstream(r, u) ==
  /\ stage[r] = "upstream"
  /\ r \in cancelled => u.kind = "failed"
  /\ response' = [response EXCEPT ![r] = u]
  /\ CASE u.kind = "failed" -> Reply(r, "bad gateway", << >>, "")
       [] u.kind # "failed" /\ form[r].body = "other" -> Reply(r, "forwarded", u.calls, "")
       [] u.kind # "failed" /\ form[r].body # "other" /\ form[r].stream ->
            Reply(r, "forwarded", u.calls, "disabled")
       [] u.kind = "other" /\ form[r].body # "other" /\ ~form[r].stream ->
            Reply(r, "forwarded", u.calls, "")
       [] u.kind = "json" /\ form[r].body # "other" /\ ~form[r].stream ->
            Reply(r, "forwarded", Guarded(u.calls).calls, Guarded(u.calls).label)
  /\ UNCHANGED <<catalogue, form, offered>>

\* main: on SIGTERM ListenAndServe returns at once, and main with it, while
\* Shutdown still waits for the requests.
Exit == up /\ up' = FALSE /\ UNCHANGED <<catalogue, mcpEnabled, request>>

Own(r) == ToolsStep(r) \/ UseTools(r) \/ Forward(r)

ProxyNext ==
  \/ /\ up /\ UNCHANGED <<mcpEnabled, up>>
     /\ \/ Tick /\ UNCHANGED request
        \/ \E r \in Requests :
             \/ \E f \in Forms : Arrive(r, f)
             \/ ReadBody(r) \/ Disconnect(r) \/ Own(r) \/ ToolsFetch(r)
             \/ \E u \in Responses : Upstream(r, u)
  \/ Exit

ProxySpec == ProxyInit /\ [][ProxyNext]_allVars

(***************************************************************************)
(* Fairness.  A goroutine that can run does; reading the body, the fetch   *)
(* and the upstream return once the context of the request has ended.      *)
(* None of them has a deadline of its own: a live client, or the upstream  *)
(* for a live client, may keep them for ever.                              *)
(***************************************************************************)
Live(A) == up /\ A /\ UNCHANGED <<mcpEnabled, up>>

FairProxySpec ==
  /\ ProxySpec
  /\ \A r \in Requests :
       /\ WF_allVars(Live(Own(r)))
       /\ WF_allVars(Live(r \in cancelled /\ ReadBody(r)))
       /\ WF_allVars(Live(r \in cancelled /\ ToolsFetch(r)))
       /\ WF_allVars(Live(r \in cancelled /\ \E u \in Responses : Upstream(r, u)))

-------------------------------------------------------------------------------

\* The calls to let through, by their places: those that are calls and were not
\* there before, the first of them up to the limit.
Calls(calls) == {i \in DOMAIN calls : calls[i] # Junk}
First(calls) == {i \in Calls(calls) : ~Distinct \/ \A j \in 1 .. i - 1 : calls[j] # calls[i]}
UpTo(S, i)   == {j \in S : j <= i}
Kept(calls)  == {i \in First(calls) : Cardinality(UpTo(First(calls), i)) <= MaxToolCalls}

\* What the model is let call: each call once, in its order, up to the limit,
\* and the answer says so when anything was left out; a stream is let through
\* whole (applyToolCallGuards, forwardStreamingResponse).
GuardedReply ==
  \A r \in Requests :
    reply[r].kind = "forwarded" =>
      LET calls == response[r].calls
          kept  == Kept(calls)
          guard == form[r].body # "other" /\ ~form[r].stream /\ response[r].kind = "json"
      IN  IF guard /\ kept # Calls(calls)
            THEN /\ reply[r].label \in {"limited", "duplicate"}
                 /\ Len(reply[r].calls) = Cardinality(kept)
                 /\ \A i \in kept : reply[r].calls[Cardinality(UpTo(kept, i))] = calls[i]
            ELSE reply[r].calls = calls /\ reply[r].label \notin {"limited", "duplicate"}

\* What the proofs rest on: there is no reply before the end, and what was asked
\* and answered is kept.
RequestInv ==
  /\ stage = [r \in Requests |-> stage[r]] /\ reply = [r \in Requests |-> reply[r]]
  /\ form \in [Requests -> Forms \cup {NoForm}]
  /\ response \in [Requests -> Responses \cup {Nothing}]
  /\ \A r \in Requests : stage[r] # "over" => reply[r] = NoReply

\* The end of a request's context ends the request wherever it stands: in its
\* body, in the queue for the catalogue or at the upstream (the contexts given
\* to getOpenAITools and forwardJSON).
CancelledRequestEnds ==
  \A r \in Requests : r \in cancelled ~> stage[r] = "over" \/ ~up

\* Every request gets its reply, or with a null body at worst a closed
\* connection, although it shares the fetch of the catalogue
\* with others, unless a live request is kept for ever by its client, by /tools
\* or by the upstream.
Waiting == \E r \in Requests \ cancelled :
             stage[r] \in {"reading", "upstream"} \/ pc[r] = "fetching"

EveryRequestIsAnswered ==
  <>[](Waiting \/ ~up) \/ \A r \in Requests : stage[r] # "new" ~> reply[r].kind # "none"
=============================================================================
