------------------------------ MODULE ToolsCache ------------------------------
(***************************************************************************)
(* The shared tool catalogue of the OpenAI proxy: getOpenAITools of        *)
(* src/internal/openaiproxy/proxy.go, called by one goroutine per chat     *)
(* completion request.  The goroutines share the fields guarded by Proxy.mu*)
(* and elect one of themselves to fetch GET /tools without the lock.       *)
(*                                                                         *)
(* Grain of atomicity: a section of the code between Lock and Unlock is    *)
(* one action; time.Now(), which is read BEFORE the lock, the fetch and    *)
(* the two ways out of the select are actions of their own.                *)
(*                                                                         *)
(* A catalogue is named by the number of the fetch that produced it, and a *)
(* done channel by the number of the fetch that made it.                   *)
(***************************************************************************)
EXTENDS Integers, Sequences

CONSTANTS
  Requests,   \* the chat completion requests, each a goroutine and a context
  TTL,        \* Proxy.toolsCacheTTL, in ticks of the clock
  ErrTTL,     \* Proxy.toolsErrorCacheTTL
  MaxTime     \* bound of the model: the clock stops here

ASSUME TTLAssumption == TTL \in Nat \ {0} /\ ErrTTL \in Nat \ {0}
ASSUME MaxTimeAssumption == MaxTime \in Nat

VARIABLES
  clock,            \* time.Now()
  pc,               \* where each request stands in getOpenAITools
  cancelled,        \* requests whose context has ended
  now,              \* local now of each request
  done,             \* local done of each waiting request: a channel
  outcome,          \* local tools, err of the leader
  completedAt,      \* local completedAt of the leader
  answer,           \* what getOpenAITools returned to each request
  fetchInFlight,
  fetchDone,        \* the last channel made, 0 for nil
  closed,           \* the channels closed so far
  cacheValid, cachedTools, cachedToolsAt,
  cachedToolsErr,   \* the failed fetch whose error is kept, 0 for nil
  cachedToolsErrAt,
  fetches           \* history: leader, start, end and outcome of every fetch

locals  == <<now, done, outcome, completedAt>>
cache   == <<cacheValid, cachedTools, cachedToolsAt, cachedToolsErr, cachedToolsErrAt>>
flight  == <<fetchInFlight, fetchDone, closed>>
vars    == <<clock, pc, cancelled, locals, answer, flight, cache, fetches>>

(***************************************************************************)
(* "aborted" is an error that errors.Is reports as context.Canceled or     *)
(* context.DeadlineExceeded: the leader's own context ended, or the dialer *)
(* of the default transport timed out.                                     *)
(***************************************************************************)
Outcomes == {"ok", "failed", "aborted"}

None    == [kind |-> "none", fetch |-> 0]
Answers == [kind : {"none", "tools", "error", "context"}, fetch : Nat]

Tools(n)   == [kind |-> "tools", fetch |-> n]
Error(n)   == [kind |-> "error", fetch |-> n]
Context(n) == [kind |-> "context", fetch |-> n]

Leading(r) == pc[r] \in {"fetching", "fetched"}

-------------------------------------------------------------------------------

Init ==
  /\ clock = 0
  /\ pc = [r \in Requests |-> "idle"]
  /\ cancelled = {}
  /\ now = [r \in Requests |-> 0]
  /\ done = [r \in Requests |-> 0]
  /\ outcome = [r \in Requests |-> "ok"]
  /\ completedAt = [r \in Requests |-> 0]
  /\ answer = [r \in Requests |-> None]
  /\ fetchInFlight = FALSE /\ fetchDone = 0 /\ closed = {}
  /\ cacheValid = FALSE /\ cachedTools = 0 /\ cachedToolsAt = 0
  /\ cachedToolsErr = 0 /\ cachedToolsErrAt = 0
  /\ fetches = << >>

\* The clock advances while goroutines are anywhere, the lock included.
Tick ==
  /\ clock < MaxTime
  /\ clock' = clock + 1
  /\ UNCHANGED <<pc, cancelled, locals, answer, flight, cache, fetches>>

\* The client of a request disconnects, or its deadline passes; before the tools
\* are asked for and after they have been given too.
Cancel(r) ==
  /\ r \notin cancelled
  /\ cancelled' = cancelled \cup {r}
  /\ UNCHANGED <<clock, pc, locals, answer, flight, cache, fetches>>

\* now := time.Now(), at the top of the loop and before the lock.
Sample(r) ==
  /\ pc[r] \in {"idle", "loop"}
  /\ now' = [now EXCEPT ![r] = clock]
  /\ pc' = [pc EXCEPT ![r] = "locking"]
  /\ UNCHANGED <<clock, cancelled, done, outcome, completedAt, answer, flight, cache, fetches>>

\* Mutant of FreshTools: an entry lives one tick too long.
FreshToolsMutant(r) == cacheValid /\ now[r] - cachedToolsAt <= TTL

FreshTools(r) == cacheValid /\ now[r] - cachedToolsAt < TTL
FreshError(r) == cachedToolsErr # 0 /\ now[r] - cachedToolsErrAt < ErrTTL

Return(r, a) ==
  /\ answer' = [answer EXCEPT ![r] = a]
  /\ pc' = [pc EXCEPT ![r] = "done"]

\* First locked section, return from the cache.
ServeTools(r) ==
  /\ pc[r] = "locking"
  /\ FreshTools(r)
  /\ Return(r, Tools(cachedTools))
  /\ UNCHANGED <<clock, cancelled, locals, flight, cache, fetches>>

\* First locked section, return of the cached error.
ServeError(r) ==
  /\ pc[r] = "locking"
  /\ ~FreshTools(r)
  /\ FreshError(r)
  /\ Return(r, Error(cachedToolsErr))
  /\ UNCHANGED <<clock, cancelled, locals, flight, cache, fetches>>

\* First locked section, another request is fetching: keep its channel.
Join(r) ==
  /\ pc[r] = "locking"
  /\ ~FreshTools(r) /\ ~FreshError(r)
  /\ fetchInFlight
  /\ done' = [done EXCEPT ![r] = fetchDone]
  /\ pc' = [pc EXCEPT ![r] = "waiting"]
  /\ UNCHANGED <<clock, cancelled, now, outcome, completedAt, answer, flight, cache, fetches>>

\* Mutant of Lead: the flag is not looked at.
LeadMutant(r) ==
  /\ pc[r] = "locking"
  /\ ~FreshTools(r) /\ ~FreshError(r)
  /\ fetchInFlight' = TRUE
  /\ fetchDone' = fetchDone + 1
  /\ pc' = [pc EXCEPT ![r] = "fetching"]
  /\ fetches' = Append(fetches, [leader |-> r, start |-> clock, end |-> clock,
                                 outcome |-> "running"])
  /\ UNCHANGED <<clock, cancelled, locals, answer, closed, cache>>

\* First locked section, nobody is fetching: this request does.
Lead(r) ==
  /\ pc[r] = "locking"
  /\ ~FreshTools(r) /\ ~FreshError(r)
  /\ ~fetchInFlight
  /\ fetchInFlight' = TRUE
  /\ fetchDone' = fetchDone + 1
  /\ pc' = [pc EXCEPT ![r] = "fetching"]
  /\ fetches' = Append(fetches, [leader |-> r, start |-> clock, end |-> clock,
                                 outcome |-> "running"])
  /\ UNCHANGED <<clock, cancelled, locals, answer, closed, cache>>

\* Mutant of Wake: a waiter shares the context error of the leader it waited for.
WakeMutant(r) ==
  /\ pc[r] = "waiting"
  /\ done[r] \in closed
  /\ \/ fetches[done[r]].outcome = "aborted" /\ Return(r, Context(done[r]))
     \/ fetches[done[r]].outcome # "aborted" /\ UNCHANGED answer
                                             /\ pc' = [pc EXCEPT ![r] = "loop"]
  /\ UNCHANGED <<clock, cancelled, locals, flight, cache, fetches>>

\* select, case <-done: the loop starts again with a new time.Now().
Wake(r) ==
  /\ pc[r] = "waiting"
  /\ done[r] \in closed
  /\ pc' = [pc EXCEPT ![r] = "loop"]
  /\ UNCHANGED <<clock, cancelled, locals, answer, flight, cache, fetches>>

\* select, case <-ctx.Done().
GiveUp(r) ==
  /\ pc[r] = "waiting"
  /\ r \in cancelled
  /\ Return(r, Context(0))
  /\ UNCHANGED <<clock, cancelled, locals, flight, cache, fetches>>

Ended(f, o) == [f EXCEPT !.end = clock, !.outcome = o]

\* fetchOpenAITools returns, and completedAt is read, still without the lock.
FetchReturn(r, o) ==
  /\ pc[r] = "fetching"
  /\ outcome' = [outcome EXCEPT ![r] = o]
  /\ completedAt' = [completedAt EXCEPT ![r] = clock]
  /\ pc' = [pc EXCEPT ![r] = "fetched"]
  /\ fetches' = [fetches EXCEPT ![fetchDone] = Ended(@, o)]
  /\ UNCHANGED <<clock, cancelled, now, done, answer, flight, cache>>

\* Mutants of KeepTools: a good catalogue is not stored; a stored one is never
\* replaced.
ForgetTools(r) ==
  /\ outcome[r] = "ok"
  /\ UNCHANGED cache
  /\ Return(r, Tools(fetchDone))

KeepFirstTools(r) ==
  /\ outcome[r] = "ok"
  /\ cacheValid' = TRUE
  /\ cachedTools' = IF cacheValid THEN cachedTools ELSE fetchDone
  /\ cachedToolsAt' = completedAt[r]
  /\ cachedToolsErr' = 0
  /\ UNCHANGED cachedToolsErrAt
  /\ Return(r, Tools(fetchDone))

\* Mutant of KeepError: failures are not kept.
ForgetError(r) ==
  /\ outcome[r] = "failed"
  /\ UNCHANGED cache
  /\ Return(r, Error(fetchDone))

\* Mutant of KeepNothing: the error of an ended context is kept like any other.
KeepAborted(r) ==
  /\ outcome[r] = "aborted"
  /\ cachedToolsErr' = fetchDone
  /\ cachedToolsErrAt' = completedAt[r]
  /\ UNCHANGED <<cacheValid, cachedTools, cachedToolsAt>>
  /\ Return(r, Context(fetchDone))

\* Second locked section, what the result does to the cache: a catalogue ends
\* the cached error, an error leaves the old catalogue, an aborted fetch leaves
\* everything as it was.
KeepTools(r) ==
  /\ outcome[r] = "ok"
  /\ cacheValid' = TRUE
  /\ cachedTools' = fetchDone
  /\ cachedToolsAt' = completedAt[r]
  /\ cachedToolsErr' = 0
  /\ UNCHANGED cachedToolsErrAt
  /\ Return(r, Tools(fetchDone))

KeepError(r) ==
  /\ outcome[r] = "failed"
  /\ cachedToolsErr' = fetchDone
  /\ cachedToolsErrAt' = completedAt[r]
  /\ UNCHANGED <<cacheValid, cachedTools, cachedToolsAt>>
  /\ Return(r, Error(fetchDone))

KeepNothing(r) ==
  /\ outcome[r] = "aborted"
  /\ UNCHANGED cache
  /\ Return(r, Context(fetchDone))

\* Mutant of Publish: the channel is not closed.
PublishMutant(r) ==
  /\ pc[r] = "fetched"
  /\ fetchInFlight' = FALSE
  /\ KeepTools(r) \/ KeepError(r) \/ KeepNothing(r)
  /\ UNCHANGED <<clock, cancelled, locals, fetchDone, closed, fetches>>

\* Second locked section: clear the flag, wake the waiters, keep the result.
Publish(r) ==
  /\ pc[r] = "fetched"
  /\ fetchInFlight' = FALSE
  /\ closed' = closed \cup {fetchDone}
  /\ KeepTools(r) \/ KeepError(r) \/ KeepNothing(r)
  /\ UNCHANGED <<clock, cancelled, locals, fetchDone, fetches>>

\* The steps a request takes on its own, once scheduled.
Decide(r) == ServeTools(r) \/ ServeError(r) \/ Join(r) \/ Lead(r)
Run(r)    == Sample(r) \/ Decide(r) \/ Wake(r) \/ GiveUp(r) \/ Publish(r)
Fetch(r)  == \E o \in Outcomes : FetchReturn(r, o)

Next ==
  \/ Tick
  \/ \E r \in Requests : Cancel(r) \/ Run(r) \/ Fetch(r)

Spec == Init /\ [][Next]_vars

-------------------------------------------------------------------------------

FetchRecords == [leader : Requests, start : Nat, end : Nat, outcome : Outcomes \cup {"running"}]

\* The types of the shared fields, the locals and the history.
TypeOK ==
  /\ clock \in Nat
  /\ pc \in [Requests -> {"idle", "loop", "locking", "waiting", "fetching", "fetched", "done"}]
  /\ cancelled \in SUBSET Requests
  /\ now \in [Requests -> Nat]
  /\ done \in [Requests -> Nat]
  /\ outcome \in [Requests -> Outcomes]
  /\ completedAt \in [Requests -> Nat]
  /\ answer \in [Requests -> Answers]
  /\ fetchInFlight \in BOOLEAN
  /\ fetchDone \in Nat
  /\ closed \in SUBSET Nat
  /\ cacheValid \in BOOLEAN
  /\ cachedTools \in Nat /\ cachedToolsAt \in Nat
  /\ cachedToolsErr \in Nat /\ cachedToolsErrAt \in Nat
  /\ fetches \in Seq(FetchRecords)

\* At most one request is between making a done channel and closing it, and
\* the channel it will close is open: close(p.fetchDone), which names the
\* field and not a local, can neither close another leader's channel nor
\* panic on a channel closed before (proxy.go:263-272).
SingleFlight ==
  /\ \A r, s \in Requests : Leading(r) /\ Leading(s) => r = s
  /\ \A r \in Requests : Leading(r) => fetchDone \notin closed

\* No lost wake-up: a waiter's channel is closed, or there is a leader at work
\* that will close exactly that channel (proxy.go:253-262).
NoOrphanedWaiter ==
  \A r \in Requests :
    pc[r] = "waiting" /\ done[r] \notin closed =>
      done[r] = fetchDone /\ \E l \in Requests : Leading(l)

\* The end of one client's context is never another client's answer: a request
\* gets a context error only from its own context or from the fetch it led
\* itself, however many waiters shared that fetch (proxy.go:256-258,274-277).
CancellationIsPrivate ==
  \A r \in Requests :
    answer[r].kind = "context" =>
      \/ r \in cancelled
      \/ answer[r].fetch # 0 /\ fetches[answer[r].fetch].leader = r

\* Whatever the interleaving of time.Now(), the lock and the fetches of others,
\* a catalogue or an error is the result of a fetch that really ended so, and
\* that had ended less than its TTL before the request looked at the clock.
AnswersAreFresh ==
  \A r \in Requests :
    LET f == fetches[answer[r].fetch] IN
      /\ answer[r].kind = "tools" => f.outcome = "ok" /\ now[r] < f.end + TTL
      /\ answer[r].kind = "error" => f.outcome = "failed" /\ now[r] < f.end + ErrTTL

\* The point of both caches: after a fetch that ended well the upstream is left
\* alone for TTL, after one that failed for ErrTTL, although the requests
\* decide with clock readings taken before they had the lock.
UpstreamIsSpared ==
  \A i \in 2..Len(fetches) :
    /\ fetches[i - 1].outcome = "ok" => fetches[i].start >= fetches[i - 1].end + TTL
    /\ fetches[i - 1].outcome = "failed" => fetches[i].start >= fetches[i - 1].end + ErrTTL

\* Once a fetch has succeeded, the error of an older one is answered to nobody
\* (cachedToolsErr = nil, proxy.go:284).
NoErrorAfterRecovery ==
  [][\A r \in Requests :
       answer'[r] # answer[r] /\ answer'[r].kind = "error" =>
         \A i \in closed : i > answer'[r].fetch => fetches[i].outcome # "ok"]_vars

\* The catalogue never goes back: a request is not answered with tools older
\* than those some request was answered with before it.
CatalogueNeverRegresses ==
  [][\A r, s \in Requests :
       answer'[r] # answer[r] /\ answer'[r].kind = "tools" /\ answer[s].kind = "tools" =>
         answer'[r].fetch >= answer[s].fetch]_vars

\* The cache implements the register of ToolCatalogue: the second locked
\* section of a leader is the Refresh, the first locked section that returns is
\* the Read, whatever happens between them.
Register == INSTANCE ToolCatalogue WITH
  refreshes <- IF fetchInFlight THEN fetchDone - 1 ELSE fetchDone,
  tools     <- cachedTools,
  error     <- cachedToolsErr,
  lost      <- cancelled

ImplementsRegister == Register!Spec

===============================================================================
