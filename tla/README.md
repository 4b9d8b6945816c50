# TLA+ verification of groovy-agent

Models of the parts of groovy-agent in which the order of events matters, the
TLC runs that check them on small instances, and proofs with TLAPS that hold for
every value of the constants. `PROJECT.json` is the index: components, runs,
theorems, hazards, and for every definition the lines of code it stands for.

    tlc -workers 2 -config ToolsCache.cfg MCToolsCache.tla     # a run
    tlapm ToolsCacheProofs.tla                                 # the proofs of a module

## 1. The system

groovy-agent answers one prompt with a local model and tools. In the container
a shell script starts `llama-server`, optionally an OpenAI-compatible proxy in
front of it, and then either the one-shot agent or nothing more (serve mode);
a third mode runs only the MCP tool server over HTTP.

    entrypoint.sh --starts--> llama-server <--HTTP-- openai-mcp-proxy <--HTTP-- clients
         |                        ^
         +--starts--> agent --HTTP-+    agent --stdio--> coreutils-mcp, webutils-mcp

| Component | State | Operations | What is hard | What makes it correct |
|---|---|---|---|---|
| Proxy catalogue, `internal/openaiproxy` `getOpenAITools` | cached tools, cached error, their times, the single-flight flag and channel | one call per chat request, concurrent | cancellation of the fetching request, times read before the lock, a fetch that hangs | one fetch at a time, no lost wake-up, no foreign cancellation, fresh answers, no regress |
| Proxy requests, same package | per request | inject tools, forward, guard tool calls, stream | guards against what the model replies | at most N distinct calls, the rest untouched |
| Agent loop, `internal/agent` | messages, calls spent, calls seen in the turn | prompt, call tools, prune | arbitrary replies, budgets across rounds, a full context | budgets, no repetition, well-formed prompts, termination unless a tool hangs |
| Agent lifecycle, same package | clients, discovered tools | start two servers, discover, filter, close | failure half-way | everything started is closed, only allowed tools |
| MCP client, `internal/mcpclient` | next id, mutex, two channels, the child process | call, notify, readLoop, Close | cancelled calls, late answers, full buffers, crash and kill | at-most-once calls with their own answer, Close always ends and leaves no process |
| MCP server, `internal/mcpserver` | none over stdio but the workspace | initialize, list, call; HTTP handler | concurrent HTTP requests | one response per request, none to a notification |
| Workspace tools, same package | the files | 13 registered tools | check-then-act between concurrent requests, symbolic links | an undisturbed call does what its tool promises; no overwriting without consent |
| Web tools, `webutils` | the browser of one request | browse, search | interception runs beside navigation, limits, a deadline | the cause that ended the page is reported, every call ends and leaves nothing |
| Text tools, `coreutils`; `internal/jsonschema` | none | pure functions | boundaries | agree with their definitions |
| Model client, `internal/llm` | none | ping, complete | deadlines | one outcome per call |
| Entrypoint, `docker/entrypoint.sh` | pids, trap | start, poll, forward signals, stop | signals at any command, deaths between polls | nothing left running, the right status, always ends |

The agent calls the MCP client one call at a time; the client and the server
share two pipes; the goroutines of the proxy share its cache under a mutex; the
entrypoint shares only process states and signals with its children.

`PROJECT.json` lists, under `hazards`, what tests would hardly reach in this
code and the property that covers it, or why none does.

## 2. Modules

| Module | Models | Notes |
|---|---|---|
| `ToolCatalogue` | what the proxy cache promises | abstract: a register that is refreshed atomically |
| `ToolsCache` | `getOpenAITools`, `fetchOpenAITools` | implements `ToolCatalogue` |
| `ProxyRequest` | a chat request in the proxy, and the proxy's `main` | composed with `ToolsCache`, whose actions are its steps |
| `AgentLoop` | `Session.Loop`, `runToolCall`, `validateCall`, `pruneMessages` | |
| `AgentRun` | `main`, `Run`, `ListTools`, the profiles, the deferred calls | composed with `AgentLoop` |
| `AtMostOnceCalls` | what an MCP session promises the agent | abstract |
| `McpSession` | client, pipes, server loop | composes three processes; implements `AtMostOnceCalls` |
| `FileTree` | inodes, links and the atomic system calls | the file system as the tools use it |
| `Workspace` | `coreutils-mcp` over HTTP, its tools call by call | extends `FileTree` |
| `ToolPromises` | what each tool promises its caller | abstract: before and after, no system calls; the properties of `Workspace` |
| `Browser` | `webutils-mcp`, `Browse`, `Search` | function, Chromium and goroutines run at once |
| `TextTools`, `JsonSchema`, `PageText` | the pure functions | compared with what they promise in `MCPure` |
| `Supervisor` | `entrypoint.sh` after its configuration | three modes |
| `MC*` | the instances for TLC | |
| `*Proofs` | | the theorems about `ToolsCache`, `ProxyRequest`, `AgentLoop`, `AgentRun`, `McpSession`, `Browser`, `Supervisor`, `Workspace`, each in a module of its own |

### ToolsCache

A request is a goroutine with a program counter; each section between `Lock` and
`Unlock` is an action, and `time.Now()` (read before the lock), the fetch and the
two cases of the select are actions of their own. `Publish` is the second locked
section in one step: clearing the flag, closing the channel and one of `KeepTools`,
`KeepError`, `KeepNothing`. A catalogue is the number of its fetch, and so is a
channel. `fetches` is a history of starts, ends and outcomes that the properties
speak about. The outcome *aborted* is an error that is `context.Canceled` or
`context.DeadlineExceeded`, from the request's own context or from the dial
timeout of the default transport. Time is a clock that may advance anywhere.

### ProxyRequest

`stage` is where a request stands in `handleChatCompletions`; in stage *tools* its steps are
those of `ToolsCache`, so that a request may lead, wait, or be served by another's fetch.
`Disconnect` is the end of its context, anywhere. `Guarded` is `applyToolCallGuards`: `Guarding` has what
its loop has kept and said after each turn, a call being its `toolCallKey` or `Junk` when it is not an object.
A `null` body panics when the catalogue is put into it, and the HTTP server drops the connection.
`Exit` is `main` returning, which on SIGTERM it does while `Shutdown` still waits.

### AgentLoop

The model's reply is free: any number of calls, each a duplicate key and a verdict of
the validation chosen when the loop reaches it. A message is its role, its round
and its size in tokens; the system prompt, the user request and the tool schemas
are in every prompt, and `Budget` is what they leave of the context. `Pruned` is
`pruneMessages`: the longest rest, cut where `dropOldestExchange` can cut, whose
truncated sizes fit. That the prompt fits is not promised: see `agent_prune`. Calling a tool and its answer are two steps
(`Call`, then `Execute` or `CallFails`), between which the run waits. `executed` and `prompt` are histories.

### AgentRun

`stage` is where `Run` stands: validate, ping, then start, initialize, list and filter for the core
and maybe the web server, select a profile, the loop, and the deferred calls, which are a stack in `defers`.
The actions of the loop are those of `AgentLoop`, narrowed: only an offered tool can pass validation,
and a completion only fails once the context has ended. A tool call has no deadline: it ends by the tool's answer, the end of the
session, or the cancellation of the whole request (`ToolAnswers`, `ToolFails`, `ToolCancelled`); that the one line of its request fits
into the pipe of a server that is idle is assumed here and examined in `McpSession`. `SelectProfile` keeps the first `MaxExposed` tools. A server advertises any page of tools
from a small set, with or without a cursor; a name that comes twice, and a list longer than `MaxPages`, are errors.
`ran` records which tool ran on which server.

### McpSession

Messages are ids. `messages` is the channel between `readLoop` and `call`, `stdin`
and `stdout` are the pipes with capacities in messages, `reader` and `server` are the
positions of `readLoop` and of the server process. `ContextEnds` may come at any
time, but a write does not look at the context. `Die` covers a crash and the kill of
`exec.CommandContext`; a tool that was running had its effect or not, a response that was being written may be cut.
The caller is the client's contract, not only the agent: after a failed call it may
call again. The agent closes instead, which is one of the behaviours; JSON-RPC
errors, which these servers answer to no method the client uses, are left out.

### Workspace, FileTree and ToolPromises

`FileTree` is external: paths, links and the system calls, each of them atomic. In `Workspace` a
request is one tool call; each `Lstat`, `Stat`, `EvalSymlinks`, open, read, write, rename, remove and
each directory of a walk is a step, and requests interleave between them. A path is a sequence of names with `..`, `Cleaned` as
`filepath.Clean` does. `os.Rename` is Go's: a look with `Lstat`, which refuses any existing directory as its target, and then the system
call, a step each. `write_file` refuses append together with overwrite, and content over the limit, before it looks at the disk. The content that `write_file` writes is the number of the request. Each request keeps
the tree it found, the `paths` it may touch (those of the call and what a link at their head leads to), and `quiet`
while no request that writes has come near these paths: readers disturb nobody, and writers that meet share their paths from
then on. These three are history, and no step of a tool reads them. `ToolPromises` says
of each tool, by what is visible at the paths, when it succeeds (`Granted`), what the tree is then (`After`) and
what the caller is shown (`Reported`), a description that knows neither steps nor inodes. `UndisturbedKeepsPromise` compares
the two for every quiet request, whatever runs elsewhere in the tree. It is stated at the end of a
request, as the code promises nothing to requests that meet. Three properties take a request on its way:
`RequestsAreIsolated`, no step of another changes what is seen near the paths of a quiet request; `OverwriteHasConsent`,
what a quiet `cp`, `mv` or `write_file` overwrites it had consent for, although it looked some steps earlier; and
`RefusalLeavesNoTrace`, whoever refuses, at whichever system call, has changed nothing. A file that is open keeps its
inode when its name moves, so a write may follow a file to where another request has moved it. `HasRoom` bounds the inodes:
what would need one more waits.

### Browser

Three parties: the server and the function it calls (`pc`), Chromium with the page
(`Asks`, `Loads`, `Redirected`), and one goroutine for each paused request, whose
steps are those between its calls of Chromium: judge the URL, fail or continue the request,
record the reason. `ended` is what ended the browser's context first and `reason` is `checkErr`.
After `chromedp.Run` has returned, the code reads these one after the other, while the goroutines go on: `getCheckErr` (`CheckFailure`,
`CheckSuccess`), then the context (`JudgeFailure`) or the look-up of the final URL and the result (`ResolveFinal`, `Package`), a step each.
`left` is a history of what had happened when it returned.
The redirects are counted by the event listener, after the fact (`hops`); `MaxHops` bounds those a page makes. `Browse` and `Search` have
the same body twice; `tool` tells them apart only where the answer differs. `Kill` and `Terminate` may come anywhere.

### TextTools, JsonSchema, PageText

Operators without state. A search result is a link with a title and a snippet, each clamped by itself. A text is a sequence of characters from a small alphabet,
a JSON value a record, a page its links, nodes and candidates. `MCPure` builds one input a
piece at a time and its invariants compare the functions with references that are
stated differently: stability and permutation for sort, inverse functions for cut and paste, a direct
reading of the declared schema for `Validate`, and a filter on paths for the recursive cleaning of the DOM.

### Supervisor

The script's commands are the labels of `pc`; `StopAll` sets up the list of children that
are killed and waited for in turn; `Skip` passes over one that was never started. `Trap` is a trap that runs between two commands,
`WaitCut` and `ExitStatusCut` one that ends a `wait`. A child runs one command before its pid is in its variable (`known`), and the traps are
set after the first child was started: the script is the container's first process (Dockerfile:154), for which a signal without a handler
is discarded, so that one before `trap` is lost (`Signal`). With an init process before the script (`docker run --init`) it would end the script instead. The children are `Exit`
with any status. That a child is told is SIGTERM; the script has nothing stronger.

## 3. Runs

| Run | Instance | Shows |
|---|---|---|
| `tools_cache` | 3 requests, TTL 2, error TTL 1, clock to 3, symmetry | `SingleFlight`, `NoOrphanedWaiter`, `CancellationIsPrivate`, `AnswersAreFresh`, `UpstreamIsSpared`, `NoErrorAfterRecovery`, `CatalogueNeverRegresses`, and `ImplementsRegister` |
| `proxy_request` | 2 requests, 5 forms of body, 6 answers, limit of 2 calls, TTLs 1 | `GuardedReply`; `CancelledRequestEnds`, `EveryRequestIsAnswered` |
| `agent_loop` | 3 rounds, 5 calls, 2 per turn, replies up to 3 calls, sizes small, truncated, too large; 2 servers, 2 pages, 2 profiles | `CallBudget`, `PromptIsWellFormed`, `NoServerLeft`, `ToolsComeFromTheirServer`; `RunEnds` |
| `agent_prune` | default of 3 calls per turn; **violated** | `UnresolvedActivityIsKept`, see findings |
| `mcp_session` | 8 calls, channel of 2, pipes of 2 and 1 | `OnlyAbandonedCallsLag`, `ClosedMeansExited`, `CircularWaitNeedsBacklog`, `ImplementsCalls`; `EveryCallReturns`, `CloseReturns` |
| `workspace` | 2 requests out of 25 calls and 6 forms, 2 trees with links | `UndisturbedKeepsPromise`, `OverwriteHasConsent`, `RefusalLeavesNoTrace`, `RequestsAreIsolated` |
| `workspace_overwrite` | 2 requests; **violated** | `ConsentIsRespected`, see findings |
| `browser` | 2 lines, a page with two requests beside the document, 1 redirect allowed, up to 2 made | `FirstCauseIsReported`; `CallsEnd` |
| `browser_blocked` | 1 line, the same page; **violated** | `BlockedRequestFailsTheCall`, see findings |
| `pure_functions` | texts of 5 from 5 characters, 4 links, DOM trees of 6, 3 candidates, 4 lines of Markdown, 3 arguments | `TruncationIsTold`, `LinesAreKept`, `ArgumentsAreAsDeclared`, `PageIsReduced` |
| `supervisor` | every mode, 3 signals | `NoChildLeft`, `SuccessIsTheAgents`, `SignalEnds`, `DeathEnds` |
| `supervisor_status` | 1 signal; **violated** | `WaitStatusIsExitCode`, see findings |

The type invariants of `McpSession`, `Browser` and `Workspace` are checked by their runs, since they say more than types:
what is passed on is a message, Chromium has a profile, no inode has two names. The others are only proved.

**Bounds.** Three requests are a leader, a waiter and a late arrival, or three leaders in a row,
and the clock of `tools_cache` crosses both TTLs and lets a second fetch land; `MaxTime`
bounds the clock. In `proxy_request` two requests suffice, one to lead and one to wait; the six
answers reach the limit with and without duplicates and junk, and the second catalogue
is empty. In `agent_loop` the per-turn limit is lowered to two so that the total of five is
reached within three rounds; `MaxReply` exceeds the limit; both servers may advertise what is
theirs, the other's, and neither's. The calls of `mcp_session`
are just enough to fill both pipes, `readLoop`, the server and the channel with
abandoned answers and still block a write: `CircularWaitNeedsBacklog` would hold for
lack of calls with one less. The real capacities are eight messages and pipes of
64 KiB. In `workspace` two requests meet in every pair of steps; the trees have a file,
a link, a dangling link, a full and an empty directory, the 25 calls every tool with and without consent, over links, onto
itself and out of the workspace; the limits of reads, copies and lists lie just around the
sizes in the trees, so that each is reached and exceeded. `MaxInode` leaves room for two new
inodes.
In `browser` two requests beside the document make two goroutines race
with the navigation, and one redirect more than allowed happens. In `pure_functions` the
limits are crossed by the inputs (lines longer than 2, more than two links). `MaxSignals` of three reaches a signal
in startup, one in a wait and one more.

**Fairness.** In `ProxyRequest` a goroutine that can run does, and reading the body, the fetch
and the upstream return once the request's context has ended; for a live one none of them need, as
neither the fetch nor the upstream has a timeout, and `EveryRequestIsAnswered` says so. In `AgentRun`
ping, startup, discovery, completion and Close return, as each has a deadline; a tool call has none, so that nothing makes a tool answer,
and `RunEnds` promises an end only to a request that does not wait for one for ever. What is fair is that a call whose request is cancelled returns. In `McpSession` writes,
reads and the cases of the select happen when they can, a kill takes effect and the timer of Close
fires; a running tool need not end, because its deadline only reaches tools that look at it. In `Workspace`
nothing is fair: a handler may hang in a system call, and only safety is stated. In `Browser` the function takes
the steps that wait for nobody, a killed Chromium is gone, and the timer fires; the page and
its goroutines may stall for ever. Two steps are taken to return although nothing in the code bounds them: the look-ups of the final URL and
of the links, in the context of `main`, and the write of the answer. In
`Supervisor` the script goes on and a child that got SIGTERM exits: a child that
ignores it would keep the container until the runtime kills it.

`CHECK_DEADLOCK` is off in every run, since requests, sessions, processes and the container end.

## 4. Findings

* `agent_prune`: the comment of `pruneMessages` (context.go:38-41) promises to keep
  unresolved tool activity, but dropping exchanges stops only when the rest fits, and
  with three results of 4 KiB in a turn, the fallback profile and the default limits that turn does not
  fit. The model is then asked again as if it had not called any tool.
* `supervisor_status`: the comment of `wait_for_exit_status` (entrypoint.sh:50-54) says it
  returns the exit code of the process. When the trapped signal ends `wait` and the child
  exits before `kill -0`, it returns 143. The smoke test accepts 0 and 143.
* `workspace_overwrite`: the description of `write_file` (tools.go:127) says that existing files require
  overwrite or append. `runWriteFile` looks with `Lstat` and opens with `O_TRUNC` and without `O_EXCL`; over
  HTTP another request can create and fill the file in between, and loses what it wrote.
* `browser_blocked`: a test (browser_test.go:519) expects that a page with a blocked request fails the call. The goroutine fails
  the request first (browser.go:301) and records why afterwards (browser.go:305); the page, told already, may finish in between, and
  `getCheckErr` (browser.go:369) finds nothing. The blocked request itself is never sent.

Shown by the models, or met while reading the code, but not stated by any document as a promise
that a run could refute, or too small for a run:

* the reset of `cachedToolsErr` after a success is redundant, because a fetch starts only once the error has expired;
* the one-shot mode reports 1 instead of the agent's status when `llama-server` dies in the
  second in which the agent finishes, or when SIGTERM stops both (README.md:355 knows
  only the agent's status); in that mode nobody notices the death of the proxy;
* a body of `null` makes the proxy panic when it has a catalogue to put into it (proxy.go:126);
* the proxy's `main` returns while `Shutdown` still waits for its requests;
* an idle `webutils-mcp` does not end on SIGTERM but with the next line, which it drops;
* the description of `rm` (tools.go:160) says that it removes a symbolic link; the path is resolved first, so that the file the link
  leads to is removed and the link stays (`ToolPromises` follows the code);
* a signal that reaches the entrypoint before its traps are set (entrypoint.sh:466-480, 122-125) is lost, and the container goes on;
* `mv` also moves directories that are not empty, which its description does not say;
* `coreutils_run` drops the flag of `head` and `tail`, so that lines clamped by them are reported as whole;
* unknown keywords of a schema are ignored, where the package comment of `jsonschema` says that what it does not
  understand is rejected;
* a numeric sort compares numbers as numbers and anything else as text, which is not an order when they
  are mixed: `LinesAreKept` then promises only a permutation;
* the two branches of `shouldPreferRenderedDOM` are the same, and the second condition of `validateTr` is dead;
* typing the longest value that an action allows takes longer than the deadline of the call;
* several run functions of tools.go (`runDate`, `runHead`, `runTail`, `runWC`, `runSha256Sum` and others) belong to
  no registered tool.

## 5. Proofs

The theorems hold for every value of the constants that satisfies the assumptions of the modules, which
TLC evaluates on its instances. They say of the constants what the code's configuration checks or its
constants are: limits, TTLs and capacities are positive, sizes are numbers, the document is one of the page's
requests, an answer's calls are a sequence, each server has its list of allowed tools. The invariants the proofs rest
on stand in the models under *What the proofs rest on* or in the proof modules; each was checked by TLC on
the instance of its run before it was proved.

| Module | Theorems | State properties of the runs |
|---|---|---|
| `ToolsCacheProofs` | types, every safety and action property, refinement of `ToolCatalogue` | all |
| `ProxyRequestProofs` | refinement of `ToolsCache`, `RepliesAreGuarded` | all |
| `AgentLoopProofs` | `TypeCorrect`, `BudgetHolds`, `PromptsAreWellFormed` | all but the violated one |
| `AgentRunProofs` | refinement of `AgentLoop`, `ServersAreClosed`, `ToolsRunWhereTheyBelong` | all |
| `McpSessionProofs` | `TypeCorrect`, `LagCorrect`, `TransportClosedOnlyAfterExit`, `BacklogNeeded`, refinement of `AtMostOnceCalls` | all |
| `BrowserProofs` | `TypeCorrect`, `FirstCauseWins` | all |
| `WorkspaceProofs` | `Invariance`, `TypeCorrect`, `ConsentHolds`, `RefusalHolds`, `IsolationHolds` | all but `UndisturbedKeepsPromise` and the violated ones |
| `SupervisorProofs` | `TypeCorrect`, `NobodyIsLeft`, `SuccessIsEarned` | all but the violated one |

**ToolsCache**, in layers, each proved from those before it: the types; `FlightInv`, who is in flight (the flag is
set exactly while one request leads, the channels are numbered by fetches, all but a leader's are closed, a
waiter's is one of those), from which `SingleFlight` and `NoOrphanedWaiter` follow, neither inductive alone;
`HistoryInv`, the history is in order; `CacheInv`, the cache holds the last landed catalogue and the last error with
their times; `AnswerInv`, what each answer is, relative to the history. The properties
about answers follow, and the steps that answer are steps of `ToolCatalogue`.

**ProxyRequest.** Every step of a request is a step of `ToolsCache` or leaves its variables alone, so that what is
proved of the cache holds in the proxy (`CatalogueKeepsItsPromises`). `GuardedReply` compares the loop
of `applyToolCallGuards` with sets of places (the first of each call, the first of them up to the limit), for an answer
of any length. The loop invariant `Progress` says that after i calls the loop has kept exactly the places up to i,
in their order, and that its label tells whether a place up to i was left out; `OneTurn` takes it from a call to the next,
and `GuardedIsSound` to the last one, by the least counterexample: if the invariant failed after some call it would fail after a first one (`Smallest`, from
the well-foundedness of the numbers), and `OneTurn` forbids that. This is how induction over data is done here
without an induction theorem, and it also shows that the recursive function `Guarding` is defined (`LoopGoesOn`).
`RequestInv` carries the result from the reply to the reachable states.

**AgentLoop.** `CallBudget` is not inductive, since it knows neither the counter nor the set of keys: `BudgetInv` says
that the executions are counted by `toolCalls`, that those of the turn under way have their keys in `seen`
and are no more than the calls looked at. For the prompts `MessagesInv` has the exchange under way as long
as the calls looked at, and all before it complete; `PrunedIsWellFormed` shows that pruning cuts where an exchange begins, and that
truncation changes only sizes.

**AgentRun.** Every step of the agent is one of `AgentLoop` or leaves its variables alone, so the loop's theorems hold in
the whole run. `ServersInv` says that an open server has its deferred `Close`, but for the web server between its start and the
end of its discovery, where only the core's `Close` is on the stack and every failure closes it directly: `NoServerLeft`
knows only the end. `ToolsInv` says that each discovered tool has one server, which was started, that what is
offered was discovered, and that what ran was offered.

**McpSession.** `CallsInv` (the calls up to `nextID` were made, the last one is open while the client is in it, an answer is the
call's own) gives what a step may be about; `ExitInv` says that whoever noticed that the process is gone noticed it
afterwards, whence `ClosedMeansExited`. `OnlyAbandonedCallsLag` turned out to be inductive with these two: written place by place
(`InOrder`), each of the five places from the channel to the client's write hands its oldest message to the next, and
nothing overtakes. `NotificationInv` says that the one message without an answer travels alone, so that
in the circular wait every place is full of calls: they are ordered, therefore distinct,
and counted (`BacklogNeeded`). `RunsInv` says that what ran is older than all that is yet to run, from which each step maps to a
step or a stutter of `AtMostOnceCalls`.

**Browser.** `CallInv` ties Chromium and its profile to one call, and `CauseInv` says that a context that ended with an
error ended with the recorded one, that a time-out is recorded only after the deadline, and, since the first reason stays, that what had
ended the context when `chromedp.Run` returned is still the recorded reason at each of the later reads, so that a call which gets beyond the first of
them was not ended by a reason. `FirstCauseWins` follows. It says nothing of a reason recorded after `Run` returned: that one may come too late (`browser_blocked`).

**Workspace.** That the file system stays a tree looks like a matter of each system call, but is not: a request renames,
removes or writes what it resolved or opened several steps before, and what the others did meanwhile decides whether that is
still the same place. `Inv` says what a request still knows. `Steady` is about one request: its
source and target are paths below its `paths` on which no link is followed, the file that it has open has all of its paths there
(`Aimed`), and if it is quiet what it has checked is still so (`Agreed`). `Apart` is about two: a writer and another
request have paths that are not near each other, unless the other has been disturbed; and two writers share their
paths or have none near each other, without which a file that is open could be carried, by a third request, from the paths of one to
the paths of another. `MayTouch` says that the paths of a request contain those of its call, and what links at their head lead to:
no tool makes a link, so that these do not grow. The proof has three parts. The first is about trees: a path on which no link is
followed is the only one to its inode (`OneName`, `OnePath`), and of each system call what it leaves as it was: everything away
from the paths it is given (`Frame`), the kind of every inode and where links lead (`Evolves`), and for every inode
with a new path that both the old and the new one are within those paths (`Moves`). The recursive functions of path resolution are taken by
the least counterexample. The second takes each tool through its steps (`RunCopyIs` and the others): its step leaves the request
steady and changes the tree below its paths only. The third is about the others: a change elsewhere leaves them steady
(`StaysSteady`), a request that comes is apart from them or shares their paths (`AcceptKeeps`). `TypeCorrect` and
`ConsentHolds` are parts of the invariant. `IsolationHolds` follows from `Apart` and `Frame`. For `RefusalHolds` a second
invariant, `Traces`, says that as long as a quiet request has no file open and has not succeeded or met a broken disk, its paths
look as it found them, and that `touch`, which looks at its file once more, finds it.
The assumptions are that the server finds a tree whose links sit in the root and lead to names in it that are no links (`TreeAssumption`), that calls have the arguments that
their tool requires (`CallAssumption`) and that limits are positive; the number of inodes, requests and slots, the
depth of the trees and the calls are any.

**Supervisor.** `StartedInv` tells from the script's position which children exist, and that all of them but the one just started are known, `ShutdownInv` that in shutdown
every child is settled or still on the list; `NoChildLeft` and `SuccessIsTheAgents`, which speak of the end only, follow.

Only model-checked:

* liveness under fairness (`RunEnds`, `EveryCallReturns`, `CloseReturns`, `CallsEnd`, `SignalEnds`, `DeathEnds`,
  `CancelledRequestEnds`, `EveryRequestIsAnswered`), which is out of reach of the prover;
* `UndisturbedKeepsPromise`: `ToolPromises` looks two levels deep, so that the promise is one about trees of that depth, and
  what `ls` and `find` report is computed by recursive operators of the library (`SelectSeq`) over data of any length. What
  it says about interleavings, as distinct from single tools, is in `IsolationHolds`, `ConsentHolds` and `RefusalHolds`;
* `MCPure` and what it checks: `JsonSchema`, `PageText` and the trees of `MCPure` are recursive operators, which the
  prover does not accept, and what they compute for every input needs induction over data.

## 6. What the models leave out

* `EvalSymlinks` is one step, although it makes a system call for each name. Links lead to a name in the root that
  is not a link itself, and no tool makes a link; the refusal of a path that a link takes out of the workspace (workspace.go:63-65)
  therefore never applies and has no counterpart. A write is whole or fails; the trees of the runs are two levels deep.
* Handlers and goroutines that outlive their call or process are dropped with it: nobody reads what they do,
  except for files, where the exit of the process ends the handler too.
* The answers of `initialize` and `tools/list`, JSON-RPC errors of methods no client uses, the tool `pwd`.
* Chromium, the DevTools protocol, the Markdown converter and readability are external. The actions on a page (hover, click,
  type, press, the waits) are one step that succeeds or fails: between them the code keeps only the position of the mouse.
* Which addresses are public is one verdict; the list of prefixes is data.
* Regular expressions, and the numbers `ParseFloat` reads beside digits.
* An answer of the upstream is copied to the client whole or not at all.
* The content of messages, prompts and errors, and logging.

Not modelled at all: `webutils-cli`, which is sequential, parses flags and makes one call; the Docker images, workflows, download
and packaging scripts and chat templates, which are not part of the running program; the
configuration at the top of the entrypoint and its external-llama mode, where
the agent replaces the shell.

## 7. Plan

What is left is to prove more:

1. `ToolPromises` for trees of any depth: then, tool by tool, the promises of `UndisturbedKeepsPromise` follow from `Inv`
   and `IsolationHolds`, for the tools that do not list.
2. Text functions of `TextTools` that are folds: written as recursive functions, their claims in `LinesAreKept` and
   `TruncationIsTold` can be proved by the least counterexample, as for the guard of the proxy.
