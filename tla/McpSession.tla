------------------------------ MODULE McpSession ------------------------------
(***************************************************************************)
(* One MCP session over stdio: the client of src/internal/mcpclient (call, *)
(* notify, readLoop, Close and the stop function of StartProcess), the two *)
(* pipes of the child process, and the server loop of src/internal/        *)
(* mcpserver/server.go (Serve, dispatch, callTool).                        *)
(*                                                                         *)
(*   call --stdin--> Serve --stdout--> readLoop --messages, readErr--> call*)
(*                                                                         *)
(* A request or its response is the id of the call; what they carry is     *)
(* left out.  The caller is the contract of the client and not only the    *)
(* agent: after a call that failed it may make another one or Close (the   *)
(* agent always closes).                                                   *)
(***************************************************************************)
EXTENDS Naturals, FiniteSets, SequencesExt

CONSTANTS
  MaxCalls,    \* bound of the model: the calls of the session
  Buffer,      \* the capacity of the channel messages: 8 in client.go:42
  InCap,       \* the capacities of the pipes, counted in messages
  OutCap

ASSUME CapacityAssumption ==
  /\ MaxCalls \in Nat
  /\ Buffer \in Nat \ {0} /\ InCap \in Nat \ {0} /\ OutCap \in Nat \ {0}

VARIABLES
  \* the client
  pc,          \* "idle", "write", "wait", "notify", "closing", "killing", "closed"
  nextID,
  ctxDone,     \* the context of the call has ended
  outcome,     \* of each call: "new", "open", "canceled", "closed" or "done"
  answer,      \* history: the response each call returned
  \* the pipes
  stdin, stdinOpen, stdout, stdoutOpen,
  \* readLoop and its channels
  reader,      \* "read", "send", "ended"
  line,        \* the message readLoop is sending
  messages,    \* the channel; it is closed once the reader has ended
  readErr,     \* the channel of capacity 1 holds the error
  \* the server process
  server,      \* "read", "run", "write", "exited"
  request,     \* the id of the request it is working on
  ran          \* history: the ids of the tools that ran

client == <<pc, nextID, ctxDone, outcome, answer>>
loop == <<reader, line, messages, readErr>>
process == <<server, request, ran>>
vars == <<client, stdin, stdinOpen, stdout, stdoutOpen, loop, process>>

Ids == 1..MaxCalls
\* notifications/initialized has no id and no response.
Notification == 0
\* A line cut short when the process dies within a write.
Garbled == MaxCalls + 1
Failures == {"canceled", "closed"}

Init ==
  /\ pc = "idle" /\ nextID = 0 /\ ctxDone = FALSE
  /\ outcome = [id \in Ids |-> "new"]
  /\ answer = [id \in Ids |-> 0]
  /\ stdin = << >> /\ stdinOpen = TRUE
  /\ stdout = << >> /\ stdoutOpen = TRUE
  /\ reader = "read" /\ line = Notification /\ messages = << >> /\ readErr = FALSE
  /\ server = "read" /\ request = Notification /\ ran = << >>

-------------------------------------------------------------------------------
(***************************************************************************)
(* The client: call and notify.                                            *)
(***************************************************************************)

\* Mutant of Begin: the call after one that was cancelled reuses its id.
BeginMutant ==
  /\ pc = "idle" /\ nextID < MaxCalls
  /\ nextID' = IF nextID > 0 /\ outcome[nextID] = "canceled" THEN nextID ELSE nextID + 1
  /\ outcome' = [outcome EXCEPT ![nextID'] = "open"]
  /\ pc' = "write" /\ ctxDone' = FALSE
  /\ UNCHANGED <<answer, stdin, stdinOpen, stdout, stdoutOpen, loop, process>>

\* call takes the mutex and the next id.
Begin ==
  /\ pc = "idle" /\ nextID < MaxCalls
  /\ nextID' = nextID + 1
  /\ outcome' = [outcome EXCEPT ![nextID + 1] = "open"]
  /\ pc' = "write" /\ ctxDone' = FALSE
  /\ UNCHANGED <<answer, stdin, stdinOpen, stdout, stdoutOpen, loop, process>>

\* The deadline passes or the request is interrupted; call notices it only in
\* its select, not while it writes.
ContextEnds ==
  /\ pc \in {"write", "wait", "notify"} /\ ~ctxDone
  /\ ctxDone' = TRUE
  /\ UNCHANGED <<pc, nextID, outcome, answer, stdin, stdinOpen, stdout, stdoutOpen, loop, process>>

\* The write goes through once the pipe has room.
Write ==
  /\ pc \in {"write", "notify"}
  /\ server # "exited" /\ Len(stdin) < InCap
  /\ stdin' = Append(stdin, IF pc = "write" THEN nextID ELSE Notification)
  /\ pc' = IF pc = "write" THEN "wait" ELSE "idle"
  /\ UNCHANGED <<nextID, ctxDone, outcome, answer, stdinOpen, stdout, stdoutOpen, loop, process>>

\* The call returns with the given error.
Fail(how) ==
  /\ pc' = "idle"
  /\ outcome' = [outcome EXCEPT ![nextID] = how]
  /\ UNCHANGED <<nextID, ctxDone, answer>>

\* The call returns a response.  The first call is Initialize, which goes on to
\* send its notification.
Answer(response) ==
  /\ pc' = IF nextID = 1 THEN "notify" ELSE "idle"
  /\ outcome' = [outcome EXCEPT ![nextID] = "done"]
  /\ answer' = [answer EXCEPT ![nextID] = response]
  /\ UNCHANGED <<nextID, ctxDone>>

\* Nobody reads the pipe any more.
WriteFails ==
  /\ pc \in {"write", "notify"} /\ server = "exited"
  /\ IF pc = "write"
     THEN Fail("closed")
     ELSE pc' = "idle" /\ UNCHANGED <<nextID, ctxDone, outcome, answer>>
  /\ UNCHANGED <<stdin, stdinOpen, stdout, stdoutOpen, loop, process>>

\* The select of call: ctx.Done.
Canceled ==
  /\ pc = "wait" /\ ctxDone
  /\ Fail("canceled")
  /\ UNCHANGED <<stdin, stdinOpen, stdout, stdoutOpen, loop, process>>

\* The select of call: an error in readErr, or messages is closed and empty.
TransportClosed ==
  /\ pc = "wait"
  /\ readErr \/ (reader = "ended" /\ messages = << >>)
  /\ readErr' = FALSE
  /\ Fail("closed")
  /\ UNCHANGED <<stdin, stdinOpen, stdout, stdoutOpen, reader, line, messages, process>>

\* Mutant of Receive: any response is taken for the answer.
ReceiveMutant ==
  /\ pc = "wait" /\ messages # << >>
  /\ messages' = Tail(messages)
  /\ Answer(Head(messages))
  /\ UNCHANGED <<stdin, stdinOpen, stdout, stdoutOpen, reader, line, readErr, process>>

\* The select of call: a message.  A response to another call is ignored.
Receive ==
  /\ pc = "wait" /\ messages # << >>
  /\ messages' = Tail(messages)
  /\ IF Head(messages) = nextID THEN Answer(nextID) ELSE UNCHANGED client
  /\ UNCHANGED <<stdin, stdinOpen, stdout, stdoutOpen, reader, line, readErr, process>>

-------------------------------------------------------------------------------
(***************************************************************************)
(* The client: Close.                                                      *)
(***************************************************************************)

\* The writer is closed; stop waits for the process.
Close ==
  /\ pc = "idle"
  /\ pc' = "closing" /\ stdinOpen' = FALSE
  /\ UNCHANGED <<nextID, ctxDone, outcome, answer, stdin, stdout, stdoutOpen, loop, process>>

\* Mutant of KillTimer: Close waits for the process without a limit.
KillTimerMutant == FALSE /\ UNCHANGED vars

\* After three seconds stop kills the process.
KillTimer ==
  /\ pc = "closing" /\ server # "exited"
  /\ pc' = "killing"
  /\ UNCHANGED <<nextID, ctxDone, outcome, answer, stdin, stdinOpen, stdout, stdoutOpen, loop, process>>

\* cmd.Wait returns and the reader is closed; lines left in the pipe are lost.
Closed ==
  /\ pc \in {"closing", "killing"} /\ server = "exited"
  /\ pc' = "closed" /\ stdoutOpen' = FALSE
  /\ UNCHANGED <<nextID, ctxDone, outcome, answer, stdin, stdinOpen, stdout, loop, process>>

-------------------------------------------------------------------------------
(***************************************************************************)
(* readLoop                                                                *)
(***************************************************************************)

\* Mutant of ReadLine: a line that is not a message is passed on.
ReadLineMutant ==
  /\ reader = "read" /\ stdout # << >>
  /\ stdout' = Tail(stdout)
  /\ reader' = "send" /\ line' = Head(stdout)
  /\ UNCHANGED <<client, stdin, stdinOpen, stdoutOpen, messages, readErr, process>>

\* The scanner may still hold lines when the reader has been closed.
ReadLine ==
  /\ reader = "read" /\ stdout # << >>
  /\ stdout' = Tail(stdout)
  /\ IF Head(stdout) = Garbled
     THEN reader' = "ended" /\ readErr' = TRUE /\ UNCHANGED line
     ELSE reader' = "send" /\ line' = Head(stdout) /\ UNCHANGED readErr
  /\ UNCHANGED <<client, stdin, stdinOpen, stdoutOpen, messages, process>>

\* Mutant of Send: a message that does not fit into the channel is dropped.
SendOrDrop ==
  /\ reader = "send"
  /\ messages' = IF Len(messages) < Buffer THEN Append(messages, line) ELSE messages
  /\ reader' = "read"
  /\ UNCHANGED <<client, stdin, stdinOpen, stdout, stdoutOpen, line, readErr, process>>

\* Mutant of Send: a full channel ends the session.
SendOrEnd ==
  /\ reader = "send"
  /\ IF Len(messages) < Buffer
     THEN messages' = Append(messages, line) /\ reader' = "read" /\ UNCHANGED readErr
     ELSE reader' = "ended" /\ readErr' = TRUE /\ UNCHANGED messages
  /\ UNCHANGED <<client, stdin, stdinOpen, stdout, stdoutOpen, line, process>>

\* The channel has room.
Send ==
  /\ reader = "send" /\ Len(messages) < Buffer
  /\ messages' = Append(messages, line)
  /\ reader' = "read"
  /\ UNCHANGED <<client, stdin, stdinOpen, stdout, stdoutOpen, line, readErr, process>>

\* The end of the stream, or the reader was closed.
ReadFails ==
  /\ reader = "read"
  /\ ~stdoutOpen \/ (stdout = << >> /\ server = "exited")
  /\ reader' = "ended" /\ readErr' = TRUE
  /\ UNCHANGED <<client, stdin, stdinOpen, stdout, stdoutOpen, line, messages, process>>

-------------------------------------------------------------------------------
(***************************************************************************)
(* The server process: one request at a time.                              *)
(***************************************************************************)

ReadRequest ==
  /\ server = "read" /\ stdin # << >>
  /\ stdin' = Tail(stdin)
  /\ IF Head(stdin) = Notification
     THEN UNCHANGED <<server, request>>
     ELSE server' = "run" /\ request' = Head(stdin)
  /\ UNCHANGED <<client, stdinOpen, stdout, stdoutOpen, loop, ran>>

\* The request is carried out.
RunTool ==
  /\ server = "run"
  /\ ran' = Append(ran, request)
  /\ server' = "write"
  /\ UNCHANGED <<client, stdin, stdinOpen, stdout, stdoutOpen, loop, request>>

\* The response goes through once the pipe has room.
Respond ==
  /\ server = "write" /\ Len(stdout) < OutCap
  /\ stdout' = Append(stdout, request)
  /\ server' = "read"
  /\ UNCHANGED <<client, stdin, stdinOpen, stdoutOpen, loop, request, ran>>

\* The client has closed stdin and every request before that is done.
ServeReturns ==
  /\ server = "read" /\ stdin = << >> /\ ~stdinOpen
  /\ server' = "exited"
  /\ UNCHANGED <<client, stdin, stdinOpen, stdout, stdoutOpen, loop, request, ran>>

\* The process is gone: a running tool had its effect or not, and a response
\* that was being written is cut short.
Gone ==
  /\ server # "exited"
  /\ server' = "exited"
  /\ \/ UNCHANGED <<ran, stdout>>
     \/ server = "run" /\ ran' = Append(ran, request) /\ UNCHANGED stdout
     \/ server = "write" /\ Len(stdout) < OutCap /\ stdout' = Append(stdout, Garbled) /\ UNCHANGED ran
  /\ UNCHANGED <<client, stdin, stdinOpen, stdoutOpen, loop, request>>

\* The process crashes, gets a signal, or is killed because the context given
\* to StartProcess has ended.
Die == pc # "killing" /\ Gone

\* Close has killed it.
Killed == pc = "killing" /\ Gone

-------------------------------------------------------------------------------

Select == Canceled \/ TransportClosed \/ Receive
Writing == Write \/ WriteFails
Reading == ReadLine \/ Send \/ ReadFails
Serving == ReadRequest \/ Respond \/ ServeReturns

Next ==
  \/ Begin \/ ContextEnds \/ Writing \/ Select
  \/ Close \/ KillTimer \/ Closed
  \/ Reading
  \/ Serving \/ RunTool \/ Die \/ Killed

Spec == Init /\ [][Next]_vars

\* Threads and processes that can go on do, and a kill takes effect.  Nothing
\* makes the caller call, close or cancel, and nothing ends a running tool: its
\* deadline only works in tools that look at it.
FairSpec ==
  /\ Spec
  /\ WF_vars(Writing) /\ WF_vars(Canceled) /\ WF_vars(TransportClosed \/ Receive)
  /\ WF_vars(KillTimer) /\ WF_vars(Killed) /\ WF_vars(Closed)
  /\ WF_vars(Reading) /\ WF_vars(Serving)

-------------------------------------------------------------------------------

Lines == Ids \cup {Garbled}

TypeOK ==
  /\ pc \in {"idle", "write", "wait", "notify", "closing", "killing", "closed"}
  /\ nextID \in 0..MaxCalls
  /\ ctxDone \in BOOLEAN
  /\ outcome \in [Ids -> {"new", "open", "done"} \cup Failures]
  /\ answer \in [Ids -> 0..MaxCalls]
  /\ stdin \in Seq(Ids \cup {Notification}) /\ Len(stdin) <= InCap
  /\ stdout \in Seq(Lines) /\ Len(stdout) <= OutCap
  /\ stdinOpen \in BOOLEAN /\ stdoutOpen \in BOOLEAN
  /\ reader \in {"read", "send", "ended"}
  /\ line \in Ids \cup {Notification} /\ (reader = "send" => line \in Ids)
  /\ messages \in Seq(Ids) /\ Len(messages) <= Buffer
  /\ readErr \in BOOLEAN
  /\ server \in {"read", "run", "write", "exited"}
  /\ request \in Ids \cup {Notification} /\ (server \in {"run", "write"} => request \in Ids)
  /\ ran \in Seq(Ids)

Abandoned == {id \in Ids : outcome[id] \in Failures}

\* The calls on their way, place by place, the oldest first.
Places ==
  << ToSet(messages) \cap Ids,
     IF reader = "send" THEN {line} ELSE {},
     ToSet(stdout) \cap Ids,
     IF server \in {"run", "write"} THEN {request} ELSE {},
     ToSet(stdin) \cap Ids >>

Increasing(s) == \A i, j \in DOMAIN s : i < j /\ {s[i], s[j]} \subseteq Ids => s[i] < s[j]

\* No message overtakes another on its way through two pipes, two processes
\* and a channel, and all but the last belong to calls that gave up: what
\* fills the channel (and can in the end block readLoop, the server and a
\* write) is only what callers have left behind (client.go:121,143-145).
OnlyAbandonedCallsLag ==
  /\ Increasing(messages) /\ Increasing(stdout) /\ Increasing(stdin)
  /\ \A p, q \in 1..5 : p < q => \A i \in Places[p], j \in Places[q] : i < j
  /\ \A p \in 1..5 : \A id \in Places[p] : id \in Abandoned \/ (id = nextID /\ pc = "wait")

\* A call fails as "transport closed" only when the server process is gone: no
\* cancelled call or backlog breaks the session for the calls that follow.
ClosedMeansExited ==
  \A id \in Ids : outcome[id] = "closed" => server = "exited"

\* The session implements at-most-once calls: a result is the call's own and is
\* of a tool that ran, tools run once, in order, and not after Close.
Calls == INSTANCE AtMostOnceCalls WITH
  status <- [id \in Ids |->
               IF outcome[id] \in Failures THEN "failed"
               ELSE IF outcome[id] = "done" /\ answer[id] # id THEN "another call's answer"
               ELSE outcome[id]],
  ran <- {ran[i] : i \in DOMAIN ran},
  closed <- pc = "closed"

ImplementsCalls == Calls!Spec

\* Writer, server and readLoop each wait for the next one to make room.
CircularWait ==
  /\ pc = "write" /\ Len(stdin) = InCap
  /\ server = "write" /\ Len(stdout) = OutCap
  /\ reader = "send" /\ Len(messages) = Buffer

\* The circular wait, which no context can end, takes more calls that gave up
\* than all the buffers hold.
CircularWaitNeedsBacklog ==
  CircularWait => Cardinality(Abandoned) >= Buffer + OutCap + InCap + 2

\* What the proofs rest on.  The calls up to nextID are made, the last one is open
\* while call is in it, and an answer is the call's own.
CallsInv ==
  /\ \A id \in Ids : /\ outcome[id] = "new" <=> id > nextID
                     /\ outcome[id] = "open" <=> id = nextID /\ pc \in {"write", "wait"}
                     /\ outcome[id] = "done" => answer[id] = id
  /\ pc \in {"write", "wait", "notify"} => nextID \in Ids
  /\ pc = "notify" => nextID = 1 /\ outcome[1] = "done"

\* Whoever noticed that the process is gone noticed it afterwards.
ExitInv ==
  /\ reader = "ended" \/ readErr \/ ~stdoutOpen \/ pc = "closed" => server = "exited"
  /\ \A i \in DOMAIN stdout : stdout[i] = Garbled => server = "exited"

\* The notification meets no other message.
NotificationInv ==
  /\ \A i \in DOMAIN stdin :
       stdin[i] = Notification => i = 1 /\ server \in {"read", "exited"} /\ outcome[1] = "done"
  /\ pc = "notify" => stdin = << >> /\ server \in {"read", "exited"}

\* What ran is older than all that is yet to run, and what is on its way back ran.
RunsInv ==
  /\ \A i \in DOMAIN ran : ran[i] <= nextID /\ (ran[i] = nextID => pc # "write")
  /\ \A id \in ToSet(stdin) \cap Ids : \A i \in DOMAIN ran : ran[i] < id
  /\ server = "run" => \A i \in DOMAIN ran : ran[i] < request
  /\ server = "write" => request \in ToSet(ran)
  /\ reader = "send" => line \in ToSet(ran)
  /\ (ToSet(messages) \cup ToSet(stdout)) \cap Ids \subseteq ToSet(ran)

\* A call whose context has ended returns, whatever the server does, unless it
\* is still writing; and every call returns, unless a tool never ends or the
\* session is stuck in the circular wait (client.go:117-154).
EveryCallReturns ==
  /\ (pc = "wait" /\ ctxDone) ~> pc # "wait"
  /\ \/ <>[](server = "run")
     \/ pc \in {"write", "wait", "notify"} ~> (pc = "idle" \/ CircularWait)

\* Close returns, whatever the server does, and leaves no child process
\* (client.go:246-256); after it readLoop ends too, unless the channel is too
\* small for what was left behind.
CloseReturns ==
  /\ pc = "closing" ~> (pc = "closed" /\ server = "exited")
  /\ pc = "closed" ~> (reader = "ended" \/ Cardinality(Abandoned) > Buffer)
===============================================================================
