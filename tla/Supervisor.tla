------------------------------ MODULE Supervisor ------------------------------
(***************************************************************************)
(* The entrypoint of the container, src/docker/entrypoint.sh, once the     *)
(* configuration is read: it starts llama-server, the proxy and the agent  *)
(* (or only coreutils-mcp), polls them, forwards signals and shuts down.   *)
(*                                                                         *)
(* The script is the first process of the container (Dockerfile:154), so a *)
(* signal without a trap is discarded, and the traps come only after the   *)
(* first child.  A child whose process id is not yet in its variable is    *)
(* not told by a trap.                                                     *)
(*                                                                         *)
(* Bash runs a trap between two commands, after the one in the foreground. *)
(* A wait is different: a trapped signal ends it at once, before the child *)
(* has exited.                                                             *)
(***************************************************************************)
EXTENDS Naturals, Sequences

CONSTANT MaxSignals   \* bound of the model: the signals the container gets

ASSUME SignalAssumption == MaxSignals \in Nat

Children == {"llama", "proxy", "agent", "mcp"}
Modes == {"serve", "oneshot", "mcp"}
Interrupted == 143                  \* 128 + SIGTERM
Statuses == {0, 1, Interrupted}

VARIABLES
  mode,       \* agent_mode, or the mcp subcommand
  useProxy,   \* use_openai_proxy
  pc,         \* the command the script is at
  todo,       \* the children still to be stopped, in order
  code,       \* the status the script exits with after that
  pending,    \* a signal whose trap has not run yet
  signals,    \* the number of signals so far
  child,      \* of each child: "none" (not started), "up" or "exited"
  known,      \* the children whose process id is in its variable
  told,       \* the children that were sent SIGTERM
  status,     \* the exit status of each child
  cut         \* history: the children whose wait a signal has ended early

script == <<pc, todo, code>>
world  == <<mode, useProxy>>
vars   == <<world, script, pending, signals, child, known, told, status, cut>>

\* The first child, the only one of some modes.
Sole == IF mode = "mcp" THEN "mcp" ELSE "llama"

Up(c)     == child[c] = "up"
Gone(c)   == child[c] = "exited"
Started   == {c \in Children : child[c] # "none"}

Start(c)  == child' = [child EXCEPT ![c] = "up"]
Goto(l)   == pc' = l /\ UNCHANGED <<todo, code>>

\* Mutant of StopAll: the first child is forgotten.
StopAllButFirst(children, result) ==
  pc' = "kill" /\ code' = result /\ todo' = IF children = << >> THEN children ELSE Tail(children)

\* Kill and wait for the children in turn, then exit.
StopAll(children, result) ==
  pc' = "kill" /\ code' = result /\ todo' = children

\* What the script does besides moving on.
Quiet == UNCHANGED <<world, pending, signals, child, known, told, status, cut>>

Init ==
  /\ mode \in Modes /\ useProxy \in BOOLEAN
  /\ mode = "mcp" => ~useProxy
  /\ child = [c \in Children |-> "none"] /\ known = {}
  /\ pc = "launch"
  /\ todo = << >> /\ code = 0
  /\ pending = FALSE /\ signals = 0
  /\ told = {}
  /\ status = [c \in Children |-> 0]
  /\ cut = {}

-------------------------------------------------------------------------------
(***************************************************************************)
(* The children and the outside                                            *)
(***************************************************************************)

\* A child ends on its own or because it was told to, with any status.
Exit(c) ==
  /\ Up(c)
  /\ child' = [child EXCEPT ![c] = "exited"]
  /\ \E s \in Statuses : status' = [status EXCEPT ![c] = s]
  /\ UNCHANGED <<world, script, pending, signals, known, told, cut>>

\* docker stop, or an interrupt.  Before the trap it is lost; between the two
\* traps of the mcp subcommand only SIGTERM is heard.
Signal ==
  /\ pc # "exited" /\ signals < MaxSignals
  /\ signals' = signals + 1
  /\ \/ pc \notin {"launch", "arm"} /\ pending' = TRUE
     \/ pc \in {"launch", "arm", "arm_int"} /\ UNCHANGED pending
  /\ UNCHANGED <<world, script, child, known, told, status, cut>>

\* Mutant of Trap: llama-server is left out.
TrapMutant ==
  /\ pending /\ pc \notin {"wait", "wait_status", "exited"}
  /\ told' = told \cup (known \ {"llama"})
  /\ pending' = FALSE
  /\ UNCHANGED <<world, script, signals, child, known, status, cut>>

\* The trap runs between two commands: every child known so far is told.
Trap ==
  /\ pending /\ pc \notin {"wait", "wait_status", "exited"}
  /\ told' = told \cup known
  /\ pending' = FALSE
  /\ UNCHANGED <<world, script, signals, child, known, status, cut>>

-------------------------------------------------------------------------------
(***************************************************************************)
(* Startup                                                                 *)
(***************************************************************************)

\* llama-server, or coreutils-mcp, is started in the background.
Launch ==
  /\ pc = "launch" /\ Start(Sole) /\ Goto("arm")
  /\ UNCHANGED <<world, pending, signals, known, told, status, cut>>

\* A process id is assigned to its variable.
Learn(c) ==
  /\ known' = known \cup {c}
  /\ UNCHANGED <<world, pending, signals, child, told, status, cut>>

\* Its process id, and the trap: of both signals, or of SIGTERM first.
Arm ==
  /\ pc = "arm" /\ Learn(Sole)
  /\ Goto(IF mode = "mcp" THEN "arm_int" ELSE "llama_ready")

ArmInt == pc = "arm_int" /\ Goto("wait_status") /\ Quiet

\* llama-server answers: the proxy comes next, if there is one.
LlamaReady ==
  /\ pc = "llama_ready" /\ Up("llama")
  /\ IF useProxy THEN Start("proxy") /\ Goto("proxy_started")
     ELSE UNCHANGED child /\ Goto("supervise")
  /\ UNCHANGED <<world, pending, signals, known, told, status, cut>>

ProxyKnown == pc = "proxy_started" /\ Learn("proxy") /\ Goto("proxy_ready")

\* llama-server has exited, or the deadline has passed.
LlamaNotReady ==
  /\ pc = "llama_ready"
  /\ StopAll(IF Up("llama") THEN <<"llama">> ELSE << >>, 1)
  /\ Quiet

\* The proxy answers GET /v1/models, which it gets from llama-server.
ProxyReady ==
  /\ pc = "proxy_ready" /\ Up("proxy") /\ Up("llama")
  /\ Goto("supervise")
  /\ Quiet

\* The proxy has exited, or the deadline has passed.
ProxyNotReady ==
  /\ pc = "proxy_ready"
  /\ StopAll(IF Up("proxy") THEN <<"proxy", "llama">> ELSE <<"llama">>, 1)
  /\ Quiet

-------------------------------------------------------------------------------
(***************************************************************************)
(* Supervision                                                             *)
(***************************************************************************)

\* Serving without a proxy leaves only llama-server to wait for, a prompt starts
\* the agent; otherwise the script polls.
Supervise ==
  /\ pc = "supervise"
  /\ IF mode = "oneshot"
       THEN Start("agent") /\ Goto("agent_started")
       ELSE UNCHANGED child /\ Goto(IF useProxy THEN "poll_llama" ELSE "wait_status")
  /\ UNCHANGED <<world, pending, signals, known, told, status, cut>>

AgentKnown == pc = "agent_started" /\ Learn("agent") /\ Goto("poll_llama")

\* The child whose exit ends the container besides llama-server.
Main == IF mode = "oneshot" THEN "agent" ELSE "proxy"

\* Mutant of PollLlama: the exit is reported with the status of llama-server.
PollLlamaMutant ==
  /\ pc = "poll_llama"
  /\ IF Up("llama") THEN Goto("poll_main") ELSE StopAll(<<"proxy", "agent">>, status["llama"])
  /\ Quiet

\* kill -0 on llama-server, which comes first.
PollLlama ==
  /\ pc = "poll_llama"
  /\ IF Up("llama") THEN Goto("poll_main") ELSE StopAll(<<"proxy", "agent">>, 1)
  /\ Quiet

\* Mutant of PollMain: only llama-server is watched.
PollMainMutant ==
  /\ pc = "poll_main"
  /\ Goto("poll_llama")
  /\ Quiet

\* kill -0 on the agent or the proxy; its status becomes that of the container.
PollMain ==
  /\ pc = "poll_main"
  /\ IF Up(Main)
     THEN Goto("poll_llama")
     ELSE StopAll(IF mode = "oneshot" THEN <<"llama", "proxy">> ELSE <<"llama">>, status[Main])
  /\ Quiet

-------------------------------------------------------------------------------
(***************************************************************************)
(* Shutdown: kill -TERM and wait for each child, || true after both.       *)
(***************************************************************************)

Kill ==
  /\ pc = "kill" /\ todo # << >> /\ Head(todo) \in known
  /\ told' = told \cup {Head(todo)}
  /\ Goto("wait")
  /\ UNCHANGED <<world, pending, signals, child, known, status, cut>>

\* The process id of the child is empty.
Skip ==
  /\ pc = "kill" /\ todo # << >> /\ Head(todo) \notin known
  /\ todo' = Tail(todo) /\ UNCHANGED <<pc, code>>
  /\ Quiet

Waited ==
  /\ pc = "wait" /\ Gone(Head(todo))
  /\ pc' = "kill" /\ todo' = Tail(todo) /\ UNCHANGED code
  /\ Quiet

\* The signal ends the wait, its trap runs, and || true goes on.
WaitCut ==
  /\ pc = "wait" /\ pending
  /\ told' = told \cup known
  /\ pending' = FALSE
  /\ cut' = cut \cup {Head(todo)}
  /\ pc' = "kill" /\ todo' = Tail(todo) /\ UNCHANGED code
  /\ UNCHANGED <<world, signals, child, known, status>>

Exited ==
  /\ pc = "kill" /\ todo = << >>
  /\ Goto("exited")
  /\ Quiet

-------------------------------------------------------------------------------
(***************************************************************************)
(* wait_for_exit_status                                                    *)
(***************************************************************************)

\* wait returns the status of the child.
ExitStatus ==
  /\ pc = "wait_status" /\ Gone(Sole)
  /\ pc' = "exited" /\ code' = status[Sole] /\ UNCHANGED todo
  /\ Quiet

\* wait returns early, the trap runs, and kill -0 is next.
ExitStatusCut ==
  /\ pc = "wait_status" /\ pending
  /\ told' = told \cup known
  /\ pending' = FALSE
  /\ pc' = "check" /\ code' = Interrupted
  /\ UNCHANGED <<world, todo, signals, child, known, status, cut>>

\* Mutant of Check: the early return of wait is taken for the exit.
CheckMutant ==
  /\ pc = "check"
  /\ Goto("exited")
  /\ Quiet

\* The wait is repeated while the child is there.
Check ==
  /\ pc = "check"
  /\ Goto(IF Gone(Sole) THEN "exited" ELSE "wait_status")
  /\ Quiet

-------------------------------------------------------------------------------

Arming   == Launch \/ Arm \/ ArmInt \/ ProxyKnown \/ AgentKnown
Starting == LlamaReady \/ LlamaNotReady \/ ProxyReady \/ ProxyNotReady \/ Supervise
Polling  == PollLlama \/ PollMain
Stopping == Kill \/ Skip \/ Waited \/ WaitCut \/ Exited
Status   == ExitStatus \/ ExitStatusCut \/ Check
Script   == Trap \/ Arming \/ Starting \/ Polling \/ Stopping \/ Status

Next == Script \/ Signal \/ \E c \in Children : Exit(c)

Spec == Init /\ [][Next]_vars

\* The script runs and a pending trap gets its turn; a child that was told to
\* stop does (nothing in the script goes beyond SIGTERM).
FairSpec ==
  /\ Spec
  /\ WF_vars(Script) /\ WF_vars(Trap)
  /\ \A c \in Children : WF_vars(Exit(c) /\ c \in told)

-------------------------------------------------------------------------------

Labels ==
  {"launch", "arm", "arm_int", "llama_ready", "proxy_started", "proxy_ready", "supervise",
   "agent_started", "poll_llama", "poll_main", "kill", "wait", "wait_status", "check", "exited"}

TypeOK ==
  /\ mode \in Modes /\ useProxy \in BOOLEAN
  /\ pc \in Labels
  /\ todo \in Seq(Children) /\ (pc = "wait" => todo # << >> /\ Head(todo) \in told)
  /\ code \in Statuses
  /\ pending \in BOOLEAN /\ signals \in 0..MaxSignals
  /\ child \in [Children -> {"none", "up", "exited"}]
  /\ known \subseteq Children /\ told \subseteq known /\ cut \subseteq told
  /\ status \in [Children -> Statuses]

\* The child that was just started: its process id is not in its variable yet.
JustStarted ==
  {c \in Children : <<pc, c>> \in {<<"arm", Sole>>, <<"proxy_started", "proxy">>,
                                  <<"agent_started", "agent">>}}

\* What the script is at tells which children it has started and knows.
StartedInv ==
  /\ known = Started \ JustStarted
  /\ pc = "launch" => Started = {}
  /\ mode = "mcp" => /\ pc # "launch" => Started = {"mcp"}
                     /\ pc \in {"launch", "arm", "arm_int", "wait_status", "check", "exited"}
                     /\ ~useProxy
  /\ mode # "mcp" => /\ "mcp" \notin Started /\ (pc # "launch" => "llama" \in Started)
                     /\ pc # "arm_int"
  /\ "proxy" \in Started => useProxy
  /\ pc \in {"supervise", "agent_started", "poll_llama", "poll_main"} =>
       (useProxy => "proxy" \in Started)
  /\ pc \in {"arm", "llama_ready", "proxy_started", "proxy_ready", "supervise"} =>
       "agent" \notin Started
  /\ pc \in {"arm", "llama_ready", "wait_status", "check"} => "proxy" \notin Started
  /\ pc \in {"proxy_started", "proxy_ready"} => "proxy" \in Started
  /\ pc = "agent_started" => mode = "oneshot"
  /\ pc \in {"agent_started", "poll_llama", "poll_main"} => Main \in Started
  /\ mode # "oneshot" => "agent" \notin Started
  /\ pc \in {"wait_status", "check"} => mode # "oneshot"

\* A child is settled when the exit of the script need not wait for it.
Settled(c) == Gone(c) \/ (c \in cut /\ c \in told)
Listed(c)  == \E i \in DOMAIN todo : todo[i] = c

\* In shutdown every child is settled or still on the list, and the one that is
\* waited for has been told; in one-shot mode the status is then the agent's.
ShutdownInv ==
  /\ pc \in {"kill", "wait"} => \A c \in Started : Settled(c) \/ Listed(c)
  /\ pc = "exited" => \A c \in Started : Settled(c)
  /\ pc = "check" => code = Interrupted
  /\ (mode = "oneshot" /\ pc \in {"kill", "wait", "exited"} /\ code = 0) =>
        Gone("agent") /\ status["agent"] = 0

\* When the container exits, every child has exited, or a signal came just
\* while the script waited for that very child: and even then it was told to.
NoChildLeft ==
  pc = "exited" => \A c \in Started : Gone(c) \/ (c \in cut /\ c \in told)

\* With a prompt the container reports success only for an agent that finished
\* with success, whatever else died or was signalled meanwhile.
SuccessIsTheAgents ==
  mode = "oneshot" /\ pc = "exited" /\ code = 0 => Gone("agent") /\ status["agent"] = 0

\* A signal that the script hears ends the container: while llama-server loads,
\* between the start of a child and its process id, between the starts of two
\* children, while polling, or in shutdown.  Before the traps it is never heard
\* (entrypoint.sh:466-480, 122-125).
SignalEnds == pending ~> pc = "exited"

\* The container does not outlive any of the processes it is there for.
DeathEnds ==
  \A c \in Children : (Gone(c) /\ (c = "proxy" => mode = "serve")) ~> pc = "exited"

\* A comment of wait_for_exit_status says that it sets wait_status to the exit
\* code of the process (entrypoint.sh:50-54).
WaitStatusIsExitCode ==
  pc = "exited" /\ mode = "mcp" => code = status["mcp"]
===============================================================================
