------------------------------- MODULE AgentRun -------------------------------
(***************************************************************************)
(* The one-shot agent from its flags to its exit: main and agent.Run of    *)
(* src/cmd/agent and src/internal/agent.  Run pings the model, starts the  *)
(* core MCP server and maybe the web one, discovers their tools, picks a   *)
(* profile and hands over to the loop of AgentLoop; its deferred calls     *)
(* close the servers however it returns.                                   *)
(***************************************************************************)
EXTENDS AgentLoop

CONSTANTS
  Allowed,         \* AllowedCoreTools and AllowedWebTools, by server
  Advertised,      \* the pages of tools a server may list
  MaxPages,        \* maxPages of ListTools
  Profiles,        \* the profiles in their order: tools and keywords
  Fallback,        \* the tools of FallbackProfile
  Requests,        \* the prompts: the keywords in each
  MaxExposed,      \* MaxExposedTools
  ToolOf           \* the tool of each duplicate key

Servers == {"core", "web"}

ASSUME RunAssumption ==
  /\ MaxPages \in Nat \ {0} /\ MaxExposed \in Nat \ {0}
  /\ DOMAIN Allowed = Servers /\ DOMAIN ToolOf = Keys

VARIABLES
  stage,       \* where Run stands
  server,      \* the server being started
  request,     \* Config.Prompt: the keywords in it
  webWanted,   \* Config.WebMCPCommand is set
  ended,       \* the context has ended
  client,      \* the MCP client of each server: "none", "open" or "closed"
  page,        \* the local page of ListTools
  tools,       \* the tools ListTools has gathered
  discovered,  \* the tools of each server that the policy lets through
  exposed,     \* the tools the model is offered
  defers,      \* the deferred calls of Run, the last one first
  status,      \* the exit status: 0, 1, or 2 for "none yet"
  ran          \* history: the tools run, with the server each ran on

loopVars == vars
setup    == <<server, page, tools, discovered, exposed>>
config   == <<request, webWanted>>
runVars  == <<stage, setup, config, ended, client, defers, status, ran>>
allVars  == <<loopVars, runVars>>

RunInit ==
  /\ Init
  /\ stage = "validate" /\ server = "core"
  /\ request \in Requests /\ webWanted \in BOOLEAN
  /\ ended = FALSE
  /\ client = [s \in Servers |-> "none"]
  /\ page = 0 /\ tools = {}
  /\ discovered = [s \in Servers |-> {}]
  /\ exposed = {} /\ defers = << >>
  /\ status = 2 /\ ran = {}

-------------------------------------------------------------------------------

\* Run returns, with or without an error: its deferred calls are next.
Returns(code)  == stage' = "return" /\ status' = code
Continue(s)    == stage' = s /\ UNCHANGED status

\* main's signal context ends.
ContextEnds ==
  /\ ~ended /\ stage # "exited" /\ ended' = TRUE
  /\ UNCHANGED <<loopVars, stage, setup, config, client, defers, status, ran>>

\* The configuration is checked before anything is started.
Validate ==
  /\ stage = "validate"
  /\ Continue("ping") \/ Returns(1)
  /\ UNCHANGED <<loopVars, setup, config, ended, client, defers, ran>>

\* Ping: /health, or else /v1/models, answers below 500.
Ping ==
  /\ stage = "ping"
  /\ (~ended /\ Continue("start")) \/ Returns(1)
  /\ UNCHANGED <<loopVars, setup, config, ended, client, defers, ran>>

\* Mutant of FailedStart: startWebMCPServer leaves closing to its caller.
FailedStartMutant == Returns(1) /\ UNCHANGED client

\* Starting a server fails after StartProcess: the core client is closed by
\* its deferred call, the web one, which has none yet, by startWebMCPServer.
FailedStart ==
  /\ Returns(1)
  /\ client' = [client EXCEPT !["web"] = IF server = "web" THEN "closed" ELSE @]

\* StartProcess; for the core server Close is deferred at once.
StartProcess ==
  /\ stage = "start"
  /\ \/ /\ client' = [client EXCEPT ![server] = "open"]
        /\ defers' = IF server = "core" THEN <<"core">> ELSE defers
        /\ Continue("initialize")
     \/ Returns(1) /\ UNCHANGED <<client, defers>>
  /\ UNCHANGED <<loopVars, setup, config, ended, ran>>

\* Initialize, under the startup deadline: the call fails, the server has no
\* tools, or the session stands.  The select of a call may find the answer even
\* when the context has ended.
Initialize ==
  /\ stage = "initialize"
  /\ \/ Continue("list") /\ page' = 0 /\ tools' = {} /\ UNCHANGED client
     \/ FailedStart /\ UNCHANGED <<page, tools>>
  /\ UNCHANGED <<loopVars, server, discovered, exposed, config, ended, defers, ran>>

\* ListTools: a page and its cursor; a tool listed twice, a malformed one, a
\* failed call and a list that does not end in MaxPages are errors.
ListTools(names, more) ==
  /\ stage = "list"
  /\ IF names \cap tools # {} \/ (more /\ page + 1 = MaxPages)
       THEN FailedStart /\ UNCHANGED <<page, tools>>
       ELSE /\ tools' = tools \cup names /\ page' = page + 1
            /\ Continue(IF more THEN "list" ELSE "filter") /\ UNCHANGED client
  /\ UNCHANGED <<loopVars, server, discovered, exposed, config, ended, defers, ran>>

ListToolsFails ==
  /\ stage = "list" /\ FailedStart
  /\ UNCHANGED <<loopVars, setup, config, ended, defers, ran>>

\* Mutant of FilterDiscovered: what is advertised is allowed.
FilterNothing(names, s) == names

\* FilterDiscovered: the policy of each server.
FilterDiscovered(names, s) == names \cap Allowed[s]

\* The tools of the core server come first; one of the same name from the web
\* server is denied.
Discover ==
  /\ stage = "filter"
  /\ discovered' = [discovered EXCEPT ![server] =
                      FilterDiscovered(tools, server) \ (IF server = "web" THEN discovered["core"] ELSE {})]
  /\ IF server = "core" /\ webWanted
       THEN server' = "web" /\ Continue("start") /\ UNCHANGED defers
       ELSE /\ defers' = IF server = "web" THEN <<"web">> \o defers ELSE defers
            /\ Continue("select") /\ UNCHANGED server
  /\ page' = 0 /\ tools' = {}
  /\ UNCHANGED <<loopVars, exposed, config, ended, client, ran>>

\* SelectProfile: the first of the profiles that match most keywords, cut to
\* MaxExposedTools unless it is the fallback.
Score(p, words) == Cardinality(p.keywords \cap words)
SelectProfile(words) ==
  LET best == Max({Score(Profiles[i], words) : i \in DOMAIN Profiles})
  IN  IF best = 0 THEN Fallback
      ELSE LET most == Min({i \in DOMAIN Profiles : Score(Profiles[i], words) = best})
               its  == Profiles[most].tools
           IN  SubSeq(its, 1, Min({Len(its), MaxExposed}))

\* exposeProfile: the first MaxExposed of its tools that were discovered.
ExposeProfile(profile) ==
  LET found == {i \in DOMAIN profile : \E s \in Servers : profile[i] \in discovered[s]}
  IN  {profile[i] : i \in {j \in found : Cardinality({k \in found : k < j}) < MaxExposed}}

\* The loop begins if there is a tool at all, and one the profile wants.
BeginLoop ==
  /\ stage = "select"
  /\ LET found == ExposeProfile(SelectProfile(request))
     IN  IF found = {} THEN Returns(1) /\ UNCHANGED exposed
         ELSE Continue("loop") /\ exposed' = found
  /\ UNCHANGED <<loopVars, server, page, tools, discovered, config, ended, client, defers, ran>>

-------------------------------------------------------------------------------
(***************************************************************************)
(* The loop                                                                *)
(***************************************************************************)

InLoop == stage = "loop" /\ UNCHANGED <<stage, setup, config, ended, client, defers, status>>

\* llm.Complete answers; once the context has ended it only fails.
ModelAnswers ==
  /\ InLoop /\ ~ended /\ UNCHANGED ran
  /\ Answer \/ \E n \in 1 .. MaxReply : Reply(n)

ModelFails == InLoop /\ PromptFails /\ UNCHANGED ran

\* The client a tool is called on.
ClientOf(t) == IF t \in discovered["core"] THEN "core" ELSE "web"
Offered(key) == ToolOf[key] \in exposed

\* A call of a tool that is not offered is never valid.
CallTool(key) ==
  /\ InLoop /\ Offered(key) /\ Call(key)
  /\ ran' = ran \cup {<<ToolOf[key], ClientOf(ToolOf[key])>>}

\* The answer comes, and the select may find it after the context has ended.
ToolAnswers == InLoop /\ UNCHANGED ran /\ \E size \in ResultSizes : Execute(size)

\* The server answers with an error or is gone.
ToolFails == InLoop /\ UNCHANGED ran /\ CallFails

\* Mutant of ToolCancelled: the call does not watch its context and ends only
\* with its server.
ToolCancelledByClose ==
  /\ InLoop /\ UNCHANGED ran /\ ended
  /\ \A s \in Servers : client[s] # "open"
  /\ CallFails

\* The call finds the context ended (client.go:131).
ToolCancelled == InLoop /\ UNCHANGED ran /\ ended /\ CallFails

AnswerCall(key) ==
  /\ InLoop /\ UNCHANGED ran
  /\ Duplicate(key) \/ \E valid \in BOOLEAN : (valid => Offered(key)) /\ Reject(key, valid)

Proceeds == InLoop /\ UNCHANGED ran /\ (TooManyCalls \/ NextRound)

\* The loop is over: with an error, or having printed something.
LoopReturns ==
  /\ stage = "loop" /\ pc = "stopped"
  /\ Returns(IF outcome = "error" THEN 1 ELSE 0)
  /\ UNCHANGED <<loopVars, setup, config, ended, client, defers, ran>>

\* The deferred calls run, and Close, which kills a server that does not go,
\* returns (McpSession); then main exits.
Unwind ==
  /\ stage = "return" /\ defers # << >>
  /\ client' = [client EXCEPT ![Head(defers)] = "closed"]
  /\ defers' = Tail(defers)
  /\ UNCHANGED <<loopVars, stage, setup, config, ended, status, ran>>

Exits ==
  /\ stage = "return" /\ defers = << >> /\ stage' = "exited"
  /\ UNCHANGED <<loopVars, setup, config, ended, client, defers, status, ran>>

\* What Run does by itself, and the waits that its own deadlines end.
Advance ==
  \/ Validate \/ Ping \/ StartProcess \/ Initialize \/ ListToolsFails \/ Discover
  \/ \E names \in Advertised, more \in BOOLEAN : ListTools(names, more)
  \/ BeginLoop \/ ModelAnswers \/ ModelFails \/ Proceeds \/ LoopReturns \/ Unwind \/ Exits
  \/ ToolCancelled \/ \E key \in Keys : CallTool(key) \/ AnswerCall(key)

RunNext == Advance \/ ToolAnswers \/ ToolFails \/ ContextEnds

RunSpec == RunInit /\ [][RunNext]_allVars

\* The waits of Run for the ping, for the startup of the servers, for a
\* completion and for Close have deadlines.  A tool call has none: a tool need
\* not answer, and the call is only sure to end once the context has.
FairRunSpec == RunSpec /\ WF_allVars(Advance)

-------------------------------------------------------------------------------

\* What the proofs rest on.  An open server has its deferred Close, but for the
\* web server while it is being started.
Stages == {"validate", "ping", "start", "initialize", "list", "filter", "select", "loop",
           "return", "exited"}

ServersInv ==
  /\ stage \in Stages /\ server \in Servers
  /\ client \in [Servers -> {"none", "open", "closed"}]
  /\ defers \in {<< >>, <<"core">>, <<"web", "core">>}
  /\ client["core"] = "open" => defers # << >>
  /\ client["web"] = "open" =>
       defers = <<"web", "core">> \/ (server = "web" /\ stage \in {"initialize", "list", "filter"})
  /\ server = "core" => client["web"] = "none" /\ defers # <<"web", "core">>
  /\ stage \in {"validate", "ping"} => server = "core"
  /\ stage \in {"initialize", "list", "filter"} \/ (stage = "start" /\ server = "web")
       => defers = <<"core">>
  /\ stage \in {"initialize", "list", "filter"} => client[server] # "none"
  /\ stage = "exited" => defers = << >>

\* The tools are discovered before the loop, each on one server, and what ran was
\* offered and ran where it was discovered.
ToolsInv ==
  /\ discovered \in [Servers -> SUBSET (Allowed["core"] \cup Allowed["web"])]
  /\ \A s \in Servers :
       discovered[s] \subseteq Allowed[s] /\ (discovered[s] # {} => client[s] # "none")
  /\ discovered["core"] \cap discovered["web"] = {}
  /\ IF server = "core" THEN discovered["web"] = {} ELSE webWanted
  /\ exposed \subseteq ToSet(SelectProfile(request)) \cap (discovered["core"] \cup discovered["web"])
  /\ stage \notin {"loop", "return", "exited"} => exposed = {}
  /\ ran \subseteq {<<t, ClientOf(t)>> : t \in exposed}

\* However Run returns, an error in the middle of starting the second server
\* included, no MCP server it started is left without its Close
\* (agent.go:155,189,248-256).
NoServerLeft == stage = "exited" => \A s \in Servers : client[s] # "open"

\* A tool runs on the server that advertised it and that is allowed to, the
\* core server before the web one, and only when the profile of the request
\* offers it (FilterDiscovered, the duplicate check of Run, exposeProfile).
ToolsComeFromTheirServer ==
  \A t \in DOMAIN ToolOf : \A s \in Servers :
    <<ToolOf[t], s>> \in ran =>
      /\ ToolOf[t] \in Allowed[s] \cap discovered[s]
      /\ client[s] # "none"
      /\ ToolOf[t] \in ToSet(SelectProfile(request))
      /\ s = "web" => webWanted /\ ToolOf[t] \notin discovered["core"]

\* The request ends and the agent exits, with success only when the loop ended
\* without an error.  All that can keep it is one tool call that never answers,
\* and that only until the context ends: the call has no deadline of its own
\* (toolcall.go:61, client.go:129-132).
RunEnds ==
  \/ <>(stage = "exited" /\ status = (IF outcome \in {"running", "error"} THEN 1 ELSE 0))
  \/ <>[](pc = "tool" /\ ~ended)
===============================================================================
