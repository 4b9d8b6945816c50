--------------------------- MODULE AgentRunProofs ---------------------------
(***************************************************************************)
(* Proofs about AgentRun: the agent runs the loop of AgentLoop and nothing *)
(* else changes the loop's state, so what is proved of the loop holds of   *)
(* the agent; its servers are closed; its tools run where they belong.     *)
(***************************************************************************)
EXTENDS AgentRun, AgentLoopProofs

\* However a call of a tool ends.
ToolReturns == ToolAnswers \/ ToolFails \/ ToolCancelled

\* Every step of the agent is a step of its loop or leaves the loop's state alone
\* (Run calls Session.Loop and shares nothing else with it, agent.go:137-209).
LEMMA LoopSteps ==
  [RunNext]_allVars => [Next]_loopVars
<1> USE DEF loopVars
<1>1. CASE ModelAnswers \/ ModelFails \/ Proceeds \/ ToolReturns
  BY <1>1 DEF ModelAnswers, ModelFails, Proceeds, ToolReturns, ToolAnswers, ToolFails,
              ToolCancelled, Next
<1>2. ASSUME NEW key \in Keys, CallTool(key) \/ AnswerCall(key)
      PROVE  Next
  BY <1>2 DEF CallTool, AnswerCall, Next
<1>3. CASE Validate \/ Ping \/ StartProcess \/ Initialize \/ ListToolsFails \/ Discover
           \/ BeginLoop \/ LoopReturns \/ Unwind \/ Exits \/ ContextEnds
  BY <1>3 DEF Validate, Ping, StartProcess, Initialize, ListToolsFails, Discover, BeginLoop,
              LoopReturns, Unwind, Exits, ContextEnds
<1>4. ASSUME NEW names \in Advertised, NEW more \in BOOLEAN, ListTools(names, more)
      PROVE  UNCHANGED loopVars
  BY <1>4 DEF ListTools
<1>5. UNCHANGED allVars => UNCHANGED loopVars
  BY DEF allVars
<1>6. QED
  BY <1>1, <1>2, <1>3, <1>4, <1>5 DEF RunNext, Advance, ToolReturns

\* The agent implements the loop.
THEOREM RunImplementsLoop == RunSpec => Spec
<1>1. RunInit => Init
  BY DEF RunInit
<1>2. [RunNext]_allVars => [Next]_vars
  BY LoopSteps DEF loopVars
<1>3. QED
  BY <1>1, <1>2, PTL DEF RunSpec, Spec

\* So the whole agent keeps to the budgets of calls (toolcall.go:55,84,
\* agent.go:299-307) and every prompt it sends is complete exchanges
\* (context.go:76-77).
THEOREM RunKeepsTheLoopsPromises == RunSpec => [](TypeOK /\ CallBudget /\ PromptIsWellFormed)
BY RunImplementsLoop, TypeCorrect, BudgetHolds, PromptsAreWellFormed, PTL

-------------------------------------------------------------------------------
(***************************************************************************)
(* The servers                                                             *)
(***************************************************************************)

\* A step within the loop changes nothing around it.
LEMMA LoopKeepsTheRest ==
  ASSUME \/ ModelAnswers \/ ModelFails \/ Proceeds \/ ToolReturns
         \/ \E key \in Keys : CallTool(key) \/ AnswerCall(key)
  PROVE  InLoop
BY DEF ModelAnswers, ModelFails, Proceeds, ToolReturns, ToolAnswers, ToolFails, ToolCancelled,
       CallTool, AnswerCall

\* In every reachable state an open server is one whose Close is deferred, or
\* the web server that startWebMCPServer still answers for (agent.go:155,189,
\* 242-260).
THEOREM ServersCorrect == RunSpec => []ServersInv
<1>1. RunInit => ServersInv
  BY DEF RunInit, ServersInv, Servers, Stages
<1>2. ServersInv /\ [RunNext]_allVars => ServersInv'
  <2> SUFFICES ASSUME ServersInv, [RunNext]_allVars
               PROVE  ServersInv'
    OBVIOUS
  <2> USE DEF ServersInv, Servers, Stages, Returns, Continue, setup
  <2>1. CASE Validate \/ Ping \/ ContextEnds
    BY <2>1 DEF Validate, Ping, ContextEnds
  <2>2. CASE StartProcess
    BY <2>2 DEF StartProcess
  <2>3. ASSUME FailedStart, stage \in {"initialize", "list"}, UNCHANGED <<server, defers>>
        PROVE  ServersInv'
    BY <2>3 DEF FailedStart
  <2>4. CASE Initialize
    BY <2>3, <2>4 DEF Initialize
  <2>5. ASSUME NEW names \in Advertised, NEW more \in BOOLEAN, ListTools(names, more)
        PROVE  ServersInv'
    BY <2>3, <2>5 DEF ListTools
  <2>6. CASE ListToolsFails
    BY <2>3, <2>6 DEF ListToolsFails
  <2>7. CASE Discover
    <3>1. <<"web">> \o <<"core">> = <<"web", "core">>
      <4> DEFINE c == <<"web">> \o <<"core">>
      <4>1. <<"web">> \in Seq(Servers) /\ <<"core">> \in Seq(Servers)
            /\ <<"web", "core">> \in Seq(Servers)
        OBVIOUS
      <4>2. c \in Seq(Servers) /\ Len(c) = 2 /\ c[1] = "web" /\ c[2] = "core"
        BY <4>1, ConcatProperties
      <4> HIDE DEF c
      <4>3. c = <<"web", "core">>
        BY <4>1, <4>2, SeqEqual
      <4>4. QED
        BY <4>3 DEF c
    <3>2. /\ stage = "filter" /\ defers = <<"core">> /\ UNCHANGED client
          /\ \/ /\ server = "core" /\ server' = "web" /\ stage' = "start" /\ UNCHANGED defers
             \/ server = "core" /\ UNCHANGED <<server, defers>> /\ stage' = "select"
             \/ server = "web" /\ UNCHANGED server /\ stage' = "select" /\ defers' = <<"web", "core">>
      BY <2>7, <3>1 DEF Discover
    <3>3. QED
      BY <3>2
  <2>8. CASE BeginLoop
    <3>1. /\ stage = "select" /\ stage' \in {"return", "loop"}
          /\ UNCHANGED <<server, client, defers>>
      BY <2>8 DEF BeginLoop
    <3>2. QED
      BY <3>1
  <2>9. CASE ModelAnswers \/ ModelFails \/ Proceeds \/ ToolReturns
             \/ \E key \in Keys : CallTool(key) \/ AnswerCall(key)
    BY <2>9, LoopKeepsTheRest DEF InLoop
  <2>10. CASE LoopReturns
    BY <2>10 DEF LoopReturns
  <2>11. CASE Unwind
    <3>1. CASE defers = <<"core">>
      BY <2>11, <3>1 DEF Unwind
    <3>2. CASE defers = <<"web", "core">>
      BY <2>11, <3>2 DEF Unwind
    <3>3. QED
      BY <2>11, <3>1, <3>2 DEF Unwind
  <2>12. CASE Exits
    BY <2>12 DEF Exits
  <2>13. CASE UNCHANGED allVars
    BY <2>13 DEF allVars, runVars
  <2>14. QED
    BY <2>1, <2>2, <2>4, <2>5, <2>6, <2>7, <2>8, <2>9, <2>10, <2>11, <2>12, <2>13
       DEF RunNext, Advance, ToolReturns
<1>3. QED
  BY <1>1, <1>2, PTL DEF RunSpec

\* However Run returns, no server it started is left without its Close
\* (agent.go:155,189,248-256).
THEOREM ServersAreClosed == RunSpec => []NoServerLeft
<1>1. ServersInv => NoServerLeft
  BY DEF ServersInv, NoServerLeft, Servers
<1>2. QED
  BY <1>1, ServersCorrect, PTL

-------------------------------------------------------------------------------
(***************************************************************************)
(* The tools                                                               *)
(***************************************************************************)

\* What is offered is from the profile and was discovered (agent.go:321-342).
LEMMA ExposedWasDiscovered ==
  ASSUME NEW profile
  PROVE  ExposeProfile(profile) \subseteq
           ToSet(profile) \cap (discovered["core"] \cup discovered["web"])
BY DEF ExposeProfile, ToSet, Servers

\* In every reachable state the servers' tools are disjoint and allowed, and
\* what ran was offered and ran where it was discovered (agent.go:167-193,
\* 213-240, 321-342).
THEOREM ToolsCorrect == RunSpec => []ToolsInv
<1>1. RunInit => ToolsInv
  BY DEF RunInit, ToolsInv, Servers
<1>2. ServersInv /\ ToolsInv /\ [RunNext]_allVars => ToolsInv'
  <2> SUFFICES ASSUME ServersInv, ToolsInv, [RunNext]_allVars
               PROVE  ToolsInv'
    OBVIOUS
  <2>1. ASSUME UNCHANGED <<discovered, server, request, webWanted, exposed, ran>>,
               \A s \in Servers : client[s] # "none" => client'[s] # "none",
               stage \in {"loop", "return", "exited"} => stage' \in {"loop", "return", "exited"}
        PROVE  ToolsInv'
    <3>1. /\ SelectProfile(request)' = SelectProfile(request)
          /\ \A t : ClientOf(t)' = ClientOf(t)
      BY <2>1 DEF SelectProfile, ClientOf, Score
    <3>2. \A s \in Servers : discovered[s] # {} => client'[s] # "none"
      BY <2>1 DEF ToolsInv
    <3>3. QED
      BY <2>1, <3>1, <3>2, Zenon DEF ToolsInv
  <2>2. CASE Validate \/ Ping \/ ContextEnds
    BY <2>1, <2>2
       DEF Validate, Ping, ContextEnds, setup, config, Continue, Returns
  <2>3. CASE StartProcess
    BY <2>1, <2>3 DEF StartProcess, setup, config, Continue, Returns, ServersInv, Servers
  <2>4. ASSUME FailedStart, UNCHANGED <<discovered, server, request, webWanted, exposed, ran>>
        PROVE  ToolsInv'
    BY <2>1, <2>4 DEF FailedStart, Returns, ServersInv, Servers
  <2>5. CASE Initialize
    BY <2>1, <2>4, <2>5 DEF Initialize, config, Continue
  <2>6. ASSUME NEW names \in Advertised, NEW more \in BOOLEAN, ListTools(names, more)
        PROVE  ToolsInv'
    BY <2>1, <2>4, <2>6 DEF ListTools, config, Continue
  <2>7. CASE ListToolsFails
    BY <2>4, <2>7 DEF ListToolsFails, setup, config
  <2>8. CASE Discover
    <3> DEFINE new == FilterDiscovered(tools, server) \ (IF server = "web" THEN discovered["core"] ELSE {})
    <3>1. /\ stage = "filter" /\ exposed = {} /\ ran = {} /\ exposed' = {} /\ ran' = {}
          /\ UNCHANGED <<request, webWanted, client>> /\ client[server] # "none" /\ server \in Servers
      BY <2>8 DEF Discover, ToolsInv, ServersInv, config
    <3>2. /\ new \subseteq Allowed[server]
          /\ server = "web" => new \cap discovered["core"] = {}
      BY DEF FilterDiscovered
    <3>3. \/ server' = server
          \/ server = "core" /\ server' = "web" /\ webWanted
      BY <2>8 DEF Discover
    <3>4. discovered' = [discovered EXCEPT ![server] = new]
      BY <2>8 DEF Discover
    <3> HIDE DEF new
    <3>5. discovered' \in [Servers -> SUBSET (Allowed["core"] \cup Allowed["web"])]
      BY <3>1, <3>2, <3>4 DEF ToolsInv, Servers
    <3>6. \A s \in Servers :
            discovered'[s] \subseteq Allowed[s] /\ (discovered'[s] # {} => client[s] # "none")
      BY <3>1, <3>2, <3>4 DEF ToolsInv, Servers
    <3>7. discovered'["core"] \cap discovered'["web"] = {}
      BY <3>1, <3>2, <3>4 DEF ToolsInv, Servers
    <3>8. IF server' = "core" THEN discovered'["web"] = {} ELSE webWanted
      BY <3>1, <3>3, <3>4 DEF ToolsInv, Servers
    <3>9. QED
      BY <3>1, <3>5, <3>6, <3>7, <3>8 DEF ToolsInv
  <2>9. CASE BeginLoop
    <3>1. /\ stage = "select" /\ ran = {} /\ ran' = {} /\ exposed = {}
          /\ UNCHANGED <<server, request, webWanted, discovered, client>>
          /\ stage' \in {"loop", "return"}
          /\ exposed' = {} \/ exposed' = ExposeProfile(SelectProfile(request))
      BY <2>9 DEF BeginLoop, ToolsInv, config, Continue, Returns
    <3>2. exposed' \subseteq ToSet(SelectProfile(request)) \cap (discovered["core"] \cup discovered["web"])
      BY <3>1, ExposedWasDiscovered
    <3>3. SelectProfile(request)' = SelectProfile(request)
      BY <3>1 DEF SelectProfile, Score
    <3>4. QED
      BY <3>1, <3>2, <3>3 DEF ToolsInv
  <2>10. CASE ModelAnswers \/ ModelFails \/ Proceeds \/ ToolReturns
              \/ \E key \in Keys : AnswerCall(key)
    <3>1. InLoop /\ UNCHANGED ran
      BY <2>10 DEF ModelAnswers, ModelFails, Proceeds, ToolReturns, ToolAnswers, ToolFails,
                   ToolCancelled, AnswerCall
    <3>2. QED
      BY <2>1, <3>1 DEF InLoop, setup, config
  <2>11. ASSUME NEW key \in Keys, CallTool(key)
         PROVE  ToolsInv'
    <3>1. /\ stage = "loop" /\ UNCHANGED <<stage, server, request, webWanted, discovered, exposed, client>>
          /\ ToolOf[key] \in exposed
          /\ ran' = ran \cup {<<ToolOf[key], ClientOf(ToolOf[key])>>}
      BY <2>11 DEF CallTool, InLoop, Offered, setup, config
    <3>2. /\ SelectProfile(request)' = SelectProfile(request)
          /\ \A t : ClientOf(t)' = ClientOf(t)
      BY <3>1 DEF SelectProfile, ClientOf, Score
    <3>3. ran' \subseteq {<<t, ClientOf(t)>> : t \in exposed}
      BY <3>1 DEF ToolsInv
    <3>4. QED
      BY <3>1, <3>2, <3>3, Zenon DEF ToolsInv
  <2>12. CASE LoopReturns
    BY <2>1, <2>12 DEF LoopReturns, setup, config, Returns
  <2>13. CASE Unwind
    BY <2>1, <2>13 DEF Unwind, setup, config, ServersInv, Servers
  <2>14. CASE Exits
    BY <2>1, <2>14 DEF Exits, setup, config
  <2>15. CASE UNCHANGED allVars
    BY <2>1, <2>15 DEF allVars, runVars, setup, config
  <2>16. QED
    BY <2>2, <2>3, <2>5, <2>6, <2>7, <2>8, <2>9, <2>10, <2>11, <2>12, <2>13, <2>14, <2>15
       DEF RunNext, Advance, ToolReturns
<1>3. QED
  BY <1>1, <1>2, ServersCorrect, PTL DEF RunSpec

\* A tool runs only on the server that advertised it and is allowed to, the core
\* server before the web one, and only if the request's profile has it
\* (FilterDiscovered, the duplicate check of Run, exposeProfile).
THEOREM ToolsRunWhereTheyBelong == RunSpec => []ToolsComeFromTheirServer
<1>1. ToolsInv => ToolsComeFromTheirServer
  <2> SUFFICES ASSUME ToolsInv, NEW t \in DOMAIN ToolOf, NEW s \in Servers,
                      <<ToolOf[t], s>> \in ran
               PROVE  /\ ToolOf[t] \in Allowed[s] \cap discovered[s]
                      /\ client[s] # "none"
                      /\ ToolOf[t] \in ToSet(SelectProfile(request))
                      /\ s = "web" => webWanted /\ ToolOf[t] \notin discovered["core"]
    BY DEF ToolsComeFromTheirServer
  <2> DEFINE tool == ToolOf[t]
  <2> HIDE DEF tool
  <2>1. tool \in exposed /\ s = ClientOf(tool)
    BY DEF ToolsInv, tool
  <2>2. tool \in ToSet(SelectProfile(request)) /\ tool \in discovered["core"] \cup discovered["web"]
    BY <2>1 DEF ToolsInv
  <2>3. tool \in discovered[s] /\ (s = "web" => tool \notin discovered["core"])
    BY <2>1, <2>2 DEF ClientOf
  <2>4. s = "web" => webWanted
    BY <2>3 DEF ToolsInv
  <2>5. QED
    BY <2>2, <2>3, <2>4 DEF ToolsInv, tool
<1>2. QED
  BY <1>1, ToolsCorrect, PTL
=============================================================================
