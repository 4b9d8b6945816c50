--------------------------- MODULE SupervisorProofs ---------------------------
(***************************************************************************)
(* Proofs about Supervisor for every mode and any number of signals.       *)
(***************************************************************************)
EXTENDS Supervisor, SequenceTheorems, TLAPS

\* The lists of children that shutdown goes through.
LEMMA ListsOfChildren ==
  /\ << >> \in Seq(Children) /\ <<"llama">> \in Seq(Children)
  /\ <<"proxy", "llama">> \in Seq(Children)
  /\ <<"proxy", "agent">> \in Seq(Children)
  /\ <<"llama", "proxy">> \in Seq(Children)
<1>1. << >> \in Seq(Children)
  BY EmptySeq
<1>2. <<"llama">> \in Seq(Children)
  BY DEF Children
<1>3. <<"proxy", "llama">> \in Seq(Children)
  BY DEF Children
<1>4. <<"proxy", "agent">> \in Seq(Children)
  BY DEF Children
<1>5. <<"llama", "proxy">> \in Seq(Children)
  BY DEF Children
<1>6. QED
  BY <1>1, <1>2, <1>3, <1>4, <1>5

\* Every reachable state has well-typed script variables and child states; only
\* children whose process id is known are ever told, and only the wait for one
\* that was told is ever cut (entrypoint.sh:466-613).
THEOREM TypeCorrect == Spec => []TypeOK
<1> USE DEF Statuses, Interrupted, Labels, Started
<1>1. Init => TypeOK
  <2> SUFFICES ASSUME Init PROVE TypeOK
    OBVIOUS
  <2>1. todo \in Seq(Children) /\ pc # "wait"
    BY EmptySeq DEF Init
  <2>2. signals \in 0..MaxSignals
    BY SignalAssumption DEF Init
  <2>3. child \in [Children -> {"none", "up", "exited"}]
    BY DEF Init, Children
  <2>4. QED
    BY <2>1, <2>2, <2>3 DEF Init, TypeOK, Modes
<1>2. TypeOK /\ [Next]_vars => TypeOK'
  <2> SUFFICES ASSUME TypeOK, [Next]_vars
               PROVE  TypeOK'
    OBVIOUS
  <2> USE DEF TypeOK, script, world, Quiet, Goto, Up, Gone
  <2>1. ASSUME NEW list \in Seq(Children), NEW result \in Statuses,
               StopAll(list, result), Quiet
        PROVE  TypeOK'
    BY <2>1 DEF StopAll
  <2>2. CASE Trap
    BY <2>2 DEF Trap
  <2>3. CASE LlamaReady \/ Launch
    BY <2>3 DEF LlamaReady, Launch, Start
  <2>4. CASE LlamaNotReady
    <3>1. CASE Up("llama")
      BY <2>4, <3>1, ListsOfChildren DEF LlamaNotReady, StopAll
    <3>2. CASE ~Up("llama")
      BY <2>4, <3>2, ListsOfChildren DEF LlamaNotReady, StopAll
    <3>3. QED
      BY <3>1, <3>2
  <2>5. CASE ProxyReady
    BY <2>5 DEF ProxyReady
  <2>6. CASE ProxyNotReady
    <3>1. CASE Up("proxy")
      BY <2>6, <3>1, ListsOfChildren DEF ProxyNotReady, StopAll
    <3>2. CASE ~Up("proxy")
      BY <2>6, <3>2, ListsOfChildren DEF ProxyNotReady, StopAll
    <3>3. QED
      BY <3>1, <3>2
  <2>7. CASE Supervise
    BY <2>7 DEF Supervise, Start
  <2>8. CASE PollLlama
    <3>1. CASE Up("llama")
      BY <2>8, <3>1 DEF PollLlama
    <3>2. CASE ~Up("llama")
      <4>1. StopAll(<<"proxy", "agent">>, 1) /\ Quiet
        BY <2>8, <3>2 DEF PollLlama
      <4>2. QED
        BY <2>1, <4>1, ListsOfChildren
    <3>3. QED
      BY <3>1, <3>2
  <2>9. CASE PollMain
    <3>1. status[Main] \in Statuses
      BY DEF Main, Children
    <3>2. CASE Up(Main)
      BY <2>9, <3>2 DEF PollMain
    <3>3. CASE ~Up(Main) /\ mode = "oneshot"
      BY <2>9, <3>1, <3>3, ListsOfChildren DEF PollMain, StopAll
    <3>4. CASE ~Up(Main) /\ mode # "oneshot"
      BY <2>9, <3>1, <3>4, ListsOfChildren DEF PollMain, StopAll
    <3>5. QED
      BY <3>2, <3>3, <3>4
  <2>10. CASE Kill
    BY <2>10 DEF Kill
  <2>11. ASSUME todo # << >>
         PROVE  Tail(todo) \in Seq(Children)
    BY <2>11, HeadTailProperties
  <2>12. CASE Skip \/ Waited \/ WaitCut
    <3>1. CASE Skip \/ Waited
      BY <2>11, <3>1 DEF Skip, Waited
    <3>2. CASE WaitCut
      <4>1. Tail(todo) \in Seq(Children) /\ Head(todo) \in told
        BY <2>11, <3>2 DEF WaitCut
      <4>2. told' \subseteq known' /\ cut' \subseteq told'
        BY <3>2, <4>1 DEF WaitCut
      <4>3. QED
        BY <3>2, <4>1, <4>2 DEF WaitCut
    <3>3. QED
      BY <2>12, <3>1, <3>2
  <2>13. CASE Exited
    BY <2>13 DEF Exited
  <2>14. CASE Status
    <3>1. CASE ExitStatus
      <4>1. status[Sole] \in Statuses
        BY DEF Sole, Children
      <4>2. QED
        BY <3>1, <4>1 DEF ExitStatus
    <3>2. CASE ExitStatusCut
      BY <3>2 DEF ExitStatusCut
    <3>3. CASE Check
      BY <3>3 DEF Check
    <3>4. QED
      BY <2>14, <3>1, <3>2, <3>3 DEF Status
  <2>15. CASE Signal
    <3>1. pending' \in BOOLEAN /\ UNCHANGED <<world, script, child, known, told, status, cut>>
      BY <2>15, Zenon DEF Signal
    <3>2. signals' \in 0..MaxSignals
      BY <2>15, SignalAssumption DEF Signal
    <3>3. QED
      BY <3>1, <3>2
  <2>16. ASSUME NEW c \in Children, Exit(c)
         PROVE  TypeOK'
    BY <2>16 DEF Exit
  <2>17. CASE Arm \/ ArmInt \/ ProxyKnown \/ AgentKnown
    <3>1. Sole \in Children /\ "proxy" \in Children /\ "agent" \in Children
      BY DEF Sole, Children
    <3>2. QED
      BY <2>17, <3>1 DEF Arm, ArmInt, ProxyKnown, AgentKnown, Learn
  <2>18. CASE UNCHANGED vars
    BY <2>18 DEF vars
  <2>19. QED
    BY <2>2, <2>3, <2>4, <2>5, <2>6, <2>7, <2>8, <2>9, <2>10, <2>11, <2>12, <2>13,
       <2>14, <2>15, <2>16, <2>17, <2>18
       DEF Next, Script, Arming, Starting, Polling, Stopping
<1>3. QED
  BY <1>1, <1>2, PTL DEF Spec

-------------------------------------------------------------------------------
(***************************************************************************)
(* What was started, and what shutdown still has to do.                    *)
(***************************************************************************)

\* Where the script stands tells which children it has started (the order of
\* entrypoint.sh:466-613 and its wait_for_exit_status branches).
THEOREM StartedCorrect == Spec => []StartedInv
<1> USE DEF StartedInv, Started, Main, JustStarted, Sole
<1>1. Init => StartedInv
  BY DEF Init, Modes, Children
<1>2. TypeOK /\ StartedInv /\ [Next]_vars => StartedInv'
  <2> SUFFICES ASSUME TypeOK, StartedInv, [Next]_vars
               PROVE  StartedInv'
    OBVIOUS
  <2> USE DEF script, world, Quiet, Goto
  <2>1. CASE Trap
    BY <2>1 DEF Trap
  <2>2. CASE LlamaReady
    BY <2>2 DEF LlamaReady, Start, Up, TypeOK, Children
  <2>3. CASE LlamaNotReady \/ ProxyNotReady
    BY <2>3 DEF LlamaNotReady, ProxyNotReady, StopAll
  <2>4. CASE ProxyReady
    BY <2>4 DEF ProxyReady
  <2>5. CASE Supervise
    BY <2>5 DEF Supervise, Start, TypeOK, Children, Modes
  <2>6. CASE Polling
    BY <2>6 DEF Polling, PollLlama, PollMain, StopAll
  <2>7. CASE Stopping
    BY <2>7 DEF Stopping, Kill, Skip, Waited, WaitCut, Exited
  <2>8. CASE Status
    BY <2>8 DEF Status, ExitStatus, ExitStatusCut, Check
  <2>9. CASE Signal
    BY <2>9 DEF Signal
  <2>10. ASSUME NEW c \in Children, Exit(c)
         PROVE  StartedInv'
    <3>1. Started' = Started
      BY <2>10 DEF Exit, Up, TypeOK
    <3>2. QED
      BY <2>10, <3>1 DEF Exit
  <2>11. CASE UNCHANGED vars
    BY <2>11 DEF vars
  <2>12. CASE Launch
    BY <2>12 DEF Launch, Start, TypeOK, Children
  <2>13. CASE Arm \/ ArmInt \/ ProxyKnown \/ AgentKnown
    BY <2>13 DEF Arm, ArmInt, ProxyKnown, AgentKnown, Learn, TypeOK, Children
  <2>14. QED
    BY <2>1, <2>2, <2>3, <2>4, <2>5, <2>6, <2>7, <2>8, <2>9, <2>10, <2>11, <2>12, <2>13
       DEF Next, Script, Arming, Starting
<1> HIDE DEF StartedInv, Started, Main, JustStarted, Sole
<1>3. QED
  BY <1>1, <1>2, TypeCorrect, PTL DEF Spec

\* Dropping the head of the list drops no other child.
LEMMA TailKeepsTheRest ==
  ASSUME NEW s \in Seq(Children), s # << >>, NEW i \in DOMAIN s
  PROVE  s[i] = Head(s) \/ \E j \in DOMAIN Tail(s) : Tail(s)[j] = s[i]
<1>1. CASE i = 1
  BY <1>1
<1>2. CASE i # 1
  <2>1. i - 1 \in DOMAIN Tail(s) /\ Tail(s)[i - 1] = s[i]
    BY <1>2, HeadTailProperties
  <2>2. QED
    BY <2>1
<1>3. QED
  BY <1>1, <1>2

\* In every reachable state of shutdown each started child has exited, was told
\* and had its wait cut, or is still listed (the kill and wait pairs of
\* entrypoint.sh:466-613).
THEOREM ShutdownCorrect == Spec => []ShutdownInv
<1> USE DEF Started
<1>1. Init => ShutdownInv
  BY DEF Init, ShutdownInv
<1>2. TypeOK /\ StartedInv /\ ShutdownInv /\ [Next]_vars => ShutdownInv'
  <2> SUFFICES ASSUME TypeOK, StartedInv, ShutdownInv, [Next]_vars
               PROVE  ShutdownInv'
    OBVIOUS
  <2> USE DEF script, world, Quiet, Goto
  <2>1. CASE Trap
    BY <2>1 DEF Trap, ShutdownInv, Settled, Listed, Gone
  <2>2. CASE LlamaReady \/ ProxyReady \/ Supervise \/ Arming
    <3>1. /\ pc' \notin {"kill", "wait", "check", "exited"}
      BY <2>2 DEF LlamaReady, ProxyReady, Supervise, Arming, Launch, Arm, ArmInt, ProxyKnown,
                  AgentKnown
    <3>2. QED
      BY <3>1 DEF ShutdownInv
  <2>3. CASE LlamaNotReady
    <3>1. \A c \in Started : c = "llama"
      BY <2>3 DEF LlamaNotReady, StartedInv, Children
    <3>2. Gone("llama") \/ todo' = <<"llama">>
      BY <2>3 DEF LlamaNotReady, StopAll, Up, Gone, StartedInv, TypeOK, Children
    <3>3. QED
      BY <2>3, <3>1, <3>2 DEF LlamaNotReady, StopAll, ShutdownInv, Settled, Listed, Gone
  <2>4. CASE ProxyNotReady
    <3>1. \A c \in Started : c \in {"llama", "proxy"}
      BY <2>4 DEF ProxyNotReady, StartedInv, Children
    <3>2. CASE Up("proxy")
      BY <2>4, <3>1, <3>2
         DEF ProxyNotReady, StopAll, ShutdownInv, Settled, Listed, Gone
    <3>3. CASE ~Up("proxy")
      <4>1. Gone("proxy")
        BY <2>4, <3>3 DEF ProxyNotReady, Up, Gone, StartedInv, TypeOK, Children
      <4>2. QED
        BY <2>4, <3>1, <3>3, <4>1
           DEF ProxyNotReady, StopAll, ShutdownInv, Settled, Listed, Gone
    <3>4. QED
      BY <3>2, <3>3
  <2>5. CASE PollLlama
    <3>1. CASE Up("llama")
      BY <2>5, <3>1 DEF PollLlama, ShutdownInv
    <3>2. CASE ~Up("llama")
      <4>1. \A c \in Started : c \in {"llama", "proxy", "agent"} /\ Gone("llama")
        BY <2>5, <3>2 DEF PollLlama, StartedInv, Children, Up, Gone, TypeOK
      <4>2. QED
        BY <2>5, <3>2, <4>1
           DEF PollLlama, StopAll, ShutdownInv, Settled, Listed, Gone
    <3>3. QED
      BY <3>1, <3>2
  <2>6. CASE PollMain
    <3>1. CASE Up(Main)
      BY <2>6, <3>1 DEF PollMain, ShutdownInv
    <3>2. CASE ~Up(Main)
      <4>1. Gone(Main) /\ \A c \in Started : c \in {"llama", "proxy", "agent"}
        BY <2>6, <3>2 DEF PollMain, StartedInv, Children, Up, Gone, TypeOK
      <4>2. CASE mode = "oneshot"
        BY <2>6, <3>2, <4>1, <4>2
           DEF PollMain, StopAll, ShutdownInv, Settled, Listed, Gone, Main
      <4>3. CASE mode # "oneshot"
        <5>1. \A c \in Started : c = "llama" \/ c = "proxy"
          BY <4>1, <4>3 DEF StartedInv
        <5>2. QED
          BY <2>6, <3>2, <4>1, <4>3, <5>1
             DEF PollMain, StopAll, ShutdownInv, Settled, Listed, Gone, Main
      <4>4. QED
        BY <4>2, <4>3
    <3>3. QED
      BY <3>1, <3>2
  <2>7. CASE Kill
    BY <2>7 DEF Kill, ShutdownInv, Settled, Listed, Gone
  <2>8. ASSUME pc \in {"kill", "wait"}, todo # << >>, todo' = Tail(todo), child' = child,
               NEW c \in Started, Settled(c) => Settled(c)',
               c = Head(todo) => Settled(c)'
        PROVE  Settled(c)' \/ Listed(c)'
    <3>1. Settled(c) \/ Listed(c)
      BY <2>8 DEF ShutdownInv
    <3>2. CASE Settled(c)
      BY <2>8, <3>2
    <3>3. CASE Listed(c)
      <4>1. PICK i \in DOMAIN todo : todo[i] = c
        BY <3>3 DEF Listed
      <4>2. c = Head(todo) \/ \E j \in DOMAIN Tail(todo) : Tail(todo)[j] = c
        BY <2>8, <4>1, TailKeepsTheRest DEF TypeOK
      <4>3. QED
        BY <2>8, <4>2 DEF Listed
    <3>4. QED
      BY <3>1, <3>2, <3>3
  <2>9. CASE Skip
    <3>1. \A c \in Started : c # Head(todo) /\ (Settled(c) => Settled(c)')
      <4>1. JustStarted = {}
        BY <2>9 DEF Skip, JustStarted
      <4>2. known = Started
        BY <4>1 DEF StartedInv
      <4>3. QED
        BY <2>9, <4>2 DEF Skip, Settled, Gone
    <3>2. \A c \in Started : Settled(c)' \/ Listed(c)'
      BY <2>8, <2>9, <3>1 DEF Skip
    <3>3. QED
      BY <2>9, <3>2 DEF Skip, ShutdownInv, Gone
  <2>10. CASE Waited
    <3>1. todo # << >>
      BY <2>10 DEF Waited, TypeOK
    <3>2. \A c \in Started : /\ Settled(c) => Settled(c)'
                             /\ c = Head(todo) => Settled(c)'
      BY <2>10 DEF Waited, Settled, Gone
    <3>3. \A c \in Started : Settled(c)' \/ Listed(c)'
      BY <2>8, <2>10, <3>1, <3>2 DEF Waited
    <3>4. QED
      BY <2>10, <3>3 DEF Waited, ShutdownInv, Gone
  <2>11. CASE WaitCut
    <3>1. todo # << >> /\ Head(todo) \in told
      BY <2>11 DEF WaitCut, TypeOK
    <3>2. \A c \in Started : /\ Settled(c) => Settled(c)'
                             /\ c = Head(todo) => Settled(c)'
      BY <2>11, <3>1 DEF WaitCut, Settled, Gone
    <3>3. \A c \in Started : Settled(c)' \/ Listed(c)'
      BY <2>8, <2>11, <3>1, <3>2 DEF WaitCut
    <3>4. QED
      BY <2>11, <3>3 DEF WaitCut, ShutdownInv, Gone
  <2>12. CASE Exited
    BY <2>12 DEF Exited, ShutdownInv, Settled, Listed, Gone
  <2>13. CASE Status
    <3>1. pc \in {"wait_status", "check"} => \A c \in Started : c = Sole
      BY DEF StartedInv, Sole, Children
    <3>2. mode # "oneshot"
      BY <2>13 DEF Status, ExitStatus, ExitStatusCut, Check, StartedInv
    <3>3. CASE ExitStatus
      BY <3>1, <3>2, <3>3 DEF ExitStatus, ShutdownInv, Settled, Gone
    <3>4. CASE ExitStatusCut
      BY <3>2, <3>4 DEF ExitStatusCut, ShutdownInv
    <3>5. CASE Check
      BY <3>1, <3>2, <3>5 DEF Check, ShutdownInv, Settled, Gone
    <3>6. QED
      BY <2>13, <3>3, <3>4, <3>5 DEF Status
  <2>14. CASE Signal
    BY <2>14 DEF Signal, ShutdownInv, Settled, Listed, Gone
  <2>15. ASSUME NEW d \in Children, Exit(d)
         PROVE  ShutdownInv'
    <3>1. Started' = Started /\ \A c \in Started : Gone(c) => Gone(c)'
      BY <2>15 DEF Exit, Up, Gone, TypeOK
    <3>2. \A c \in Started : (Settled(c) => Settled(c)') /\ (Listed(c) => Listed(c)')
      BY <2>15, <3>1 DEF Exit, Settled, Listed
    <3>3. Gone("agent") => Gone("agent")' /\ status'["agent"] = status["agent"]
      BY <2>15 DEF Exit, Up, Gone, TypeOK, Children
    <3>4. QED
      BY <2>15, <3>1, <3>2, <3>3 DEF Exit, ShutdownInv
  <2>16. CASE UNCHANGED vars
    BY <2>16 DEF vars, ShutdownInv, Settled, Listed, Gone
  <2>17. QED
    BY <2>1, <2>2, <2>3, <2>4, <2>5, <2>6, <2>7, <2>9, <2>10, <2>11, <2>12, <2>13,
       <2>14, <2>15, <2>16 DEF Next, Script, Starting, Polling, Stopping
<1>3. QED
  BY <1>1, <1>2, TypeCorrect, StartedCorrect, PTL DEF Spec

\* When the container exits, each process it started has exited or was told to
\* while a signal ended the wait for it: no order of deaths, readiness, deadlines
\* and signals leaves one behind unasked (entrypoint.sh:466-613).
THEOREM NobodyIsLeft == Spec => []NoChildLeft
<1>1. ShutdownInv => NoChildLeft
  BY DEF ShutdownInv, NoChildLeft, Settled
<1>2. QED
  BY <1>1, ShutdownCorrect, PTL

\* Exit status 0 of a one-shot container is the agent's own (entrypoint.sh:586-613).
THEOREM SuccessIsEarned == Spec => []SuccessIsTheAgents
<1>1. ShutdownInv => SuccessIsTheAgents
  BY DEF ShutdownInv, SuccessIsTheAgents
<1>2. QED
  BY <1>1, ShutdownCorrect, PTL
=============================================================================
