-------------------------- MODULE McpSessionProofs --------------------------
(***************************************************************************)
(* Proofs about McpSession for any number of calls and any capacities.     *)
(***************************************************************************)
EXTENDS McpSession, FiniteSetTheorems, SequenceTheorems, TLAPS

\* Every step is one of these (client.go and server.go, one action per step).
LEMMA Steps ==
  ASSUME Next
  PROVE  \/ Begin \/ ContextEnds \/ Write \/ WriteFails
         \/ Canceled \/ TransportClosed \/ Receive
         \/ Close \/ KillTimer \/ Closed
         \/ ReadLine \/ Send \/ ReadFails
         \/ ReadRequest \/ RunTool \/ Respond \/ ServeReturns \/ Gone
BY Zenon DEF Next, Writing, Select, Reading, Serving, Die, Killed

\* Taking the head of a queue.
LEMMA TailOfQueue ==
  ASSUME NEW S, NEW s \in Seq(S), s # << >>
  PROVE  /\ Tail(s) \in Seq(S) /\ Head(s) \in S /\ Len(Tail(s)) = Len(s) - 1
         /\ ToSet(s) = {Head(s)} \cup ToSet(Tail(s))
         /\ \A i \in DOMAIN Tail(s) : i + 1 \in DOMAIN s /\ Tail(s)[i] = s[i + 1]
         /\ Increasing(s) => Increasing(Tail(s))
         /\ Increasing(s) /\ Head(s) \in Ids => \A e \in ToSet(Tail(s)) \cap Ids : Head(s) < e
<1>1. /\ Tail(s) \in Seq(S) /\ Head(s) \in S /\ Head(s) = s[1] /\ Len(s) \in Nat \ {0}
      /\ Len(Tail(s)) = Len(s) - 1
      /\ DOMAIN s = 1..Len(s) /\ DOMAIN Tail(s) = 1..(Len(s) - 1)
      /\ \A i \in 1..(Len(s) - 1) : Tail(s)[i] = s[i + 1]
  BY HeadTailProperties, EmptySeq
<1>2. \A i \in DOMAIN Tail(s) : i + 1 \in DOMAIN s /\ Tail(s)[i] = s[i + 1]
  BY <1>1
<1>3. ToSet(s) = {Head(s)} \cup ToSet(Tail(s))
  <2>1. \A i \in DOMAIN s : i = 1 \/ (i - 1 \in DOMAIN Tail(s) /\ s[i] = Tail(s)[i - 1])
    BY <1>1
  <2>2. 1 \in DOMAIN s
    BY <1>1
  <2>3. ASSUME NEW e \in ToSet(s), e # Head(s)
        PROVE  e \in ToSet(Tail(s))
    <3>1. PICK i \in DOMAIN s : e = s[i]
      BY DEF ToSet
    <3>2. i - 1 \in DOMAIN Tail(s) /\ e = Tail(s)[i - 1]
      BY <1>1, <2>1, <2>3, <3>1
    <3>3. QED
      BY <3>2 DEF ToSet
  <2>4. Head(s) \in ToSet(s) /\ ToSet(Tail(s)) \subseteq ToSet(s)
    BY <1>1, <1>2, <2>2 DEF ToSet
  <2>5. QED
    BY <2>3, <2>4
<1>4. Increasing(s) => Increasing(Tail(s))
  BY <1>1, <1>2 DEF Increasing
<1>5. ASSUME Increasing(s), Head(s) \in Ids, NEW e \in ToSet(Tail(s)) \cap Ids
      PROVE  Head(s) < e
  <2>1. PICK i \in DOMAIN Tail(s) : e = Tail(s)[i]
    BY DEF ToSet
  <2>2. 1 < i + 1 /\ 1 \in DOMAIN s /\ i + 1 \in DOMAIN s /\ e = s[i + 1]
    BY <1>1, <1>2, <2>1
  <2>3. QED
    BY <1>1, <1>5, <2>2 DEF Increasing
<1>6. QED
  BY <1>1, <1>2, <1>3, <1>4, <1>5

\* Putting an entry at the end of a queue.
LEMMA AppendToQueue ==
  ASSUME NEW S, NEW s \in Seq(S), NEW x \in S
  PROVE  /\ Append(s, x) \in Seq(S) /\ Len(Append(s, x)) = Len(s) + 1
         /\ ToSet(Append(s, x)) = ToSet(s) \cup {x}
         /\ \A i \in DOMAIN Append(s, x) :
              \/ i \in DOMAIN s /\ Append(s, x)[i] = s[i]
              \/ i = Len(s) + 1 /\ Append(s, x)[i] = x
         /\ Increasing(s) /\ (x \in Ids => \A e \in ToSet(s) \cap Ids : e < x)
              => Increasing(Append(s, x))
<1> DEFINE t == Append(s, x)
           n == Len(s)
<1>1. /\ t \in Seq(S) /\ n \in Nat /\ Len(t) = n + 1 /\ DOMAIN s = 1..n /\ DOMAIN t = 1..(n + 1)
      /\ t[n + 1] = x /\ \A i \in 1..n : t[i] = s[i]
  BY AppendProperties
<1> HIDE DEF t, n
<1>2. \A i \in DOMAIN t : (i \in DOMAIN s /\ t[i] = s[i]) \/ (i = n + 1 /\ t[i] = x)
  BY <1>1
<1>3. ToSet(t) = ToSet(s) \cup {x}
  <2>1. n + 1 \in DOMAIN t /\ DOMAIN s \subseteq DOMAIN t
    BY <1>1
  <2>2. QED
    BY <1>1, <1>2, <2>1 DEF ToSet
<1>4. ASSUME Increasing(s), x \in Ids => \A e \in ToSet(s) \cap Ids : e < x,
             NEW i \in DOMAIN t, NEW j \in DOMAIN t, i < j, t[i] \in Ids, t[j] \in Ids
      PROVE  t[i] < t[j]
  <2>1. i \in 1..n /\ t[i] = s[i] /\ s[i] \in ToSet(s)
    BY <1>1, <1>4 DEF ToSet
  <2>2. QED
    BY <1>1, <1>2, <1>4, <2>1 DEF Increasing
<1>5. QED
  BY <1>1, <1>2, <1>3, <1>4 DEF Increasing, t, n

-------------------------------------------------------------------------------
(***************************************************************************)
(* Types                                                                   *)
(***************************************************************************)

\* Every reachable state is well typed: no queue outgrows its buffer, and a line
\* that is no message is never passed on (client.go:93-115).
THEOREM TypeCorrect == Spec => []TypeOK
<1> USE CapacityAssumption
<1>1. Init => TypeOK
  <2> SUFFICES ASSUME Init PROVE TypeOK
    OBVIOUS
  <2>1. \A S : << >> \in Seq(S) /\ Len(<< >>) = 0
    BY EmptySeq
  <2>2. nextID \in 0..MaxCalls /\ outcome \in [Ids -> {"new", "open", "done"} \cup Failures]
        /\ answer \in [Ids -> 0..MaxCalls]
    BY DEF Init
  <2>3. stdin = << >> /\ stdout = << >> /\ messages = << >> /\ ran = << >>
    BY DEF Init
  <2>4. Len(stdin) <= InCap /\ Len(stdout) <= OutCap /\ Len(messages) <= Buffer
    BY <2>1, <2>3
  <2>5. QED
    BY <2>1, <2>2, <2>3, <2>4, Zenon DEF Init, TypeOK
<1>2. TypeOK /\ [Next]_vars => TypeOK'
  <2> SUFFICES ASSUME TypeOK, [Next]_vars
               PROVE  TypeOK'
    OBVIOUS
  <2> USE DEF TypeOK, client, loop, process, Failures
  <2>1. CASE Begin
    <3>1. nextID' = nextID + 1 /\ nextID + 1 \in 0..MaxCalls
      BY <2>1 DEF Begin
    <3>2. QED
      BY <2>1, <3>1 DEF Begin
  <2>2. CASE ContextEnds
    BY <2>2 DEF ContextEnds
  <2>3. CASE Write
    <3>1. (IF pc = "write" THEN nextID ELSE Notification) \in Ids \cup {Notification}
      BY DEF Ids, Notification
    <3>2. stdin' \in Seq(Ids \cup {Notification}) /\ Len(stdin') = Len(stdin) + 1
      BY <2>3, <3>1, AppendToQueue DEF Write
    <3>3. QED
      BY <2>3, <3>2 DEF Write
  <2>4. CASE WriteFails
    BY <2>4 DEF WriteFails, Fail
  <2>5. CASE Canceled \/ TransportClosed
    BY <2>5 DEF Canceled, TransportClosed, Fail
  <2>6. CASE Receive
    <3>1. messages' \in Seq(Ids) /\ Len(messages') <= Buffer
      BY <2>6, TailOfQueue DEF Receive
    <3>2. QED
      BY <2>6, <3>1 DEF Receive, Answer, Ids
  <2>7. CASE Close \/ KillTimer \/ Closed
    BY <2>7 DEF Close, KillTimer, Closed
  <2>8. CASE ReadLine
    <3>1. stdout' \in Seq(Lines) /\ Len(stdout') <= OutCap /\ Head(stdout) \in Lines
      BY <2>8, TailOfQueue DEF ReadLine
    <3>2. QED
      BY <2>8, <3>1 DEF ReadLine, Lines
  <2>9. CASE Send
    <3>1. messages' \in Seq(Ids) /\ Len(messages') = Len(messages) + 1
      BY <2>9, AppendToQueue DEF Send
    <3>2. QED
      BY <2>9, <3>1 DEF Send
  <2>10. CASE ReadFails
    BY <2>10 DEF ReadFails
  <2>11. CASE ReadRequest
    <3>1. stdin' \in Seq(Ids \cup {Notification}) /\ Len(stdin') <= InCap
          /\ Head(stdin) \in Ids \cup {Notification}
      BY <2>11, TailOfQueue DEF ReadRequest
    <3>2. QED
      BY <2>11, <3>1 DEF ReadRequest
  <2>12. ASSUME server = "run", ran' = Append(ran, request)
         PROVE  ran' \in Seq(Ids)
    BY <2>12, AppendToQueue
  <2>13. ASSUME server = "write", Len(stdout) < OutCap, NEW out \in Lines, stdout' = Append(stdout, out)
         PROVE  stdout' \in Seq(Lines) /\ Len(stdout') <= OutCap
    BY <2>13, AppendToQueue
  <2>14. CASE RunTool
    BY <2>12, <2>14 DEF RunTool
  <2>15. CASE Respond
    BY <2>13, <2>15 DEF Respond, Lines
  <2>16. CASE ServeReturns
    BY <2>16 DEF ServeReturns
  <2>17. CASE Gone
    <3>1. ran' \in Seq(Ids) /\ stdout' \in Seq(Lines) /\ Len(stdout') <= OutCap
      BY <2>12, <2>13, <2>17 DEF Gone, Lines
    <3>2. QED
      BY <2>17, <3>1 DEF Gone
  <2>18. CASE UNCHANGED vars
    BY <2>18 DEF vars
  <2>19. QED
    BY <2>1, <2>2, <2>3, <2>4, <2>5, <2>6, <2>7, <2>8, <2>9, <2>10, <2>11, <2>14,
       <2>15, <2>16, <2>17, <2>18, Steps
<1>3. QED
  BY <1>1, <1>2, PTL DEF Spec

-------------------------------------------------------------------------------
(***************************************************************************)
(* The calls                                                               *)
(***************************************************************************)

\* The steps that leave the client's calls alone.
LEMMA CallsAlone ==
  ASSUME \/ ReadLine \/ Send \/ ReadFails \/ ReadRequest \/ RunTool \/ Respond
         \/ ServeReturns \/ Gone \/ UNCHANGED vars
  PROVE  UNCHANGED <<pc, nextID, outcome, answer>>
BY DEF ReadLine, Send, ReadFails, ReadRequest, RunTool, Respond, ServeReturns, Gone, vars, client

\* In every reachable state the calls up to nextID were made, one at a time, and
\* those that succeeded have their own answer (Client.call).
THEOREM CallsCorrect == Spec => []CallsInv
<1>1. Init => CallsInv
  BY DEF Init, CallsInv, Ids
<1>2. TypeOK /\ CallsInv /\ [Next]_vars => CallsInv'
  <2> SUFFICES ASSUME TypeOK, CallsInv, [Next]_vars
               PROVE  CallsInv'
    OBVIOUS
  <2> USE DEF CallsInv, client
  <2>1. CASE Begin
    <3>1. /\ pc = "idle" /\ pc' = "write" /\ nextID' = nextID + 1 /\ nextID + 1 \in Ids
          /\ outcome' = [outcome EXCEPT ![nextID + 1] = "open"] /\ answer' = answer
          /\ nextID \in Nat
      BY <2>1, CapacityAssumption DEF Begin, TypeOK, Ids
    <3>2. ASSUME NEW id \in Ids
          PROVE  /\ outcome'[id] = "new" <=> id > nextID'
                 /\ outcome'[id] = "open" <=> id = nextID'
                 /\ outcome'[id] = "done" => answer'[id] = id
      <4>1. CASE id = nextID + 1
        BY <3>1, <4>1 DEF TypeOK
      <4>2. CASE id # nextID + 1
        <5>1. outcome'[id] = outcome[id] /\ answer'[id] = answer[id]
          BY <3>1, <4>2 DEF TypeOK
        <5>2. id > nextID <=> id > nextID + 1
          BY <3>1, <4>2 DEF Ids
        <5>3. QED
          BY <3>1, <4>2, <5>1, <5>2
      <4>3. QED
        BY <4>1, <4>2
    <3>3. QED
      BY <3>1, <3>2
  <2>2. CASE ContextEnds \/ Close \/ KillTimer \/ Closed
    BY <2>2 DEF ContextEnds, Close, KillTimer, Closed
  <2>3. CASE Write
    <3>1. /\ pc \in {"write", "notify"} /\ UNCHANGED <<nextID, outcome, answer>>
          /\ pc' = IF pc = "write" THEN "wait" ELSE "idle"
      BY <2>3 DEF Write
    <3>2. QED
      BY <3>1
  <2>4. ASSUME NEW how \in Failures, pc \in {"write", "wait"}, Fail(how)
        PROVE  CallsInv'
    <3>1. /\ nextID \in Ids /\ outcome' = [outcome EXCEPT ![nextID] = how] /\ pc' = "idle"
          /\ UNCHANGED <<nextID, answer>> /\ how \notin {"new", "open", "done"}
          /\ ~(nextID > nextID)
      BY <2>4 DEF Fail, Failures, Ids, TypeOK
    <3>2. \A id \in Ids : outcome'[id] = IF id = nextID THEN how ELSE outcome[id]
      BY <3>1 DEF TypeOK
    <3>3. QED
      BY <3>1, <3>2
  <2>5. CASE WriteFails
    <3>1. CASE pc = "write"
      BY <2>4, <2>5, <3>1 DEF WriteFails, Failures
    <3>2. CASE pc # "write"
      BY <2>5, <3>2 DEF WriteFails
    <3>3. QED
      BY <3>1, <3>2
  <2>6. CASE Canceled \/ TransportClosed
    BY <2>4, <2>6 DEF Canceled, TransportClosed, Failures
  <2>7. CASE Receive
    <3>1. CASE Head(messages) = nextID
      <4>1. /\ nextID \in Ids /\ pc = "wait" /\ nextID' = nextID /\ ~(nextID > nextID)
            /\ outcome' = [outcome EXCEPT ![nextID] = "done"]
            /\ answer' = [answer EXCEPT ![nextID] = nextID]
            /\ pc' = IF nextID = 1 THEN "notify" ELSE "idle"
        BY <2>7, <3>1 DEF Receive, Answer, TypeOK, Ids
      <4>2. \A id \in Ids : /\ outcome'[id] = IF id = nextID THEN "done" ELSE outcome[id]
                            /\ answer'[id] = IF id = nextID THEN nextID ELSE answer[id]
        BY <4>1 DEF TypeOK
      <4>3. QED
        BY <4>1, <4>2
    <3>2. CASE Head(messages) # nextID
      BY <2>7, <3>2 DEF Receive
    <3>3. QED
      BY <3>1, <3>2
  <2>8. CASE UNCHANGED <<pc, nextID, outcome, answer>>
    BY <2>8
  <2>9. QED
    BY <2>1, <2>2, <2>3, <2>5, <2>6, <2>7, <2>8, CallsAlone, Steps
<1>3. QED
  BY <1>1, <1>2, TypeCorrect, PTL DEF Spec

\* The end of the process is not noticed before it (readLoop, StartProcess).
THEOREM ExitCorrect == Spec => []ExitInv
<1>1. Init => ExitInv
  BY DEF Init, ExitInv
<1>2. TypeOK /\ ExitInv /\ [Next]_vars => ExitInv'
  <2> SUFFICES ASSUME TypeOK, ExitInv, [Next]_vars
               PROVE  ExitInv'
    OBVIOUS
  <2> USE DEF ExitInv, client, loop, process
  <2>1. CASE Begin \/ ContextEnds \/ Write \/ WriteFails \/ Canceled \/ Close \/ KillTimer
    BY <2>1 DEF Begin, ContextEnds, Write, WriteFails, Fail, Canceled, Close, KillTimer
  <2>2. CASE TransportClosed \/ Receive
    BY <2>2 DEF TransportClosed, Fail, Receive, Answer
  <2>3. CASE Closed \/ ReadFails
    BY <2>3 DEF Closed, ReadFails
  <2>4. CASE ReadLine
    <3>1. /\ stdout' = Tail(stdout) /\ Head(stdout) = stdout[1] /\ 1 \in DOMAIN stdout
          /\ \A i \in DOMAIN Tail(stdout) : i + 1 \in DOMAIN stdout /\ Tail(stdout)[i] = stdout[i + 1]
      BY <2>4, TailOfQueue, HeadTailProperties DEF ReadLine, TypeOK
    <3>2. QED
      BY <2>4, <3>1 DEF ReadLine
  <2>5. CASE Send
    BY <2>5 DEF Send
  <2>6. CASE ReadRequest \/ RunTool \/ ServeReturns
    BY <2>6 DEF ReadRequest, RunTool, ServeReturns
  <2>7. CASE Respond
    <3>1. request \in Lines /\ request # Garbled /\ stdout' = Append(stdout, request)
      BY <2>7, CapacityAssumption DEF Respond, TypeOK, Lines, Ids, Garbled
    <3>2. \A i \in DOMAIN stdout' :
            (i \in DOMAIN stdout /\ stdout'[i] = stdout[i]) \/ stdout'[i] = request
      BY <3>1, AppendToQueue DEF TypeOK
    <3>3. QED
      BY <2>7, <3>1, <3>2 DEF Respond
  <2>8. CASE Gone
    BY <2>8 DEF Gone
  <2>9. CASE UNCHANGED vars
    BY <2>9 DEF vars
  <2>10. QED
    BY <2>1, <2>2, <2>3, <2>4, <2>5, <2>6, <2>7, <2>8, <2>9, Steps
<1>3. QED
  BY <1>1, <1>2, TypeCorrect, PTL DEF Spec

\* A call fails as "transport closed" only when the process is gone, whatever was
\* cancelled or left behind before (client.go:93-140).
THEOREM TransportClosedOnlyAfterExit == Spec => []ClosedMeansExited
<1>1. Init => ClosedMeansExited
  BY DEF Init, ClosedMeansExited
<1>2. TypeOK /\ ExitInv /\ ClosedMeansExited /\ [Next]_vars => ClosedMeansExited'
  <2> SUFFICES ASSUME TypeOK, ExitInv, ClosedMeansExited, [Next]_vars, NEW id \in Ids,
                      outcome'[id] = "closed"
               PROVE  server' = "exited"
    BY DEF ClosedMeansExited
  <2> USE DEF client, process
  <2>1. server = "exited" => server' = "exited"
    BY DEF Next, Begin, ContextEnds, Writing, Write, WriteFails, Select, Canceled, TransportClosed,
           Receive, Close, KillTimer, Closed, Reading, ReadLine, Send, ReadFails, Serving,
           ReadRequest, RunTool, Respond, ServeReturns, Die, Killed, Gone, vars
  <2>2. outcome'[id] = outcome[id] \/ WriteFails \/ TransportClosed
    <3>1. CASE Begin \/ Canceled \/ Receive
      BY <3>1 DEF Begin, Canceled, Fail, Receive, Answer, TypeOK
    <3>2. CASE UNCHANGED outcome
      BY <3>2
    <3>3. CASE ContextEnds \/ Write \/ Close \/ KillTimer \/ Closed
      BY <3>3 DEF ContextEnds, Write, Close, KillTimer, Closed
    <3>4. QED
      BY <3>1, <3>2, <3>3, CallsAlone, Steps
  <2>3. WriteFails => server = "exited"
    BY DEF WriteFails
  <2>4. TransportClosed => server = "exited"
    BY DEF TransportClosed, ExitInv
  <2>5. QED
    BY <2>1, <2>2, <2>3, <2>4 DEF ClosedMeansExited
<1>3. QED
  BY <1>1, <1>2, TypeCorrect, ExitCorrect, PTL DEF Spec

-------------------------------------------------------------------------------
(***************************************************************************)
(* The order on the way                                                    *)
(***************************************************************************)

Before(S, T) == \A i \in S, j \in T : i < j

InMessages == ToSet(messages) \cap Ids
InReader == IF reader = "send" THEN {line} ELSE {}
InStdout == ToSet(stdout) \cap Ids
InServer == IF server \in {"run", "write"} THEN {request} ELSE {}
InStdin == ToSet(stdin) \cap Ids
OnTheWay == InMessages \cup InReader \cup InStdout \cup InServer \cup InStdin

\* OnlyAbandonedCallsLag, place by place.
InOrder ==
  /\ Increasing(messages) /\ Increasing(stdout) /\ Increasing(stdin)
  /\ Before(InMessages, InReader) /\ Before(InMessages, InStdout)
  /\ Before(InMessages, InServer) /\ Before(InMessages, InStdin)
  /\ Before(InReader, InStdout) /\ Before(InReader, InServer) /\ Before(InReader, InStdin)
  /\ Before(InStdout, InServer) /\ Before(InStdout, InStdin)
  /\ Before(InServer, InStdin)
  /\ \A id \in OnTheWay : id \in Abandoned \/ (id = nextID /\ pc = "wait")

\* Five places in a row, and the pairs of them.
LEMMA FivePlaces ==
  ASSUME NEW P, NEW A, NEW B, NEW C, NEW D, NEW E, P = <<A, B, C, D, E>>
  PROVE  /\ (\A p, q \in 1..5 : p < q => \A i \in P[p], j \in P[q] : i < j)
              <=> /\ Before(A, B) /\ Before(A, C) /\ Before(A, D) /\ Before(A, E)
                  /\ Before(B, C) /\ Before(B, D) /\ Before(B, E)
                  /\ Before(C, D) /\ Before(C, E) /\ Before(D, E)
         /\ UNION {P[p] : p \in 1..5} = A \cup B \cup C \cup D \cup E
<1>1. P[1] = A /\ P[2] = B /\ P[3] = C /\ P[4] = D /\ P[5] = E
  OBVIOUS
<1>2. \A p \in 1..5 : p = 1 \/ p = 2 \/ p = 3 \/ p = 4 \/ p = 5
  OBVIOUS
<1>3. (\A p, q \in 1..5 : p < q => Before(P[p], P[q]))
        <=> /\ Before(A, B) /\ Before(A, C) /\ Before(A, D) /\ Before(A, E)
            /\ Before(B, C) /\ Before(B, D) /\ Before(B, E)
            /\ Before(C, D) /\ Before(C, E) /\ Before(D, E)
  BY <1>1, <1>2
<1>4. \A p, q \in 1..5 : Before(P[p], P[q]) <=> \A i \in P[p], j \in P[q] : i < j
  BY DEF Before
<1>5. UNION {P[p] : p \in 1..5} = A \cup B \cup C \cup D \cup E
  BY <1>1, <1>2
<1>6. QED
  BY <1>3, <1>4, <1>5

\* The two ways to say that only abandoned calls lag.
LEMMA LagIsInOrder == OnlyAbandonedCallsLag <=> InOrder
<1>1. Places = <<InMessages, InReader, InStdout, InServer, InStdin>>
  BY DEF Places, InMessages, InReader, InStdout, InServer, InStdin
<1>2. /\ (\A p, q \in 1..5 : p < q => \A i \in Places[p], j \in Places[q] : i < j)
           <=> /\ Before(InMessages, InReader) /\ Before(InMessages, InStdout)
               /\ Before(InMessages, InServer) /\ Before(InMessages, InStdin)
               /\ Before(InReader, InStdout) /\ Before(InReader, InServer) /\ Before(InReader, InStdin)
               /\ Before(InStdout, InServer) /\ Before(InStdout, InStdin) /\ Before(InServer, InStdin)
      /\ UNION {Places[p] : p \in 1..5} = OnTheWay
  BY <1>1, FivePlaces DEF OnTheWay
<1>3. (\A p \in 1..5 : \A id \in Places[p] : id \in Abandoned \/ (id = nextID /\ pc = "wait"))
        <=> \A id \in UNION {Places[p] : p \in 1..5} : id \in Abandoned \/ (id = nextID /\ pc = "wait")
  OBVIOUS
<1>4. QED
  BY <1>2, <1>3 DEF OnlyAbandonedCallsLag, InOrder

\* Messages never overtake each other, and only those of calls that gave up are
\* ahead of the current call's (client.go:121,143-145).
THEOREM LagCorrect == Spec => []OnlyAbandonedCallsLag
<1> USE CapacityAssumption
<1>1. Init => InOrder
  <2> SUFFICES ASSUME Init PROVE InOrder
    OBVIOUS
  <2>1. ToSet(<< >>) = {} /\ Increasing(<< >>)
    BY EmptySeq DEF ToSet, Increasing
  <2>2. InMessages = {} /\ InStdout = {} /\ InStdin = {} /\ InReader = {} /\ InServer = {}
    BY <2>1 DEF Init, InMessages, InStdout, InStdin, InReader, InServer
  <2>3. QED
    BY <2>1, <2>2 DEF Init, InOrder, OnTheWay, Before
<1>2. TypeOK /\ CallsInv /\ InOrder /\ [Next]_vars => InOrder'
  <2> SUFFICES ASSUME TypeOK, CallsInv, InOrder, [Next]_vars
               PROVE  InOrder'
    OBVIOUS
  <2> USE DEF client, loop, process
  <2>a. OnTheWay \subseteq Ids /\ InStdin \subseteq Ids /\ \A id \in OnTheWay : id <= nextID
    <3>1. OnTheWay \subseteq Ids /\ InStdin \subseteq Ids
      BY DEF OnTheWay, InMessages, InReader, InStdout, InServer, InStdin, TypeOK
    <3>2. \A id \in Abandoned : id <= nextID
      BY DEF Abandoned, CallsInv, TypeOK, Ids, Failures
    <3>3. QED
      BY <3>1, <3>2 DEF InOrder, TypeOK
  <2>b. ASSUME UNCHANGED <<messages, reader, line, stdout, server, request, stdin>>
        PROVE  /\ UNCHANGED <<InMessages, InReader, InStdout, InServer, InStdin, OnTheWay>>
               /\ Increasing(messages)' = Increasing(messages)
               /\ Increasing(stdout)' = Increasing(stdout)
               /\ Increasing(stdin)' = Increasing(stdin)
    BY <2>b DEF InMessages, InReader, InStdout, InServer, InStdin, OnTheWay, Increasing
  <2>c. ASSUME UNCHANGED <<messages, reader, line, stdout, server, request, stdin>>,
               \A id \in OnTheWay : id \in Abandoned' \/ (id = nextID' /\ pc' = "wait")
        PROVE  InOrder'
    BY <2>b, <2>c, Zenon DEF InOrder, Before
  <2>1. CASE Begin
    <3>1. \A id \in OnTheWay : id \in Abandoned /\ id # nextID + 1
      BY <2>1, <2>a DEF Begin, InOrder, TypeOK
    <3>2. \A id \in Abandoned : id # nextID + 1 => id \in Abandoned'
      BY <2>1 DEF Begin, Abandoned, TypeOK
    <3>3. QED
      BY <2>1, <2>c, <3>1, <3>2 DEF Begin
  <2>2. CASE ContextEnds \/ Close \/ KillTimer \/ Closed
    BY <2>2, <2>c DEF ContextEnds, Close, KillTimer, Closed, InOrder, Abandoned
  <2>3. CASE Write
    <3>1. \A id \in OnTheWay : id \in Abandoned
      BY <2>3 DEF Write, InOrder
    <3>2. CASE pc = "write"
      <4>1. nextID \in Ids /\ nextID \notin Abandoned /\ pc' = "wait" /\ stdin' = Append(stdin, nextID)
            /\ UNCHANGED <<messages, reader, line, stdout, server, request, nextID, outcome>>
        BY <2>3, <3>2 DEF Write, CallsInv, Abandoned, Failures
      <4>2. \A id \in OnTheWay : id < nextID
        BY <2>a, <3>1, <4>1 DEF Ids
      <4>3. InStdin' = InStdin \cup {nextID} /\ Increasing(stdin')
        BY <4>1, <4>2, AppendToQueue DEF InStdin, OnTheWay, TypeOK, InOrder
      <4>4. UNCHANGED <<InMessages, InReader, InStdout, InServer, Abandoned>>
            /\ Increasing(messages') /\ Increasing(stdout')
        BY <4>1 DEF InMessages, InReader, InStdout, InServer, Abandoned, InOrder
      <4>5. QED
        BY <3>1, <4>1, <4>2, <4>3, <4>4 DEF InOrder, Before, OnTheWay
    <3>3. CASE pc # "write"
      <4>1. stdin' = Append(stdin, Notification) /\ Notification \notin Ids
            /\ UNCHANGED <<messages, reader, line, stdout, server, request, nextID, outcome>>
        BY <2>3, <3>3 DEF Write, Notification, Ids
      <4>2. InStdin' = InStdin /\ Increasing(stdin')
        BY <4>1, AppendToQueue DEF InStdin, TypeOK, InOrder
      <4>3. UNCHANGED <<InMessages, InReader, InStdout, InServer, Abandoned>>
            /\ Increasing(messages') /\ Increasing(stdout')
        BY <4>1 DEF InMessages, InReader, InStdout, InServer, Abandoned, InOrder
      <4>4. QED
        BY <3>1, <4>2, <4>3 DEF InOrder, OnTheWay
    <3>4. QED
      BY <3>2, <3>3
  <2>4. ASSUME NEW how \in Failures, pc \in {"write", "wait"}, Fail(how),
               UNCHANGED <<messages, reader, line, stdout, server, request, stdin>>
        PROVE  InOrder'
    <3>1. nextID \in Ids /\ \A id \in Abandoned \cup {nextID} : id \in Abandoned'
      BY <2>4 DEF Fail, CallsInv, Abandoned, TypeOK
    <3>2. QED
      BY <2>4, <2>c, <3>1 DEF InOrder
  <2>5. CASE WriteFails
    <3>1. CASE pc = "write"
      BY <2>4, <2>5, <3>1 DEF WriteFails, Failures
    <3>2. CASE pc # "write"
      BY <2>5, <2>c, <3>2 DEF WriteFails, InOrder, Abandoned
    <3>3. QED
      BY <3>1, <3>2
  <2>6. CASE Canceled \/ TransportClosed
    BY <2>4, <2>6 DEF Canceled, TransportClosed, Failures
  <2>7. CASE Receive
    <3>1. /\ Head(messages) \in Ids /\ Increasing(messages')
          /\ InMessages = {Head(messages)} \cup InMessages'
          /\ Before({Head(messages)}, InMessages')
      BY <2>7, TailOfQueue DEF Receive, TypeOK, InOrder, InMessages, Before
    <3>2. UNCHANGED <<InReader, InStdout, InServer, InStdin>> /\ Increasing(stdout') /\ Increasing(stdin')
      BY <2>7 DEF Receive, InReader, InStdout, InServer, InStdin, InOrder
    <3>3. CASE Head(messages) = nextID
      <4>1. OnTheWay' \subseteq OnTheWay /\ Before({nextID}, OnTheWay')
        BY <3>1, <3>2, <3>3 DEF OnTheWay, InOrder, Before
      <4>2. nextID \in Nat /\ \A id \in OnTheWay' : id \in Nat /\ id <= nextID /\ nextID < id
        BY <2>a, <3>1, <3>3, <4>1 DEF Ids, Before
      <4>3. OnTheWay' = {}
        BY <4>2
      <4>4. QED
        BY <3>1, <3>2, <4>3 DEF InOrder, OnTheWay, Before
    <3>4. CASE Head(messages) # nextID
      <4>1. UNCHANGED <<pc, nextID, Abandoned>>
        BY <2>7, <3>4 DEF Receive, Abandoned
      <4>2. QED
        BY <3>1, <3>2, <4>1 DEF InOrder, OnTheWay, Before
    <3>5. QED
      BY <3>3, <3>4
  <2>d. ASSUME UNCHANGED <<pc, nextID, outcome>>
        PROVE  /\ UNCHANGED Abandoned
               /\ OnTheWay' \subseteq OnTheWay =>
                    \A id \in OnTheWay' : id \in Abandoned' \/ (id = nextID' /\ pc' = "wait")
    BY <2>d DEF Abandoned, InOrder
  <2>8. CASE ReadLine
    <3>1. Head(stdout) \in Lines /\ Increasing(stdout')
          /\ ToSet(stdout) = {Head(stdout)} \cup ToSet(stdout')
          /\ (Head(stdout) \in Ids => \A e \in ToSet(stdout') \cap Ids : Head(stdout) < e)
      BY <2>8, TailOfQueue DEF ReadLine, TypeOK, InOrder
    <3>2. UNCHANGED <<InMessages, InServer, InStdin>> /\ Increasing(messages') /\ Increasing(stdin')
      BY <2>8 DEF ReadLine, InMessages, InServer, InStdin, InOrder
    <3>3. InReader = {} /\ InStdout' \subseteq InStdout
      BY <2>8, <3>1 DEF ReadLine, InReader, InStdout
    <3>4. CASE Head(stdout) = Garbled
      <4>1. InReader' = {}
        BY <2>8, <3>4 DEF ReadLine, InReader
      <4>2. OnTheWay' \subseteq OnTheWay
        BY <3>2, <3>3, <4>1 DEF OnTheWay
      <4>3. QED
        BY <2>8, <2>d, <3>1, <3>2, <3>3, <4>1, <4>2, CallsAlone DEF InOrder, Before
    <3>5. CASE Head(stdout) # Garbled
      <4>1. Head(stdout) \in Ids /\ InReader' = {Head(stdout)}
        BY <2>8, <3>1, <3>5 DEF ReadLine, InReader, Lines
      <4>2. InStdout = InReader' \cup InStdout' /\ Before(InReader', InStdout')
        BY <3>1, <4>1 DEF InStdout, Before
      <4>3. OnTheWay' \subseteq OnTheWay
        BY <3>2, <3>3, <4>2 DEF OnTheWay
      <4>4. QED
        BY <2>8, <2>d, <3>1, <3>2, <3>3, <4>2, <4>3, CallsAlone DEF InOrder, Before
    <3>6. QED
      BY <3>4, <3>5
  <2>9. CASE Send
    <3>1. line \in Ids /\ InReader = {line} /\ InReader' = {}
          /\ UNCHANGED <<InStdout, InServer, InStdin>> /\ Increasing(stdout') /\ Increasing(stdin')
      BY <2>9 DEF Send, TypeOK, InReader, InStdout, InServer, InStdin, InOrder
    <3>2. InMessages' = InMessages \cup {line} /\ Increasing(messages')
      BY <2>9, <3>1, AppendToQueue DEF Send, InMessages, TypeOK, InOrder, Before
    <3>3. OnTheWay' \subseteq OnTheWay
      BY <3>1, <3>2 DEF OnTheWay
    <3>4. QED
      BY <2>9, <2>d, <3>1, <3>2, <3>3, CallsAlone DEF InOrder, Before
  <2>10. CASE ReadFails
    <3>1. InReader' = {} /\ UNCHANGED <<InMessages, InStdout, InServer, InStdin>>
          /\ Increasing(messages') /\ Increasing(stdout') /\ Increasing(stdin')
      BY <2>10 DEF ReadFails, InReader, InMessages, InStdout, InServer, InStdin, InOrder
    <3>2. OnTheWay' \subseteq OnTheWay
      BY <3>1 DEF OnTheWay
    <3>3. QED
      BY <2>10, <2>d, <3>1, <3>2, CallsAlone DEF InOrder, Before
  <2>11. CASE ReadRequest
    <3>1. /\ Head(stdin) \in Ids \cup {Notification} /\ Increasing(stdin')
          /\ ToSet(stdin) = {Head(stdin)} \cup ToSet(stdin')
          /\ (Head(stdin) \in Ids => \A e \in ToSet(stdin') \cap Ids : Head(stdin) < e)
      BY <2>11, TailOfQueue DEF ReadRequest, TypeOK, InOrder
    <3>2. UNCHANGED <<InMessages, InReader, InStdout>> /\ Increasing(messages') /\ Increasing(stdout')
      BY <2>11 DEF ReadRequest, InMessages, InReader, InStdout, InOrder
    <3>3. InServer = {} /\ InStdin' \subseteq InStdin
      BY <2>11, <3>1 DEF ReadRequest, InServer, InStdin
    <3>4. CASE Head(stdin) = Notification
      <4>1. InServer' = {}
        BY <2>11, <3>4 DEF ReadRequest, InServer
      <4>2. OnTheWay' \subseteq OnTheWay
        BY <3>2, <3>3, <4>1 DEF OnTheWay
      <4>3. QED
        BY <2>11, <2>d, <3>1, <3>2, <3>3, <4>1, <4>2, CallsAlone DEF InOrder, Before
    <3>5. CASE Head(stdin) # Notification
      <4>1. Head(stdin) \in Ids /\ InServer' = {Head(stdin)}
        BY <2>11, <3>1, <3>5 DEF ReadRequest, InServer
      <4>2. InStdin = InServer' \cup InStdin' /\ Before(InServer', InStdin')
        BY <3>1, <4>1 DEF InStdin, Before
      <4>3. OnTheWay' \subseteq OnTheWay
        BY <3>2, <3>3, <4>2 DEF OnTheWay
      <4>4. QED
        BY <2>11, <2>d, <3>1, <3>2, <3>3, <4>2, <4>3, CallsAlone DEF InOrder, Before
    <3>6. QED
      BY <3>4, <3>5
  <2>12. CASE RunTool
    <3>1. UNCHANGED <<InMessages, InReader, InStdout, InServer, InStdin>>
          /\ Increasing(messages') /\ Increasing(stdout') /\ Increasing(stdin')
      BY <2>12 DEF RunTool, InReader, InMessages, InStdout, InServer, InStdin, InOrder
    <3>2. OnTheWay' \subseteq OnTheWay
      BY <3>1 DEF OnTheWay
    <3>3. QED
      BY <2>12, <2>d, <3>1, <3>2, CallsAlone DEF InOrder, Before
  <2>13. CASE Respond
    <3>1. request \in Ids /\ request \in Lines /\ InServer = {request} /\ InServer' = {}
          /\ UNCHANGED <<InMessages, InReader, InStdin>> /\ Increasing(messages') /\ Increasing(stdin')
      BY <2>13 DEF Respond, TypeOK, Lines, InMessages, InReader, InServer, InStdin, InOrder
    <3>2. InStdout' = InStdout \cup {request} /\ Increasing(stdout')
      BY <2>13, <3>1, AppendToQueue DEF Respond, InStdout, TypeOK, InOrder, Before
    <3>3. OnTheWay' \subseteq OnTheWay
      BY <3>1, <3>2 DEF OnTheWay
    <3>4. QED
      BY <2>13, <2>d, <3>1, <3>2, <3>3, CallsAlone DEF InOrder, Before
  <2>14. CASE ServeReturns \/ Gone
    <3>1. InServer' = {} /\ UNCHANGED <<InMessages, InReader, InStdin>>
          /\ Increasing(messages') /\ Increasing(stdin')
      BY <2>14 DEF ServeReturns, Gone, InMessages, InReader, InServer, InStdin, InOrder
    <3>2. InStdout' = InStdout /\ Increasing(stdout')
      <4>1. CASE UNCHANGED stdout
        BY <4>1 DEF InStdout, InOrder
      <4>2. CASE stdout' = Append(stdout, Garbled)
        <5>1. Garbled \in Lines /\ Garbled \notin Ids
          BY DEF Garbled, Lines, Ids
        <5>2. QED
          BY <4>2, <5>1, AppendToQueue DEF InStdout, InOrder, TypeOK
      <4>3. QED
        BY <2>14, <4>1, <4>2 DEF ServeReturns, Gone
    <3>3. OnTheWay' \subseteq OnTheWay
      BY <3>1, <3>2 DEF OnTheWay
    <3>4. QED
      BY <2>14, <2>d, <3>1, <3>2, <3>3, CallsAlone DEF InOrder, Before
  <2>15. CASE UNCHANGED vars
    BY <2>15, <2>c DEF vars, InOrder, Abandoned
  <2>16. QED
    BY <2>1, <2>2, <2>3, <2>5, <2>6, <2>7, <2>8, <2>9, <2>10, <2>11, <2>12, <2>13, <2>14, <2>15, Steps
<1>3. QED
  BY <1>1, <1>2, TypeCorrect, CallsCorrect, LagIsInOrder, PTL DEF Spec

\* The notification is sent when nothing else is on the way (Client.Initialize).
THEOREM NotificationCorrect == Spec => []NotificationInv
<1> USE CapacityAssumption
<1>1. Init => NotificationInv
  BY EmptySeq DEF Init, NotificationInv
<1>2. TypeOK /\ CallsInv /\ InOrder /\ NotificationInv /\ [Next]_vars => NotificationInv'
  <2> SUFFICES ASSUME TypeOK, CallsInv, InOrder, NotificationInv, [Next]_vars
               PROVE  NotificationInv'
    OBVIOUS
  <2> USE DEF NotificationInv, client, loop, process
  <2>a. ASSUME UNCHANGED <<stdin, server>>, pc' = "notify" => pc = "notify",
               outcome[1] = "done" => outcome'[1] = "done"
        PROVE  NotificationInv'
    BY <2>a
  <2>1. CASE Begin
    <3>1. outcome[1] = "done" => outcome'[1] = "done"
      BY <2>1 DEF Begin, CallsInv, TypeOK, Ids
    <3>2. QED
      BY <2>1, <2>a, <3>1 DEF Begin
  <2>2. CASE ContextEnds \/ Close \/ KillTimer \/ Closed
    BY <2>2, <2>a DEF ContextEnds, Close, KillTimer, Closed
  <2>3. CASE Write
    <3>1. pc' # "notify" /\ UNCHANGED <<server, outcome>>
      BY <2>3 DEF Write
    <3>2. CASE pc = "write"
      <4>1. nextID \in Ids /\ nextID # Notification /\ stdin' = Append(stdin, nextID)
        BY <2>3, <3>2 DEF Write, CallsInv, Ids, Notification
      <4>2. \A i \in DOMAIN stdin' : (i \in DOMAIN stdin /\ stdin'[i] = stdin[i]) \/ stdin'[i] = nextID
        BY <4>1, AppendToQueue DEF TypeOK
      <4>3. QED
        BY <3>1, <4>1, <4>2
    <3>3. CASE pc = "notify"
      <4>1. stdin = << >> /\ stdin' = <<Notification>> /\ outcome[1] = "done"
            /\ server \in {"read", "exited"}
        BY <2>3, <3>3 DEF Write, CallsInv
      <4>2. DOMAIN stdin' = {1}
        BY <4>1
      <4>3. QED
        BY <3>1, <4>1, <4>2
    <3>4. QED
      BY <2>3, <3>2, <3>3 DEF Write
  <2>4. ASSUME NEW how \in Failures, pc \in {"write", "wait"}, Fail(how), UNCHANGED <<stdin, server>>
        PROVE  NotificationInv'
    <3>1. pc' = "idle" /\ (outcome[1] = "done" => outcome'[1] = "done")
      BY <2>4 DEF Fail, CallsInv, TypeOK, Ids, Failures
    <3>2. QED
      BY <2>4, <2>a, <3>1
  <2>5. CASE WriteFails
    <3>1. CASE pc = "write"
      BY <2>4, <2>5, <3>1 DEF WriteFails, Failures
    <3>2. CASE pc # "write"
      BY <2>5, <2>a, <3>2 DEF WriteFails
    <3>3. QED
      BY <3>1, <3>2
  <2>6. CASE Canceled \/ TransportClosed
    BY <2>4, <2>6 DEF Canceled, TransportClosed, Failures
  <2>7. CASE Receive
    <3>1. CASE Head(messages) # nextID
      BY <2>7, <2>a, <3>1 DEF Receive
    <3>2. CASE Head(messages) = nextID
      <4>1. /\ UNCHANGED <<stdin, server>> /\ nextID \in Ids /\ outcome[nextID] = "open"
            /\ outcome' = [outcome EXCEPT ![nextID] = "done"]
            /\ pc' = IF nextID = 1 THEN "notify" ELSE "idle"
        BY <2>7, <3>2 DEF Receive, Answer, CallsInv
      <4>2. outcome[1] = "done" => outcome'[1] = "done"
        BY <4>1 DEF TypeOK
      <4>3. CASE nextID # 1
        BY <2>a, <4>1, <4>2, <4>3
      <4>4. CASE nextID = 1
        <5>1. nextID \in InMessages
          BY <2>7, <3>2, <4>1, TailOfQueue DEF Receive, TypeOK, InMessages
        <5>2. \A id \in InServer \cup InStdin : id \in Ids /\ id > 1
          BY <4>4, <5>1 DEF InOrder, Before, InServer, InStdin, TypeOK
        <5>3. \A id \in InServer \cup InStdin : id \notin Abandoned /\ id # nextID
          BY <4>1, <4>4, <5>2 DEF CallsInv, Abandoned, Ids, Failures
        <5>4. InServer = {} /\ InStdin = {}
          BY <5>3 DEF InOrder, OnTheWay
        <5>5. server \in {"read", "exited"}
          BY <5>4 DEF InServer, TypeOK
        <5>6. \A i \in DOMAIN stdin : stdin[i] \in Ids \cup {Notification} /\ stdin[i] # Notification
          BY <4>1, <4>4, ElementOfSeq DEF TypeOK
        <5>7. DOMAIN stdin = {}
          BY <5>4, <5>6 DEF InStdin, ToSet
        <5>8. stdin = << >>
          BY <5>7, EmptySeq DEF TypeOK
        <5>9. QED
          BY <4>1, <4>2, <5>5, <5>7, <5>8
      <4>5. QED
        BY <4>3, <4>4
    <3>3. QED
      BY <3>1, <3>2
  <2>8. CASE ReadLine \/ Send \/ ReadFails
    BY <2>8, <2>a DEF ReadLine, Send, ReadFails
  <2>9. CASE ReadRequest
    <3>1. /\ stdin' = Tail(stdin) /\ stdin # << >> /\ UNCHANGED <<pc, outcome>>
          /\ DOMAIN Tail(stdin) \subseteq Nat \ {0}
          /\ \A i \in DOMAIN Tail(stdin) : i + 1 \in DOMAIN stdin /\ Tail(stdin)[i] = stdin[i + 1]
      BY <2>9, TailOfQueue DEF ReadRequest, TypeOK
    <3>2. \A i \in DOMAIN stdin' : stdin'[i] # Notification
      BY <3>1
    <3>3. QED
      BY <3>1, <3>2
  <2>10. CASE RunTool \/ Respond \/ ServeReturns \/ Gone
    BY <2>10 DEF RunTool, Respond, ServeReturns, Gone
  <2>11. CASE UNCHANGED vars
    BY <2>11, <2>a DEF vars
  <2>12. QED
    BY <2>1, <2>2, <2>3, <2>5, <2>6, <2>7, <2>8, <2>9, <2>10, <2>11, Steps
<1>3. QED
  BY <1>1, <1>2, TypeCorrect, CallsCorrect, LagCorrect, LagIsInOrder, PTL DEF Spec

\* In an increasing queue of ids none occurs twice.
LEMMA DistinctInQueue ==
  ASSUME NEW s \in Seq(Ids), Increasing(s)
  PROVE  IsFiniteSet(ToSet(s)) /\ Cardinality(ToSet(s)) = Len(s)
<1>1. Len(s) \in Nat /\ s \in [1..Len(s) -> Ids] /\ DOMAIN s = 1..Len(s)
  OBVIOUS
<1>2. s \in [1..Len(s) -> ToSet(s)] /\ \A e \in ToSet(s) : \E i \in 1..Len(s) : s[i] = e
  BY <1>1 DEF ToSet
<1>3. \A i, j \in 1..Len(s) : i < j => s[i] < s[j]
  BY <1>1 DEF Increasing
<1>4. \A i, j \in 1..Len(s) : s[i] = s[j] => i = j
  <2>1. \A i \in 1..Len(s) : s[i] \in Nat
    BY <1>1 DEF Ids
  <2>2. QED
    BY <1>3, <2>1
<1>5. s \in Surjection(1..Len(s), ToSet(s)) /\ s \in Injection(1..Len(s), ToSet(s))
  BY <1>2, <1>4 DEF Surjection, Injection, IsInjective
<1>6. IsFiniteSet(1..Len(s)) /\ Cardinality(1..Len(s)) = Len(s)
  BY <1>1, FS_Interval
<1>7. QED
  BY <1>5, <1>6, FS_Surjection

\* Sets that come one after another have as many elements as all of them.
LEMMA BeforeAdds ==
  ASSUME NEW S, NEW T, IsFiniteSet(S), IsFiniteSet(T), S \subseteq Nat, T \subseteq Nat, Before(S, T)
  PROVE  IsFiniteSet(S \cup T) /\ Cardinality(S \cup T) = Cardinality(S) + Cardinality(T)
<1>1. S \cap T = {}
  BY DEF Before
<1>2. Cardinality(S \cap T) = 0
  BY <1>1, FS_EmptySet
<1>3. /\ IsFiniteSet(S \cup T)
      /\ Cardinality(S \cup T) = Cardinality(S) + Cardinality(T) - Cardinality(S \cap T)
  BY FS_Union
<1>4. Cardinality(S) \in Nat /\ Cardinality(T) \in Nat
  BY FS_CardinalityType
<1>5. QED
  BY <1>2, <1>3, <1>4

\* The pipes and the channel are full and nobody can go on only when that many
\* calls gave up (client.go:121,143-145 and the capacity at client.go:42).
THEOREM BacklogNeeded == Spec => []CircularWaitNeedsBacklog
<1> USE CapacityAssumption
<1>1. TypeOK /\ InOrder /\ ExitInv /\ NotificationInv => CircularWaitNeedsBacklog
  <2> SUFFICES ASSUME TypeOK, InOrder, ExitInv, NotificationInv, CircularWait
               PROVE  Cardinality(Abandoned) >= Buffer + OutCap + InCap + 2
    BY DEF CircularWaitNeedsBacklog
  <2> USE DEF CircularWait
  <2>1. messages \in Seq(Ids) /\ InMessages = ToSet(messages)
    BY DEF TypeOK, InMessages, ToSet
  <2>2. stdout \in Seq(Ids) /\ InStdout = ToSet(stdout)
    <3>1. \A i \in 1..Len(stdout) : stdout[i] \in Ids
      <4>1. stdout \in Seq(Lines) /\ DOMAIN stdout = 1..Len(stdout)
        BY DEF TypeOK
      <4>2. \A i \in 1..Len(stdout) : stdout[i] \in Lines
        BY <4>1, ElementOfSeq
      <4>3. \A i \in 1..Len(stdout) : stdout[i] # Garbled
        BY <4>1 DEF ExitInv
      <4>4. QED
        BY <4>2, <4>3 DEF Lines
    <3>2. stdout \in Seq(Ids)
      BY <3>1 DEF TypeOK
    <3>3. QED
      BY <3>2 DEF InStdout, ToSet
  <2>3. stdin \in Seq(Ids) /\ InStdin = ToSet(stdin)
    <3>1. \A i \in 1..Len(stdin) : stdin[i] \in Ids
      <4>1. stdin \in Seq(Ids \cup {Notification}) /\ DOMAIN stdin = 1..Len(stdin)
        BY DEF TypeOK
      <4>2. \A i \in 1..Len(stdin) : stdin[i] \in Ids \cup {Notification}
        BY <4>1, ElementOfSeq
      <4>3. \A i \in 1..Len(stdin) : stdin[i] # Notification
        BY <4>1 DEF NotificationInv
      <4>4. QED
        BY <4>2, <4>3
    <3>2. stdin \in Seq(Ids)
      BY <3>1 DEF TypeOK
    <3>3. QED
      BY <3>2 DEF InStdin, ToSet
  <2>4. /\ IsFiniteSet(InMessages) /\ Cardinality(InMessages) = Buffer
        /\ IsFiniteSet(InStdout) /\ Cardinality(InStdout) = OutCap
        /\ IsFiniteSet(InStdin) /\ Cardinality(InStdin) = InCap
    BY <2>1, <2>2, <2>3, DistinctInQueue DEF InOrder
  <2>5. /\ IsFiniteSet(InReader) /\ Cardinality(InReader) = 1
        /\ IsFiniteSet(InServer) /\ Cardinality(InServer) = 1
    BY FS_Singleton DEF InReader, InServer
  <2>6. /\ InMessages \subseteq Nat /\ InReader \subseteq Nat /\ InStdout \subseteq Nat
        /\ InServer \subseteq Nat /\ InStdin \subseteq Nat
    BY DEF InMessages, InReader, InStdout, InServer, InStdin, TypeOK, Ids
  <2> DEFINE A == InMessages
             B == A \cup InReader
             C == B \cup InStdout
             D == C \cup InServer
             E == D \cup InStdin
  <2>7. Before(A, InReader) /\ Before(B, InStdout) /\ Before(C, InServer) /\ Before(D, InStdin)
    BY DEF InOrder, Before
  <2>8. IsFiniteSet(B) /\ B \subseteq Nat /\ Cardinality(B) = Buffer + 1
    <3> HIDE DEF A
    <3>1. IsFiniteSet(A) /\ Cardinality(A) = Buffer /\ A \subseteq Nat
      BY <2>4, <2>6 DEF A
    <3>2. IsFiniteSet(B) /\ Cardinality(B) = Cardinality(A) + Cardinality(InReader)
      BY <2>5, <2>6, <2>7, <3>1, BeforeAdds
    <3>3. QED
      BY <2>5, <2>6, <3>1, <3>2
  <2>9. IsFiniteSet(C) /\ C \subseteq Nat /\ Cardinality(C) = Buffer + 1 + OutCap
    <3> HIDE DEF B
    <3>1. IsFiniteSet(C) /\ Cardinality(C) = Cardinality(B) + Cardinality(InStdout)
      BY <2>4, <2>6, <2>7, <2>8, BeforeAdds
    <3>2. QED
      BY <2>4, <2>6, <2>7, <2>8, <3>1
  <2>10. IsFiniteSet(D) /\ D \subseteq Nat /\ Cardinality(D) = Buffer + 1 + OutCap + 1
    <3> HIDE DEF C
    <3>1. IsFiniteSet(D) /\ Cardinality(D) = Cardinality(C) + Cardinality(InServer)
      BY <2>5, <2>6, <2>7, <2>9, BeforeAdds
    <3>2. QED
      BY <2>5, <2>6, <2>7, <2>9, <3>1
  <2>11. Cardinality(E) = Buffer + 1 + OutCap + 1 + InCap
    <3> HIDE DEF D
    <3>1. Cardinality(E) = Cardinality(D) + Cardinality(InStdin)
      BY <2>4, <2>6, <2>7, <2>10, BeforeAdds
    <3>2. QED
      BY <2>4, <2>10, <3>1
  <2>12. E \subseteq Abandoned
    BY DEF InOrder, OnTheWay
  <2>13. IsFiniteSet(Abandoned)
    <3>1. IsFiniteSet(Ids) /\ Abandoned \subseteq Ids
      BY FS_Interval DEF Ids, Abandoned
    <3>2. QED
      BY <3>1, FS_Subset
  <2>14. Cardinality(E) <= Cardinality(Abandoned) /\ Cardinality(Abandoned) \in Nat
    BY <2>12, <2>13, FS_Subset, FS_CardinalityType
  <2> HIDE DEF E
  <2>15. QED
    BY <2>11, <2>14
<1>2. QED
  BY <1>1, TypeCorrect, LagCorrect, LagIsInOrder, ExitCorrect, NotificationCorrect, PTL

-------------------------------------------------------------------------------
(***************************************************************************)
(* At-most-once calls                                                      *)
(***************************************************************************)

\* RunsInv, about the set of the calls that ran.
RanInOrder ==
  /\ \A id \in ToSet(ran) : id <= nextID /\ (id = nextID => pc # "write")
  /\ Before(ToSet(ran), InStdin)
  /\ server = "run" => \A id \in ToSet(ran) : id < request
  /\ server = "write" => request \in ToSet(ran)
  /\ InReader \subseteq ToSet(ran)
  /\ (ToSet(messages) \cup ToSet(stdout)) \cap Ids \subseteq ToSet(ran)

\* The same for what ran.
LEMMA RunsIsRanInOrder == RunsInv <=> RanInOrder
<1>1. \A id : id \in ToSet(ran) <=> \E i \in DOMAIN ran : ran[i] = id
  BY DEF ToSet
<1>2. /\ (\A i \in DOMAIN ran : ran[i] <= nextID /\ (ran[i] = nextID => pc # "write"))
           <=> \A id \in ToSet(ran) : id <= nextID /\ (id = nextID => pc # "write")
      /\ (\A id \in ToSet(stdin) \cap Ids : \A i \in DOMAIN ran : ran[i] < id)
           <=> Before(ToSet(ran), InStdin)
      /\ (\A i \in DOMAIN ran : ran[i] < request) <=> \A id \in ToSet(ran) : id < request
  BY <1>1 DEF Before, InStdin
<1>3. (reader = "send" => line \in ToSet(ran)) <=> InReader \subseteq ToSet(ran)
  BY DEF InReader
<1>4. QED
  BY <1>2, <1>3 DEF RunsInv, RanInOrder

\* In every reachable state the tools ran in the order of the calls, each once,
\* and what comes back is of tools that ran (Serve handles one request at a time).
THEOREM RunsCorrect == Spec => []RunsInv
<1> USE CapacityAssumption
<1>1. Init => RanInOrder
  <2>1. ToSet(<< >>) = {}
    BY EmptySeq DEF ToSet
  <2>2. QED
    BY <2>1 DEF Init, RanInOrder, Before, InStdin, InReader
<1>2. TypeOK /\ CallsInv /\ InOrder /\ RanInOrder /\ [Next]_vars => RanInOrder'
  <2> SUFFICES ASSUME TypeOK, CallsInv, InOrder, RanInOrder, [Next]_vars
               PROVE  RanInOrder'
    OBVIOUS
  <2> USE DEF client, loop, process
  <2>a. nextID \in Nat /\ ToSet(ran) \subseteq Ids /\ InServer \subseteq Ids /\ InStdin \subseteq Ids
    <3>1. ToSet(ran) \subseteq Ids
      BY ElementOfSeq DEF TypeOK, ToSet
    <3>2. QED
      BY <3>1 DEF TypeOK, InServer, InStdin
  <2>b. ASSUME UNCHANGED <<ran, stdin, server, request, reader, line, messages, stdout, nextID>>,
               pc' = "write" => pc = "write"
        PROVE  RanInOrder'
    BY <2>b, Zenon DEF RanInOrder, InStdin, InReader, Before, ToSet
  <2>c. ASSUME UNCHANGED <<nextID, pc>>
        PROVE  (\A id \in ToSet(ran) : id <= nextID' /\ (id = nextID' => pc' # "write"))
    BY <2>c DEF RanInOrder
  <2>1. CASE Begin
    <3>1. /\ nextID' = nextID + 1 /\ \A id \in ToSet(ran) : id <= nextID + 1 /\ id # nextID + 1
          /\ UNCHANGED <<ran, stdin, server, request, reader, line, messages, stdout>>
      BY <2>1, <2>a DEF Begin, RanInOrder, Ids
    <3>2. QED
      BY <3>1, Zenon DEF RanInOrder, InStdin, InReader, Before
  <2>2. CASE ContextEnds \/ Close \/ KillTimer \/ Closed
    BY <2>2, <2>b DEF ContextEnds, Close, KillTimer, Closed
  <2>3. CASE Write
    <3>1. /\ UNCHANGED <<ran, server, request, reader, line, messages, stdout, nextID>> /\ pc' # "write"
      BY <2>3 DEF Write
    <3>2. Before(ToSet(ran), InStdin')
      <4>1. CASE pc = "write"
        <5>1. nextID \in Ids /\ InStdin' = InStdin \cup {nextID}
          <6>1. /\ nextID \in Ids /\ stdin \in Seq(Ids \cup {Notification})
                /\ stdin' = Append(stdin, nextID)
            BY <2>3, <4>1 DEF Write, CallsInv, TypeOK
          <6>2. ToSet(stdin') = ToSet(stdin) \cup {nextID}
            BY <6>1, AppendToQueue
          <6>3. QED
            BY <6>1, <6>2 DEF InStdin
        <5>2. \A id \in ToSet(ran) : id \in Nat /\ id <= nextID /\ id # nextID
          BY <2>a, <4>1 DEF RanInOrder, Ids
        <5>3. QED
          BY <2>a, <5>1, <5>2 DEF RanInOrder, Before
      <4>2. CASE pc # "write"
        <5>1. InStdin' = InStdin
          <6>1. /\ Notification \notin Ids /\ stdin \in Seq(Ids \cup {Notification})
                /\ stdin' = Append(stdin, Notification)
            BY <2>3, <4>2 DEF Write, TypeOK, Notification, Ids
          <6>2. ToSet(stdin') = ToSet(stdin) \cup {Notification}
            BY <6>1, AppendToQueue
          <6>3. QED
            BY <6>1, <6>2 DEF InStdin
        <5>2. QED
          BY <5>1 DEF RanInOrder
      <4>3. QED
        BY <4>1, <4>2
    <3>3. QED
      BY <3>1, <3>2, Zenon DEF RanInOrder, InReader, Before
  <2>4. CASE WriteFails \/ Canceled \/ TransportClosed
    BY <2>4, <2>b DEF WriteFails, Canceled, TransportClosed, Fail
  <2>5. CASE Receive
    <3>1. ToSet(messages') \subseteq ToSet(messages)
      BY <2>5, TailOfQueue DEF Receive, TypeOK
    <3>2. UNCHANGED <<ran, stdin, server, request, reader, line, stdout, nextID>>
          /\ (pc' = "write" => pc = "write")
      BY <2>5 DEF Receive, Answer
    <3>3. QED
      BY <3>1, <3>2 DEF RanInOrder, InStdin, InReader, Before
  <2>6. CASE ReadLine
    <3>1. ToSet(stdout') \subseteq ToSet(stdout) /\ Head(stdout) \in ToSet(stdout)
          /\ Head(stdout) \in Lines
      BY <2>6, TailOfQueue DEF ReadLine, TypeOK
    <3>2. UNCHANGED <<ran, stdin, server, request, messages, nextID, pc>>
      BY <2>6 DEF ReadLine
    <3>3. InReader' \subseteq ToSet(stdout) \cap Ids
      BY <2>6, <3>1 DEF ReadLine, InReader, Lines
    <3>4. QED
      BY <3>1, <3>2, <3>3 DEF RanInOrder, InStdin, Before
  <2>7. CASE Send
    <3>1. ToSet(messages') = ToSet(messages) \cup {line} /\ InReader = {line} /\ InReader' = {}
      BY <2>7, AppendToQueue DEF Send, TypeOK, InReader
    <3>2. UNCHANGED <<ran, stdin, server, request, stdout, nextID, pc>>
      BY <2>7 DEF Send
    <3>3. QED
      BY <3>1, <3>2 DEF RanInOrder, InStdin, Before
  <2>8. CASE ReadFails
    <3>1. UNCHANGED <<ran, stdin, server, request, stdout, messages, nextID, pc>> /\ InReader' = {}
      BY <2>8 DEF ReadFails, InReader
    <3>2. QED
      BY <3>1 DEF RanInOrder, InStdin, Before
  <2>9. CASE ReadRequest
    <3>1. /\ Head(stdin) \in Ids \cup {Notification}
          /\ ToSet(stdin) = {Head(stdin)} \cup ToSet(stdin')
      BY <2>9, TailOfQueue DEF ReadRequest, TypeOK
    <3>2. /\ UNCHANGED <<ran, reader, line, stdout, messages, nextID, pc>>
          /\ InStdin' \subseteq InStdin /\ server' # "write"
          /\ (server' = "run" => request' = Head(stdin) /\ Head(stdin) \in InStdin)
      BY <2>9, <3>1 DEF ReadRequest, InStdin
    <3>3. QED
      BY <3>1, <3>2 DEF RanInOrder, InReader, Before
  <2>10. ASSUME server = "run", ran' = Append(ran, request), server' # "run", request' = request,
                UNCHANGED <<stdin, stdout, messages, reader, line, nextID, pc>>
         PROVE  RanInOrder'
    <3>1. ToSet(ran') = ToSet(ran) \cup {request} /\ InServer = {request}
      BY <2>10, AppendToQueue DEF TypeOK, InServer
    <3>2. request <= nextID /\ (request = nextID => pc # "write")
      <4>1. request \in Ids /\ (request \in Abandoned \/ (request = nextID /\ pc = "wait"))
        BY <2>a, <3>1 DEF InOrder, OnTheWay
      <4>2. request \in Abandoned => ~(request > nextID) /\ (pc = "write" => request # nextID)
        BY <4>1 DEF CallsInv, Abandoned, Failures
      <4>3. QED
        BY <2>a, <4>1, <4>2 DEF Ids
    <3>3. Before({request}, InStdin)
      BY <3>1 DEF InOrder
    <3>4. QED
      BY <2>10, <3>1, <3>2, <3>3 DEF RanInOrder, InStdin, InReader, Before
  <2>11. CASE RunTool
    BY <2>10, <2>11 DEF RunTool
  <2>12. CASE Respond
    <3>1. ToSet(stdout') = ToSet(stdout) \cup {request} /\ request \in ToSet(ran)
      <4>1. /\ request \in Lines /\ stdout \in Seq(Lines) /\ stdout' = Append(stdout, request)
            /\ request \in ToSet(ran)
        BY <2>12 DEF Respond, TypeOK, Lines, RanInOrder
      <4>2. QED
        BY <4>1, AppendToQueue
    <3>2. UNCHANGED <<ran, stdin, messages, reader, line, nextID, pc>> /\ server' = "read"
      BY <2>12 DEF Respond
    <3>3. QED
      BY <3>1, <3>2 DEF RanInOrder, InStdin, InReader, Before
  <2>13. ASSUME server' = "exited", UNCHANGED <<ran, stdin, messages, reader, line, nextID, pc>>,
                ToSet(stdout') \cap Ids = ToSet(stdout) \cap Ids
         PROVE  RanInOrder'
    BY <2>13 DEF RanInOrder, InStdin, InReader, Before
  <2>14. CASE ServeReturns
    BY <2>13, <2>14 DEF ServeReturns
  <2>15. CASE Gone
    <3>1. CASE UNCHANGED <<ran, stdout>>
      BY <2>13, <2>15, <3>1 DEF Gone
    <3>2. CASE server = "run" /\ ran' = Append(ran, request) /\ UNCHANGED stdout
      BY <2>10, <2>15, <3>2 DEF Gone
    <3>3. CASE stdout' = Append(stdout, Garbled) /\ UNCHANGED ran
      <4>1. ToSet(stdout') \cap Ids = ToSet(stdout) \cap Ids
        <5>1. Garbled \in Lines /\ Garbled \notin Ids
          BY DEF Garbled, Lines, Ids
        <5>2. stdout \in Seq(Lines)
          BY DEF TypeOK
        <5>3. ToSet(stdout') = ToSet(stdout) \cup {Garbled}
          BY <3>3, <5>1, <5>2, AppendToQueue
        <5>4. QED
          BY <5>1, <5>3
      <4>2. QED
        BY <2>13, <2>15, <3>3, <4>1 DEF Gone
    <3>4. QED
      BY <2>15, <3>1, <3>2, <3>3 DEF Gone
  <2>16. CASE UNCHANGED vars
    BY <2>16, <2>b DEF vars
  <2>17. QED
    BY <2>1, <2>2, <2>3, <2>4, <2>5, <2>6, <2>7, <2>8, <2>9, <2>11, <2>12, <2>14, <2>15, <2>16, Steps
<1>3. QED
  BY <1>1, <1>2, TypeCorrect, CallsCorrect, LagCorrect, LagIsInOrder, RunsIsRanInOrder, PTL DEF Spec

\* The outcome of a call as AtMostOnceCalls sees it.
Status ==
  [id \in Ids |->
     IF outcome[id] \in Failures THEN "failed"
     ELSE IF outcome[id] = "done" /\ answer[id] # id THEN "another call's answer"
     ELSE outcome[id]]

\* The status of a call, as a record of what happened to it.
LEMMA StatusIs ==
  ASSUME NEW out, NEW ans, \A id \in Ids : out[id] = "done" => ans[id] = id
  PROVE  [id \in Ids |-> IF out[id] \in Failures THEN "failed"
                         ELSE IF out[id] = "done" /\ ans[id] # id THEN "another call's answer"
                         ELSE out[id]]
         = [id \in Ids |-> IF out[id] \in Failures THEN "failed" ELSE out[id]]
OBVIOUS

\* Every session over stdio is a sequence of at-most-once calls: a result is the
\* call's own and of a tool that ran, and tools run once, in the order of the
\* calls, and never after Close (client.go:100-154,246-256, Serve).
THEOREM SessionImplementsCalls == Spec => ImplementsCalls
<1> USE CapacityAssumption
<1>1. Init => Calls!Init
  <2> SUFFICES ASSUME Init PROVE Calls!Init
    OBVIOUS
  <2>1. Status = [id \in Ids |-> "new"]
    BY DEF Init, Status, Failures
  <2>2. {ran[i] : i \in DOMAIN ran} = {}
    BY EmptySeq DEF Init
  <2>3. QED
    BY <2>1, <2>2 DEF Init, Calls!Init, Status
<1>2. TypeOK /\ CallsInv /\ CallsInv' /\ ExitInv /\ InOrder /\ RanInOrder /\ [Next]_vars
        => [Calls!Next]_<<Status, ToSet(ran), pc = "closed">>
  <2> SUFFICES ASSUME TypeOK, CallsInv, CallsInv', ExitInv, InOrder, RanInOrder, [Next]_vars
               PROVE  [Calls!Next]_<<Status, ToSet(ran), pc = "closed">>
    OBVIOUS
  <2> USE DEF client, loop, process
  <2>a. ASSUME UNCHANGED <<outcome, answer, ran>>, pc' = "closed" <=> pc = "closed"
        PROVE  UNCHANGED <<Status, ToSet(ran), pc = "closed">>
    BY <2>a DEF Status, ToSet
  <2>b. /\ Status = [id \in Ids |-> IF outcome[id] \in Failures THEN "failed" ELSE outcome[id]]
        /\ Status' = [id \in Ids |-> IF outcome'[id] \in Failures THEN "failed" ELSE outcome'[id]]
    BY StatusIs DEF Status, CallsInv
  <2>c. Calls!Open = {id \in Ids : outcome[id] = "open"}
    BY <2>b DEF Calls!Open, Status, Failures
  <2>d. ASSUME pc' = "closed" <=> pc = "closed"
        PROVE  UNCHANGED (pc = "closed")
    BY <2>d
  <2>1. CASE Begin
    <3>1. /\ pc = "idle" /\ nextID + 1 \in Ids /\ nextID \in Nat
          /\ outcome' = [outcome EXCEPT ![nextID + 1] = "open"]
          /\ pc' = "write" /\ UNCHANGED ran
      BY <2>1 DEF Begin, TypeOK, Ids
    <3>2. Calls!Open = {} /\ Status[nextID + 1] = "new"
      BY <2>b, <2>c, <3>1 DEF CallsInv, Failures
    <3>3. \A before \in Ids : before < nextID + 1 => Status[before] # "new"
      BY <2>b, <3>1 DEF CallsInv, Ids
    <3>4. Status' = [Status EXCEPT ![nextID + 1] = "open"]
      BY <2>b, <3>1 DEF TypeOK, Failures
    <3>5. UNCHANGED <<ToSet(ran), pc = "closed">>
      BY <2>d, <3>1 DEF ToSet
    <3>6. PICK id \in Ids : id = nextID + 1
      BY <3>1
    <3>7. Calls!Issue(id)
      BY <3>1, <3>2, <3>3, <3>4, <3>5, <3>6, Zenon DEF Calls!Issue, Status, ToSet
    <3>8. QED
      BY <3>7, Zenon DEF Calls!Next
  <2>2. ASSUME NEW how \in Failures, pc \in {"write", "wait"}, Fail(how), UNCHANGED ran
        PROVE  Calls!Next
    <3>1. /\ nextID \in Ids /\ outcome' = [outcome EXCEPT ![nextID] = how] /\ pc' = "idle"
          /\ outcome[nextID] = "open"
      BY <2>2 DEF Fail, CallsInv
    <3>2. Status[nextID] = "open" /\ Status' = [Status EXCEPT ![nextID] = "failed"]
      <4>1. \A id \in Ids : outcome'[id] = IF id = nextID THEN how ELSE outcome[id]
        BY <3>1 DEF TypeOK
      <4>2. QED
        BY <2>b, <3>1, <4>1 DEF Failures
    <3>3. UNCHANGED <<ToSet(ran), pc = "closed">>
      BY <2>d, <2>2, <3>1 DEF ToSet
    <3>4. PICK id \in Ids : id = nextID
      BY <3>1
    <3>5. Calls!Fail(id)
      BY <3>2, <3>3, <3>4, Zenon DEF Calls!Fail, Status, ToSet
    <3>6. QED
      BY <3>5, Zenon DEF Calls!Next
  <2>3. CASE WriteFails
    <3>1. CASE pc = "write"
      BY <2>2, <2>3, <3>1 DEF WriteFails, Failures
    <3>2. CASE pc # "write"
      BY <2>3, <2>a, <3>2 DEF WriteFails
    <3>3. QED
      BY <3>1, <3>2
  <2>4. CASE Canceled \/ TransportClosed
    BY <2>2, <2>4 DEF Canceled, TransportClosed, Failures
  <2>5. CASE Receive
    <3>1. CASE Head(messages) # nextID
      BY <2>5, <2>a, <3>1 DEF Receive
    <3>2. CASE Head(messages) = nextID
      <4>1. /\ UNCHANGED ran /\ nextID \in Ids /\ outcome[nextID] = "open" /\ pc = "wait"
            /\ outcome' = [outcome EXCEPT ![nextID] = "done"] /\ pc' # "closed"
        BY <2>5, <3>2 DEF Receive, Answer, CallsInv
      <4>2. Status[nextID] = "open" /\ Status' = [Status EXCEPT ![nextID] = "done"]
        <5>1. \A id \in Ids : outcome'[id] = IF id = nextID THEN "done" ELSE outcome[id]
          BY <4>1 DEF TypeOK
        <5>2. QED
          BY <2>b, <4>1, <5>1 DEF Failures
      <4>3. nextID \in ToSet(ran)
        BY <2>5, <3>2, <4>1, TailOfQueue DEF Receive, TypeOK, RanInOrder
      <4>4. UNCHANGED <<ToSet(ran), pc = "closed">>
        BY <2>d, <4>1 DEF ToSet
      <4>5. PICK id \in Ids : id = nextID
        BY <4>1
      <4>6. Calls!Succeed(id)
        BY <4>2, <4>3, <4>4, <4>5, Zenon DEF Calls!Succeed, Status, ToSet
      <4>7. QED
        BY <4>6, Zenon DEF Calls!Next
    <3>3. QED
      BY <3>1, <3>2
  <2>6. CASE Closed
    <3>1. pc # "closed" /\ pc' = "closed" /\ pc \notin {"write", "wait"} /\ UNCHANGED <<outcome, answer, ran>>
      BY <2>6 DEF Closed
    <3>2. Calls!Open = {}
      BY <2>c, <3>1 DEF CallsInv
    <3>3. UNCHANGED <<Status, ToSet(ran)>>
      BY <3>1 DEF Status, ToSet
    <3>4. ~(pc = "closed") /\ (pc = "closed")' = TRUE
      BY <3>1
    <3>5. Calls!Close
      BY <3>2, <3>3, <3>4, Zenon DEF Calls!Close, Status, ToSet
    <3>6. QED
      BY <3>5, Zenon DEF Calls!Next
  <2>7. ASSUME server = "run", ran' = Append(ran, request), UNCHANGED <<pc, outcome, answer>>
        PROVE  Calls!Next
    <3>1. request \in Ids /\ \A earlier \in ToSet(ran) : earlier < request
      BY <2>7 DEF TypeOK, RanInOrder
    <3>2. ToSet(ran') = ToSet(ran) \cup {request}
      BY <2>7, <3>1, AppendToQueue DEF TypeOK
    <3>3. Status[request] # "new"
      <4>1. request \in Abandoned \/ request = nextID
        BY <2>7 DEF InOrder, OnTheWay, InServer
      <4>2. outcome[request] # "new"
        BY <3>1, <4>1 DEF CallsInv, Abandoned, Failures, TypeOK
      <4>3. QED
        BY <2>b, <3>1, <4>2
    <3>4. pc # "closed"
      BY <2>7 DEF ExitInv
    <3>5. UNCHANGED <<Status, pc = "closed">>
      BY <2>d, <2>7 DEF Status
    <3>6. PICK id \in Ids : id = request
      BY <3>1
    <3>7. Calls!Run(id)
      BY <3>1, <3>2, <3>3, <3>4, <3>5, <3>6, Zenon DEF Calls!Run, Status, ToSet
    <3>8. QED
      BY <3>7, Zenon DEF Calls!Next
  <2>8. CASE RunTool
    BY <2>7, <2>8 DEF RunTool
  <2>9. CASE Gone
    <3>1. CASE UNCHANGED ran
      BY <2>9, <2>a, <3>1 DEF Gone
    <3>2. CASE server = "run" /\ ran' = Append(ran, request)
      BY <2>7, <2>9, <3>2 DEF Gone
    <3>3. QED
      BY <2>9, <3>1, <3>2 DEF Gone
  <2>10. CASE ContextEnds \/ Write \/ Close \/ KillTimer
    BY <2>10, <2>a DEF ContextEnds, Write, Close, KillTimer
  <2>11. CASE ReadLine \/ Send \/ ReadFails \/ ReadRequest \/ Respond \/ ServeReturns
    BY <2>11, <2>a DEF ReadLine, Send, ReadFails, ReadRequest, Respond, ServeReturns
  <2>12. CASE UNCHANGED vars
    BY <2>12, <2>a DEF vars
  <2>13. QED
    BY <2>1, <2>3, <2>4, <2>5, <2>6, <2>8, <2>9, <2>10, <2>11, <2>12, Steps
<1>3. [Calls!Next]_<<Status, ToSet(ran), pc = "closed">> =>
        [Calls!Next]_<<[id \in Ids |->
                          IF outcome[id] \in Failures THEN "failed"
                          ELSE IF outcome[id] = "done" /\ answer[id] # id THEN "another call's answer"
                          ELSE outcome[id]],
                       {ran[i] : i \in DOMAIN ran}, pc = "closed">>
  BY Zenon DEF Status, ToSet
<1>4. QED
  BY <1>1, <1>2, <1>3, TypeCorrect, CallsCorrect, LagCorrect, LagIsInOrder, RunsCorrect,
     RunsIsRanInOrder, ExitCorrect, PTL DEF Spec, ImplementsCalls, Calls!Spec
=============================================================================
