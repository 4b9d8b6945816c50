-------------------------- MODULE ProxyRequestProofs --------------------------
(***************************************************************************)
(* Proofs about ProxyRequest: the requests of the proxy use the catalogue  *)
(* as ToolsCache says, so what is proved about it holds of them; and what  *)
(* the guard lets through, for every response and every limit.             *)
(***************************************************************************)
EXTENDS ProxyRequest, ToolsCacheProofs, FiniteSetTheorems, NaturalsInduction

-------------------------------------------------------------------------------
(***************************************************************************)
(* The catalogue within the requests                                       *)
(***************************************************************************)

\* What a request does to the catalogue is a step of getOpenAITools, or the end
\* of its context (handleChatCompletions, proxy.go:119-131).
THEOREM RequestsUseTheCatalogue == ProxySpec => Spec
<1>1. ProxyInit => Init
  BY DEF ProxyInit
<1>2. [ProxyNext]_allVars => [Next]_vars
  <2> SUFFICES ASSUME [ProxyNext]_allVars
               PROVE  [Next]_vars
    OBVIOUS
  <2>1. CASE Tick
    BY <2>1 DEF Next
  <2>2. ASSUME NEW r \in Requests, Disconnect(r)
        PROVE  Next
    <3>1. Cancel(r)
      BY <2>2 DEF Disconnect, Cancel
    <3>2. QED
      BY <3>1 DEF Next
  <2>3. ASSUME NEW r \in Requests, ToolsStep(r) \/ ToolsFetch(r)
        PROVE  Next
    BY <2>3 DEF ToolsStep, ToolsFetch, Next
  <2>4. ASSUME NEW r \in Requests,
               \/ \E f \in Forms : Arrive(r, f)
               \/ ReadBody(r) \/ UseTools(r) \/ Forward(r)
               \/ \E u \in Responses : Upstream(r, u)
        PROVE  UNCHANGED catalogue
    BY <2>4 DEF Arrive, ReadBody, UseTools, Forward, Upstream
  <2>5. CASE Exit \/ UNCHANGED allVars
    BY <2>5 DEF Exit, allVars, catalogue, vars
  <2>6. UNCHANGED catalogue => UNCHANGED vars
    BY DEF catalogue, vars
  <2>7. QED
    BY <2>1, <2>2, <2>3, <2>4, <2>5, <2>6 DEF ProxyNext, Own
<1>3. QED
  BY <1>1, <1>2, PTL DEF ProxySpec, Spec

\* So whatever else its clients do, the proxy keeps the promises of its cache:
\* one fetch at a time, no lost wake-up, no foreign cancellation, fresh answers,
\* and the upstream spared (getOpenAITools).
THEOREM CatalogueKeepsItsPromises ==
  ProxySpec => /\ [](TypeOK /\ SingleFlight /\ NoOrphanedWaiter)
               /\ [](CancellationIsPrivate /\ AnswersAreFresh /\ UpstreamIsSpared)
               /\ NoErrorAfterRecovery /\ CatalogueNeverRegresses /\ ImplementsRegister
BY RequestsUseTheCatalogue, TypeCorrect, SingleFlightCorrect, NoOrphanedWaiterCorrect,
   CancellationIsPrivateCorrect, AnswersAreFreshCorrect, UpstreamIsSparedCorrect,
   NoErrorAfterRecoveryCorrect, CatalogueNeverRegressesCorrect, ImplementsRegisterCorrect, PTL

-------------------------------------------------------------------------------
(***************************************************************************)
(* The loop of applyToolCallGuards                                         *)
(***************************************************************************)

\* A set of numbers that is not empty has a smallest one.
LEMMA Smallest ==
  ASSUME NEW T, T \subseteq Nat, T # {}
  PROVE  \E m \in T : \A n \in T : m <= n
<1>1. PICK m \in T : \A n \in T : <<n, m>> \notin OpToRel(<, Nat)
  BY NatLessThanWellFounded, WFMin
<1>2. ASSUME NEW n \in T
      PROVE  m <= n
  <2>1. m \in Nat /\ n \in Nat
    OBVIOUS
  <2>2. n < m => <<n, m>> \in OpToRel(<, Nat)
    BY <2>1 DEF OpToRel
  <2>3. ~(n < m)
    BY <1>1, <2>2, Zenon
  <2>4. QED
    BY <2>1, <2>3
<1>3. QED
  BY <1>2

Start == [kept |-> << >>, label |-> ""]

\* h is what the loop has after each of the first n calls.
Follows(h, calls, n) ==
  h = [i \in 0 .. n |-> IF i = 0 THEN Start ELSE GuardStep(h[i - 1], calls[i])]

\* The loop has a state after every call.
LEMMA LoopGoesOn ==
  ASSUME NEW calls, NEW n \in Nat
  PROVE  \E h : Follows(h, calls, n)
<1> DEFINE Stuck == {m \in Nat : ~\E h : Follows(h, calls, m)}
<1> SUFFICES ASSUME Stuck # {}
             PROVE  FALSE
  OBVIOUS
<1>1. PICK m \in Stuck : \A k \in Stuck : m <= k
  BY Smallest
<1>2. m # 0
  <2> DEFINE h == [i \in 0 .. 0 |-> Start]
  <2>1. Follows(h, calls, 0)
    BY DEF Follows
  <2>2. QED
    BY <2>1
<1>3. m - 1 \in Nat /\ m - 1 \notin Stuck
  BY <1>1, <1>2
<1>4. PICK h : Follows(h, calls, m - 1)
  BY <1>3
<1> DEFINE g == [i \in 0 .. m |-> IF i = m THEN GuardStep(h[m - 1], calls[m]) ELSE h[i]]
<1>5. \A i \in 0 .. m : g[i] = IF i = 0 THEN Start ELSE GuardStep(g[i - 1], calls[i])
  <2> SUFFICES ASSUME NEW i \in 0 .. m
               PROVE  g[i] = IF i = 0 THEN Start ELSE GuardStep(g[i - 1], calls[i])
    OBVIOUS
  <2>1. \A k \in 0 .. m - 1 : g[k] = h[k]
    BY <1>3
  <2>2. CASE i = m
    BY <1>2, <1>3, <2>1, <2>2
  <2>3. CASE i # m
    <3>1. i \in 0 .. m - 1 /\ (i # 0 => i - 1 \in 0 .. m - 1)
      BY <1>3, <2>3
    <3>2. h[i] = IF i = 0 THEN Start ELSE GuardStep(h[i - 1], calls[i])
      BY <1>4, <3>1 DEF Follows
    <3>3. QED
      BY <2>1, <3>1, <3>2
  <2>4. QED
    BY <2>2, <2>3
<1>6. Follows(g, calls, m)
  <2> HIDE DEF g
  <2>1. DOMAIN g = 0 .. m /\ g = [i \in 0 .. m |-> g[i]]
    BY DEF g
  <2>2. QED
    BY <1>5, <2>1 DEF Follows
<1>7. QED
  BY <1>6

\* What Guarding says of a response is what the loop computes.
LEMMA GuardingFollows ==
  ASSUME NEW calls, Len(calls) \in Nat
  PROVE  Follows(Guarding(calls), calls, Len(calls))
BY LoopGoesOn DEF Guarding, Follows, Start

\* The elements up to the next number.
LEMMA UpToNext ==
  ASSUME NEW S, S \subseteq Nat \ {0}, NEW i \in Nat
  PROVE  /\ IsFiniteSet(UpTo(S, i)) /\ Cardinality(UpTo(S, i)) \in Nat
         /\ i + 1 \in S => /\ UpTo(S, i + 1) = UpTo(S, i) \cup {i + 1}
                           /\ Cardinality(UpTo(S, i + 1)) = Cardinality(UpTo(S, i)) + 1
         /\ i + 1 \notin S => UpTo(S, i + 1) = UpTo(S, i)
<1>1. IsFiniteSet(1 .. i) /\ UpTo(S, i) \subseteq 1 .. i
  <2>1. IsFiniteSet(1 .. i)
    BY FS_Interval
  <2>2. \A j \in S : j <= i => j \in 1 .. i
    OBVIOUS
  <2>3. QED
    BY <2>1, <2>2 DEF UpTo
<1>2. IsFiniteSet(UpTo(S, i)) /\ Cardinality(UpTo(S, i)) \in Nat
  BY <1>1, FS_Subset, FS_CardinalityType
<1>3. \A j \in S : j <= i + 1 <=> (j <= i \/ j = i + 1)
  OBVIOUS
<1>4. i + 1 \notin UpTo(S, i)
  BY DEF UpTo
<1>5. ASSUME i + 1 \in S
      PROVE  /\ UpTo(S, i + 1) = UpTo(S, i) \cup {i + 1}
             /\ Cardinality(UpTo(S, i + 1)) = Cardinality(UpTo(S, i)) + 1
  <2>1. UpTo(S, i + 1) = UpTo(S, i) \cup {i + 1}
    BY <1>3, <1>5 DEF UpTo
  <2>2. QED
    BY <1>2, <1>4, <2>1, FS_AddElement
<1>6. i + 1 \notin S => UpTo(S, i + 1) = UpTo(S, i)
  BY <1>3 DEF UpTo
<1>7. QED
  BY <1>2, <1>5, <1>6

\* A call that is not the first of its kind came before, and duplicates count.
LEMMA CameBefore ==
  ASSUME NEW S, NEW calls \in Seq(S), NEW n \in Calls(calls), n \notin First(calls)
  PROVE  Distinct /\ \E j \in First(calls) : j < n /\ calls[j] = calls[n]
<1>1. n \in 1 .. Len(calls) /\ calls[n] # Junk /\ DOMAIN calls = 1 .. Len(calls)
  BY DEF Calls
<1>2. Distinct /\ \E j \in 1 .. n - 1 : calls[j] = calls[n]
  BY DEF First
<1> DEFINE T == {j \in 1 .. n - 1 : calls[j] = calls[n]}
<1>3. PICK j \in T : \A k \in T : j <= k
  <2>1. T \subseteq Nat /\ T # {}
    BY <1>2
  <2> HIDE DEF T
  <2>2. QED
    BY <2>1, Smallest
<1>4. j \in 1 .. Len(calls) /\ j < n /\ calls[j] = calls[n]
  BY <1>1, <1>3
<1>5. \A k \in 1 .. j - 1 : calls[k] # calls[j]
  <2> SUFFICES ASSUME NEW k \in 1 .. j - 1, calls[k] = calls[j]
               PROVE  FALSE
    OBVIOUS
  <2>1. k \in T /\ k < j
    BY <1>1, <1>4
  <2>2. QED
    BY <1>3, <1>4, <2>1
<1>6. j \in First(calls)
  BY <1>1, <1>4, <1>5 DEF First, Calls
<1>7. QED
  BY <1>2, <1>4, <1>6

States(S) == [kept : Seq(S), label : {"", "duplicate", "limited"}]

\* Where the loop stands after i calls: it kept the calls to let through, in
\* their order, and says so if it left one out.
Progress(calls, S, i, s) ==
  LET K == UpTo(Kept(calls), i) IN
  /\ s \in States(S)
  /\ Len(s.kept) = Cardinality(K) /\ Cardinality(K) <= MaxToolCalls
  /\ \A j \in K : s.kept[Cardinality(UpTo(Kept(calls), j))] = calls[j]
  /\ ToSet(s.kept) = {calls[j] : j \in K}
  /\ s.label = "" <=> UpTo(Calls(calls), i) \subseteq Kept(calls)
  /\ s.label = "limited" => Cardinality(K) = MaxToolCalls
  /\ s.label # "limited" => UpTo(First(calls), i) \subseteq Kept(calls)

\* One turn of the loop (applyToolCallGuards, proxy.go:478-501).
LEMMA OneTurn ==
  ASSUME NEW S, NEW calls \in Seq(S), NEW i \in Nat, i + 1 \in 1 .. Len(calls),
         NEW s, Progress(calls, S, i, s)
  PROVE  Progress(calls, S, i + 1, GuardStep(s, calls[i + 1]))
<1> DEFINE n == i + 1
           c == calls[n]
           K == UpTo(Kept(calls), i)
           F == UpTo(First(calls), i)
<1> USE GuardAssumption
<1>1. /\ Kept(calls) \subseteq First(calls) /\ First(calls) \subseteq Calls(calls)
      /\ Calls(calls) \subseteq Nat \ {0} /\ n \in DOMAIN calls
      /\ (n \in Calls(calls) <=> c # Junk)
  BY DEF Kept, First, Calls
<1>2. /\ IsFiniteSet(K) /\ Cardinality(K) \in Nat
      /\ n \in Kept(calls) => /\ UpTo(Kept(calls), n) = K \cup {n}
                              /\ Cardinality(UpTo(Kept(calls), n)) = Cardinality(K) + 1
      /\ n \notin Kept(calls) => UpTo(Kept(calls), n) = K
  BY <1>1, UpToNext
<1>3. /\ IsFiniteSet(F) /\ Cardinality(F) \in Nat
      /\ n \in First(calls) => /\ UpTo(First(calls), n) = F \cup {n}
                               /\ Cardinality(UpTo(First(calls), n)) = Cardinality(F) + 1
      /\ n \notin First(calls) => UpTo(First(calls), n) = F
  BY <1>1, UpToNext
<1>4. n \in Kept(calls) <=> n \in First(calls) /\ Cardinality(UpTo(First(calls), n)) <= MaxToolCalls
  BY DEF Kept
<1>5. K \subseteq F /\ Cardinality(K) <= Cardinality(F)
  <2>1. K \subseteq F
    BY <1>1 DEF UpTo
  <2>2. QED
    BY <1>3, <2>1, FS_Subset
<1>6. /\ n \in Calls(calls) => UpTo(Calls(calls), n) = UpTo(Calls(calls), i) \cup {n}
      /\ n \notin Calls(calls) => UpTo(Calls(calls), n) = UpTo(Calls(calls), i)
  BY <1>1, UpToNext
<1>7. /\ s \in States(S)
      /\ Len(s.kept) = Cardinality(K) /\ Cardinality(K) <= MaxToolCalls
      /\ \A j \in K : s.kept[Cardinality(UpTo(Kept(calls), j))] = calls[j]
      /\ ToSet(s.kept) = {calls[j] : j \in K}
      /\ s.label = "" <=> UpTo(Calls(calls), i) \subseteq Kept(calls)
      /\ s.label = "limited" => Cardinality(K) = MaxToolCalls
      /\ s.label # "limited" => F \subseteq Kept(calls)
  BY DEF Progress
<1>8. s.kept \in Seq(S) /\ s.label \in {"", "duplicate", "limited"}
      /\ \A l \in {"", "duplicate", "limited"} :
           [s EXCEPT !.label = l] \in States(S)
           /\ [s EXCEPT !.label = l].kept = s.kept /\ [s EXCEPT !.label = l].label = l
      /\ \A k \in Seq(S) : [s EXCEPT !.kept = k] \in States(S)
           /\ [s EXCEPT !.kept = k].kept = k /\ [s EXCEPT !.kept = k].label = s.label
  BY <1>7 DEF States
<1> HIDE DEF n, c, K, F
<1>a. /\ Len(s.kept) = Cardinality(K) /\ Cardinality(K) <= MaxToolCalls
      /\ Cardinality(K) \in Nat /\ MaxToolCalls \in Nat
  BY <1>2, <1>7
<1>b. c \in S
  BY <1>1, ElementOfSeq DEF c
<1>9. Cardinality(K) = MaxToolCalls => n \notin Kept(calls)
  BY <1>2, <1>3, <1>4, <1>5
<1>10. ASSUME NEW t, t \in States(S), t.kept = s.kept, n \notin Kept(calls),
              t.label = "" <=> UpTo(Calls(calls), n) \subseteq Kept(calls),
              t.label = "limited" => Cardinality(K) = MaxToolCalls,
              t.label # "limited" => UpTo(First(calls), n) \subseteq Kept(calls)
       PROVE  Progress(calls, S, n, t)
  BY <1>2, <1>7, <1>10 DEF Progress
<1>11. CASE s.label = "limited"
  <2>1. GuardStep(s, c) = s
    BY <1>11 DEF GuardStep
  <2>2. n \notin Kept(calls) /\ ~(UpTo(Calls(calls), n) \subseteq Kept(calls))
    BY <1>6, <1>7, <1>9, <1>11
  <2>3. QED
    BY <1>7, <1>10, <1>11, <2>1, <2>2 DEF n, c
<1>12. CASE s.label # "limited" /\ c = Junk
  <2>1. GuardStep(s, c) = s
    BY <1>12 DEF GuardStep
  <2>2. n \notin Calls(calls) /\ n \notin First(calls) /\ n \notin Kept(calls)
    BY <1>1, <1>12
  <2>3. QED
    BY <1>3, <1>6, <1>7, <1>10, <1>12, <2>1, <2>2 DEF n, c
<1>13. CASE s.label # "limited" /\ c # Junk /\ Len(s.kept) >= MaxToolCalls
  <2>1. GuardStep(s, c) = [s EXCEPT !.label = "limited"]
    BY <1>13 DEF GuardStep
  <2>2. Cardinality(K) = MaxToolCalls
    BY <1>a, <1>13
  <2>3. n \notin Kept(calls) /\ ~(UpTo(Calls(calls), n) \subseteq Kept(calls))
    BY <1>1, <1>6, <1>9, <1>13, <2>2
  <2>4. QED
    BY <1>8, <1>10, <2>1, <2>2, <2>3 DEF n, c
<1>14. CASE /\ s.label # "limited" /\ c # Junk /\ ~(Len(s.kept) >= MaxToolCalls)
            /\ Distinct /\ c \in ToSet(s.kept)
  <2>1. GuardStep(s, c) = [s EXCEPT !.label = IF s.label = "" THEN "duplicate" ELSE s.label]
    BY <1>14 DEF GuardStep
  <2>2. PICK j \in K : calls[j] = c
    BY <1>7, <1>14
  <2>3. n \notin First(calls)
    <3>1. j \in 1 .. n - 1
      BY <1>1, <2>2 DEF K, UpTo, n
    <3>2. QED
      BY <1>14, <2>2, <3>1 DEF First, c
  <2>4. n \notin Kept(calls) /\ ~(UpTo(Calls(calls), n) \subseteq Kept(calls))
    BY <1>1, <1>6, <1>14, <2>3
  <2>5. UpTo(First(calls), n) \subseteq Kept(calls)
    BY <1>3, <1>7, <1>14, <2>3
  <2> DEFINE l == IF s.label = "" THEN "duplicate" ELSE s.label
  <2>6. l \in {"", "duplicate", "limited"} /\ l # "" /\ l # "limited"
    BY <1>8, <1>14
  <2> HIDE DEF l
  <2>7. Progress(calls, S, n, [s EXCEPT !.label = l])
    BY <1>8, <1>10, <2>4, <2>5, <2>6
  <2>8. QED
    BY <2>1, <2>7 DEF n, c, l
<1>15. CASE /\ s.label # "limited" /\ c # Junk /\ ~(Len(s.kept) >= MaxToolCalls)
            /\ ~(Distinct /\ c \in ToSet(s.kept))
  <2>1. GuardStep(s, c) = [s EXCEPT !.kept = Append(s.kept, c)]
    BY <1>15 DEF GuardStep
  <2>2. n \in First(calls)
    <3> SUFFICES ASSUME n \notin First(calls)
                 PROVE  FALSE
      OBVIOUS
    <3>1. n \in Calls(calls)
      BY <1>1, <1>15
    <3>2. PICK j \in First(calls) : Distinct /\ j < n /\ calls[j] = calls[n]
      BY <3>1, CameBefore
    <3>3. j \in F
      BY <1>1, <3>2 DEF F, UpTo, n
    <3>4. j \in K
      BY <1>7, <1>15, <3>3 DEF F, K, UpTo
    <3>5. QED
      BY <1>7, <1>15, <3>2, <3>4 DEF c
  <2>3. F = K
    BY <1>5, <1>7, <1>15 DEF F, K, UpTo
  <2>4. n \in Kept(calls)
    <3>1. Cardinality(UpTo(First(calls), n)) = Cardinality(K) + 1
      BY <1>3, <2>2, <2>3
    <3>2. Cardinality(K) + 1 <= MaxToolCalls
      BY <1>a, <1>15
    <3>3. QED
      BY <1>4, <2>2, <3>1, <3>2
  <2>5. /\ UpTo(Kept(calls), n) = K \cup {n}
        /\ Cardinality(UpTo(Kept(calls), n)) = Cardinality(K) + 1
    BY <1>2, <2>4
  <2> DEFINE t == Append(s.kept, c)
  <2>6. /\ t \in Seq(S) /\ Len(t) = Cardinality(K) + 1
        /\ ToSet(t) = ToSet(s.kept) \cup {c}
        /\ t[Cardinality(K) + 1] = c
        /\ \A k \in 1 .. Cardinality(K) : t[k] = s.kept[k]
    <3>1. c \in S /\ s.kept \in Seq(S)
      BY <1>b, <1>8
    <3>2. /\ t \in Seq(S) /\ Len(t) = Len(s.kept) + 1 /\ Len(s.kept) \in Nat
          /\ DOMAIN t = 1 .. Len(s.kept) + 1 /\ DOMAIN s.kept = 1 .. Len(s.kept)
          /\ t[Len(s.kept) + 1] = c /\ \A k \in 1 .. Len(s.kept) : t[k] = s.kept[k]
      BY <3>1, AppendProperties
    <3> HIDE DEF t
    <3>3. ToSet(t) = ToSet(s.kept) \cup {c}
      <4>1. \A k \in DOMAIN t : (k \in DOMAIN s.kept /\ t[k] = s.kept[k]) \/ t[k] = c
        BY <3>2
      <4>2. DOMAIN s.kept \subseteq DOMAIN t /\ Len(s.kept) + 1 \in DOMAIN t
        BY <3>2
      <4>3. QED
        BY <3>2, <4>1, <4>2 DEF ToSet
    <3>4. QED
      BY <1>7, <3>2, <3>3
  <2>7. \A j \in K \cup {n} : t[Cardinality(UpTo(Kept(calls), j))] = calls[j]
    <3>1. ASSUME NEW j \in K
          PROVE  Cardinality(UpTo(Kept(calls), j)) \in 1 .. Cardinality(K)
      <4>1. j \in UpTo(Kept(calls), j) /\ UpTo(Kept(calls), j) \subseteq K /\ j \in Nat
        BY <1>1, <3>1 DEF K, UpTo
      <4>2. /\ Cardinality(UpTo(Kept(calls), j)) <= Cardinality(K)
            /\ IsFiniteSet(UpTo(Kept(calls), j))
        BY <1>2, <4>1, FS_Subset
      <4>3. /\ Cardinality(UpTo(Kept(calls), j)) \in Nat
            /\ Cardinality(UpTo(Kept(calls), j)) # 0
        BY <4>1, <4>2, FS_CardinalityType, FS_EmptySet
      <4>4. QED
        BY <1>2, <4>2, <4>3
    <3>2. QED
      BY <1>7, <2>5, <2>6, <3>1 DEF c
  <2>8. ToSet(t) = {calls[j] : j \in K \cup {n}}
    BY <1>7, <2>6 DEF c
  <2>9. UpTo(Calls(calls), n) \subseteq Kept(calls) <=> UpTo(Calls(calls), i) \subseteq Kept(calls)
    BY <1>6, <2>4
  <2>10. UpTo(First(calls), n) \subseteq Kept(calls)
    BY <1>3, <1>7, <1>15, <2>2, <2>4
  <2>11. Cardinality(K) + 1 <= MaxToolCalls
    BY <1>a, <1>15
  <2> HIDE DEF t
  <2>12. Progress(calls, S, n, [s EXCEPT !.kept = t])
    BY <1>7, <1>8, <1>15, <2>5, <2>6, <2>7, <2>8, <2>9, <2>10, <2>11 DEF Progress
  <2>13. QED
    BY <2>1, <2>12 DEF n, c, t
<1>16. QED
  BY <1>11, <1>12, <1>13, <1>14, <1>15 DEF n, c

\* Of every response the guard keeps the calls to let through and says whether it
\* left one out; if it did not, the response goes as it is.
LEMMA GuardedIsSound ==
  ASSUME NEW S, NEW calls \in Seq(S)
  PROVE  LET kept == Kept(calls)
             g    == Guarded(calls)
         IN  IF kept # Calls(calls)
               THEN /\ g.label \in {"limited", "duplicate"}
                    /\ Len(g.calls) = Cardinality(kept)
                    /\ \A i \in kept : g.calls[Cardinality(UpTo(kept, i))] = calls[i]
               ELSE g.calls = calls /\ g.label = ""
<1> DEFINE N == Len(calls)
           h == Guarding(calls)
<1>1. N \in Nat /\ DOMAIN calls = 1 .. N
  OBVIOUS
<1>2. \A i \in 0 .. N : h[i] = IF i = 0 THEN Start ELSE GuardStep(h[i - 1], calls[i])
  BY <1>1, GuardingFollows DEF Follows
<1> HIDE DEF h
<1>3. Progress(calls, S, 0, Start)
  <2>1. Kept(calls) \subseteq Nat \ {0} /\ Calls(calls) \subseteq Nat \ {0} /\ First(calls) \subseteq Nat \ {0}
    BY <1>1 DEF Kept, First, Calls
  <2>2. UpTo(Kept(calls), 0) = {} /\ UpTo(Calls(calls), 0) = {} /\ UpTo(First(calls), 0) = {}
    BY <2>1 DEF UpTo
  <2>3. << >> \in Seq(S) /\ Len(<< >>) = 0 /\ ToSet(<< >>) = {}
    BY EmptySeq DEF ToSet
  <2>4. Cardinality({}) = 0
    BY FS_EmptySet
  <2>5. Start \in States(S) /\ Start.kept = << >> /\ Start.label = "" /\ 0 <= MaxToolCalls
    BY <2>3, GuardAssumption DEF Start, States
  <2>6. {calls[j] : j \in {}} = {}
    OBVIOUS
  <2>7. QED
    BY <2>2, <2>3, <2>4, <2>5, <2>6 DEF Progress
<1> DEFINE Wrong == {i \in 0 .. N : ~Progress(calls, S, i, h[i])}
<1>4. Wrong = {}
  <2> SUFFICES ASSUME Wrong # {}
               PROVE  FALSE
    OBVIOUS
  <2>1. PICK m \in Wrong : \A k \in Wrong : m <= k
    <3>1. Wrong \subseteq Nat
      BY <1>1
    <3> HIDE DEF Wrong
    <3>2. QED
      BY <3>1, Smallest
  <2>2. m # 0
    BY <1>1, <1>2, <1>3, <2>1
  <2>3. m \in 1 .. N /\ m - 1 \in 0 .. N /\ m - 1 \in Nat /\ (m - 1) + 1 = m
    BY <1>1, <2>1, <2>2
  <2>4. m - 1 \notin Wrong
    BY <1>1, <2>1, <2>3
  <2>5. Progress(calls, S, m - 1, h[m - 1])
    BY <2>3, <2>4
  <2>6. Progress(calls, S, m, GuardStep(h[m - 1], calls[m]))
    BY <2>3, <2>5, OneTurn
  <2>7. h[m] = GuardStep(h[m - 1], calls[m])
    BY <1>1, <1>2, <2>2, <2>3
  <2>8. QED
    BY <2>1, <2>6, <2>7
<1>5. Progress(calls, S, N, h[N])
  BY <1>1, <1>4
<1>6. /\ UpTo(Kept(calls), N) = Kept(calls) /\ UpTo(Calls(calls), N) = Calls(calls)
      /\ Kept(calls) \subseteq Calls(calls)
  BY <1>1 DEF UpTo, Kept, First, Calls
<1>7. Guarded(calls) = [calls |-> IF h[N].label = "" THEN calls ELSE h[N].kept, label |-> h[N].label]
  BY DEF Guarded, h
<1>8. h[N].label = "" <=> Kept(calls) = Calls(calls)
  BY <1>5, <1>6 DEF Progress
<1>9. /\ h[N].label \in {"", "duplicate", "limited"}
      /\ Len(h[N].kept) = Cardinality(Kept(calls))
      /\ \A i \in Kept(calls) : h[N].kept[Cardinality(UpTo(Kept(calls), i))] = calls[i]
  BY <1>5, <1>6 DEF Progress, States
<1>a. /\ Guarded(calls).calls = IF h[N].label = "" THEN calls ELSE h[N].kept
      /\ Guarded(calls).label = h[N].label
  <2> DEFINE k == IF h[N].label = "" THEN calls ELSE h[N].kept
             l == h[N].label
  <2>1. Guarded(calls) = [calls |-> k, label |-> l]
    BY <1>7
  <2> HIDE DEF k, l
  <2>2. Guarded(calls).calls = k /\ Guarded(calls).label = l
    BY <2>1
  <2>3. QED
    BY <2>2 DEF k, l
<1> HIDE DEF N
<1>10. CASE Kept(calls) # Calls(calls)
  <2>1. Guarded(calls).calls = h[N].kept /\ Guarded(calls).label = h[N].label
    <3>1. h[N].label # ""
      BY <1>8, <1>10, Zenon
    <3>2. QED
      BY <1>a, <3>1, Zenon
  <2>2. h[N].label \in {"limited", "duplicate"}
    BY <1>8, <1>9, <1>10
  <2>3. QED
    BY <1>9, <1>10, <2>1, <2>2
<1>11. CASE Kept(calls) = Calls(calls)
  <2>1. h[N].label = ""
    BY <1>8, <1>11, Zenon
  <2>2. Guarded(calls).calls = calls /\ Guarded(calls).label = ""
    BY <1>a, <2>1, Zenon
  <2>3. QED
    BY <1>11, <2>2
<1>12. QED
  BY <1>10, <1>11

\* There is no reply before the end, and what was asked and answered is kept
\* (handleChatCompletions, which writes its reply last).
THEOREM RequestCorrect == ProxySpec => []RequestInv
<1>1. ProxyInit => RequestInv
  BY DEF ProxyInit, RequestInv
<1>2. RequestInv /\ [ProxyNext]_allVars => RequestInv'
  <2> SUFFICES ASSUME RequestInv, [ProxyNext]_allVars
               PROVE  RequestInv'
    OBVIOUS
  <2> USE DEF RequestInv, request
  <2>1. ASSUME UNCHANGED request
        PROVE  RequestInv'
    BY <2>1
  <2>2. ASSUME NEW r \in Requests, NEW p, stage' = [stage EXCEPT ![r] = p], UNCHANGED reply,
               stage[r] # "over",
               \/ UNCHANGED <<form, response>>
               \/ \E f \in Forms : form' = [form EXCEPT ![r] = f] /\ UNCHANGED response
        PROVE  RequestInv'
    <3>1. stage' = [q \in Requests |-> IF q = r THEN p ELSE stage[q]]
      BY <2>2
    <3>2. stage' = [q \in Requests |-> stage'[q]]
      BY <3>1
    <3>3. form' \in [Requests -> Forms \cup {NoForm}]
      BY <2>2
    <3>4. QED
      BY <2>2, <3>1, <3>2, <3>3
  <2>3. ASSUME NEW r \in Requests, NEW k, NEW calls, NEW label, Reply(r, k, calls, label),
               UNCHANGED form,
               \/ UNCHANGED response
               \/ \E u \in Responses : response' = [response EXCEPT ![r] = u]
        PROVE  RequestInv'
    <3>1. /\ stage' = [q \in Requests |-> IF q = r THEN "over" ELSE stage[q]]
          /\ reply' = [q \in Requests |->
                         IF q = r THEN [kind |-> k, calls |-> calls, label |-> label] ELSE reply[q]]
      BY <2>3 DEF Reply, Goto
    <3>2. stage' = [q \in Requests |-> stage'[q]] /\ reply' = [q \in Requests |-> reply'[q]]
      BY <3>1
    <3>3. response' \in [Requests -> Responses \cup {Nothing}]
      BY <2>3
    <3>4. QED
      BY <2>3, <3>1, <3>2, <3>3
  <2>4. ASSUME NEW r \in Requests, NEW f \in Forms, Arrive(r, f)
        PROVE  RequestInv'
    BY <2>2, <2>4 DEF Arrive, Goto
  <2>5. ASSUME NEW r \in Requests, ReadBody(r)
        PROVE  RequestInv'
    BY <2>2, <2>3, <2>5 DEF ReadBody, Goto
  <2>6. ASSUME NEW r \in Requests, UseTools(r)
        PROVE  RequestInv'
    <3>1. stage[r] = "tools" /\ UNCHANGED <<form, response>>
      BY <2>6 DEF UseTools, InTools
    <3>2. \/ Reply(r, "diagnostic", << >>, "") \/ Reply(r, "dropped", << >>, "")
          \/ Goto(r, "forward") /\ UNCHANGED reply
      BY <2>6 DEF UseTools
    <3>3. QED
      BY <2>2, <2>3, <3>1, <3>2 DEF Goto
  <2>7. ASSUME NEW r \in Requests, Forward(r)
        PROVE  RequestInv'
    BY <2>2, <2>7 DEF Forward, Goto
  <2>8. ASSUME NEW r \in Requests, NEW u \in Responses, Upstream(r, u)
        PROVE  RequestInv'
    <3>1. \E k, calls, label : Reply(r, k, calls, label)
      BY <2>8, ResponseAssumption DEF Upstream
    <3>2. QED
      BY <2>3, <2>8, <3>1 DEF Upstream
  <2>9. CASE \/ Tick /\ UNCHANGED request
             \/ \E r \in Requests : Disconnect(r) \/ ToolsStep(r) \/ ToolsFetch(r)
             \/ Exit \/ UNCHANGED allVars
    BY <2>1, <2>9 DEF Disconnect, ToolsStep, ToolsFetch, Exit, allVars
  <2>10. QED
    BY <2>4, <2>5, <2>6, <2>7, <2>8, <2>9 DEF ProxyNext, Own
<1>3. QED
  BY <1>1, <1>2, PTL DEF ProxySpec

\* A request that was not answered has no reply.
LEMMA NoReplyIsNone == NoReply.kind = "none"
BY DEF NoReply

\* Every reply lets through each call of the model once, in its order and up to
\* the limit, and says so if a call was left out, whatever the upstream answers
\* (applyToolCallGuards, forwardStreamingResponse).
THEOREM RepliesAreGuarded == ProxySpec => []GuardedReply
<1>1. ProxyInit => GuardedReply
  <2>1. ProxyInit => \A r \in Requests : reply[r].kind # "forwarded"
    BY NoReplyIsNone DEF ProxyInit
  <2>2. QED
    BY <2>1 DEF GuardedReply
<1>2. RequestInv /\ GuardedReply /\ [ProxyNext]_allVars => GuardedReply'
  <2> SUFFICES ASSUME RequestInv, GuardedReply, [ProxyNext]_allVars
               PROVE  GuardedReply'
    OBVIOUS
  <2> USE DEF request
  <2>1. ASSUME NEW r \in Requests, NEW k, k # "forwarded", NEW label, Reply(r, k, << >>, label),
               UNCHANGED form, \A q \in Requests : q = r \/ response'[q] = response[q]
        PROVE  GuardedReply'
    <3>1. \A q \in Requests :
            reply'[q] = IF q = r THEN [kind |-> k, calls |-> << >>, label |-> label] ELSE reply[q]
      BY <2>1 DEF Reply, RequestInv
    <3>2. \A q \in Requests : reply'[q].kind = "forwarded" =>
            reply'[q] = reply[q] /\ form'[q] = form[q] /\ response'[q] = response[q]
      BY <2>1, <3>1
    <3>3. QED
      BY <3>2 DEF GuardedReply
  <2>2. ASSUME UNCHANGED <<reply, response>>,
               \/ UNCHANGED form
               \/ \E r \in Requests, f \in Forms :
                    stage[r] # "over" /\ form' = [form EXCEPT ![r] = f]
        PROVE  GuardedReply'
    <3>1. \A q \in Requests : reply[q].kind = "forwarded" => form'[q] = form[q]
      <4>1. \A q \in Requests : reply[q].kind = "forwarded" => stage[q] = "over"
        BY NoReplyIsNone DEF RequestInv
      <4>2. \A q \in Requests : stage[q] = "over" => form'[q] = form[q]
        BY <2>2 DEF RequestInv
      <4>3. QED
        BY <4>1, <4>2
    <3>2. QED
      BY <2>2, <3>1 DEF GuardedReply
  <2>3. ASSUME NEW r \in Requests, ReadBody(r)
        PROVE  GuardedReply'
    BY <2>1, <2>2, <2>3 DEF ReadBody
  <2>4. ASSUME NEW r \in Requests, UseTools(r)
        PROVE  GuardedReply'
    <3>1. UNCHANGED <<form, response>>
      BY <2>4 DEF UseTools
    <3>2. Reply(r, "diagnostic", << >>, "") \/ Reply(r, "dropped", << >>, "") \/ UNCHANGED reply
      BY <2>4 DEF UseTools
    <3>3. QED
      BY <2>1, <2>2, <3>1, <3>2
  <2>5. ASSUME NEW r \in Requests, NEW u \in Responses, Upstream(r, u)
        PROVE  GuardedReply'
    <3>1. /\ UNCHANGED form /\ response' = [response EXCEPT ![r] = u]
          /\ u.kind \in {"failed", "other", "json"} /\ u.calls \in Seq(ToSet(u.calls))
      BY <2>5, ResponseAssumption DEF Upstream
    <3>2. response'[r] = u /\ \A q \in Requests : q = r \/ response'[q] = response[q]
      BY <3>1 DEF RequestInv
    <3>3. CASE u.kind = "failed"
      <4>1. Reply(r, "bad gateway", << >>, "")
        BY <2>5, <3>3 DEF Upstream
      <4>2. QED
        BY <2>1, <3>1, <3>2, <4>1
    <3>4. CASE u.kind # "failed"
      <4> DEFINE guard == form[r].body # "other" /\ ~form[r].stream /\ u.kind = "json"
                 calls == IF guard THEN Guarded(u.calls).calls ELSE u.calls
      <4>1. PICK label : /\ Reply(r, "forwarded", calls, label)
                         /\ guard => label = Guarded(u.calls).label
                         /\ ~guard => label \in {"", "disabled"}
        <5>1. CASE form[r].body = "other"
          BY <2>5, <3>4, <5>1 DEF Upstream
        <5>2. CASE form[r].body # "other" /\ form[r].stream
          BY <2>5, <3>4, <5>2 DEF Upstream
        <5>3. CASE form[r].body # "other" /\ ~form[r].stream /\ u.kind = "other"
          BY <2>5, <3>4, <5>3 DEF Upstream
        <5>4. CASE form[r].body # "other" /\ ~form[r].stream /\ u.kind = "json"
          BY <2>5, <3>4, <5>4 DEF Upstream
        <5>5. QED
          BY <3>1, <3>4, <5>1, <5>2, <5>3, <5>4
      <4>2. \A q \in Requests :
              reply'[q] = IF q = r THEN [kind |-> "forwarded", calls |-> calls, label |-> label]
                          ELSE reply[q]
        BY <4>1 DEF Reply, RequestInv
      <4>3. IF guard /\ Kept(u.calls) # Calls(u.calls)
              THEN /\ label \in {"limited", "duplicate"}
                   /\ Len(calls) = Cardinality(Kept(u.calls))
                   /\ \A i \in Kept(u.calls) :
                        calls[Cardinality(UpTo(Kept(u.calls), i))] = u.calls[i]
              ELSE calls = u.calls /\ label \notin {"limited", "duplicate"}
        <5>1. CASE guard
          <6>1. calls = Guarded(u.calls).calls /\ label = Guarded(u.calls).label
            BY <4>1, <5>1
          <6> HIDE DEF calls
          <6>2. QED
            BY <3>1, <5>1, <6>1, GuardedIsSound
        <5>2. CASE ~guard
          BY <4>1, <5>2
        <5>3. QED
          BY <5>1, <5>2
      <4>4. reply'[r].calls = calls /\ reply'[r].label = label
        BY <4>2
      <4> HIDE DEF calls
      <4>5. ASSUME NEW q \in Requests, q # r
            PROVE  reply'[q] = reply[q] /\ form'[q] = form[q] /\ response'[q] = response[q]
        BY <3>1, <3>2, <4>2, <4>5
      <4>6. QED
        BY <3>1, <3>2, <4>3, <4>4, <4>5 DEF GuardedReply
    <3>5. QED
      BY <3>3, <3>4
  <2>6. CASE \E r \in Requests : Forward(r) \/ \E f \in Forms : Arrive(r, f)
    BY <2>2, <2>6 DEF Forward, Arrive
  <2>7. CASE \/ Tick /\ UNCHANGED request
             \/ \E r \in Requests : Disconnect(r) \/ ToolsStep(r) \/ ToolsFetch(r)
             \/ Exit \/ UNCHANGED allVars
    BY <2>2, <2>7 DEF Disconnect, ToolsStep, ToolsFetch, Exit, allVars
  <2>8. QED
    BY <2>3, <2>4, <2>5, <2>6, <2>7 DEF ProxyNext, Own
<1>3. QED
  BY <1>1, <1>2, RequestCorrect, PTL DEF ProxySpec
=============================================================================
