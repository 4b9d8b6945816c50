--------------------------- MODULE ToolsCacheProofs ---------------------------
(***************************************************************************)
(* Proofs about ToolsCache for every set of requests, both TTLs and every  *)
(* bound of the clock.                                                     *)
(***************************************************************************)
EXTENDS ToolsCache, SequenceTheorems, TLAPS

-------------------------------------------------------------------------------
(***************************************************************************)
(* The inductive invariant, in named parts.                                *)
(***************************************************************************)

\* The number of refreshes that took effect; the channels made are 1..fetchDone.
Landed == IF fetchInFlight THEN fetchDone - 1 ELSE fetchDone

\* The flag, the leader and the channels move together.
FlightInv ==
  /\ fetchInFlight => \E r \in Requests : Leading(r)
  /\ \A r \in Requests : Leading(r) => fetchInFlight
  /\ \A r, s \in Requests : Leading(r) /\ Leading(s) => r = s
  /\ fetchInFlight => fetchDone >= 1
  /\ closed = 1..Landed
  /\ \A r \in Requests : pc[r] = "waiting" => done[r] \in 1..fetchDone

\* The history records the fetch of every channel, and the leader's locals
\* agree with it until they are published.
HistoryInv ==
  /\ Len(fetches) = fetchDone
  /\ \A i \in 1..fetchDone : fetches[i].end <= clock
  /\ \A r \in Requests : now[r] <= clock
  /\ \A r \in Requests : Leading(r) => fetches[fetchDone].leader = r
  /\ \A r \in Requests : pc[r] = "fetched" =>
       /\ fetches[fetchDone].outcome = outcome[r]
       /\ fetches[fetchDone].end = completedAt[r]
       /\ now[r] <= completedAt[r]

\* The cached fields describe the newest good fetch and the newest failure
\* since, and the last fetch to land is in one of them unless it was aborted.
CacheInv ==
  /\ cacheValid <=> cachedTools # 0
  /\ cachedTools # 0 =>
       /\ cachedTools \in 1..Landed
       /\ fetches[cachedTools].outcome = "ok"
       /\ fetches[cachedTools].end = cachedToolsAt
  /\ cachedToolsErr # 0 =>
       /\ cachedToolsErr \in 1..Landed
       /\ fetches[cachedToolsErr].outcome = "failed"
       /\ fetches[cachedToolsErr].end = cachedToolsErrAt
       /\ \A i \in 1..Landed : i > cachedToolsErr => fetches[i].outcome # "ok"
  /\ Landed > 0 =>
       /\ fetches[Landed].outcome = "ok" => cachedTools = Landed
       /\ fetches[Landed].outcome = "failed" => cachedToolsErr = Landed

\* What answer a says to request r of the fetch it names.
Sound(r, a) ==
  /\ a.kind = "tools" =>
       /\ a.fetch \in 1..Landed
       /\ a.fetch <= cachedTools
       /\ fetches[a.fetch].outcome = "ok"
       /\ now[r] < fetches[a.fetch].end + TTL
  /\ a.kind = "error" =>
       /\ a.fetch \in 1..Landed
       /\ fetches[a.fetch].outcome = "failed"
       /\ now[r] < fetches[a.fetch].end + ErrTTL
  /\ a.kind = "context" =>
       \/ r \in cancelled
       \/ /\ a.fetch \in 1..Landed
          /\ fetches[a.fetch].leader = r

\* Exactly the finished requests have an answer, and it is sound.
AnswerInv ==
  \A r \in Requests :
    /\ pc[r] # "done" <=> answer[r] = None
    /\ Sound(r, answer[r])

-------------------------------------------------------------------------------
(***************************************************************************)
(* Type correctness.                                                       *)
(***************************************************************************)

\* Replacing an element, if the index has one, leaves a sequence.
LEMMA SeqUpdate ==
  ASSUME NEW S, NEW s \in Seq(S), NEW i, NEW e, i \in 1..Len(s) => e \in S
  PROVE  [s EXCEPT ![i] = e] \in Seq(S)
<1>1. CASE i \in 1..Len(s)
  BY <1>1, ExceptSeq
<1>2. CASE i \notin 1..Len(s)
  <2>1. s \in [1..Len(s) -> S]
    BY LenProperties
  <2>2. [s EXCEPT ![i] = e] = s
    BY <1>2, <2>1
  <2>3. QED
    BY <2>2
<1>3. QED
  BY <1>1, <1>2

\* The record of a fetch that ends keeps its leader and its start.
LEMMA EndedProperties ==
  ASSUME NEW f \in FetchRecords, NEW o \in Outcomes, clock \in Nat
  PROVE  /\ Ended(f, o) \in FetchRecords
         /\ Ended(f, o).leader = f.leader
         /\ Ended(f, o).start = f.start
         /\ Ended(f, o).end = clock
         /\ Ended(f, o).outcome = o
BY DEF Ended, FetchRecords

\* Every reachable state has well-typed fields, locals and history
\* (the fields proxy.go:46-53 and the locals of getOpenAITools).
THEOREM TypeCorrect == Spec => []TypeOK
<1> USE DEF Answers, Outcomes
<1>1. Init => TypeOK
  <2> SUFFICES ASSUME Init PROVE TypeOK
    OBVIOUS
  <2>1. fetches \in Seq(FetchRecords)
    BY EmptySeq DEF Init
  <2>2. answer \in [Requests -> Answers]
    BY DEF Init, None
  <2>3. QED
    BY <2>1, <2>2 DEF Init, TypeOK
<1>2. TypeOK /\ [Next]_vars => TypeOK'
  <2> SUFFICES ASSUME TypeOK, [Next]_vars
               PROVE  TypeOK'
    OBVIOUS
  <2> USE DEF TypeOK
  <2>1. CASE Tick
    BY <2>1, MaxTimeAssumption DEF Tick, locals, flight, cache
  <2>2. ASSUME NEW r \in Requests, Cancel(r)
        PROVE  TypeOK'
    BY <2>2 DEF Cancel, locals, flight, cache
  <2>3. ASSUME NEW r \in Requests, Sample(r)
        PROVE  TypeOK'
    BY <2>3 DEF Sample, flight, cache
  <2>4. ASSUME NEW r \in Requests, ServeTools(r)
        PROVE  TypeOK'
    BY <2>4 DEF ServeTools, Return, Tools, locals, flight, cache
  <2>5. ASSUME NEW r \in Requests, ServeError(r)
        PROVE  TypeOK'
    BY <2>5 DEF ServeError, Return, Error, locals, flight, cache
  <2>6. ASSUME NEW r \in Requests, Join(r)
        PROVE  TypeOK'
    BY <2>6 DEF Join, flight, cache
  <2>7. ASSUME NEW r \in Requests, Lead(r)
        PROVE  TypeOK'
    <3>1. [leader |-> r, start |-> clock, end |-> clock, outcome |-> "running"] \in FetchRecords
      BY DEF FetchRecords
    <3>2. fetches' \in Seq(FetchRecords)
      BY <2>7, <3>1 DEF Lead
    <3>3. QED
      BY <2>7, <3>2 DEF Lead, locals, cache
  <2>8. ASSUME NEW r \in Requests, Wake(r)
        PROVE  TypeOK'
    BY <2>8 DEF Wake, locals, flight, cache
  <2>9. ASSUME NEW r \in Requests, GiveUp(r)
        PROVE  TypeOK'
    BY <2>9 DEF GiveUp, Return, Context, locals, flight, cache
  <2>10. ASSUME NEW r \in Requests, NEW o \in Outcomes, FetchReturn(r, o)
         PROVE  TypeOK'
    <3>1. fetchDone \in 1..Len(fetches) => Ended(fetches[fetchDone], o) \in FetchRecords
      BY ElementOfSeq, EndedProperties
    <3>2. [fetches EXCEPT ![fetchDone] = Ended(fetches[fetchDone], o)] \in Seq(FetchRecords)
      BY <3>1, SeqUpdate
    <3>3. fetches' \in Seq(FetchRecords)
      BY <2>10, <3>2 DEF FetchReturn
    <3>4. QED
      BY <2>10, <3>3 DEF FetchReturn, flight, cache
  <2>11. ASSUME NEW r \in Requests, Publish(r)
         PROVE  TypeOK'
    <3> USE <2>11 DEF Publish, Return, locals, cache
    <3>1. CASE KeepTools(r)
      BY <3>1 DEF KeepTools, Tools
    <3>2. CASE KeepError(r)
      BY <3>2 DEF KeepError, Error
    <3>3. CASE KeepNothing(r)
      BY <3>3 DEF KeepNothing, Context
    <3>4. QED
      BY <3>1, <3>2, <3>3
  <2>12. CASE UNCHANGED vars
    BY <2>12 DEF vars, locals, flight, cache
  <2>13. QED
    BY <2>1, <2>2, <2>3, <2>4, <2>5, <2>6, <2>7, <2>8, <2>9, <2>10, <2>11, <2>12
       DEF Next, Run, Decide, Fetch
<1>3. QED
  BY <1>1, <1>2, PTL DEF Spec

-------------------------------------------------------------------------------
(***************************************************************************)
(* The flag, the leader and the channels.                                  *)
(***************************************************************************)

\* The flag, the leader and the channels move together (proxy.go:253-272).
THEOREM FlightCorrect == Spec => []FlightInv
<1> USE DEF FlightInv, Landed, Leading
<1>1. Init => FlightInv
  BY DEF Init
<1>2. TypeOK /\ FlightInv /\ [Next]_vars => FlightInv'
  <2> SUFFICES ASSUME TypeOK, FlightInv, [Next]_vars
               PROVE  FlightInv'
    OBVIOUS
  <2> USE DEF TypeOK, locals, flight
  <2>1. CASE Tick
    BY <2>1 DEF Tick
  <2>2. ASSUME NEW r \in Requests, Cancel(r)
        PROVE  FlightInv'
    BY <2>2 DEF Cancel
  <2>3. ASSUME NEW r \in Requests, Sample(r)
        PROVE  FlightInv'
    BY <2>3 DEF Sample
  <2>4. ASSUME NEW r \in Requests, ServeTools(r) \/ ServeError(r)
        PROVE  FlightInv'
    <3>1. CASE ServeTools(r)
      BY <3>1 DEF ServeTools, Return
    <3>2. CASE ServeError(r)
      BY <3>2 DEF ServeError, Return
    <3>3. QED
      BY <2>4, <3>1, <3>2
  <2>5. ASSUME NEW r \in Requests, Join(r)
        PROVE  FlightInv'
    BY <2>5 DEF Join
  <2>6. ASSUME NEW r \in Requests, Lead(r)
        PROVE  FlightInv'
    BY <2>6 DEF Lead
  <2>7. ASSUME NEW r \in Requests, Wake(r)
        PROVE  FlightInv'
    BY <2>7 DEF Wake
  <2>8. ASSUME NEW r \in Requests, GiveUp(r)
        PROVE  FlightInv'
    BY <2>8 DEF GiveUp, Return
  <2>9. ASSUME NEW r \in Requests, NEW o \in Outcomes, FetchReturn(r, o)
        PROVE  FlightInv'
    BY <2>9 DEF FetchReturn
  <2>10. ASSUME NEW r \in Requests, Publish(r)
         PROVE  FlightInv'
    <3>1. pc' = [pc EXCEPT ![r] = "done"]
      BY <2>10 DEF Publish, KeepTools, KeepError, KeepNothing, Return
    <3>2. QED
      BY <2>10, <3>1 DEF Publish
  <2>11. CASE UNCHANGED vars
    BY <2>11 DEF vars
  <2>12. QED
    BY <2>1, <2>2, <2>3, <2>4, <2>5, <2>6, <2>7, <2>8, <2>9, <2>10, <2>11
       DEF Next, Run, Decide, Fetch
<1>3. QED
  BY <1>1, <1>2, TypeCorrect, PTL DEF Spec

\* For any number of requests, at most one leads, and the channel it will
\* close is open.
THEOREM SingleFlightCorrect == Spec => []SingleFlight
<1>1. TypeOK /\ FlightInv => SingleFlight
  BY DEF FlightInv, SingleFlight, Landed, TypeOK
<1>2. QED
  BY <1>1, TypeCorrect, FlightCorrect, PTL

\* For any number of requests, no waiter is left without someone to wake it.
THEOREM NoOrphanedWaiterCorrect == Spec => []NoOrphanedWaiter
<1>1. TypeOK /\ FlightInv => NoOrphanedWaiter
  BY DEF FlightInv, NoOrphanedWaiter, Landed, TypeOK
<1>2. QED
  BY <1>1, TypeCorrect, FlightCorrect, PTL

-------------------------------------------------------------------------------
(***************************************************************************)
(* The history of the fetches and the cached fields.                       *)
(***************************************************************************)

\* What the steps that touch the history do to it.
LEMMA HistoryUpdate ==
  ASSUME TypeOK, FlightInv, HistoryInv, NEW r \in Requests
  PROVE  /\ Lead(r) =>
              /\ Len(fetches') = fetchDone + 1
              /\ \A i \in 1..fetchDone : fetches'[i] = fetches[i]
              /\ fetches'[fetchDone + 1] = [leader |-> r, start |-> clock, end |-> clock,
                                            outcome |-> "running"]
         /\ \A o \in Outcomes : FetchReturn(r, o) =>
              /\ fetchDone \in 1..fetchDone
              /\ Len(fetches') = fetchDone
              /\ \A i \in 1..(fetchDone - 1) : fetches'[i] = fetches[i]
              /\ fetches'[fetchDone].leader = fetches[fetchDone].leader
              /\ fetches'[fetchDone].start = fetches[fetchDone].start
              /\ fetches'[fetchDone].end = clock
              /\ fetches'[fetchDone].outcome = o
<1> USE DEF TypeOK, HistoryInv
<1>1. ASSUME Lead(r)
      PROVE  /\ Len(fetches') = fetchDone + 1
             /\ \A i \in 1..fetchDone : fetches'[i] = fetches[i]
             /\ fetches'[fetchDone + 1] = [leader |-> r, start |-> clock, end |-> clock,
                                           outcome |-> "running"]
  <2> DEFINE f == [leader |-> r, start |-> clock, end |-> clock, outcome |-> "running"]
  <2>1. fetches' = Append(fetches, f)
    BY <1>1 DEF Lead
  <2> HIDE DEF f
  <2>2. QED
    BY <2>1 DEF f
<1>2. ASSUME NEW o \in Outcomes, FetchReturn(r, o)
      PROVE  /\ fetchDone \in 1..fetchDone
             /\ Len(fetches') = fetchDone
             /\ \A i \in 1..(fetchDone - 1) : fetches'[i] = fetches[i]
             /\ fetches'[fetchDone].leader = fetches[fetchDone].leader
             /\ fetches'[fetchDone].start = fetches[fetchDone].start
             /\ fetches'[fetchDone].end = clock
             /\ fetches'[fetchDone].outcome = o
  <2> DEFINE f == Ended(fetches[fetchDone], o)
  <2>1. fetchDone \in 1..fetchDone /\ fetchDone \in 1..Len(fetches)
    BY <1>2 DEF FetchReturn, FlightInv, Leading
  <2>2. fetches[fetchDone] \in FetchRecords
    BY <2>1, ElementOfSeq
  <2>3. /\ f \in FetchRecords
        /\ f.leader = fetches[fetchDone].leader /\ f.start = fetches[fetchDone].start
        /\ f.end = clock /\ f.outcome = o
    BY <2>2, EndedProperties
  <2>4. fetches' = [fetches EXCEPT ![fetchDone] = f]
    BY <1>2 DEF FetchReturn
  <2> HIDE DEF f
  <2>5. QED
    BY <2>1, <2>3, <2>4, ExceptSeq
<1>3. QED
  BY <1>1, <1>2

\* The history agrees with the leader's locals (proxy.go:267-268).
THEOREM HistoryCorrect == Spec => []HistoryInv
<1> USE DEF HistoryInv
<1>1. Init => HistoryInv
  BY EmptySeq DEF Init, Leading
<1>2. TypeOK /\ FlightInv /\ HistoryInv /\ [Next]_vars => HistoryInv'
  <2> SUFFICES ASSUME TypeOK, FlightInv, HistoryInv, [Next]_vars
               PROVE  HistoryInv'
    OBVIOUS
  <2> USE DEF TypeOK, locals, flight, Leading
  <2>1. CASE Tick
    <3>1. \A i \in 1..fetchDone : fetches[i].end \in Nat
      <4>1. \A i \in 1..fetchDone : fetches[i] \in FetchRecords
        BY ElementOfSeq
      <4>2. QED
        BY <4>1 DEF FetchRecords
    <3>2. clock' = clock + 1 /\ UNCHANGED <<pc, now, outcome, completedAt, fetchDone, fetches>>
      BY <2>1 DEF Tick
    <3>3. /\ \A i \in 1..fetchDone : fetches'[i].end <= clock'
          /\ \A r \in Requests : now'[r] <= clock'
      BY <3>1, <3>2
    <3>4. QED
      BY <3>2, <3>3
  <2>2. ASSUME NEW r \in Requests, Cancel(r)
        PROVE  HistoryInv'
    BY <2>2 DEF Cancel
  <2>3. ASSUME NEW r \in Requests, Sample(r)
        PROVE  HistoryInv'
    BY <2>3 DEF Sample
  <2>4. ASSUME NEW r \in Requests, ServeTools(r) \/ ServeError(r)
        PROVE  HistoryInv'
    <3>1. pc' = [pc EXCEPT ![r] = "done"] /\ UNCHANGED <<clock, now, outcome, completedAt, fetchDone, fetches>>
      BY <2>4 DEF ServeTools, ServeError, Return
    <3>2. QED
      BY <3>1
  <2>5. ASSUME NEW r \in Requests, Join(r)
        PROVE  HistoryInv'
    BY <2>5 DEF Join
  <2>6. ASSUME NEW r \in Requests, Lead(r)
        PROVE  HistoryInv'
    BY <2>6, HistoryUpdate DEF Lead, FlightInv
  <2>7. ASSUME NEW r \in Requests, Wake(r)
        PROVE  HistoryInv'
    BY <2>7 DEF Wake
  <2>8. ASSUME NEW r \in Requests, GiveUp(r)
        PROVE  HistoryInv'
    BY <2>8 DEF GiveUp, Return
  <2>9. ASSUME NEW r \in Requests, NEW o \in Outcomes, FetchReturn(r, o)
        PROVE  HistoryInv'
    <3>1. /\ pc[r] = "fetching" /\ pc' = [pc EXCEPT ![r] = "fetched"]
          /\ outcome' = [outcome EXCEPT ![r] = o]
          /\ completedAt' = [completedAt EXCEPT ![r] = clock]
          /\ UNCHANGED <<clock, now, fetchDone>>
      BY <2>9 DEF FetchReturn
    <3>2. \A s \in Requests : Leading(s)' => s = r
      BY <3>1 DEF FlightInv
    <3>3. /\ Len(fetches') = fetchDone
          /\ \A i \in 1..(fetchDone - 1) : fetches'[i] = fetches[i]
          /\ fetches'[fetchDone].leader = fetches[fetchDone].leader
          /\ fetches'[fetchDone].end = clock
          /\ fetches'[fetchDone].outcome = o
      BY <2>9, HistoryUpdate
    <3>4. \A i \in 1..fetchDone : fetches'[i].end <= clock
      BY <3>3
    <3>5. QED
      BY <3>1, <3>2, <3>3, <3>4
  <2>10. ASSUME NEW r \in Requests, Publish(r)
         PROVE  HistoryInv'
    <3>1. pc' = [pc EXCEPT ![r] = "done"]
      BY <2>10 DEF Publish, KeepTools, KeepError, KeepNothing, Return
    <3>2. QED
      BY <2>10, <3>1 DEF Publish
  <2>11. CASE UNCHANGED vars
    BY <2>11 DEF vars
  <2>12. QED
    BY <2>1, <2>2, <2>3, <2>4, <2>5, <2>6, <2>7, <2>8, <2>9, <2>10, <2>11
       DEF Next, Run, Decide, Fetch
<1>3. QED
  BY <1>1, <1>2, TypeCorrect, FlightCorrect, PTL DEF Spec

\* Every step but Publish leaves the cached fields alone; every step leaves the
\* records of the fetches that have landed alone.
LEMMA LandedKept ==
  ASSUME TypeOK, FlightInv, HistoryInv, [Next]_vars
  PROVE  /\ \A i \in 1..Landed : fetches'[i] = fetches[i]
         /\ \/ UNCHANGED <<cache, Landed>>
            \/ \E r \in Requests : Publish(r)
<1> USE DEF TypeOK, FlightInv, Landed, locals, flight
<1>1. ASSUME NEW r \in Requests, Lead(r)
      PROVE  UNCHANGED <<cache, Landed>> /\ \A i \in 1..Landed : fetches'[i] = fetches[i]
  <2>1. \A i \in 1..fetchDone : fetches'[i] = fetches[i]
    BY <1>1, HistoryUpdate
  <2>2. ~fetchInFlight /\ fetchInFlight' /\ fetchDone' = fetchDone + 1 /\ UNCHANGED cache
    BY <1>1 DEF Lead
  <2>3. QED
    BY <2>1, <2>2
<1>2. ASSUME NEW r \in Requests, NEW o \in Outcomes, FetchReturn(r, o)
      PROVE  UNCHANGED <<cache, Landed>> /\ \A i \in 1..Landed : fetches'[i] = fetches[i]
  <2>1. UNCHANGED <<cache, Landed>> /\ fetchInFlight
    BY <1>2 DEF FetchReturn, Leading
  <2>2. QED
    BY <1>2, <2>1, HistoryUpdate
<1>3. ASSUME NEW r \in Requests, Publish(r)
      PROVE  \A i \in 1..Landed : fetches'[i] = fetches[i]
  BY <1>3 DEF Publish
<1>4. ASSUME \/ Tick
             \/ \E r \in Requests :
                  \/ Cancel(r) \/ Sample(r) \/ ServeTools(r) \/ ServeError(r)
                  \/ Join(r) \/ Wake(r) \/ GiveUp(r)
             \/ UNCHANGED vars
      PROVE  UNCHANGED <<cache, Landed>> /\ \A i \in 1..Landed : fetches'[i] = fetches[i]
  <2>1. UNCHANGED <<cache, fetchInFlight, fetchDone, fetches>>
    BY <1>4 DEF Tick, Cancel, Sample, ServeTools, ServeError, Join, Wake, GiveUp, vars
  <2>2. QED
    BY <2>1
<1>5. QED
  BY <1>1, <1>2, <1>3, <1>4 DEF Next, Run, Decide, Fetch

\* What publishing does, in terms of the number n of the fetch that lands.
LEMMA PublishEffect ==
  ASSUME TypeOK, FlightInv, HistoryInv, NEW r \in Requests, Publish(r)
  PROVE  /\ fetchDone = Landed + 1 /\ Landed' = Landed + 1 /\ Landed \in Nat
         /\ UNCHANGED <<clock, cancelled, now, fetches>>
         /\ pc[r] = "fetched" /\ pc' = [pc EXCEPT ![r] = "done"]
         /\ fetches[Landed + 1].leader = r
         /\ fetches[Landed + 1].end = completedAt[r]
         /\ fetches[Landed + 1].outcome = outcome[r]
         /\ now[r] <= completedAt[r]
<1>1. pc' = [pc EXCEPT ![r] = "done"]
  BY DEF Publish, KeepTools, KeepError, KeepNothing, Return
<1>2. /\ pc[r] = "fetched" /\ ~fetchInFlight'
      /\ UNCHANGED <<clock, cancelled, now, fetchDone, fetches>>
  BY DEF Publish, locals
<1>3. fetchInFlight
  BY <1>2 DEF FlightInv, Leading
<1>4. fetchDone = Landed + 1 /\ Landed' = Landed + 1 /\ Landed \in Nat
  BY <1>2, <1>3 DEF TypeOK, FlightInv, Landed
<1>5. /\ fetches[fetchDone].leader = r
      /\ fetches[fetchDone].outcome = outcome[r]
      /\ fetches[fetchDone].end = completedAt[r]
      /\ now[r] <= completedAt[r]
  BY <1>2 DEF HistoryInv, Leading
<1>6. QED
  BY <1>1, <1>2, <1>4, <1>5

\* The cached fields are the newest good fetch and the newest failure since
\* (proxy.go:273-284).
THEOREM CacheCorrect == Spec => []CacheInv
<1>1. Init => CacheInv
  BY DEF Init, CacheInv, Landed
<1>2. TypeOK /\ FlightInv /\ HistoryInv /\ CacheInv /\ [Next]_vars => CacheInv'
  <2> SUFFICES ASSUME TypeOK, FlightInv, HistoryInv, CacheInv, [Next]_vars
               PROVE  CacheInv'
    OBVIOUS
  <2>1. CASE UNCHANGED <<cache, Landed>>
    <3> SUFFICES ASSUME Landed \in Nat, \A i \in 1..Landed : fetches'[i] = fetches[i]
                 PROVE  CacheInv'
      BY LandedKept DEF TypeOK, FlightInv, Landed
    <3>1. QED
      BY <2>1 DEF CacheInv, cache
  <2>2. ASSUME NEW r \in Requests, Publish(r)
        PROVE  CacheInv'
    <3> HIDE DEF Landed
    <3>1. /\ fetchDone = Landed + 1 /\ Landed' = Landed + 1 /\ Landed \in Nat
          /\ UNCHANGED fetches
          /\ fetches[Landed + 1].end = completedAt[r]
          /\ fetches[Landed + 1].outcome = outcome[r]
      BY <2>2, PublishEffect
    <3> USE DEF CacheInv, TypeOK
    <3>2. CASE KeepTools(r)
      BY <3>1, <3>2 DEF KeepTools
    <3>3. CASE KeepError(r)
      BY <3>1, <3>3 DEF KeepError
    <3>4. CASE KeepNothing(r)
      BY <3>1, <3>4 DEF KeepNothing, cache
    <3>5. QED
      BY <2>2, <3>2, <3>3, <3>4 DEF Publish
  <2>3. QED
    BY <2>1, <2>2, LandedKept
<1>3. QED
  BY <1>1, <1>2, TypeCorrect, FlightCorrect, HistoryCorrect, PTL DEF Spec

-------------------------------------------------------------------------------
(***************************************************************************)
(* The answers.                                                            *)
(***************************************************************************)

\* What an answer says stays true: landed fetches keep their records and only
\* requests without an answer look at the clock again.
LEMMA SoundKept ==
  ASSUME TypeOK, FlightInv, HistoryInv, CacheInv, [Next]_vars,
         NEW r \in Requests, NEW a \in Answers, Sound(r, a), now'[r] = now[r]
  PROVE  Sound(r, a)'
<1>1. Landed \in Nat /\ \A i \in 1..Landed : fetches'[i] = fetches[i]
  BY LandedKept DEF TypeOK, FlightInv, Landed
<1>2. cancelled \subseteq cancelled'
  BY DEF Next, Run, Decide, Fetch, Tick, Cancel, Sample, ServeTools, ServeError,
         Join, Lead, Wake, GiveUp, FetchReturn, Publish, vars
<1> USE DEF Answers, TypeOK
<1>3. /\ Landed' \in Nat /\ Landed' >= Landed
      /\ cachedTools' \in Nat /\ cachedTools' >= cachedTools
  <2>1. CASE UNCHANGED <<cache, Landed>>
    BY <1>1, <2>1 DEF cache
  <2>2. ASSUME NEW s \in Requests, Publish(s)
        PROVE  /\ Landed' \in Nat /\ Landed' >= Landed
               /\ cachedTools' \in Nat /\ cachedTools' >= cachedTools
    <3> HIDE DEF Landed
    <3>1. fetchDone = Landed + 1 /\ Landed' = Landed + 1
      BY <2>2, PublishEffect
    <3>2. cachedTools' = cachedTools \/ cachedTools' = fetchDone
      BY <2>2 DEF Publish, KeepTools, KeepError, KeepNothing, cache
    <3>3. cachedTools <= Landed
      BY <1>1 DEF CacheInv
    <3>4. QED
      BY <1>1, <3>1, <3>2, <3>3
  <2>3. QED
    BY <2>1, <2>2, LandedKept
<1>4. /\ a.kind = "tools" => Sound(r, a)'
      /\ a.kind = "error" => Sound(r, a)'
      /\ a.kind = "context" => Sound(r, a)'
  <2> HIDE DEF Landed
  <2>1. CASE a.kind = "tools"
    BY <1>1, <1>3, <2>1 DEF Sound
  <2>2. CASE a.kind = "error"
    BY <1>1, <1>3, <2>2 DEF Sound
  <2>3. CASE a.kind = "context"
    BY <1>1, <1>2, <1>3, <2>3 DEF Sound
  <2>4. QED
    BY <2>1, <2>2, <2>3
<1>5. QED
  BY <1>4 DEF Sound

\* Answering a request with a sound answer keeps the invariant.
LEMMA SoundReturn ==
  ASSUME TypeOK, FlightInv, HistoryInv, CacheInv, AnswerInv, [Next]_vars,
         NEW r \in Requests, NEW a \in Answers, a.kind # "none",
         Return(r, a), UNCHANGED now, Sound(r, a)'
  PROVE  AnswerInv'
<1>1. answer' = [answer EXCEPT ![r] = a] /\ pc' = [pc EXCEPT ![r] = "done"]
  BY DEF Return
<1>2. ASSUME NEW s \in Requests, s # r
      PROVE  (pc[s] # "done" <=> answer[s] = None)' /\ Sound(s, answer[s])'
  <2>1. answer'[s] = answer[s] /\ pc'[s] = pc[s] /\ now'[s] = now[s] /\ answer[s] \in Answers
    BY <1>1, <1>2 DEF TypeOK
  <2>2. Sound(s, answer[s]) /\ (pc[s] # "done" <=> answer[s] = None)
    BY DEF AnswerInv
  <2>3. QED
    BY <2>1, <2>2, SoundKept DEF Sound
<1>3. answer'[r] = a /\ pc'[r] = "done" /\ a # None
  BY <1>1 DEF TypeOK, None
<1>4. QED
  BY <1>2, <1>3 DEF AnswerInv, Sound

\* Exactly the finished requests have an answer, and what it says of the fetch
\* it names is true when it is given and stays true (proxy.go:243-258,273-287).
THEOREM AnswerCorrect == Spec => []AnswerInv
<1>1. Init => AnswerInv
  <2> SUFFICES ASSUME Init, NEW r \in Requests
               PROVE  (pc[r] # "done" <=> answer[r] = None) /\ Sound(r, answer[r])
    BY DEF AnswerInv
  <2>1. pc[r] = "idle" /\ answer[r] = None
    BY DEF Init
  <2>2. QED
    BY <2>1 DEF Sound, None
<1>2. TypeOK /\ FlightInv /\ HistoryInv /\ CacheInv /\ AnswerInv /\ [Next]_vars => AnswerInv'
  <2> SUFFICES ASSUME TypeOK, FlightInv, HistoryInv, CacheInv, AnswerInv, [Next]_vars
               PROVE  AnswerInv'
    OBVIOUS
  <2>1. Landed \in Nat /\ \A i \in 1..Landed : fetches'[i] = fetches[i]
    BY LandedKept DEF TypeOK, FlightInv, Landed
  <2>2. ASSUME UNCHANGED answer,
               \A s \in Requests : /\ pc'[s] = "done" <=> pc[s] = "done"
                                   /\ now'[s] = now[s] \/ pc[s] # "done"
        PROVE  AnswerInv'
    <3> SUFFICES ASSUME NEW s \in Requests
                 PROVE  (pc[s] # "done" <=> answer[s] = None)' /\ Sound(s, answer[s])'
      BY DEF AnswerInv
    <3>1. answer'[s] = answer[s] /\ answer[s] \in Answers
      BY <2>2 DEF TypeOK
    <3>2. (pc[s] # "done" <=> answer[s] = None) /\ Sound(s, answer[s])
      BY DEF AnswerInv
    <3>3. CASE now'[s] = now[s]
      BY <2>2, <3>1, <3>2, <3>3, SoundKept DEF Sound
    <3>4. CASE pc[s] # "done"
      BY <2>2, <3>1, <3>2, <3>4 DEF Sound, None
    <3>5. QED
      BY <2>2, <3>3, <3>4
  <2> USE DEF locals
  <2>3. ASSUME Tick \/ \E r \in Requests : Cancel(r)
        PROVE  AnswerInv'
    BY <2>2, <2>3 DEF Tick, Cancel
  <2>4. ASSUME NEW r \in Requests,
               Sample(r) \/ Join(r) \/ Lead(r) \/ Wake(r) \/ Fetch(r)
        PROVE  AnswerInv'
    <3>1. /\ UNCHANGED answer
          /\ pc[r] # "done" /\ \E v : v # "done" /\ pc' = [pc EXCEPT ![r] = v]
      BY <2>4 DEF Sample, Join, Lead, Wake, Fetch, FetchReturn, TypeOK
    <3>2. \E t : now' = [now EXCEPT ![r] = t]
      BY <2>4 DEF Sample, Join, Lead, Wake, Fetch, FetchReturn, TypeOK
    <3>3. QED
      BY <2>2, <3>1, <3>2 DEF TypeOK
  <2> USE DEF Answers
  <2>5. ASSUME NEW r \in Requests, ServeTools(r)
        PROVE  AnswerInv'
    <3>1. Return(r, Tools(cachedTools)) /\ UNCHANGED <<now, cache, flight, fetches>>
      BY <2>5 DEF ServeTools
    <3>2. /\ cachedTools \in 1..Landed
          /\ fetches[cachedTools].outcome = "ok"
          /\ now[r] < fetches[cachedTools].end + TTL
      BY <2>5, TTLAssumption DEF ServeTools, FreshTools, CacheInv, TypeOK
    <3>3. PICK a \in Answers : a = Tools(cachedTools)
      BY DEF Tools, TypeOK
    <3>4. Sound(r, a)'
      BY <3>1, <3>2, <3>3 DEF Sound, Tools, cache, flight, Landed, TypeOK
    <3>5. a.kind # "none" /\ Return(r, a)
      BY <3>1, <3>3 DEF Tools
    <3>6. QED
      BY <3>1, <3>4, <3>5, SoundReturn
  <2>6. ASSUME NEW r \in Requests, ServeError(r)
        PROVE  AnswerInv'
    <3>1. Return(r, Error(cachedToolsErr)) /\ UNCHANGED <<now, cache, flight, fetches>>
      BY <2>6 DEF ServeError
    <3>2. /\ cachedToolsErr \in 1..Landed
          /\ fetches[cachedToolsErr].outcome = "failed"
          /\ now[r] < fetches[cachedToolsErr].end + ErrTTL
      BY <2>6, TTLAssumption DEF ServeError, FreshError, CacheInv, TypeOK
    <3>3. PICK a \in Answers : a = Error(cachedToolsErr)
      BY DEF Error, TypeOK
    <3>4. Sound(r, a)'
      BY <3>1, <3>2, <3>3 DEF Sound, Error, cache, flight, Landed, TypeOK
    <3>5. a.kind # "none" /\ Return(r, a)
      BY <3>1, <3>3 DEF Error
    <3>6. QED
      BY <3>1, <3>4, <3>5, SoundReturn
  <2>7. ASSUME NEW r \in Requests, GiveUp(r)
        PROVE  AnswerInv'
    <3>1. Return(r, Context(0)) /\ UNCHANGED <<now, cancelled>> /\ r \in cancelled
      BY <2>7 DEF GiveUp
    <3>2. Sound(r, Context(0))'
      BY <3>1 DEF Sound, Context
    <3>3. QED
      BY <3>1, <3>2, SoundReturn DEF Context
  <2>8. ASSUME NEW r \in Requests, Publish(r)
        PROVE  AnswerInv'
    <3>1. /\ fetchDone = Landed + 1 /\ Landed' = Landed + 1
          /\ UNCHANGED <<now, fetches>>
          /\ fetches[Landed + 1].leader = r
          /\ fetches[Landed + 1].end = completedAt[r]
          /\ fetches[Landed + 1].outcome = outcome[r]
          /\ now[r] <= completedAt[r]
      BY <2>8, PublishEffect
    <3>2. fetchDone \in 1..Landed'
      BY <2>1, <3>1
    <3>3. CASE KeepTools(r)
      <4>1. Return(r, Tools(fetchDone)) /\ cachedTools' = fetchDone /\ outcome[r] = "ok"
        BY <3>3 DEF KeepTools
      <4>2. now[r] < completedAt[r] + TTL
        BY <3>1, TTLAssumption DEF TypeOK
      <4>3. PICK a \in Answers : a = Tools(fetchDone)
        BY DEF Tools, TypeOK
      <4>4. Sound(r, a)'
        BY <3>1, <3>2, <4>1, <4>2, <4>3 DEF Sound, Tools, TypeOK
      <4>5. a.kind # "none" /\ Return(r, a)
        BY <4>1, <4>3 DEF Tools
      <4>6. QED
        BY <3>1, <4>4, <4>5, SoundReturn
    <3>4. CASE KeepError(r)
      <4>1. Return(r, Error(fetchDone)) /\ outcome[r] = "failed"
        BY <3>4 DEF KeepError
      <4>2. now[r] < completedAt[r] + ErrTTL
        BY <3>1, TTLAssumption DEF TypeOK
      <4>3. PICK a \in Answers : a = Error(fetchDone)
        BY DEF Error, TypeOK
      <4>4. Sound(r, a)'
        BY <3>1, <3>2, <4>1, <4>2, <4>3 DEF Sound, Error, TypeOK
      <4>5. a.kind # "none" /\ Return(r, a)
        BY <4>1, <4>3 DEF Error
      <4>6. QED
        BY <3>1, <4>4, <4>5, SoundReturn
    <3>5. CASE KeepNothing(r)
      <4>1. Return(r, Context(fetchDone))
        BY <3>5 DEF KeepNothing
      <4>2. PICK a \in Answers : a = Context(fetchDone)
        BY DEF Context, TypeOK
      <4>3. Sound(r, a)'
        BY <3>1, <3>2, <4>2 DEF Sound, Context, TypeOK
      <4>4. a.kind # "none" /\ Return(r, a)
        BY <4>1, <4>2 DEF Context
      <4>5. QED
        BY <3>1, <4>3, <4>4, SoundReturn
    <3>6. QED
      BY <2>8, <3>3, <3>4, <3>5 DEF Publish
  <2>9. CASE UNCHANGED vars
    BY <2>2, <2>9 DEF vars
  <2>10. QED
    BY <2>3, <2>4, <2>5, <2>6, <2>7, <2>8, <2>9 DEF Next, Run, Decide
<1>3. QED
  BY <1>1, <1>2, TypeCorrect, FlightCorrect, HistoryCorrect, CacheCorrect, PTL DEF Spec

\* For any number of requests, the end of one client's context is never
\* another client's answer.
THEOREM CancellationIsPrivateCorrect == Spec => []CancellationIsPrivate
<1>1. TypeOK /\ FlightInv /\ AnswerInv => CancellationIsPrivate
  BY DEF AnswerInv, Sound, CancellationIsPrivate, Landed, TypeOK
<1>2. QED
  BY <1>1, TypeCorrect, FlightCorrect, AnswerCorrect, PTL

\* For any TTLs and any interleaving, answers are fresh when asked for.
THEOREM AnswersAreFreshCorrect == Spec => []AnswersAreFresh
<1>1. AnswerInv => AnswersAreFresh
  BY DEF AnswerInv, Sound, AnswersAreFresh
<1>2. QED
  BY <1>1, AnswerCorrect, PTL

-------------------------------------------------------------------------------
(***************************************************************************)
(* The upstream is spared, and the answers only go forward.                *)
(***************************************************************************)

\* For any TTLs, a fetch starts at least a TTL after the one before it ended.
THEOREM UpstreamIsSparedCorrect == Spec => []UpstreamIsSpared
<1>1. Init => UpstreamIsSpared
  BY DEF Init, UpstreamIsSpared
<1>2. TypeOK /\ FlightInv /\ HistoryInv /\ CacheInv /\ UpstreamIsSpared /\ [Next]_vars
        => UpstreamIsSpared'
  <2> SUFFICES ASSUME TypeOK, FlightInv, HistoryInv, CacheInv, UpstreamIsSpared, [Next]_vars
               PROVE  UpstreamIsSpared'
    OBVIOUS
  <2>1. Len(fetches) = fetchDone /\ fetchDone \in Nat
    BY DEF HistoryInv, TypeOK
  <2>2. CASE UNCHANGED fetches
    BY <2>2 DEF UpstreamIsSpared
  <2>3. ASSUME NEW r \in Requests, Lead(r)
        PROVE  UpstreamIsSpared'
    <3>1. /\ Len(fetches') = fetchDone + 1
          /\ \A i \in 1..fetchDone : fetches'[i] = fetches[i]
          /\ fetches'[fetchDone + 1].start = clock
      <4>1. /\ Len(fetches') = fetchDone + 1
            /\ \A i \in 1..fetchDone : fetches'[i] = fetches[i]
            /\ fetches'[fetchDone + 1] = [leader |-> r, start |-> clock, end |-> clock,
                                          outcome |-> "running"]
        BY <2>3, HistoryUpdate
      <4>2. QED
        BY <4>1
    <3>2. /\ ~FreshTools(r) /\ ~FreshError(r) /\ ~fetchInFlight
          /\ now[r] <= clock /\ now[r] \in Nat
      BY <2>3 DEF Lead, HistoryInv, TypeOK
    <3>3. Landed = fetchDone
      BY <3>2 DEF Landed
    <3>4. ASSUME fetchDone > 0, fetches[fetchDone].outcome = "ok"
          PROVE  clock >= fetches[fetchDone].end + TTL
      <4>1. cachedTools = fetchDone /\ cacheValid /\ fetches[fetchDone].end = cachedToolsAt
        BY <3>3, <3>4 DEF CacheInv
      <4>2. QED
        BY <3>2, <4>1, TTLAssumption DEF FreshTools, TypeOK
    <3>5. ASSUME fetchDone > 0, fetches[fetchDone].outcome = "failed"
          PROVE  clock >= fetches[fetchDone].end + ErrTTL
      <4>1. cachedToolsErr = fetchDone /\ fetches[fetchDone].end = cachedToolsErrAt
        BY <3>3, <3>5 DEF CacheInv
      <4>2. QED
        BY <3>2, <3>5, <4>1, TTLAssumption DEF FreshError, TypeOK
    <3>6. SUFFICES ASSUME NEW i \in 2..Len(fetches')
                   PROVE  /\ fetches'[i - 1].outcome = "ok" =>
                               fetches'[i].start >= fetches'[i - 1].end + TTL
                          /\ fetches'[i - 1].outcome = "failed" =>
                               fetches'[i].start >= fetches'[i - 1].end + ErrTTL
      BY DEF UpstreamIsSpared
    <3>7. CASE i = fetchDone + 1
      BY <2>1, <3>1, <3>4, <3>5, <3>7
    <3>8. CASE i \in 2..fetchDone
      BY <2>1, <3>1, <3>8 DEF UpstreamIsSpared
    <3>9. QED
      BY <2>1, <3>1, <3>7, <3>8
  <2>4. ASSUME NEW r \in Requests, NEW o \in Outcomes, FetchReturn(r, o)
        PROVE  UpstreamIsSpared'
    <3>1. /\ Len(fetches') = fetchDone
          /\ \A i \in 1..(fetchDone - 1) : fetches'[i] = fetches[i]
          /\ fetches'[fetchDone].start = fetches[fetchDone].start
      BY <2>4, HistoryUpdate
    <3>2. QED
      BY <2>1, <3>1 DEF UpstreamIsSpared
  <2>5. QED
    BY <2>2, <2>3, <2>4 DEF Next, Run, Decide, Fetch, Tick, Cancel, Sample, ServeTools,
       ServeError, Join, Wake, GiveUp, Publish, vars
<1>3. QED
  BY <1>1, <1>2, TypeCorrect, FlightCorrect, HistoryCorrect, CacheCorrect, PTL DEF Spec

\* The steps that answer a request, with what they answer.
LEMMA AnsweringSteps ==
  ASSUME TypeOK, FlightInv, HistoryInv, [Next]_vars, NEW r \in Requests, answer'[r] # answer[r]
  PROVE  \/ answer'[r] = Tools(cachedTools) /\ cacheValid
         \/ answer'[r] = Error(cachedToolsErr) /\ cachedToolsErr # 0
         \/ answer'[r] = Context(0)
         \/ /\ fetchDone = Landed + 1
            /\ answer'[r] \in {Tools(fetchDone), Error(fetchDone), Context(fetchDone)}
<1> USE DEF TypeOK
<1>1. \E s \in Requests : ServeTools(s) \/ ServeError(s) \/ GiveUp(s) \/ Publish(s)
  BY DEF Next, Run, Decide, Fetch, Tick, Cancel, Sample, Join, Lead, Wake, FetchReturn, vars
<1>2. ASSUME NEW s \in Requests, NEW a, Return(s, a)
      PROVE  answer'[r] = a
  BY <1>2 DEF Return
<1>3. CASE \E s \in Requests : ServeTools(s)
  BY <1>2, <1>3 DEF ServeTools, FreshTools
<1>4. CASE \E s \in Requests : ServeError(s)
  BY <1>2, <1>4 DEF ServeError, FreshError
<1>5. CASE \E s \in Requests : GiveUp(s)
  BY <1>2, <1>5 DEF GiveUp
<1>6. ASSUME NEW s \in Requests, Publish(s)
      PROVE  /\ fetchDone = Landed + 1
             /\ answer'[r] \in {Tools(fetchDone), Error(fetchDone), Context(fetchDone)}
  <2>1. fetchDone = Landed + 1
    BY <1>6, PublishEffect
  <2>2. \E a \in {Tools(fetchDone), Error(fetchDone), Context(fetchDone)} : Return(s, a)
    BY <1>6 DEF Publish, KeepTools, KeepError, KeepNothing
  <2>3. QED
    BY <1>2, <2>1, <2>2
<1>7. QED
  BY <1>1, <1>3, <1>4, <1>5, <1>6

\* For any number of requests, no error outlives a later success.
THEOREM NoErrorAfterRecoveryCorrect == Spec => NoErrorAfterRecovery
<1>1. TypeOK /\ FlightInv /\ HistoryInv /\ CacheInv /\ [Next]_vars =>
        \A r \in Requests :
          answer'[r] # answer[r] /\ answer'[r].kind = "error" =>
            \A i \in closed : i > answer'[r].fetch => fetches[i].outcome # "ok"
  <2> SUFFICES ASSUME TypeOK, FlightInv, HistoryInv, CacheInv, [Next]_vars,
                      NEW r \in Requests, answer'[r] # answer[r], answer'[r].kind = "error",
                      NEW i \in closed, i > answer'[r].fetch
               PROVE  fetches[i].outcome # "ok"
    OBVIOUS
  <2>1. \/ answer'[r].fetch = cachedToolsErr /\ cachedToolsErr # 0
        \/ answer'[r].fetch = Landed + 1
    BY AnsweringSteps DEF Tools, Error, Context
  <2>2. i \in 1..Landed /\ Landed \in Nat
    BY DEF FlightInv, Landed, TypeOK
  <2>3. QED
    BY <2>1, <2>2 DEF CacheInv
<1>2. QED
  BY <1>1, TypeCorrect, FlightCorrect, HistoryCorrect, CacheCorrect, PTL
     DEF Spec, NoErrorAfterRecovery

\* For any number of requests, the catalogue answered never goes back.
THEOREM CatalogueNeverRegressesCorrect == Spec => CatalogueNeverRegresses
<1>1. TypeOK /\ FlightInv /\ HistoryInv /\ CacheInv /\ AnswerInv /\ [Next]_vars =>
        \A r, s \in Requests :
          answer'[r] # answer[r] /\ answer'[r].kind = "tools" /\ answer[s].kind = "tools" =>
            answer'[r].fetch >= answer[s].fetch
  <2> SUFFICES ASSUME TypeOK, FlightInv, HistoryInv, CacheInv, AnswerInv, [Next]_vars,
                      NEW r \in Requests, NEW s \in Requests,
                      answer'[r] # answer[r], answer'[r].kind = "tools", answer[s].kind = "tools"
               PROVE  answer'[r].fetch >= answer[s].fetch
    OBVIOUS
  <2>1. answer'[r].fetch = cachedTools \/ answer'[r].fetch = Landed + 1
    BY AnsweringSteps DEF Tools, Error, Context
  <2>2. Landed \in Nat /\ cachedTools \in Nat
    BY DEF FlightInv, Landed, TypeOK
  <2>3. answer[s].fetch \in 1..Landed /\ answer[s].fetch <= cachedTools
    BY DEF AnswerInv, Sound
  <2>4. QED
    BY <2>1, <2>2, <2>3
<1>2. QED
  BY <1>1, TypeCorrect, FlightCorrect, HistoryCorrect, CacheCorrect, AnswerCorrect, PTL
     DEF Spec, CatalogueNeverRegresses

-------------------------------------------------------------------------------
(***************************************************************************)
(* Refinement.                                                             *)
(***************************************************************************)

\* getOpenAITools implements the one-step register of ToolCatalogue: every
\* step of the cache is a step of the register or leaves it as it is.
THEOREM ImplementsRegisterCorrect == Spec => ImplementsRegister
<1> USE DEF Register!None, Register!Tools, Register!Error, Register!Context,
            Register!Unanswered, Register!Answer, Register!vars,
            None, Tools, Error, Context
<1>1. Init => Register!Init
  BY DEF Init, Register!Init
<1>2. TypeOK /\ FlightInv /\ HistoryInv /\ CacheInv /\ AnswerInv /\ [Next]_vars
        => [Register!Next]_(Register!vars)
  <2> SUFFICES ASSUME TypeOK, FlightInv, HistoryInv, CacheInv, AnswerInv, [Next]_vars
               PROVE  [Register!Next]_(Register!vars)
    OBVIOUS
  <2> USE DEF Landed
  <2>1. ASSUME NEW r \in Requests, Cancel(r)
        PROVE  Register!Lose(r)
    BY <2>1 DEF Cancel, Register!Lose, AnswerInv, flight, cache
  <2>2. ASSUME NEW r \in Requests, ServeTools(r)
        PROVE  Register!Read(r)
    BY <2>2 DEF ServeTools, Return, FreshTools, Register!Read, AnswerInv, CacheInv, flight, cache
  <2>3. ASSUME NEW r \in Requests, ServeError(r)
        PROVE  Register!Read(r)
    BY <2>3 DEF ServeError, Return, FreshError, Register!Read, AnswerInv, flight, cache
  <2>4. ASSUME NEW r \in Requests, GiveUp(r)
        PROVE  Register!Abandon(r)
    BY <2>4 DEF GiveUp, Return, Register!Abandon, AnswerInv, flight, cache
  <2>5. ASSUME NEW r \in Requests, Publish(r)
        PROVE  Register!Refresh(r)
    <3>1. fetchDone = Landed + 1 /\ Landed' = Landed + 1 /\ UNCHANGED cancelled
      BY <2>5, PublishEffect
    <3>2. answer[r] = None
      BY <2>5 DEF Publish, AnswerInv
    <3>3. CASE KeepTools(r)
      BY <3>1, <3>2, <3>3 DEF KeepTools, Return, Register!Refresh
    <3>4. CASE KeepError(r)
      BY <3>1, <3>2, <3>4 DEF KeepError, Return, Register!Refresh
    <3>5. CASE KeepNothing(r)
      BY <3>1, <3>2, <3>5 DEF KeepNothing, Return, Register!Refresh, cache
    <3>6. QED
      BY <2>5, <3>3, <3>4, <3>5 DEF Publish
  <2>6. ASSUME NEW r \in Requests, Lead(r)
        PROVE  UNCHANGED Register!vars
    BY <2>6 DEF Lead, TypeOK, cache
  <2>7. ASSUME \/ Tick
               \/ \E r \in Requests : Sample(r) \/ Join(r) \/ Wake(r) \/ Fetch(r)
               \/ UNCHANGED vars
        PROVE  UNCHANGED Register!vars
    BY <2>7 DEF Tick, Sample, Join, Wake, Fetch, FetchReturn, vars, flight, cache
  <2>8. QED
    BY <2>1, <2>2, <2>3, <2>4, <2>5, <2>6, <2>7 DEF Next, Run, Decide, Register!Next
<1>3. QED
  BY <1>1, <1>2, TypeCorrect, FlightCorrect, HistoryCorrect, CacheCorrect, AnswerCorrect, PTL
     DEF Spec, ImplementsRegister, Register!Spec

===============================================================================
