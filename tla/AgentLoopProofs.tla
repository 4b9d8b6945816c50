--------------------------- MODULE AgentLoopProofs ---------------------------
(***************************************************************************)
(* Proofs about AgentLoop for any limits, any sizes and any replies.       *)
(***************************************************************************)
EXTENDS AgentLoop, FiniteSetTheorems, SequenceTheorems, TLAPS

\* Every nonempty set of numbers has a least element.
LEMMA NatMin ==
  ASSUME NEW T, T \subseteq Nat, T # {}
  PROVE  /\ Min(T) \in T
         /\ \A n \in T : Min(T) <= n
<1>1. IsWellFoundedOn(OpToRel(<, Nat), Nat)
  BY NatLessThanWellFounded
<1>2. PICK m \in T : \A n \in T : <<n, m>> \notin OpToRel(<, Nat)
  BY <1>1, WFMin
<1>3. ASSUME NEW n \in T
      PROVE  m <= n
  <2>1. m \in Nat /\ n \in Nat
    OBVIOUS
  <2>2. n < m => <<n, m>> \in OpToRel(<, Nat)
    BY <2>1 DEF OpToRel
  <2>3. ~(n < m)
    BY <1>2, <2>2, Zenon
  <2>4. QED
    BY <2>1, <2>3
<1>4. QED
  BY <1>3 DEF Min

-------------------------------------------------------------------------------
(***************************************************************************)
(* Types                                                                   *)
(***************************************************************************)

\* A clamped message is the same message, perhaps shorter (context.go:60-69).
LEMMA ClampedIsSame ==
  ASSUME NEW m \in Messages
  PROVE  /\ Clamped(m) \in Messages
         /\ Clamped(m).role = m.role /\ Clamped(m).round = m.round
         /\ Clamped(m).calls = m.calls
BY SizeAssumption DEF Clamped, Messages

\* What is pruned starts at a cut: it is the clamped rest of the messages from
\* the beginning, from an assistant message or from the end (context.go:77-109).
LEMMA PrunedFromCut ==
  ASSUME NEW tail \in Seq(Messages)
  PROVE  \E m \in Cuts(tail) :
           /\ m \in 1..(Len(tail) + 1)
           /\ Pruned(tail) \in Seq(Messages)
           /\ Len(Pruned(tail)) = Len(tail) - m + 1
           /\ \A i \in 1..(Len(tail) - m + 1) : Pruned(tail)[i] = Clamped(tail[i + m - 1])
<1> DEFINE clamped == [i \in DOMAIN tail |-> Clamped(tail[i])]
           rest(i) == SubSeq(clamped, i, Len(tail))
           fits    == {i \in Cuts(tail) : i = Len(tail) + 1 \/ Size(rest(i)) <= Budget}
           m       == Min(fits)
<1>1. Len(tail) \in Nat /\ Len(tail) + 1 \in Cuts(tail) /\ Cuts(tail) \subseteq 1..(Len(tail) + 1)
  BY DEF Cuts
<1>2. Len(tail) + 1 \in fits /\ fits \subseteq Nat
  BY <1>1
<1>3. m \in fits
  <2> HIDE DEF fits
  <2>1. QED
    BY <1>2, NatMin
<1>4. clamped \in Seq(Messages) /\ Len(clamped) = Len(tail)
  <2>1. \A i \in 1..Len(tail) : clamped[i] \in Messages
    BY ClampedIsSame
  <2>2. DOMAIN clamped = 1..Len(tail)
    OBVIOUS
  <2>3. clamped \in [1..Len(tail) -> Messages]
    BY <2>1, <2>2
  <2>4. QED
    BY <2>3, <1>1, SeqDef, LenProperties
<1>5. m \in Cuts(tail) /\ m \in 1..(Len(tail) + 1)
  BY <1>1, <1>3
<1>6. Pruned(tail) = rest(m)
  BY DEF Pruned
<1>7. \A i \in DOMAIN tail : clamped[i] = Clamped(tail[i])
  OBVIOUS
<1>8. /\ rest(m) \in Seq(Messages)
      /\ Len(rest(m)) = Len(tail) - m + 1
      /\ \A i \in 1..(Len(tail) - m + 1) : rest(m)[i] = clamped[i + m - 1]
  <2> HIDE DEF clamped, m
  <2>1. m \in Int /\ m >= 1 /\ m <= Len(clamped) + 1 /\ Len(clamped) \in Nat
    BY <1>1, <1>4, <1>5
  <2>2. rest(m) = [i \in 1..(Len(clamped) - m + 1) |-> clamped[m + i - 1]]
    BY <1>4, <2>1
  <2>3. QED
    BY <1>1, <1>4, <2>1, <2>2, SubSeqProperties
<1>9. QED
  <2> HIDE DEF clamped, m, rest
  <2>1. \A i \in 1..(Len(tail) - m + 1) : i + m - 1 \in DOMAIN tail
    BY <1>1, <1>5
  <2>2. QED
    BY <1>5, <1>6, <1>7, <1>8, <2>1

\* The messages that the loop appends (agent.go:286, toolcall.go:168-182).
LEMMA AppendedMessages ==
  ASSUME TypeOK
  PROVE  /\ \A n \in 1..MaxReply : Assistant(n) \in Messages
         /\ ToolMessage(ErrorSize) \in Messages
         /\ \A size \in ResultSizes :
              ToolMessage(IF size > MaxResult THEN ErrorSize ELSE size) \in Messages
BY LimitAssumption, SizeAssumption DEF TypeOK, Assistant, ToolMessage, ErrorSize, Messages

\* Every reachable state of the loop is well typed (Session.Loop).
THEOREM TypeCorrect == Spec => []TypeOK
<1> USE LimitAssumption
<1>1. Init => TypeOK
  <2> SUFFICES ASSUME Init PROVE TypeOK
    OBVIOUS
  <2>1. messages \in Seq(Messages) /\ prompt \in Seq(Messages)
        /\ executed \in Seq([round : Nat, key : Keys])
    BY EmptySeq DEF Init
  <2>2. QED
    BY <2>1 DEF Init, TypeOK
<1>2. TypeOK /\ [Next]_vars => TypeOK'
  <2> SUFFICES ASSUME TypeOK, [Next]_vars
               PROVE  TypeOK'
    OBVIOUS
  <2>1. Pruned(messages) \in Seq(Messages)
    BY PrunedFromCut DEF TypeOK
  <2> USE DEF TypeOK
  <2>2. CASE Answer \/ PromptFails
    BY <2>1, <2>2 DEF Answer, PromptFails, Stop
  <2>3. ASSUME NEW n \in 1..MaxReply, Reply(n)
        PROVE  TypeOK'
    <3>1. messages' \in Seq(Messages)
      BY <2>3, AppendedMessages, AppendProperties DEF Reply
    <3>2. QED
      BY <2>1, <2>3, <3>1 DEF Reply
  <2>4. CASE TooManyCalls
    BY <2>4 DEF TooManyCalls, Stop
  <2>5. ASSUME NEW key \in Keys, Duplicate(key)
        PROVE  TypeOK'
    BY <2>5 DEF Duplicate, Stop
  <2>6. ASSUME NEW key \in Keys, Spend(key)
        PROVE  executed' \in Seq([round : Nat, key : Keys]) /\ toolCalls' \in Nat
    BY <2>6, AppendProperties DEF Spend
  <2>7. ASSUME NEW key \in Keys, Call(key)
        PROVE  TypeOK'
    BY <2>6, <2>7 DEF Call, Admitted
  <2>8. ASSUME NEW key \in Keys, NEW valid \in BOOLEAN, Reject(key, valid)
        PROVE  TypeOK'
    <3>1. messages' \in Seq(Messages)
      BY <2>8, AppendedMessages, AppendProperties DEF Reject, Proceed
    <3>2. QED
      BY <2>8, <3>1 DEF Reject, Proceed, Admitted
  <2>9. ASSUME NEW size \in ResultSizes, Execute(size)
        PROVE  TypeOK'
    <3>1. messages' \in Seq(Messages)
      <4> DEFINE answer == ToolMessage(IF size > MaxResult THEN ErrorSize ELSE size)
      <4>1. answer \in Messages /\ messages' = Append(messages, answer)
        BY <2>9, AppendedMessages DEF Execute, Proceed
      <4> HIDE DEF answer
      <4>2. QED
        BY <4>1, AppendProperties
    <3>2. index' = index + 1 /\ index < calls /\ pc' = "call"
      BY <2>9 DEF Execute, Proceed
    <3>3. pc = "tool" /\ UNCHANGED <<round, calls, seen, toolCalls, outcome, prompt, executed>>
      BY <2>9 DEF Execute
    <3>4. QED
      BY <3>1, <3>2, <3>3
  <2>10. CASE NextRound \/ CallFails
    BY <2>10 DEF NextRound, CallFails, Stop
  <2>11. CASE UNCHANGED vars
    BY <2>11 DEF vars
  <2>12. QED
    BY <2>2, <2>3, <2>4, <2>5, <2>7, <2>8, <2>9, <2>10, <2>11 DEF Next
<1>3. QED
  BY <1>1, <1>2, PTL DEF Spec

-------------------------------------------------------------------------------
(***************************************************************************)
(* The budget of calls                                                     *)
(***************************************************************************)

\* The executions recorded for a turn, as CallBudget counts them.
Turn(r) == {i \in DOMAIN executed : executed[i].round = r}

\* One more execution belongs to the turn under way and changes no other; its
\* key is new to the turn (toolcall.go:55).
LEMMA OneMore ==
  ASSUME TypeOK, BudgetInv, CallBudget, NEW key \in Keys, Admitted(key), Spend(key),
         UNCHANGED round
  PROVE  /\ Len(executed') = toolCalls' /\ toolCalls' <= MaxTotalToolCalls
         /\ \A i \in DOMAIN executed' : executed'[i].round <= round
         /\ \A i \in ThisTurn' : executed'[i].key \in seen'
         /\ Cardinality(ThisTurn') <= index + 1 /\ index + 1 <= PerTurnLimit
         /\ CallBudget'
<1> DEFINE n == Len(executed)
<1>1. n \in Nat /\ DOMAIN executed = 1..n /\ IsFiniteSet(1..n)
  BY FS_Interval DEF TypeOK
<1>2. /\ DOMAIN executed' = 1..(n + 1) /\ Len(executed') = n + 1
      /\ executed'[n + 1] = [round |-> round, key |-> key]
      /\ \A i \in 1..n : executed'[i] = executed[i]
  BY <1>1, AppendProperties DEF TypeOK, Spend
<1> HIDE DEF n
<1>3. /\ toolCalls' = toolCalls + 1 /\ n = toolCalls /\ toolCalls < MaxTotalToolCalls
      /\ toolCalls \in Nat /\ MaxTotalToolCalls \in Nat
  BY LimitAssumption DEF BudgetInv, Spend, TypeOK, n
<1>4. ThisTurn' = ThisTurn \cup {n + 1}
  BY <1>1, <1>2 DEF ThisTurn
<1>5. \A r \in Nat : r # round => Turn(r)' = Turn(r)
  BY <1>1, <1>2 DEF Turn
<1>6. \A i \in ThisTurn : i \in 1..n /\ executed'[i].key = executed[i].key
                          /\ executed[i].key \in seen
  BY <1>1, <1>2 DEF ThisTurn, BudgetInv, Admitted
<1>7. IsFiniteSet(ThisTurn) /\ n + 1 \notin ThisTurn
  BY <1>1, <1>6, FS_Subset DEF ThisTurn
<1>8. Cardinality(ThisTurn') = Cardinality(ThisTurn) + 1
  BY <1>4, <1>7, FS_AddElement
<1>9. /\ Cardinality(ThisTurn) \in Nat /\ Cardinality(ThisTurn) <= index
      /\ index \in Nat /\ index < PerTurnLimit /\ PerTurnLimit \in Nat
  BY <1>7, FS_CardinalityType, LimitAssumption DEF BudgetInv, Admitted, Guarded, TypeOK
<1>10. key \notin seen /\ seen' = seen \cup {key}
  BY DEF Admitted
<1>11. \A i \in ThisTurn' : executed'[i].key \in seen'
  BY <1>2, <1>4, <1>6, <1>10
<1>12. \A i, j \in ThisTurn' : executed'[i].key = executed'[j].key => i = j
  <2>1. round \in 1..MaxModelRounds
    BY LimitAssumption DEF TypeOK, Admitted
  <2>2. \A i, j \in ThisTurn : executed[i].key = executed[j].key => i = j
    BY <2>1, Zenon DEF CallBudget, ThisTurn
  <2>3. QED
    BY <1>2, <1>4, <1>6, <1>10, <2>2
<1>13. \A i \in DOMAIN executed' : executed'[i].round <= round
  BY <1>1, <1>2 DEF BudgetInv, TypeOK
<1>14. CallBudget'
  <2>1. Len(executed') <= MaxTotalToolCalls
    BY <1>2, <1>3
  <2>2. ASSUME NEW r \in 1..MaxModelRounds
        PROVE  /\ Cardinality(Turn(r)') <= PerTurnLimit
               /\ \A i, j \in Turn(r)' : executed'[i].key = executed'[j].key => i = j
    <3>1. CASE r = round
      <4>1. Turn(r)' = ThisTurn'
        BY <3>1 DEF Turn, ThisTurn
      <4>2. QED
        BY <1>8, <1>9, <1>12, <4>1
    <3>2. CASE r # round
      <4>1. Turn(r)' = Turn(r)
        BY <1>5, <3>2
      <4>2. /\ Cardinality(Turn(r)) <= PerTurnLimit
            /\ \A i, j \in Turn(r) : executed[i].key = executed[j].key => i = j
        BY DEF CallBudget, Turn
      <4>3. \A i \in Turn(r) : executed'[i].key = executed[i].key
        BY <1>1, <1>2 DEF Turn
      <4>4. QED
        BY <4>1, <4>2, <4>3
    <3>3. QED
      BY <3>1, <3>2
  <2>3. QED
    BY <2>1, <2>2 DEF CallBudget, Turn
<1>15. QED
  BY <1>2, <1>3, <1>8, <1>9, <1>11, <1>13, <1>14

\* The budgets hold in every reachable state: MaxTotalToolCalls executions in a
\* request, PerTurnLimit in a turn, no arguments twice in a turn, whatever the
\* model replies and whichever calls fail (toolcall.go:55,84, agent.go:299-307).
THEOREM BudgetHolds == Spec => [](BudgetInv /\ CallBudget)
<1>1. Init => BudgetInv /\ CallBudget
  <2> SUFFICES ASSUME Init PROVE BudgetInv /\ CallBudget
    OBVIOUS
  <2>1. DOMAIN executed = {} /\ Len(executed) = 0
    BY DEF Init
  <2>2. \A r : {i \in DOMAIN executed : executed[i].round = r} = {}
    BY <2>1
  <2>3. QED
    BY <2>1, <2>2, FS_EmptySet, LimitAssumption DEF Init, BudgetInv, CallBudget, ThisTurn
<1>2. TypeOK /\ BudgetInv /\ CallBudget /\ [Next]_vars => BudgetInv' /\ CallBudget'
  <2> SUFFICES ASSUME TypeOK, BudgetInv, CallBudget, [Next]_vars
               PROVE  BudgetInv' /\ CallBudget'
    OBVIOUS
  <2>1. ASSUME UNCHANGED executed
        PROVE  CallBudget' /\ (UNCHANGED round => ThisTurn' = ThisTurn)
    BY <2>1 DEF CallBudget, ThisTurn
  <2>2. CASE Answer \/ PromptFails \/ TooManyCalls \/ CallFails \/ \E key \in Keys : Duplicate(key)
    <3>1. pc' = "stopped" /\ UNCHANGED <<executed, toolCalls, round>>
      BY <2>2 DEF Answer, PromptFails, TooManyCalls, CallFails, Duplicate, Stop
    <3>2. QED
      BY <2>1, <3>1 DEF BudgetInv
  <2>3. ASSUME NEW n \in 1..MaxReply, Reply(n)
        PROVE  BudgetInv' /\ CallBudget'
    <3>1. UNCHANGED <<executed, toolCalls, round>> /\ pc = "round" /\ pc' = "call" /\ index' = 0
      BY <2>3 DEF Reply
    <3>2. ThisTurn' = {} /\ CallBudget'
      BY <2>1, <3>1 DEF BudgetInv
    <3>3. QED
      BY <3>1, <3>2, FS_EmptySet, LimitAssumption DEF BudgetInv
  <2>4. ASSUME NEW key \in Keys, Call(key)
        PROVE  BudgetInv' /\ CallBudget'
    <3>1. pc' = "tool" /\ Admitted(key) /\ Spend(key) /\ UNCHANGED <<round, index>>
      BY <2>4 DEF Call
    <3>2. QED
      BY <3>1, OneMore DEF BudgetInv
  <2>5. ASSUME NEW size \in ResultSizes, Execute(size)
        PROVE  BudgetInv' /\ CallBudget'
    <3>1. /\ UNCHANGED <<executed, toolCalls, round, seen>> /\ pc = "tool" /\ pc' = "call"
          /\ index' = index + 1 /\ index \in Nat
      BY <2>5 DEF Execute, Proceed, TypeOK
    <3>2. ThisTurn' = ThisTurn /\ CallBudget'
      BY <2>1, <3>1
    <3>3. QED
      BY <3>1, <3>2 DEF BudgetInv
  <2>6. ASSUME NEW key \in Keys, NEW valid \in BOOLEAN, Reject(key, valid)
        PROVE  BudgetInv' /\ CallBudget'
    <3>1. /\ UNCHANGED <<executed, toolCalls, round, pc>> /\ pc = "call" /\ index' = index + 1
          /\ index < PerTurnLimit /\ seen \subseteq seen'
      BY <2>6, LimitAssumption DEF Reject, Admitted, Proceed, Guarded, TypeOK
    <3>2. ThisTurn' = ThisTurn /\ CallBudget'
      BY <2>1, <3>1
    <3>3. IsFiniteSet(ThisTurn)
      <4>1. DOMAIN executed = 1..Len(executed) /\ Len(executed) \in Nat
        BY DEF TypeOK
      <4>2. ThisTurn \subseteq 1..Len(executed)
        BY <4>1 DEF ThisTurn
      <4>3. QED
        <5>1. IsFiniteSet(1..Len(executed))
          BY <4>1, FS_Interval
        <5>2. QED
          BY <4>2, <5>1, FS_Subset
    <3>4. Cardinality(ThisTurn) \in Nat
      BY <3>3, FS_CardinalityType
    <3>5. QED
      BY <3>1, <3>2, <3>4, LimitAssumption DEF BudgetInv, TypeOK
  <2>7. CASE NextRound
    <3>1. /\ UNCHANGED <<executed, toolCalls>> /\ round' = round + 1
          /\ pc' \in {"round", "stopped"}
      BY <2>7 DEF NextRound, Stop
    <3>2. ASSUME NEW i \in DOMAIN executed
          PROVE  executed[i].round \in Nat /\ executed[i].round <= round
      <4>1. executed[i] \in [round : Nat, key : Keys]
        BY ElementOfSeq, LenProperties DEF TypeOK
      <4>2. QED
        BY <4>1 DEF BudgetInv
    <3>3. ThisTurn' = {} /\ \A i \in DOMAIN executed' : executed'[i].round <= round'
      BY <3>1, <3>2 DEF ThisTurn, TypeOK
    <3>4. QED
      BY <2>1, <3>1, <3>3 DEF BudgetInv
  <2>8. CASE UNCHANGED vars
    <3>1. UNCHANGED <<executed, toolCalls, round, pc, index, seen>>
      BY <2>8 DEF vars
    <3>2. QED
      BY <2>1, <3>1 DEF BudgetInv
  <2>9. QED
    BY <2>2, <2>3, <2>4, <2>5, <2>6, <2>7, <2>8 DEF Next
<1>3. QED
  BY <1>1, <1>2, TypeCorrect, PTL DEF Spec

-------------------------------------------------------------------------------
(***************************************************************************)
(* The shape of the prompt                                                 *)
(***************************************************************************)

\* Pruning keeps complete exchanges complete (context.go:76-109).
LEMMA PrunedIsWellFormed ==
  ASSUME NEW tail \in Seq(Messages), WellFormed(tail)
  PROVE  WellFormed(Pruned(tail))
<1> DEFINE s == Pruned(tail)
           n == Len(tail)
<1>1. PICK m \in Cuts(tail) :
        /\ m \in 1..(n + 1) /\ s \in Seq(Messages) /\ Len(s) = n - m + 1
        /\ \A i \in 1..(n - m + 1) : s[i] = Clamped(tail[i + m - 1])
  BY PrunedFromCut
<1>2. n \in Nat /\ DOMAIN tail = 1..n /\ DOMAIN s = 1..(n - m + 1)
  BY <1>1
<1> HIDE DEF s, n
<1>3. ASSUME NEW i \in 1..(n - m + 1)
      PROVE  /\ i + m - 1 \in DOMAIN tail
             /\ tail[i + m - 1] \in Messages
             /\ s[i].role = tail[i + m - 1].role /\ s[i].round = tail[i + m - 1].round
             /\ s[i].calls = tail[i + m - 1].calls /\ s[i].calls \in Nat
  <2>1. i + m - 1 \in 1..n
    BY <1>1, <1>2
  <2>2. tail[i + m - 1] \in Messages
    BY <1>2, <2>1, ElementOfSeq DEF n
  <2>3. QED
    BY <1>1, <1>2, <2>1, <2>2, ClampedIsSame DEF Messages
<1>4. ASSUME NEW i \in 1..(n - m + 1), i = 1
      PROVE  FromModel(s, i)
  <2>1. m \in 1..n
    BY <1>1, <1>2, <1>4
  <2>2. m = 1 \/ tail[m].role # "tool"
    BY <1>1, <1>2, <2>1 DEF Cuts, n
  <2>3. i + m - 1 = m
    BY <1>4, <2>1
  <2>4. tail[m].role \in {"assistant", "tool"} /\ s[i].role = tail[m].role
    BY <1>3, <2>3 DEF Messages
  <2>5. m = 1 => tail[m].role = "assistant"
    BY <1>2, <2>1 DEF WellFormed, FromModel
  <2>6. QED
    BY <2>2, <2>4, <2>5 DEF FromModel
<1>5. ASSUME NEW i \in 1..(n - m + 1), FromModel(s, i)
      PROVE  CompleteAt(s, i)
  <2> DEFINE h == i + m - 1
             c == tail[h].calls
  <2>1. h \in 1..n /\ c \in Nat /\ s[i].calls = c /\ FromModel(tail, h) /\ i \in Int /\ m \in Int
    BY <1>1, <1>2, <1>3, <1>5 DEF FromModel
  <2>2. CompleteAt(tail, h)
    BY <1>2, <2>1 DEF WellFormed
  <2>3. h + c <= n
    BY <2>2 DEF CompleteAt, n
  <2>shift. h = i + m - 1
    OBVIOUS
  <2>4. i + c <= Len(s)
    BY <1>1, <1>2, <2>1, <2>3
  <2>5. ASSUME NEW k \in (i + 1)..(i + c)
        PROVE  s[k].role = "tool" /\ s[k].round = s[i].round
    <3>1. k \in 1..(n - m + 1) /\ k + m - 1 \in (h + 1)..(h + c)
      <4> HIDE DEF h, c
      <4>1. QED
        BY <1>1, <1>2, <2>1, <2>3, <2>shift, <2>5
    <3>2. tail[k + m - 1].role = "tool" /\ tail[k + m - 1].round = tail[h].round
      BY <2>2, <3>1 DEF CompleteAt
    <3>3. QED
      BY <1>3, <3>1, <3>2
  <2>6. ASSUME i + c < Len(s)
        PROVE  FromModel(s, i + c + 1)
    <3>1. h + c < n /\ i + c + 1 \in 1..(n - m + 1) /\ i + c + 1 + m - 1 = h + c + 1
      <4> HIDE DEF h, c
      <4>1. QED
        BY <1>1, <1>2, <2>1, <2>shift, <2>6
    <3>2. tail[h + c + 1].role = "assistant"
      BY <2>2, <3>1 DEF CompleteAt, FromModel, n
    <3>3. s[i + c + 1].role = tail[h + c + 1].role
      BY <1>3, <3>1
    <3>4. QED
      BY <3>2, <3>3 DEF FromModel
  <2>7. QED
    BY <2>1, <2>4, <2>5, <2>6 DEF CompleteAt
<1>6. QED
  BY <1>2, <1>4, <1>5 DEF WellFormed, s

\* A message appended after a complete exchange leaves it complete, unless it
\* is a result that follows it at once (agent.go:286,313).
LEMMA CompleteStays ==
  ASSUME NEW s \in Seq(Messages), NEW m \in Messages, NEW i \in DOMAIN s,
         CompleteAt(s, i), i + s[i].calls = Len(s) => m.role = "assistant"
  PROVE  CompleteAt(Append(s, m), i)
<1> DEFINE t == Append(s, m)
<1>1. /\ Len(s) \in Nat /\ Len(t) = Len(s) + 1 /\ t[Len(s) + 1] = m
      /\ \A k \in 1..Len(s) : t[k] = s[k]
  BY AppendProperties
<1>2. s[i] \in Messages /\ i \in 1..Len(s)
  BY ElementOfSeq
<1>3. s[i].calls \in Nat
  BY <1>2 DEF Messages
<1>4. i + s[i].calls <= Len(s) /\ t[i] = s[i]
  BY <1>1, <1>2 DEF CompleteAt
<1> HIDE DEF t
<1>5. \A k \in (i + 1)..(i + s[i].calls) : t[k].role = "tool" /\ t[k].round = t[i].round
  <2>1. ASSUME NEW k \in (i + 1)..(i + s[i].calls)
        PROVE  t[k] = s[k] /\ s[k].role = "tool" /\ s[k].round = s[i].round
    BY <1>1, <1>2, <1>3, <1>4 DEF CompleteAt
  <2>2. QED
    BY <1>4, <2>1
<1>6. i + s[i].calls < Len(t) => FromModel(t, i + s[i].calls + 1)
  <2>1. CASE i + s[i].calls = Len(s)
    BY <1>1, <2>1 DEF FromModel
  <2>2. CASE i + s[i].calls < Len(s)
    BY <1>1, <1>2, <1>3, <2>2 DEF CompleteAt, FromModel
  <2>3. QED
    BY <1>1, <1>2, <1>3, <1>4, <2>1, <2>2
<1>7. QED
  BY <1>1, <1>2, <1>3, <1>4, <1>5, <1>6 DEF CompleteAt, t

\* Within a reply an exchange that is complete ends before the current one.
LEMMA EndsBeforeCurrent ==
  ASSUME TypeOK, MessagesInv, pc \in {"call", "tool"}, NEW i \in DOMAIN messages,
         i < Current, FromModel(messages, i)
  PROVE  i + messages[i].calls < Current
<1>1. messages[i] \in Messages /\ i \in Nat
  BY ElementOfSeq DEF TypeOK
<1>2. messages[i].calls \in Nat
  BY <1>1 DEF Messages
<1>3. Current \in Int /\ messages[Current].role # "tool"
  BY DEF MessagesInv, FromModel, TypeOK, Current
<1>4. \A k \in (i + 1)..(i + messages[i].calls) : messages[k].role = "tool"
  BY DEF MessagesInv, CompleteAt
<1>5. QED
  BY <1>1, <1>2, <1>3, <1>4

\* The result of a call extends the current exchange (agent.go:309-313).
LEMMA ResultAppended ==
  ASSUME TypeOK, MessagesInv, pc \in {"call", "tool"}, NEW m \in Messages,
         m.role = "tool", m.round = round, Proceed(m), pc' = "call", UNCHANGED <<calls, round>>
  PROVE  MessagesInv'
<1> DEFINE n == Len(messages)
<1>1. /\ n \in Nat /\ Len(messages') = n + 1 /\ messages'[n + 1] = m /\ DOMAIN messages = 1..n
      /\ DOMAIN messages' = 1..(n + 1)
      /\ \A k \in 1..n : messages'[k] = messages[k]
  BY AppendProperties DEF TypeOK, Proceed
<1>2. Current' = Current /\ Current \in 1..n
  BY <1>1 DEF Current, Proceed, MessagesInv, TypeOK
<1> HIDE DEF n
<1>3. /\ FromModel(messages', Current) /\ messages'[Current].calls = calls
      /\ messages'[Current].round = round
  BY <1>1, <1>2 DEF MessagesInv, FromModel
<1>4. ASSUME NEW i \in 1..(n + 1)
      PROVE  /\ i = 1 => FromModel(messages', i)
             /\ i < Current /\ FromModel(messages', i) => CompleteAt(messages', i)
             /\ i > Current => messages'[i].role = "tool" /\ messages'[i].round = round
  <2>1. CASE i = n + 1
    BY <1>1, <1>2, <2>1
  <2>2. CASE i \in 1..n
    <3>1. messages'[i] = messages[i]
      BY <1>1, <2>2
    <3>2. ASSUME i < Current, FromModel(messages', i)
          PROVE  CompleteAt(messages', i)
      <4>1. FromModel(messages, i) /\ CompleteAt(messages, i)
        BY <1>1, <2>2, <3>1, <3>2 DEF MessagesInv, FromModel
      <4>2. i + messages[i].calls < Current
        BY <1>1, <2>2, <3>2, <4>1, EndsBeforeCurrent
      <4>3. i + messages[i].calls # n
        BY <1>1, <1>2, <4>2, <2>2
      <4>4. messages \in Seq(Messages) /\ messages' = Append(messages, m) /\ i \in DOMAIN messages
        BY <1>1, <2>2 DEF TypeOK, Proceed
      <4>5. QED
        BY <4>1, <4>3, <4>4, CompleteStays DEF n
    <3>3. QED
      BY <1>1, <2>2, <3>1, <3>2 DEF MessagesInv, FromModel
  <2>3. QED
    BY <1>1, <2>1, <2>2
<1>5. QED
  BY <1>1, <1>2, <1>3, <1>4 DEF MessagesInv

\* In every reachable state the conversation is complete exchanges, the last one
\* as far as the loop has come with it (Session.Loop of agent.go).
THEOREM MessagesCorrect == Spec => []MessagesInv
<1>1. Init => MessagesInv
  BY DEF Init, MessagesInv, WellFormed
<1>2. TypeOK /\ MessagesInv /\ [Next]_vars => MessagesInv'
  <2> SUFFICES ASSUME TypeOK, MessagesInv, [Next]_vars
               PROVE  MessagesInv'
    OBVIOUS
  <2>1. CASE Answer \/ PromptFails \/ TooManyCalls \/ CallFails
             \/ \E key \in Keys : Duplicate(key)
    <3>1. pc' = "stopped"
      BY <2>1 DEF Answer, PromptFails, TooManyCalls, Duplicate, CallFails, Stop
    <3>2. QED
      BY <3>1 DEF MessagesInv
  <2>2. ASSUME NEW k \in 1..MaxReply, Reply(k)
        PROVE  MessagesInv'
    <3> DEFINE n == Len(messages)
               m == Assistant(k)
    <3>1. m \in Messages /\ m.role = "assistant" /\ m.calls = k /\ m.round = round
      BY AppendedMessages DEF Assistant
    <3> HIDE DEF m
    <3>2. /\ messages' = Append(messages, m) /\ pc' = "call" /\ calls' = k /\ index' = 0
          /\ round' = round /\ WellFormed(messages) /\ messages \in Seq(Messages)
      BY <2>2 DEF Reply, MessagesInv, TypeOK, m
    <3>3. /\ n \in Nat /\ Len(messages') = n + 1 /\ messages'[n + 1] = m
          /\ DOMAIN messages = 1..n /\ DOMAIN messages' = 1..(n + 1)
          /\ \A i \in 1..n : messages'[i] = messages[i]
      BY <3>1, <3>2, AppendProperties
    <3>4. Current' = n + 1
      BY <3>2, <3>3 DEF Current
    <3> HIDE DEF n
    <3>5. ASSUME NEW i \in 1..n
          PROVE  /\ i = 1 => FromModel(messages', i)
                 /\ FromModel(messages', i) => CompleteAt(messages', i)
      <4>1. /\ i = 1 => FromModel(messages, i)
            /\ FromModel(messages, i) => CompleteAt(messages, i)
            /\ FromModel(messages', i) <=> FromModel(messages, i)
        BY <3>2, <3>3 DEF WellFormed, FromModel
      <4>2. CompleteAt(messages, i) => CompleteAt(messages', i)
        BY <3>1, <3>2, <3>3, CompleteStays
      <4>3. QED
        BY <4>1, <4>2
    <3>6. FromModel(messages', n + 1)
      BY <3>1, <3>3 DEF FromModel
    <3>7. QED
      BY <3>1, <3>2, <3>3, <3>4, <3>5, <3>6 DEF MessagesInv
  <2>3. ASSUME NEW key \in Keys, NEW valid \in BOOLEAN, Reject(key, valid)
        PROVE  MessagesInv'
    <3>1. /\ pc = "call" /\ Proceed(ToolMessage(ErrorSize)) /\ pc' = "call"
          /\ UNCHANGED <<calls, round>>
          /\ ToolMessage(ErrorSize).role = "tool" /\ ToolMessage(ErrorSize).round = round
      BY <2>3 DEF Reject, Admitted, ToolMessage
    <3>2. QED
      BY <3>1, AppendedMessages, ResultAppended
  <2>4. ASSUME NEW key \in Keys, Call(key)
        PROVE  MessagesInv'
    <3>1. pc = "call" /\ pc' = "tool" /\ UNCHANGED <<round, messages, calls, index>>
      BY <2>4 DEF Call, Admitted
    <3>2. QED
      BY <3>1 DEF MessagesInv, Current, FromModel, CompleteAt
  <2>5. ASSUME NEW size \in ResultSizes, Execute(size)
        PROVE  MessagesInv'
    <3> DEFINE m == ToolMessage(IF size > MaxResult THEN ErrorSize ELSE size)
    <3>1. m \in Messages /\ m.role = "tool" /\ m.round = round
      BY AppendedMessages DEF ToolMessage
    <3>2. pc = "tool" /\ Proceed(m) /\ pc' = "call" /\ UNCHANGED <<calls, round>>
      BY <2>5 DEF Execute
    <3> HIDE DEF m
    <3>3. QED
      BY <3>1, <3>2, ResultAppended
  <2>6. CASE NextRound
    <3>1. /\ pc = "call" /\ index = calls /\ UNCHANGED <<messages, calls, index>>
          /\ pc' \in {"round", "stopped"}
      BY <2>6 DEF NextRound, Stop
    <3>2. ASSUME NEW i \in DOMAIN messages
          PROVE  /\ i = 1 => FromModel(messages, i)
                 /\ FromModel(messages, i) => CompleteAt(messages, i)
      <4>1. CASE i # Current
        BY <3>1, <4>1 DEF MessagesInv, FromModel, Current, TypeOK
      <4>2. CASE i = Current
        <5>1. Len(messages) \in Nat /\ DOMAIN messages = 1..Len(messages) /\ index \in Nat
              /\ i + messages[i].calls = Len(messages)
          BY <3>1, <4>2 DEF MessagesInv, Current, TypeOK
        <5>2. \A j \in (i + 1)..Len(messages) :
                messages[j].role = "tool" /\ messages[j].round = messages[i].round
          BY <3>1, <4>2, <5>1 DEF MessagesInv
        <5>3. QED
          BY <3>1, <5>1, <5>2 DEF MessagesInv, CompleteAt
      <4>3. QED
        BY <4>1, <4>2
    <3>3. QED
      BY <3>1, <3>2 DEF MessagesInv, WellFormed, CompleteAt, FromModel
  <2>7. CASE UNCHANGED vars
    BY <2>7 DEF vars, MessagesInv, Current, WellFormed, FromModel, CompleteAt
  <2>8. QED
    BY <2>1, <2>2, <2>3, <2>4, <2>5, <2>6, <2>7 DEF Next
<1>3. QED
  BY <1>1, <1>2, TypeCorrect, PTL DEF Spec

\* Every prompt is complete exchanges, whatever the model replied, whichever
\* calls were rejected and however much was dropped to fit (context.go:76-77).
THEOREM PromptsAreWellFormed == Spec => []PromptIsWellFormed
<1>1. Init => PromptIsWellFormed
  BY DEF Init, PromptIsWellFormed, WellFormed
<1>2. TypeOK /\ MessagesInv /\ PromptIsWellFormed /\ [Next]_vars => PromptIsWellFormed'
  <2> SUFFICES ASSUME TypeOK, MessagesInv, PromptIsWellFormed, [Next]_vars
               PROVE  WellFormed(prompt')
    BY DEF PromptIsWellFormed, WellFormed, FromModel, CompleteAt
  <2>1. prompt' = prompt \/ (pc = "round" /\ prompt' = Pruned(messages))
    BY DEF Next, Answer, PromptFails, TooManyCalls, NextRound, Reply, Duplicate, CallFails,
           Call, Reject, Execute, vars
  <2>2. QED
    BY <2>1, PrunedIsWellFormed DEF MessagesInv, TypeOK, PromptIsWellFormed
<1>3. QED
  BY <1>1, <1>2, TypeCorrect, MessagesCorrect, PTL DEF Spec
=============================================================================
