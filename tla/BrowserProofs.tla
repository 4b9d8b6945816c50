---------------------------- MODULE BrowserProofs ----------------------------
(***************************************************************************)
(* Proofs about Browser for any page, any limit on redirects and any       *)
(* number of lines.                                                        *)
(***************************************************************************)
EXTENDS Browser, SequenceTheorems, TLAPS

\* Every step is one of these (server.go and browser.go, one action per step).
LEMMA Steps ==
  Next <=> \/ Send \/ CloseInput \/ Kill \/ Terminate \/ Expire
           \/ ReadLine \/ EndOfInput \/ Refuse \/ Prepare
           \/ Navigated \/ NotLoaded \/ Interrupted \/ Acted \/ ActionFails
           \/ CheckFailure \/ JudgeFailure \/ CheckSuccess \/ ResolveFinal \/ Package
           \/ CloseBrowser \/ RemoveProfile \/ Answer
           \/ Enable \/ EnableFails \/ CountRedirect
           \/ \E r \in Requests :
                 \/ Asks(r) \/ Loads(r) \/ Redirected(r) \/ Judge(r) \/ Continue(r)
                 \/ Block(r) \/ Report(r) \/ CommandFails(r)
BY Zenon DEF Next, Environment, Serve, Page

\* When chromedp.Run goes on or returns, all but the history of it is kept.
LEMMA MovingOn ==
  Navigated \/ NotLoaded \/ Interrupted \/ Acted \/ ActionFails
    => /\ pc \in {"navigate", "act"}
       /\ \/ pc' = "act" /\ UNCHANGED left
          \/ /\ pc' \in {"failed", "ran"}
             /\ left' = [ended |-> ended, blocked |-> {r \in Requests : request[r] = "blocked"}]
       /\ UNCHANGED <<client, tool, ended, reason, request, redirects, hops, signalled, chrome,
                      profile, reply>>
BY DEF Navigated, NotLoaded, Interrupted, Acted, ActionFails, Returns, Goto, call

\* From then on the function reads on, or it has its verdict: the recorded
\* reason, or else what follows from the end of the context, the look-up of the
\* final address and the sizes.
LEMMA Judging ==
  CheckFailure \/ JudgeFailure \/ CheckSuccess \/ ResolveFinal \/ Package
    => /\ pc \in {"failed", "judge", "ran", "resolve", "package"}
       /\ UNCHANGED <<client, tool, ended, reason, left, signalled, chrome, profile>>
       /\ \/ /\ UNCHANGED <<call, reply>>
             /\ \/ pc = "failed" /\ pc' = "judge" /\ reason = "none"
                \/ pc = "ran" /\ pc' = "resolve" /\ reason = "none"
                \/ pc = "resolve" /\ pc' = "package"
          \/ /\ pc' = "release" /\ redirects' = 0 /\ hops' = 0
             /\ request' = [r \in Requests |-> "unsent"]
             /\ \/ pc \in {"failed", "ran"} /\ reason # "none" /\ reply' = reason
                \/ /\ pc = "judge"
                   /\ reply' = (IF ended = "deadline" THEN "timeout" ELSE "tool_error")
                \/ /\ pc \in {"resolve", "package"}
                   /\ reply' \in (Errors \ {"timeout"}) \cup {"result", "result_too_large"}
<1> USE DEF Verdict, Goto, client, call, Errors
<1>1. CASE CheckFailure \/ CheckSuccess
  BY <1>1 DEF CheckFailure, CheckSuccess, Checked
<1>2. CASE JudgeFailure
  BY <1>2 DEF JudgeFailure
<1>3. CASE ResolveFinal
  BY <1>3 DEF ResolveFinal
<1>4. CASE Package
  BY <1>4 DEF Package
<1>5. QED
  BY <1>1, <1>2, <1>3, <1>4

\* A step of a request happens while its verdict matters, and leaves all but the
\* request, the reason and the end of the context alone.
LEMMA RequestStep ==
  ASSUME NEW r \in Requests,
         \/ Asks(r) \/ Loads(r) \/ Redirected(r) \/ Judge(r) \/ Continue(r)
         \/ Block(r) \/ Report(r) \/ CommandFails(r)
  PROVE  /\ Watched
         /\ UNCHANGED <<client, tool, signalled, pc, chrome, profile, reply, redirects, left>>
         /\ \E to \in {"paused", "allowed", "refused", "continued", "loaded", "blocked", "over"} :
               request' = [request EXCEPT ![r] = to]
         /\ \/ UNCHANGED hops
            \/ redirects + hops < MaxHops /\ hops' = hops + 1
         /\ \/ UNCHANGED <<ended, reason>>
            \/ \E c \in Errors : Record(c) /\ (c = "timeout" => ended = "deadline")
<1>1. CASE Asks(r) \/ Loads(r) \/ Judge(r) \/ Continue(r) \/ Block(r)
  BY <1>1 DEF Asks, Loads, Judge, Continue, Block, Moves, Keep
<1>2. CASE Redirected(r)
  BY <1>2 DEF Redirected, Moves
<1>3. CASE Report(r)
  BY <1>3 DEF Report, Moves, Errors
<1>4. CASE CommandFails(r)
  BY <1>4 DEF CommandFails, Moves, Errors
<1>5. QED
  BY <1>1, <1>2, <1>3, <1>4

\* Every reachable state is well typed, and Chromium is up only within a call
\* whose profile directory exists (the deferred calls of Browse and Search).
THEOREM TypeCorrect == Spec => [](TypeOK /\ CallInv)
<1>1. Init => TypeOK /\ CallInv
  <2> SUFFICES ASSUME Init PROVE TypeOK /\ CallInv
    OBVIOUS
  <2>1. lines \in Seq({"call", "ask", "note", "junk"})
    BY EmptySeq DEF Init
  <2>2. sent \in 0 .. MaxLines /\ redirects \in 0 .. MaxHops
        /\ hops \in 0 .. MaxHops /\ redirects + hops <= MaxHops
    BY BrowserAssumption DEF Init
  <2>3. request \in [Requests -> {"unsent", "paused", "allowed", "refused",
                                  "continued", "loaded", "blocked", "over"}]
    BY DEF Init
  <2>4. QED
    BY <2>1, <2>2, <2>3 DEF Init, TypeOK, CallInv, Watched, Errors, Ends, Nothing
<1>2. TypeOK /\ CallInv /\ [Next]_vars => TypeOK' /\ CallInv'
  <2> SUFFICES ASSUME TypeOK, CallInv, [Next]_vars
               PROVE  TypeOK' /\ CallInv'
    OBVIOUS
  <2> USE BrowserAssumption DEF TypeOK, CallInv, Watched, client, call, Ends
  <2>1. CASE Send
    BY <2>1, AppendProperties DEF Send, Alive
  <2>2. CASE CloseInput
    BY <2>2 DEF CloseInput
  <2>3. CASE Kill
    BY <2>3 DEF Kill, Forget, Alive, Nothing
  <2>4. CASE Terminate
    BY <2>4 DEF Terminate
  <2>5. CASE Expire
    BY <2>5 DEF Expire
  <2>6. CASE ReadLine
    <3>1. lines # << >> => Tail(lines) \in Seq({"call", "ask", "note", "junk"})
      BY HeadTailProperties
    <3>2. reply' \in {reply, "none", "result", "error"}
      BY <2>6, Zenon DEF ReadLine
    <3>3. QED
      BY <2>6, <3>1, <3>2 DEF ReadLine
  <2>7. CASE EndOfInput \/ Refuse
    BY <2>7 DEF EndOfInput, Refuse, Errors
  <2>8. CASE Prepare
    BY <2>8 DEF Prepare
  <2>9. CASE Navigated \/ NotLoaded \/ Interrupted \/ Acted \/ ActionFails
    BY <2>9, MovingOn
  <2>10. CASE (CheckFailure \/ JudgeFailure \/ CheckSuccess) \/ (ResolveFinal \/ Package)
    BY <2>10, Judging DEF Errors
  <2>11. CASE CloseBrowser
    BY <2>11 DEF CloseBrowser
  <2>12. CASE RemoveProfile
    BY <2>12 DEF RemoveProfile
  <2>13. CASE Answer
    BY <2>13 DEF Answer, Forget, Nothing
  <2>14. CASE Enable
    BY <2>14 DEF Enable
  <2>15. CASE EnableFails
    BY <2>15 DEF EnableFails, Errors
  <2>16. CASE CountRedirect
    BY <2>16 DEF CountRedirect, Record, Errors
  <2>17. ASSUME NEW r \in Requests,
                \/ Asks(r) \/ Loads(r) \/ Redirected(r) \/ Judge(r) \/ Continue(r)
                \/ Block(r) \/ Report(r) \/ CommandFails(r)
         PROVE  TypeOK' /\ CallInv'
    BY <2>17, RequestStep DEF Record
  <2>18. CASE UNCHANGED vars
    BY <2>18 DEF vars
  <2>19. QED
    BY <2>1, <2>2, <2>3, <2>4, <2>5, <2>6, <2>7, <2>8, <2>9, <2>10, <2>11, <2>12,
       <2>13, <2>14, <2>15, <2>16, <2>17, <2>18, Steps
<1>3. QED
  BY <1>1, <1>2, PTL DEF Spec

\* The first reason recorded is the one that ended the browser's context, unless
\* the deadline or a signal did (setCheckErr of webutils/browser.go).
THEOREM CauseCorrect == Spec => []CauseInv
<1>1. Init => CauseInv
  BY DEF Init, CauseInv, Errors, Nothing
<1>2. CauseInv /\ [Next]_vars => CauseInv'
  <2> SUFFICES ASSUME CauseInv, [Next]_vars
               PROVE  CauseInv'
    OBVIOUS
  <2> USE DEF CauseInv, Watched, client, call
  <2>1. CASE Send \/ CloseInput
    BY <2>1 DEF Send, CloseInput
  <2>2. CASE Kill
    BY <2>2 DEF Kill, Forget, Errors, Nothing
  <2>3. CASE Terminate
    BY <2>3 DEF Terminate, Errors
  <2>4. CASE Expire
    BY <2>4 DEF Expire, Errors
  <2>5. CASE ReadLine
    BY <2>5 DEF ReadLine
  <2>6. CASE EndOfInput \/ Refuse
    BY <2>6 DEF EndOfInput, Refuse
  <2>7. CASE Prepare
    BY <2>7 DEF Prepare, Errors
  <2>8. CASE Navigated \/ NotLoaded \/ Interrupted \/ Acted \/ ActionFails
    BY <2>8, MovingOn
  <2>9. CASE CheckFailure \/ JudgeFailure \/ CheckSuccess \/ ResolveFinal \/ Package
    <3>1. pc' \in {"judge", "resolve", "package", "release"} /\ UNCHANGED <<ended, reason, left>>
      BY <2>9, Judging
    <3>2. pc' = "release" \/ reason = "none" \/ pc = "resolve"
      BY <2>9, Judging
    <3>3. "none" \notin Errors
      BY DEF Errors
    <3>4. QED
      BY <3>1, <3>2, <3>3
  <2>10. CASE CloseBrowser \/ RemoveProfile
    BY <2>10 DEF CloseBrowser, RemoveProfile
  <2>11. CASE Answer
    BY <2>11 DEF Answer, Forget, Errors, Nothing
  <2>12. CASE Enable \/ EnableFails
    BY <2>12 DEF Enable, EnableFails
  <2>13. CASE CountRedirect
    BY <2>13 DEF CountRedirect, Record, Errors
  <2>14. ASSUME NEW r \in Requests,
                \/ Asks(r) \/ Loads(r) \/ Redirected(r) \/ Judge(r) \/ Continue(r)
                \/ Block(r) \/ Report(r) \/ CommandFails(r)
         PROVE  CauseInv'
    BY <2>14, RequestStep DEF Record, Errors
  <2>15. CASE UNCHANGED vars
    BY <2>15 DEF vars
  <2>16. QED
    BY <2>1, <2>2, <2>3, <2>4, <2>5, <2>6, <2>7, <2>8, <2>9, <2>10, <2>11, <2>12,
       <2>13, <2>14, <2>15, Steps
<1>3. QED
  BY <1>1, <1>2, PTL DEF Spec

\* However the goroutines of the paused requests, the redirects, the deadline and
\* a signal interleave, before chromedp.Run returns and between the reads that
\* follow it: a call whose context a recorded reason had cancelled when Run
\* returned reports that reason, and no call reports a time-out unless the
\* deadline ended the context (setCheckErr, getCheckErr, browserCtx.Err).
THEOREM FirstCauseWins == Spec => []FirstCauseIsReported
<1>1. Init => FirstCauseIsReported
  BY DEF Init, FirstCauseIsReported
<1>2. CauseInv /\ FirstCauseIsReported /\ [Next]_vars => FirstCauseIsReported'
  <2> SUFFICES ASSUME CauseInv, FirstCauseIsReported, [Next]_vars
               PROVE  FirstCauseIsReported'
    OBVIOUS
  <2> USE DEF FirstCauseIsReported, Watched, client, call
  <2>1. CASE (CheckFailure \/ JudgeFailure \/ CheckSuccess) \/ (ResolveFinal \/ Package)
    <3>1. UNCHANGED <<ended, left>>
      BY <2>1, Judging
    <3>2. left.ended \in Errors => reason = left.ended /\ pc \notin {"judge", "resolve", "package"}
      BY DEF CauseInv
    <3>3. reply' = "timeout" /\ pc' = "release" => ended = "deadline"
      BY <2>1, Judging DEF CauseInv, Errors
    <3>4. \/ pc' \notin {"release", "remove"}
          \/ pc' = "release" /\ (left.ended \in Errors => reply' = reason)
      BY <2>1, <3>2, Judging
    <3>5. QED
      BY <3>1, <3>2, <3>3, <3>4
  <2>2. CASE EnableFails
    BY <2>2 DEF EnableFails, CauseInv, Errors, Nothing
  <2>3. CASE CloseBrowser \/ RemoveProfile
    BY <2>3 DEF CloseBrowser, RemoveProfile
  <2>4. CASE Send \/ CloseInput \/ Kill \/ Terminate \/ Expire
    BY <2>4 DEF Send, CloseInput, Kill, Terminate, Expire
  <2>5. CASE ReadLine \/ EndOfInput \/ Refuse \/ Prepare \/ Answer \/ Enable
    BY <2>5 DEF ReadLine, EndOfInput, Refuse, Prepare, Answer, Enable
  <2>6. CASE Navigated \/ NotLoaded \/ Interrupted \/ Acted \/ ActionFails
    BY <2>6, MovingOn
  <2>7. CASE CountRedirect
    BY <2>7 DEF CountRedirect
  <2>8. ASSUME NEW r \in Requests,
               \/ Asks(r) \/ Loads(r) \/ Redirected(r) \/ Judge(r) \/ Continue(r)
               \/ Block(r) \/ Report(r) \/ CommandFails(r)
        PROVE  FirstCauseIsReported'
    BY <2>8, RequestStep
  <2>9. CASE UNCHANGED vars
    BY <2>9 DEF vars
  <2>10. QED
    BY <2>1, <2>2, <2>3, <2>4, <2>5, <2>6, <2>7, <2>8, <2>9, Steps
<1>3. QED
  BY <1>1, <1>2, CauseCorrect, PTL DEF Spec
=============================================================================
