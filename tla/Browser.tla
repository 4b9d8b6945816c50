------------------------------- MODULE Browser -------------------------------
(***************************************************************************)
(* webutils-mcp: the server loop of webutils/server.go and one browser     *)
(* call, ChromiumBrowser.Browse or Search of webutils/browser.go.  The     *)
(* server reads one line at a time and answers it before it reads the      *)
(* next.  Within a call three parties run at once: the function, which     *)
(* waits for Chromium; Chromium, which loads the page and asks for what    *)
(* the page needs; and one goroutine for each request Chromium pauses,     *)
(* which lets it pass or fails it and records why.                         *)
(*                                                                         *)
(* Chromium and the goroutines go on while the function reads what they    *)
(* recorded and looks the final address up.  What they do after the last   *)
(* of these reads is left out: they hold variables of their call only.     *)
(***************************************************************************)
EXTENDS Naturals, Sequences

CONSTANTS
    Requests,       \* what the page may ask for
    Document,       \* the request of the navigation itself
    MaxRedirects,   \* limits.MaxRedirects
    MaxHops,        \* bound: the redirects the page makes
    MaxLines        \* bound: the lines the client sends

ASSUME BrowserAssumption ==
    /\ Document \in Requests
    /\ MaxRedirects \in Nat /\ MaxHops \in Nat /\ MaxLines \in Nat

VARIABLES
    lines,      \* the lines in the pipe, by kind
    sent,       \* how many lines were sent
    closed,     \* the client has closed the pipe
    signalled,  \* the context of main is cancelled
    pc,         \* where the server is
    tool,       \* the tool of the call under way
    ended,      \* what ended the browser's context first, "no" while it lives
    reason,     \* checkErr, by the category classifyError gives it
    request,    \* each request of the page, and how far its goroutine is
    redirects,  \* the counter of the event listener
    hops,       \* redirects made whose event is not delivered yet
    left,       \* history: what chromedp.Run left when it returned
    chrome,     \* the Chromium process
    profile,    \* the temporary profile directory exists
    reply       \* the category of the last answer

client == <<lines, sent, closed>>
call   == <<tool, ended, reason, request, redirects, hops, left>>
vars   == <<client, call, signalled, pc, chrome, profile, reply>>

Errors == {"invalid_url", "disallowed_destination", "timeout", "tool_error"}
Ends   == Errors \cup {"no", "deadline", "signal"}

\* Nothing has run yet.
Nothing == [ended |-> "no", blocked |-> {}]

\* The part of a call in which Chromium and the goroutines are at work.
Watched == pc \in {"navigate", "act", "failed", "judge", "ran", "resolve", "package"}
Alive   == pc \notin {"exited", "killed"}

TypeOK ==
    /\ lines \in Seq({"call", "ask", "note", "junk"}) /\ sent \in 0 .. MaxLines
    /\ {closed, signalled, profile} \subseteq BOOLEAN
    /\ pc \in {"idle", "begin", "enable", "navigate", "act", "failed", "judge", "ran",
               "resolve", "package", "release", "remove", "answer", "exited", "killed"}
    /\ tool \in {"browse_url", "search_web"}
    /\ ended \in Ends
    /\ reason \in Errors \cup {"none"}
    /\ request \in [Requests -> {"unsent", "paused", "allowed", "refused",
                                 "continued", "loaded", "blocked", "over"}]
    /\ redirects \in 0 .. MaxHops /\ hops \in 0 .. MaxHops
    /\ left \in [ended : Ends, blocked : SUBSET Requests]
    /\ chrome \in {"none", "up"}
    /\ chrome = "up" => profile
    /\ reply \in Errors \cup {"none", "result", "error", "result_too_large"}

Init ==
    /\ lines = <<>> /\ sent = 0 /\ closed = FALSE /\ signalled = FALSE
    /\ pc = "idle" /\ tool = "browse_url" /\ ended = "no" /\ reason = "none"
    /\ request = [r \in Requests |-> "unsent"] /\ redirects = 0 /\ hops = 0
    /\ left = Nothing /\ chrome = "none" /\ profile = FALSE /\ reply = "none"

-----------------------------------------------------------------------------
\* The variables of a call are gone.
Forget ==
    /\ tool' = "browse_url" /\ ended' = "no" /\ reason' = "none"
    /\ redirects' = 0 /\ hops' = 0 /\ left' = Nothing
    /\ request' = [r \in Requests |-> "unsent"]

(* The client and the operating system. *)

Send ==
    /\ ~closed /\ Alive /\ sent < MaxLines
    /\ \E kind \in {"call", "ask", "note", "junk"} : lines' = Append(lines, kind)
    /\ sent' = sent + 1
    /\ UNCHANGED <<closed, call, signalled, pc, chrome, profile, reply>>

CloseInput ==
    /\ ~closed /\ closed' = TRUE
    /\ UNCHANGED <<lines, sent, call, signalled, pc, chrome, profile, reply>>

\* The client's timer runs out after it closed the pipe: SIGKILL.
Kill ==
    /\ closed /\ Alive /\ pc' = "killed" /\ Forget /\ reply' = "none"
    /\ UNCHANGED <<client, signalled, chrome, profile>>

\* SIGTERM only cancels the context: a server that waits for a line stays.
Terminate ==
    /\ Alive /\ ~signalled /\ signalled' = TRUE
    /\ ended' = IF (pc = "enable" \/ Watched) /\ ended = "no" THEN "signal" ELSE ended
    /\ UNCHANGED <<client, tool, reason, request, redirects, hops, left, pc, chrome,
                   profile, reply>>

\* A deadline for the navigation alone.
ExpireInNavigation ==
    /\ pc \in {"enable", "navigate"} /\ ended = "no" /\ ended' = "deadline"
    /\ UNCHANGED <<client, tool, reason, request, redirects, hops, left, signalled, pc,
                   chrome, profile, reply>>

\* context.WithTimeout: the deadline covers the whole use of Chromium.
Expire ==
    /\ (pc = "enable" \/ Watched) /\ ended = "no" /\ ended' = "deadline"
    /\ UNCHANGED <<client, tool, reason, request, redirects, hops, left, signalled, pc,
                   chrome, profile, reply>>

-----------------------------------------------------------------------------
(* Server.Serve and dispatch. *)

\* A line that arrives after the signal is read and dropped.
ReadLine ==
    /\ pc = "idle" /\ lines # <<>>
    /\ IF signalled
       THEN pc' = "exited" /\ UNCHANGED <<lines, tool, reply>>
       ELSE /\ lines' = Tail(lines)
            /\ \/ /\ Head(lines) = "call" /\ pc' = "begin" /\ reply' = "none"
                  /\ tool' \in {"browse_url", "search_web"}
               \/ /\ Head(lines) # "call" /\ UNCHANGED <<pc, tool>>
                  /\ reply' = CASE Head(lines) = "ask"  -> "result"
                                [] Head(lines) = "junk" -> "error"
                                [] OTHER -> reply
    /\ UNCHANGED <<sent, closed, ended, reason, request, redirects, hops, left, signalled,
                   chrome, profile>>

EndOfInput ==
    /\ pc = "idle" /\ lines = <<>> /\ closed /\ pc' = "exited"
    /\ UNCHANGED <<client, call, signalled, chrome, profile, reply>>

Answer ==
    /\ pc = "answer" /\ pc' = "idle" /\ Forget
    /\ UNCHANGED <<client, signalled, chrome, profile, reply>>

-----------------------------------------------------------------------------
(* The call. *)

\* What can be refused before Chromium starts: the tool, the arguments, the
\* URL, the actions, the executable, its flags, the profile directory.
Refuse ==
    /\ pc = "begin" /\ reply' \in (Errors \ {"timeout"}) \cup {"error"} /\ pc' = "answer"
    /\ UNCHANGED <<client, call, signalled, chrome, profile>>

Prepare ==
    /\ pc = "begin" /\ pc' = "enable" /\ profile' = TRUE
    /\ ended' = IF signalled THEN "signal" ELSE "no"
    /\ UNCHANGED <<client, tool, reason, request, redirects, hops, left, signalled, chrome,
                   reply>>

Enable ==
    /\ pc = "enable" /\ ended = "no" /\ pc' = "navigate" /\ chrome' = "up"
    /\ request' = [request EXCEPT ![Document] = "paused"]
    /\ UNCHANGED <<client, tool, ended, reason, redirects, hops, left, signalled, profile,
                   reply>>

\* Chromium does not start, or the context ends while it does: the category is
\* that of the error which chromedp.Run passes on.
EnableFails ==
    /\ pc = "enable" /\ pc' = "release" /\ chrome' \in {"none", "up"}
    /\ reply' \in {"tool_error"} \cup (IF ended = "deadline" THEN {"timeout"} ELSE {})
    /\ UNCHANGED <<client, call, signalled, profile>>

Goto(from, to) ==
    /\ pc = from /\ pc' = to
    /\ UNCHANGED <<client, signalled, chrome, profile, reply>>

Navigated ==
    /\ ended = "no" /\ request[Document] = "loaded"
    /\ Goto("navigate", "act") /\ UNCHANGED call

\* chromedp.Run returns.
Returns(from, to) ==
    /\ Goto(from, to)
    /\ left' = [ended |-> ended, blocked |-> {r \in Requests : request[r] = "blocked"}]
    /\ UNCHANGED <<tool, ended, reason, request, redirects, hops>>

NotLoaded   == request[Document] \in {"blocked", "over"} /\ Returns("navigate", "failed")
Acted       == ended = "no" /\ Returns("act", "ran")   \* the actions, wait_text, the extraction
ActionFails == Returns("act", "failed")
Interrupted == ended # "no" /\ (Returns("navigate", "failed") \/ Returns("act", "failed"))

\* What the goroutines and the listener hold is read no more.
Verdict(c) ==
    /\ reply' = c /\ pc' = "release"
    /\ redirects' = 0 /\ hops' = 0 /\ request' = [r \in Requests |-> "unsent"]
    /\ UNCHANGED <<client, tool, ended, reason, left, signalled, chrome, profile>>

\* getCheckErr: a recorded reason is the answer, whatever Run returned.
Checked(from, to) ==
    \/ pc = from /\ reason # "none" /\ Verdict(reason)
    \/ reason = "none" /\ Goto(from, to) /\ UNCHANGED call

CheckFailure == Checked("failed", "judge")
CheckSuccess == Checked("ran", "resolve")

\* Without a reason a failure is a time-out if browserCtx says so by now.
JudgeFailure ==
    pc = "judge" /\ Verdict(IF ended = "deadline" THEN "timeout" ELSE "tool_error")

\* The host of the final URL is resolved, in the context of main.
ResolveFinal ==
    \/ Goto("resolve", "package") /\ UNCHANGED call
    \/ pc = "resolve" /\ \E c \in Errors \ {"timeout"} : Verdict(c)

\* The limit on screenshots, which only browse_url takes; links and texts.
Package ==
    /\ pc = "package"
    /\ Verdict("result") \/ (tool = "browse_url" /\ Verdict("result_too_large"))

\* Cancel functions that only tell Chromium to end.
CloseWithoutWaiting ==
    /\ pc = "release" /\ pc' = "remove"
    /\ UNCHANGED <<client, call, signalled, chrome, profile, reply>>

\* The deferred calls, last one first: the cancel functions return when
\* Chromium is gone, then the profile is removed.
CloseBrowser ==
    /\ pc = "release" /\ pc' = "remove" /\ chrome' = "none"
    /\ UNCHANGED <<client, call, signalled, profile, reply>>

RemoveProfile ==
    /\ pc = "remove" /\ pc' = "answer" /\ profile' = FALSE
    /\ UNCHANGED <<client, call, signalled, chrome, reply>>

-----------------------------------------------------------------------------
(* The page and the goroutines of the paused requests. *)

Moves(r, from, to) ==
    /\ Watched /\ chrome = "up" /\ request[r] = from
    /\ request' = [request EXCEPT ![r] = to]
    /\ UNCHANGED <<client, tool, left, signalled, pc, chrome, profile, reply>>

Keep == UNCHANGED <<ended, reason, redirects, hops>>

\* Chromium: the page asks for more, a request is answered or redirected.
Asks(r) ==
    /\ request[Document] = "loaded" /\ Moves(r, "unsent", "paused") /\ Keep
Loads(r) == Moves(r, "continued", "loaded") /\ Keep
Redirected(r) ==
    /\ redirects + hops < MaxHops
    /\ Moves(r, "continued", "paused")
    /\ hops' = hops + 1 /\ UNCHANGED <<ended, reason, redirects>>

\* A recording without the test for an earlier one.
RecordLatest(c) ==
    /\ reason' = c
    /\ ended' = IF reason = "none" /\ ended = "no" THEN c ELSE ended

\* setCheckErr: only the first reason is kept, and it cancels the browser.
Record(c) ==
    /\ reason' = IF reason = "none" THEN c ELSE reason
    /\ ended' = IF reason = "none" /\ ended = "no" THEN c ELSE ended

\* The URL is validated; its host is resolved in the browser's context.
Judge(r) ==
    Keep /\ (Moves(r, "paused", "allowed") \/ Moves(r, "paused", "refused"))

Continue(r) == ended = "no" /\ Keep /\ Moves(r, "allowed", "continued")
Block(r)    == ended = "no" /\ Keep /\ Moves(r, "refused", "blocked")

\* The goroutine records why it blocked the request, after it did.
Report(r) ==
    /\ Moves(r, "blocked", "over") /\ UNCHANGED <<redirects, hops>>
    /\ \E c \in Errors \ {"timeout"} : Record(c)

\* The command to Chromium fails, as it does once the context has ended.
CommandFails(r) ==
    /\ Moves(r, "allowed", "over") \/ Moves(r, "refused", "over")
    /\ Record(IF ended = "deadline" THEN "timeout" ELSE "tool_error")
    /\ UNCHANGED <<redirects, hops>>

CountRedirect ==
    /\ Watched /\ hops > 0
    /\ hops' = hops - 1 /\ redirects' = redirects + 1
    /\ IF redirects' > MaxRedirects THEN Record("tool_error") ELSE UNCHANGED <<reason, ended>>
    /\ UNCHANGED <<client, tool, request, left, signalled, pc, chrome, profile, reply>>

-----------------------------------------------------------------------------
Environment == Send \/ CloseInput \/ Kill \/ Terminate
Serve == ReadLine \/ EndOfInput \/ Refuse \/ Prepare \/ Navigated \/ NotLoaded
         \/ Interrupted \/ CheckFailure \/ JudgeFailure \/ CheckSuccess \/ ResolveFinal
         \/ Package \/ CloseBrowser \/ RemoveProfile \/ Answer
Page == Enable \/ EnableFails \/ Acted \/ ActionFails \/ CountRedirect
        \/ \E r \in Requests :
              Asks(r) \/ Loads(r) \/ Redirected(r) \/ Judge(r) \/ Continue(r)
              \/ Block(r) \/ Report(r) \/ CommandFails(r)

Next == Environment \/ Serve \/ Page \/ Expire

Spec == Init /\ [][Next]_vars

(***************************************************************************)
(* Nothing is assumed of the page, its requests or the goroutines: they    *)
(* may stall for ever.  The function takes the steps that wait for nobody, *)
(* a killed Chromium ends, a start fails once its context ended, the timer *)
(* of the deadline fires, and a look-up in the context of main, which has  *)
(* no deadline, and the write of an answer return.                         *)
(***************************************************************************)
FairSpec ==
    /\ Spec
    /\ WF_vars(Serve) /\ WF_vars(Expire) /\ WF_vars(ended # "no" /\ EnableFails)

-----------------------------------------------------------------------------
(* What the proofs rest on. *)

\* Chromium runs within a call only, and as long as its profile is there.
CallInv ==
    /\ redirects + hops <= MaxHops
    /\ pc \in {"enable", "release", "remove"} \/ Watched => profile
    /\ ~Watched /\ pc \notin {"release", "killed"} => chrome = "none"

\* The context ended for the recorded reason or for none; a time-out is never
\* recorded before the deadline has passed; between calls nothing is left.
CauseInv ==
    /\ ended \in Errors => reason = ended
    /\ ended # "timeout"
    /\ reason = "timeout" => ended = "deadline"
    /\ pc \in {"idle", "begin", "enable", "exited", "killed"} => reason = "none"
    /\ pc \in {"idle", "begin", "exited", "killed"} => ended = "no"
    /\ left.ended \in Errors => reason = left.ended
    /\ pc \in {"idle", "begin", "enable", "navigate", "act"} => left = Nothing
    /\ pc \in {"judge", "resolve", "package"} => left.ended \notin Errors

-----------------------------------------------------------------------------
(* What is promised. *)

\* A call whose context had been cancelled for a recorded reason when
\* chromedp.Run returned reports that reason, not one of the failures which the
\* cancellation provokes in the other goroutines and not a result; a time-out
\* is reported only if the deadline ended the context.  A reason recorded after
\* Run returned may still be reported, or may come too late (setCheckErr,
\* getCheckErr and the reading of browserCtx.Err after it).
FirstCauseIsReported ==
    pc \in {"release", "remove"} =>
        /\ left.ended \in Errors => reply = left.ended
        /\ reply = "timeout" => ended = "deadline"

\* A call one of whose requests has been blocked when chromedp.Run returns
\* fails (TestChromiumBrowserBrowseBlocksDisallowedSubresourceRequest:
\* "expected blocked subresource request to fail").
BlockedRequestFailsTheCall ==
    pc = "release" /\ left.blocked # {} => reply # "result"

\* Whatever the page does, a call ends with its answer, Chromium gone and the
\* profile removed, and a server whose input is closed exits, unless it is
\* killed (the deferred calls of Browse and Search, the loop of Serve).
CallsEnd ==
    /\ (pc = "begin") ~> (pc = "killed" \/ (pc = "idle" /\ chrome = "none" /\ ~profile))
    /\ closed ~> ~Alive
=============================================================================
