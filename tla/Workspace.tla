------------------------------ MODULE Workspace ------------------------------
(***************************************************************************)
(* coreutils-mcp over HTTP (src/internal/mcpserver, src/cmd/coreutils-mcp): *)
(* requests run at the same time, each of them one tool call that goes     *)
(* through its system calls one by one; the tree they share is the only    *)
(* thing between them.  Shutdown waits for the handlers, but not for long. *)
(***************************************************************************)
EXTENDS FileTree, FiniteSets

CONSTANTS
  Slots,       \* the requests in flight at the same time
  Calls,       \* the tool calls the clients make
  Forms,       \* the ways a request may be formed
  Trees,       \* the trees the server may find
  NameOrder,   \* the names in lexical order
  MaxCalls,    \* bound of the model: the requests
  MaxRead,     \* limits.MaxFileReadBytes
  MaxCopy,     \* maxCopyBytes
  MaxList,     \* the 200 entries of ls
  MaxFind      \* limits.MaxFindResults

Paths == Seq(Names \cup {".."})

ASSUME WorkspaceAssumption ==
  /\ IsFiniteSet(Slots)
  /\ {MaxCalls, MaxRead, MaxCopy, MaxList, MaxFind} \subseteq Nat \ {0}

\* The server may find any tree; a request has the arguments its tool requires.
ASSUME TreeAssumption == \A t \in Trees : IsTree(t)
ASSUME CallAssumption ==
  \A c \in Calls : /\ c.path \in Paths
                   /\ c.tool \in {"cp", "mv"} => c.dest \in Paths

VARIABLES
  fs,       \* the file system
  server,   \* "serving", "draining" after a signal, or "gone"
  count,    \* the requests accepted so far
  req       \* what each slot is doing

vars == <<fs, server, count, req>>

Idle == [pc |-> "idle"]
Busy(r) == req[r].pc # "idle"

ReadOnly == {"ls", "cat", "find"}

\* A tool call that has just been dispatched.
Begin(c, id) ==
  [pc |-> "begin", call |-> c, id |-> id,
   src |-> << >>, dst |-> << >>, in |-> None, fd |-> None,
   walk |-> << >>, size |-> 0, out |-> << >>, cut |-> FALSE, ok |-> FALSE,
   asked |-> TRUE,       \* it was dispatched
   broken |-> FALSE,     \* the disk failed it
   over |-> FALSE,       \* history: it replaced something that was there
   before |-> fs,        \* history: the tree it found
   paths |-> {},         \* history: the paths it may touch
   quiet |-> TRUE]       \* history: no request that writes has come near its paths

-------------------------------------------------------------------------------
(***************************************************************************)
(* Steps that the tools share                                              *)
(***************************************************************************)

Become(r, rec)    == req' = [req EXCEPT ![r] = rec]
Goto(r, pc)       == Become(r, [req[r] EXCEPT !.pc = pc])
Fails(r)          == Become(r, [req[r] EXCEPT !.pc = "done"])
Succeeds(r)       == Become(r, [req[r] EXCEPT !.pc = "done", !.ok = TRUE])
Keep              == UNCHANGED fs
Runs(r, tool, pc) == req[r].pc = pc /\ req[r].call.tool = tool

\* filepath.Clean of a relative path: ".." takes back a name, and a path that
\* goes above the root escapes.
Escapes == <<"..">>
Cleaned(p) ==
  LET clean[k \in 0 .. Len(p)] ==
        IF k = 0 THEN << >>
        ELSE IF clean[k - 1] = Escapes \/ (p[k] = ".." /\ clean[k - 1] = << >>) THEN Escapes
        ELSE IF p[k] = ".." THEN Front(clean[k - 1])
        ELSE Append(clean[k - 1], p[k])
  IN  clean[Len(p)]

\* resolvePath: the canonical path of something that exists.
ResolvePath(r, p, field, next) ==
  LET q == Cleaned(p)
  IN  /\ Keep
      /\ IF q # Escapes /\ Stat(fs, q) # None
           THEN Become(r, [req[r] EXCEPT ![field] = Canonical(fs, q), !.pc = next])
           ELSE Fails(r)

\* resolveTouchPath: what does not exist is looked for in its parent, later.
ResolveTouchPath(r, p, next) ==
  LET q == Cleaned(p)
  IN  IF q # Escapes /\ q # << >> /\ Stat(fs, q) = None
        THEN Goto(r, "parent") /\ Keep
        ELSE ResolvePath(r, p, "dst", next)

\* Mutant of ResolveParent: the name is joined to the root.
ResolveInRoot(r, p, next) ==
  LET q == Cleaned(p)
  IN  /\ req[r].pc = "parent"
      /\ Keep
      /\ IF Is(fs, Stat(fs, Front(q)), "dir")
           THEN Become(r, [req[r] EXCEPT !.dst = <<Last(q)>>, !.pc = next])
           ELSE Fails(r)

ResolveParent(r, p, next) ==
  LET q == Cleaned(p)
  IN  /\ req[r].pc = "parent"
      /\ Keep
      /\ IF Is(fs, Stat(fs, Front(q)), "dir")
           THEN Become(r, [req[r] EXCEPT !.dst = Append(Canonical(fs, Front(q)), Last(q)), !.pc = next])
           ELSE Fails(r)

\* At most k members of s, from position m.
Slice(s, m, k) == SubSeq(s, m, IF m + k - 1 <= Len(s) THEN m + k - 1 ELSE Len(s))

\* Mutant of Check: what was seen is forgotten.
CheckNothing(r, good, next) == Keep /\ Goto(r, next)

\* Look at a path before acting on it.
Check(r, good, next) == Keep /\ IF good THEN Goto(r, next) ELSE Fails(r)

\* Mutant of OpenForWriting: without O_TRUNC.
OpenWithoutTruncating(r, truncate, next) ==
  LET made == Created(fs, req[r].dst)
      i    == Stat(made, req[r].dst)
  IN  IF Is(made, i, "file")
        THEN fs' = made /\ Become(r, [req[r] EXCEPT !.pc = next, !.fd = i])
        ELSE Keep /\ Fails(r)

\* Open the destination, which O_TRUNC empties.
OpenForWriting(r, truncate, next) ==
  LET made == Created(fs, req[r].dst)
      i    == Stat(made, req[r].dst)
  IN  /\ HasRoom(fs)
      /\ IF Is(made, i, "file")
           THEN /\ fs' = IF truncate THEN [made EXCEPT ![i].text = << >>] ELSE made
                /\ Become(r, [req[r] EXCEPT !.pc = next, !.fd = i,
                                            !.over = truncate /\ Stat(fs, req[r].dst) # None])
           ELSE Keep /\ Fails(r)

\* Mutant of Write: a limit is looked at when the file is open already.
WriteWithinLimit(r, text) ==
  \/ /\ Len(text) < MaxCopy
     /\ \/ fs' = [fs EXCEPT ![req[r].fd].text = text] /\ Succeeds(r)
        \/ Keep /\ Become(r, [req[r] EXCEPT !.pc = "done", !.broken = TRUE])
  \/ Len(text) >= MaxCopy /\ Keep /\ Fails(r)

\* Write the open file, or fail to.
Write(r, text) ==
  \/ fs' = [fs EXCEPT ![req[r].fd].text = text] /\ Succeeds(r)
  \/ Keep /\ Become(r, [req[r] EXCEPT !.pc = "done", !.broken = TRUE])

-------------------------------------------------------------------------------
(***************************************************************************)
(* The tools, one system call a step                                       *)
(***************************************************************************)

RunLS(r) ==
  \/ Runs(r, "ls", "begin") /\ ResolvePath(r, req[r].call.path, "src", "list")
  \/ /\ Runs(r, "ls", "list") /\ Keep
     /\ LET i     == Stat(fs, req[r].src)
            shown == Slice(EntriesOf(fs, i, NameOrder), 1, MaxList)
        IN  IF Is(fs, i, "dir")
              THEN Become(r, [req[r] EXCEPT !.pc = "done", !.ok = TRUE, !.out = shown,
                                            !.cut = Len(shown) = MaxList])
              ELSE Fails(r)

\* The head of a file, or its tail as long as the file Lstat saw.
RunCat(r) ==
  \/ Runs(r, "cat", "begin") /\ ResolvePath(r, req[r].call.path, "src", "check")
  \/ /\ Runs(r, "cat", "check") /\ Keep
     /\ LET i == Lstat(fs, req[r].src)
        IN  IF Is(fs, i, "file")
              THEN Become(r, [req[r] EXCEPT !.pc = "open", !.size = Len(fs[i].text)])
              ELSE Fails(r)
  \/ /\ Runs(r, "cat", "open") /\ Keep
     /\ LET i == Stat(fs, req[r].src)
        IN  IF Is(fs, i, "file") THEN Become(r, [req[r] EXCEPT !.pc = "read", !.in = i]) ELSE Fails(r)
  \/ /\ Runs(r, "cat", "read") /\ Keep
     /\ LET text   == fs[req[r].in].text
            size   == req[r].size
            offset == IF req[r].call.view = "tail" /\ size > MaxRead THEN size - MaxRead ELSE 0
        IN  Become(r, [req[r] EXCEPT !.pc = "done", !.ok = TRUE,
                         !.out = Slice(text, offset + 1, MaxRead),
                         !.cut = offset > 0 \/ Len(text) - offset > MaxRead])

\* WalkDir reads a directory when it gets to it; what is a file and what a
\* directory is known from then.  The walk ends at the limit, and fails when a
\* directory has gone.
Children(p, i) ==
  [k \in DOMAIN EntriesOf(fs, i, NameOrder) |->
     LET n == EntriesOf(fs, i, NameOrder)[k]
     IN  [path |-> Append(p, n), kind |-> fs[fs[i].names[n]].kind]]

RunFind(r) ==
  LET c == req[r].call IN
  \/ Runs(r, "find", "begin") /\ ResolvePath(r, c.path, "src", "check")
  \/ Runs(r, "find", "check") /\ Check(r, Is(fs, Stat(fs, req[r].src), "dir"), "root")
  \/ /\ Runs(r, "find", "root") /\ Keep
     /\ LET i == Stat(fs, req[r].src)
        IN  IF Is(fs, i, "dir")
              THEN Become(r, [req[r] EXCEPT !.pc = "walk", !.walk = Children(req[r].src, i)])
              ELSE Fails(r)
  \/ Runs(r, "find", "walk") /\ req[r].walk = << >> /\ Keep /\ Succeeds(r)
  \/ /\ Runs(r, "find", "walk") /\ req[r].walk # << >> /\ Keep
     /\ LET e    == Head(req[r].walk)
            i    == Lstat(fs, e.path)
            hit  == e.kind # "link" /\ Last(e.path) \in c.match
            out  == IF hit THEN Append(req[r].out, e.path) ELSE req[r].out
            full == hit /\ Len(out) >= MaxFind
        IN  IF full THEN Become(r, [req[r] EXCEPT !.pc = "done", !.ok = TRUE, !.out = out, !.cut = TRUE])
            ELSE IF e.kind = "dir" /\ ~Is(fs, i, "dir") THEN Fails(r)
            ELSE Become(r, [req[r] EXCEPT !.out = out,
                   !.walk = (IF e.kind = "dir" THEN Children(e.path, i) ELSE << >>) \o Tail(@)])

RunTouch(r) ==
  LET next == "open" IN
  \/ Runs(r, "touch", "begin") /\ ResolveTouchPath(r, req[r].call.path, next)
  \/ Runs(r, "touch", "parent") /\ ResolveParent(r, req[r].call.path, next)
  \/ Runs(r, "touch", next) /\ OpenForWriting(r, FALSE, "chtimes")
  \/ /\ Runs(r, "touch", "chtimes") /\ Keep
     /\ IF Stat(fs, req[r].dst) # None THEN Succeeds(r) ELSE Fails(r)

RunMkdir(r) ==
  \/ Runs(r, "mkdir", "begin") /\ ResolveTouchPath(r, req[r].call.path, "make")
  \/ Runs(r, "mkdir", "parent") /\ ResolveParent(r, req[r].call.path, "make")
  \/ /\ Runs(r, "mkdir", "make") /\ HasRoom(fs)
     /\ IF CanMake(fs, req[r].dst)
          THEN fs' = Make(fs, req[r].dst, EmptyDir) /\ Succeeds(r)
          ELSE Keep /\ Fails(r)

RunCopy(r) ==
  LET c == req[r].call IN
  \/ Runs(r, "cp", "begin") /\ ResolvePath(r, c.path, "src", "checksrc")
  \/ /\ Runs(r, "cp", "checksrc")
     /\ LET i == Stat(fs, req[r].src)
        IN  Check(r, Is(fs, i, "file") /\ Len(fs[i].text) <= MaxCopy, "dst")
  \/ Runs(r, "cp", "dst") /\ ResolveTouchPath(r, c.dest, "checkdst")
  \/ Runs(r, "cp", "parent") /\ ResolveParent(r, c.dest, "checkdst")
  \/ /\ Runs(r, "cp", "checkdst")
     /\ Check(r, req[r].src # req[r].dst /\ (Stat(fs, req[r].dst) # None => c.consent), "opensrc")
  \/ /\ Runs(r, "cp", "opensrc") /\ Keep
     /\ LET i == Stat(fs, req[r].src)
        IN  IF i # None THEN Become(r, [req[r] EXCEPT !.pc = "opendst", !.in = i]) ELSE Fails(r)
  \/ Runs(r, "cp", "opendst") /\ OpenForWriting(r, TRUE, "copy")
  \/ /\ Runs(r, "cp", "copy")
     /\ IF Is(fs, req[r].in, "file")
          THEN Write(r, Written(fs[req[r].fd].text, fs[req[r].in].text))
          ELSE Keep /\ Become(r, [req[r] EXCEPT !.pc = "done", !.broken = TRUE])

RunMove(r) ==
  LET c == req[r].call IN
  \/ /\ Runs(r, "mv", "begin")
     /\ IF Cleaned(c.path) = << >> THEN Keep /\ Fails(r) ELSE ResolvePath(r, c.path, "src", "dst")
  \/ Runs(r, "mv", "dst") /\ ResolveTouchPath(r, c.dest, "check")
  \/ Runs(r, "mv", "parent") /\ ResolveParent(r, c.dest, "check")
  \/ Runs(r, "mv", "check") /\ Check(r, Lstat(fs, req[r].dst) # None => c.consent, "isdir")
  \/ Runs(r, "mv", "isdir") /\ Check(r, ~Is(fs, Lstat(fs, req[r].dst), "dir"), "rename")
  \/ /\ Runs(r, "mv", "rename")
     /\ IF CanRename(fs, req[r].src, req[r].dst)
          THEN /\ fs' = Renamed(fs, req[r].src, req[r].dst)
               /\ Become(r, [req[r] EXCEPT !.pc = "done", !.ok = TRUE,
                    !.over = Lstat(fs, req[r].dst) \notin {None, Lstat(fs, req[r].src)}])
          ELSE Keep /\ Fails(r)

\* rm and rmdir resolve the path first, and so remove what a link leads to.
Removal(r, kind) ==
  \/ /\ req[r].pc = "begin"
     /\ IF Cleaned(req[r].call.path) = << >> THEN Keep /\ Fails(r)
        ELSE ResolvePath(r, req[r].call.path, "src", "check")
  \/ req[r].pc = "check" /\ Check(r, Is(fs, Lstat(fs, req[r].src), kind), "remove")
  \/ /\ req[r].pc = "remove"
     /\ IF CanRemove(fs, req[r].src)
          THEN fs' = Removed(fs, req[r].src) /\ Succeeds(r)
          ELSE Keep /\ Fails(r)

RunRemove(r)          == req[r].call.tool = "rm" /\ Removal(r, "file")
RunRemoveDirectory(r) == req[r].call.tool = "rmdir" /\ Removal(r, "dir")

\* O_APPEND writes at the end, whoever else writes; the content is the number
\* of the request, and may be over MaxFileWriteBytes.
RunWriteFile(r) ==
  LET c == req[r].call IN
  \/ /\ Runs(r, "write_file", "begin")
     /\ IF c.large \/ (c.append /\ c.consent)
          THEN Keep /\ Fails(r)
          ELSE ResolveTouchPath(r, c.path, "check")
  \/ Runs(r, "write_file", "parent") /\ ResolveParent(r, c.path, "check")
  \/ /\ Runs(r, "write_file", "check")
     /\ LET i == Lstat(fs, req[r].dst)
        IN  Check(r, i # None => Is(fs, i, "file") /\ (c.consent \/ c.append), "open")
  \/ Runs(r, "write_file", "open") /\ OpenForWriting(r, ~c.append, "write")
  \/ /\ Runs(r, "write_file", "write")
     /\ LET old == fs[req[r].fd].text
        IN  Write(r, IF c.append THEN Append(old, req[r].id) ELSE Written(old, <<req[r].id>>))

Handle(r) ==
  /\ Busy(r) /\ req[r].pc # "done" /\ server # "gone"
  /\ \/ RunLS(r) \/ RunCat(r) \/ RunFind(r) \/ RunTouch(r) \/ RunMkdir(r) \/ RunCopy(r)
     \/ RunMove(r) \/ RunRemove(r) \/ RunRemoveDirectory(r) \/ RunWriteFile(r)
  /\ UNCHANGED <<server, count>>

-------------------------------------------------------------------------------
(***************************************************************************)
(* HTTP                                                                    *)
(***************************************************************************)

\* Which paths a call may touch, links being at the head of a path, and which
\* requests come near them.
HeadLinks(p) == {i \in Inodes : p # << >> /\ i = Lstat(fs, <<p[1]>>) /\ fs[i].kind = "link"}
LinksOf(p)   == {<<fs[i].to>> : i \in HeadLinks(p)}
PathsOf(c)   == {Cleaned(c.path)} \cup (IF c.tool \in {"cp", "mv"} THEN {Cleaned(c.dest)} ELSE {})
Footprint(c) == PathsOf(c) \cup UNION {LinksOf(p) : p \in PathsOf(c)}
Near(F, G)   == \E p \in F, q \in G : IsPrefix(p, q) \/ IsPrefix(q, p)
Writes(s)    == Busy(s) /\ req[s].asked /\ req[s].call.tool \notin ReadOnly

\* What the HTTP handler answers without dispatching, by the first thing that
\* is wrong with a request; a tool call without an id is not run.
Checks(form) ==
  << [fails |-> form.token # "right",        status |-> 401],
     [fails |-> form.method # "POST",        status |-> 405],
     [fails |-> form.media # "json",         status |-> 415],
     [fails |-> form.body \in {"unreadable", "empty", "batch"}, status |-> 400],
     [fails |-> form.body = "too large",     status |-> 413],
     [fails |-> form.body = "malformed",     status |-> 200],
     [fails |-> form.body = "notification",  status |-> 202] >>

Status(form) ==
  LET failed == {i \in DOMAIN Checks(form) : Checks(form)[i].fails}
  IN  IF failed = {} THEN 0
      ELSE Checks(form)[CHOOSE i \in failed : \A j \in failed : i <= j].status

\* handleHTTPPost: a request comes and is dispatched.
Accept(r, c, form) ==
  /\ server = "serving" /\ ~Busy(r) /\ count < MaxCalls
  /\ LET near  == {s \in Slots \ {r} : Busy(s) /\ Near(Footprint(c), req[s].paths)}
         met   == {s \in near : Writes(s)}
         reach == Footprint(c) \cup UNION {req[s].paths : s \in met}
         runs  == Status(form) = 0
         hit   == IF runs /\ c.tool \notin ReadOnly THEN near ELSE {}
     IN  req' = [s \in Slots |->
                   IF s = r THEN [Begin(c, count + 1) EXCEPT
                                    !.quiet = met = {}, !.paths = reach, !.asked = runs,
                                    !.pc = IF runs THEN "begin" ELSE "done"]
                   ELSE IF s \in hit THEN [req[s] EXCEPT !.quiet = FALSE, !.paths = @ \cup reach]
                   ELSE req[s]]
  /\ count' = count + 1
  /\ UNCHANGED <<fs, server>>

\* writeJSONRPC: the answer is written and the slot is free.
Answer(r) ==
  /\ Busy(r) /\ req[r].pc = "done" /\ server # "gone"
  /\ Become(r, Idle)
  /\ UNCHANGED <<fs, server, count>>

\* SIGTERM: serveHTTP stops listening and waits for the handlers.
Shutdown ==
  /\ server = "serving" /\ server' = "draining"
  /\ UNCHANGED <<fs, count, req>>

\* Either they are all done or httpShutdownTimeout is over; the process exits,
\* and with it the handlers that still run.
Drained ==
  /\ server = "draining" /\ \A r \in Slots : ~Busy(r)
  /\ server' = "gone" /\ UNCHANGED <<fs, count, req>>

ShutdownExpires ==
  /\ server = "draining" /\ \E r \in Slots : Busy(r)
  /\ server' = "gone" /\ UNCHANGED <<fs, count, req>>

Init ==
  /\ fs \in Trees /\ server = "serving" /\ count = 0
  /\ req = [r \in Slots |-> Idle]

Next ==
  \/ \E r \in Slots : \/ \E c \in Calls, form \in Forms : Accept(r, c, form)
                      \/ Handle(r) \/ Answer(r)
  \/ Shutdown \/ Drained \/ ShutdownExpires

\* Nothing is fair: a tool takes no notice of its deadline and may hang in a
\* system call.
Spec == Init /\ [][Next]_vars
=============================================================================
