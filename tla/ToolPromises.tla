----------------------------- MODULE ToolPromises -----------------------------
(***************************************************************************)
(* What each tool of the MCP server does for its caller, told by what can  *)
(* be seen at the paths of the workspace before and after the call, and    *)
(* not by system calls or inodes; and the properties of Workspace.  Where  *)
(* the code does other than its descriptions say, this follows the code:   *)
(* rm removes what a link leads to (tools.go:160 says the link), and mv    *)
(* moves a directory that is not empty (tools.go:152).                     *)
(***************************************************************************)
EXTENDS Workspace

\* The paths looked at: two levels of the tree.
Shown == {<<n>> : n \in Names} \cup {<<n, m>> : n, m \in Names}

\* What can be seen of an inode, and at a path.
Seen(t, i) == IF i = None THEN Free ELSE IF Is(t, i, "dir") THEN [kind |-> "dir"] ELSE t[i]
View(t) ==
  [p \in Shown |->
     Seen(t, IF Is(t, Lstat(t, <<p[1]>>), "link") /\ Len(p) > 1 THEN None ELSE Lstat(t, p))]

Kind(v, p)     == IF p = << >> THEN "dir" ELSE IF p \in Shown THEN v[p].kind ELSE "free"
Leads(v, p)    == IF Kind(v, p) = "link" THEN <<v[p].to>> ELSE p
Dangles(v, p)  == Kind(v, p) = "link" /\ Kind(v, Leads(v, p)) = "free"
Vacant(v, p)   == p \notin {<< >>, Escapes} /\ Kind(v, p) = "free" /\ Kind(v, Front(p)) = "dir"
Below(v, p)    == {x \in Shown : IsStrictPrefix(p, x) /\ v[x].kind # "free"}

\* The paths a call is about: what its paths lead to. mv replaces a link that
\* leads nowhere.
Source(c, v) == Leads(v, Cleaned(c.path))
Target(c, v) ==
  LET p == IF c.tool \in {"cp", "mv"} THEN Cleaned(c.dest) ELSE Cleaned(c.path)
  IN  IF c.tool = "mv" /\ Dangles(v, p) THEN p ELSE Leads(v, p)

\* When a call succeeds.
Granted(c, v) ==
  LET p == Source(c, v)
      q == Target(c, v)
  IN CASE c.tool \in {"ls", "find"} -> Kind(v, p) = "dir"
       [] c.tool \in {"cat", "rm"}  -> Kind(v, p) = "file"
       [] c.tool = "rmdir" -> Kind(v, p) = "dir" /\ p # << >> /\ Below(v, p) = {}
       [] c.tool = "touch" -> Kind(v, p) = "file" \/ Vacant(v, p)
       [] c.tool = "mkdir" -> Vacant(v, Cleaned(c.path))
       [] c.tool = "write_file" ->
            /\ ~Dangles(v, Cleaned(c.path)) /\ ~c.large /\ ~(c.append /\ c.consent)
            /\ Vacant(v, q) \/ (Kind(v, q) = "file" /\ (c.consent \/ c.append))
       [] c.tool = "cp" ->
            /\ Kind(v, p) = "file" /\ p # q
            /\ Len(v[p].text) <= MaxCopy
            /\ Vacant(v, q) \/ (Kind(v, q) = "file" /\ c.consent)
       [] c.tool = "mv" ->
            /\ p # << >> /\ Kind(v, p) # "free" /\ ~IsStrictPrefix(p, q)
            /\ \/ Vacant(v, q)
               \/ c.consent /\ Kind(v, p) # "dir" /\ Kind(v, q) \notin {"free", "dir"}

\* The tree seen after it.
Moved(v, p, q) ==
  [x \in Shown |->
     IF IsPrefix(q, x)
       THEN LET y == p \o SubSeq(x, Len(q) + 1, Len(x)) IN IF y \in Shown THEN v[y] ELSE Free
     ELSE IF IsPrefix(p, x) THEN Free ELSE v[x]]

After(c, id, v) ==
  LET p == Source(c, v)
      q == Target(c, v)
  IN CASE c.tool \in ReadOnly -> v
       [] c.tool \in {"rm", "rmdir"} -> [v EXCEPT ![p] = Free]
       [] c.tool = "touch" -> IF Vacant(v, p) THEN [v EXCEPT ![p] = File(<< >>)] ELSE v
       [] c.tool = "mkdir" -> [v EXCEPT ![p] = [kind |-> "dir"]]
       [] c.tool = "write_file" /\ c.append /\ Kind(v, q) = "file" ->
            [v EXCEPT ![q] = File(Append(v[q].text, id))]
       [] c.tool = "write_file" /\ ~(c.append /\ Kind(v, q) = "file") -> [v EXCEPT ![q] = File(<<id>>)]
       [] c.tool = "cp" -> [v EXCEPT ![q] = v[p]]
       [] c.tool = "mv" -> Moved(v, p, q)

\* What a reader is shown: all there is, unless it is told that it was cut.
Reported(c, v, out, cut) ==
  LET p == Source(c, v) IN
  CASE c.tool = "ls" ->
         LET names == SelectSeq(NameOrder, LAMBDA n : v[Append(p, n)].kind # "free")
         IN  IF cut THEN IsPrefix(out, names) /\ Len(out) = MaxList ELSE out = names
    [] c.tool = "cat" ->
         IF ~cut THEN out = v[p].text
         ELSE /\ Len(out) = MaxRead /\ Len(v[p].text) > MaxRead
              /\ IF c.view = "tail" THEN IsSuffix(out, v[p].text) ELSE IsPrefix(out, v[p].text)
    [] c.tool = "find" ->
         LET found == {x \in Below(v, p) : v[x].kind # "link" /\ Last(x) \in c.match}
         IN  /\ IsInjective(out) /\ ToSet(out) \subseteq found
             /\ IF cut THEN Len(out) = MaxFind ELSE ToSet(out) = found
    [] OTHER -> TRUE

Steps == {"begin", "parent", "list", "check", "open", "read", "root", "walk", "chtimes", "make",
          "checksrc", "dst", "checkdst", "opensrc", "opendst", "copy", "isdir", "rename", "remove", "write",
          "done"}

IsRequest(q) ==
  /\ q.pc \in Steps /\ q.call \in Calls /\ q.id \in 1 .. MaxCalls
  /\ {q.src, q.dst} \subseteq Seq(Names) /\ {q.in, q.fd} \subseteq Inodes \cup {None} /\ q.size \in Nat
  /\ {q.ok, q.cut, q.asked, q.broken, q.over, q.quiet} \subseteq BOOLEAN
  /\ q.paths \subseteq Paths

\* Types: the file system is a tree, where no inode has two names, whatever was
\* renamed meanwhile, and a request in a slot is at a step of its tool.
TypeOK ==
  /\ IsTree(fs) /\ server \in {"serving", "draining", "gone"} /\ count \in 0 .. MaxCalls
  /\ \A r \in Slots : Busy(r) => IsRequest(req[r])

\* However requests interleave, none changes what can be seen near the paths of
\* a request that no writer came near: paths are resolved again and files stay
\* open while others rename and remove what the paths led to (resolvePath,
\* resolveTouchPath and the run functions of tools.go).
RequestsAreIsolated ==
  [][\A r \in Slots : (Busy(r) /\ req[r].quiet /\ req'[r] = req[r]) =>
       \A x \in Shown : Near({x}, req[r].paths) => View(fs')[x] = View(fs)[x]]_vars

\* What cp, mv and write_file find in the way when they open or rename is what
\* they asked consent for some steps before, unless a writer came near
\* (runCopy, runMove, runWriteFile).
OverwriteHasConsent ==
  \A r \in Slots : (Busy(r) /\ req[r].quiet /\ req[r].over) => req[r].call.consent

\* A request that is refused, at whichever of its system calls, has left no
\* trace at its paths, unless a writer came near: every check comes before the
\* first change (the run functions of tools.go).
RefusalLeavesNoTrace ==
  \A r \in Slots :
    (Busy(r) /\ req[r].pc = "done" /\ req[r].quiet /\ ~req[r].ok /\ ~req[r].broken) =>
      \A x \in Shown : Near({x}, req[r].paths) => View(fs)[x] = View(req[r].before)[x]

\* A request that no writer came near, however many run at the same time, does
\* what its tool does alone: it succeeds exactly when the tree it found grants
\* it, and leaves behind its paths the change of After; a full disk spoils no
\* file but the target (the run functions of tools.go over several system
\* calls each).
UndisturbedKeepsPromise ==
  \A r \in Slots :
    (Busy(r) /\ req[r].pc = "done" /\ req[r].quiet) =>
      LET q == req[r]
          c == q.call
          v == View(q.before)
          w == View(fs)
          mine == {x \in Shown : Near({x}, q.paths)}
      IN  IF q.ok THEN /\ Granted(c, v) /\ Reported(c, v, q.out, q.cut)
                       /\ \A x \in mine : w[x] = After(c, q.id, v)[x]
          ELSE IF q.broken THEN Granted(c, v) /\ \A x \in mine \ {Target(c, v)} : v[x] = w[x]
          ELSE q.asked => ~Granted(c, v)

\* write_file's description: "Existing files require overwrite:true or
\* append:true."; a file that is there is not emptied without that.
ConsentIsRespected ==
  \A r \in Slots : Busy(r) => (req[r].over => req[r].call.consent)
=============================================================================
