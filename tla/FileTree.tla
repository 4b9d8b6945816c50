------------------------------- MODULE FileTree -------------------------------
(***************************************************************************)
(* The file system under the workspace, as the tools of the MCP server use *)
(* it: inodes, directories that name them, and the system calls, each of   *)
(* them atomic.  A path is a sequence of names below the workspace root.   *)
(* A symbolic link stands for a name in the root that is never itself a    *)
(* link: no tool makes a link, and moving one moves what it leads to.      *)
(***************************************************************************)
EXTENDS Naturals, Sequences, SequencesExt

CONSTANTS
  Names,      \* the names of directory entries
  MaxInode    \* bound of the model: the inodes

ASSUME InodeAssumption == MaxInode \in Nat \ {0}

None   == 0
Root   == 1
Inodes == 1 .. MaxInode

Free        == [kind |-> "free"]
File(text)  == [kind |-> "file", text |-> text]
Link(name)  == [kind |-> "link", to |-> name]
Dir(names)  == [kind |-> "dir", names |-> names]
EmptyDir    == Dir([n \in Names |-> None])

Nodes == {Free} \cup [kind : {"file"}, text : Seq(Nat)] \cup [kind : {"link"}, to : Names]
           \cup [kind : {"dir"}, names : [Names -> Inodes \cup {None}]]

Is(fs, i, kind) == i # None /\ fs[i].kind = kind

Follow(fs, i) == IF Is(fs, i, "link") THEN fs[Root].names[fs[i].to] ELSE i

Entry(fs, i, n) == IF Is(fs, i, "dir") /\ n \in Names THEN fs[i].names[n] ELSE None

\* The inodes along path p, and the one at its end: a last link not followed,
\* and followed.
Along(fs, p) ==
  LET at[k \in 0 .. Len(p)] == IF k = 0 THEN Root ELSE Entry(fs, Follow(fs, at[k - 1]), p[k])
  IN  at
Lstat(fs, p) == Along(fs, p)[Len(p)]
Stat(fs, p)  == Follow(fs, Lstat(fs, p))

\* filepath.EvalSymlinks, of a path that exists: the path without links.
Canonical(fs, p) ==
  LET real[k \in 0 .. Len(p)] ==
        IF k = 0 THEN << >>
        ELSE LET q == Append(real[k - 1], p[k])
                 i == Lstat(fs, q)
             IN  IF Is(fs, i, "link") THEN <<fs[i].to>> ELSE q
  IN  real[Len(p)]

\* The entries that name inode i.
NamesOf(fs, i) == {e \in Inodes \X Names : Entry(fs, e[1], e[2]) = i}

\* What a tree is: an inode has one name at most, one that is free and the root
\* have none, and links are in the root and lead to no link.
IsTree(fs) ==
  /\ fs \in [Inodes -> Nodes] /\ fs[Root].kind = "dir"
  /\ \A i \in Inodes :
       LET named == NamesOf(fs, i)
       IN  /\ \A e, f \in named : e = f
           /\ i = Root \/ fs[i] = Free => named = {}
           /\ fs[i].kind = "link" => /\ \A e \in named : e[1] = Root
                                     /\ ~Is(fs, Follow(fs, i), "link")

HasRoom(fs)     == \E i \in Inodes : fs[i] = Free     \* within the bound of the model
Unused(fs)      == CHOOSE i \in Inodes : fs[i] = Free
Name(fs, k, n, i) == [fs EXCEPT ![k].names[n] = i]
Enter(fs, p, i) == Name(fs, Stat(fs, Front(p)), Last(p), i)
Make(fs, p, node) ==
  LET i == Unused(fs) IN Name([fs EXCEPT ![i] = node], Stat(fs, Front(p)), Last(p), i)

\* Something new can be made at p.
CanMake(fs, p) == p # << >> /\ Is(fs, Stat(fs, Front(p)), "dir") /\ Lstat(fs, p) = None

\* open with O_CREAT: a dangling link at p makes what it leads to.
Created(fs, p) ==
  LET i == Lstat(fs, p)
      q == IF Is(fs, i, "link") THEN <<fs[i].to>> ELSE p
  IN  IF CanMake(fs, q) THEN Make(fs, q, File(<< >>)) ELSE fs

IsEmpty(fs, i)   == \A n \in Names : fs[i].names[n] = None

\* Remove what is at p: a file, a link or an empty directory.
CanRemove(fs, p) ==
  LET i == Lstat(fs, p) IN p # << >> /\ i # None /\ (Is(fs, i, "dir") => IsEmpty(fs, i))
Removed(fs, p)   == Enter(fs, p, None)

\* rename(2) replaces what is at q: a directory only an empty one, and nothing
\* goes into itself.  os.Rename looks at q before it, a step of its own, and
\* refuses any directory.
CanRename(fs, p, q) ==
  LET i == Lstat(fs, p)
      j == Lstat(fs, q)
  IN  /\ p # << >> /\ q # << >>
      /\ i # None /\ Is(fs, Stat(fs, Front(q)), "dir")
      /\ Is(fs, i, "dir") => ~IsStrictPrefix(p, q) /\ (j # None => Is(fs, j, "dir"))
      /\ (j # None /\ j # i) => Is(fs, i, "dir") = Is(fs, j, "dir")
      /\ (Is(fs, j, "dir") /\ j # i) => IsEmpty(fs, j)

\* Mutant of Renamed: the old name stays.
Linked(fs, p, q) == IF Lstat(fs, p) = Lstat(fs, q) THEN fs ELSE Enter(fs, q, Lstat(fs, p))

Renamed(fs, p, q) ==
  IF Lstat(fs, p) = Lstat(fs, q) THEN fs
  ELSE Name(Removed(fs, p), Stat(fs, Front(q)), Last(q), Lstat(fs, p))

\* A write at the start of an open file keeps what lies beyond it.
Written(old, new) == new \o SubSeq(old, Len(new) + 1, Len(old))

\* The entries of directory i in the given order of the names.
EntriesOf(fs, i, order) == SelectSeq(order, LAMBDA n : Entry(fs, i, n) # None)
=============================================================================
