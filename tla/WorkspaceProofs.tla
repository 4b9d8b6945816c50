--------------------------- MODULE WorkspaceProofs ---------------------------
(***************************************************************************)
(* Proofs about Workspace and ToolPromises: the tools keep the file system *)
(* a tree, whatever the order of their system calls; requests that work at *)
(* different paths do not see each other, overwrite only with consent and  *)
(* are refused before they have changed anything.                          *)
(***************************************************************************)
EXTENDS ToolPromises, SequenceTheorems, NaturalsInduction, WellFoundedInduction, TLAPS

-------------------------------------------------------------------------------
(***************************************************************************)
(* Recursive functions                                                     *)
(***************************************************************************)

\* A set of numbers that is not empty has a smallest one.
LEMMA Smallest ==
  ASSUME NEW T, T \subseteq Nat, T # {}
  PROVE  \E m \in T : \A n \in T : m <= n
<1>1. PICK m \in T : \A n \in T : <<n, m>> \notin OpToRel(<, Nat)
  BY NatLessThanWellFounded, WFMin
<1>2. ASSUME NEW n \in T
      PROVE  m <= n
  <2>1. m \in Nat /\ n \in Nat
    OBVIOUS
  <2>2. n < m => <<n, m>> \in OpToRel(<, Nat)
    BY <2>1 DEF OpToRel
  <2>3. ~(n < m)
    BY <1>1, <2>2, Zenon
  <2>4. QED
    BY <2>1, <2>3
<1>3. QED
  BY <1>2

\* Induction up to a number.
LEMMA OnNumbers ==
  ASSUME NEW n \in Nat, NEW T, 0 \in T, \A k \in 1 .. n : k - 1 \in T => k \in T
  PROVE  0 .. n \subseteq T
<1> DEFINE L == {k \in 0 .. n : k \notin T}
<1> SUFFICES ASSUME L # {}
             PROVE  FALSE
  OBVIOUS
<1>1. L \subseteq Nat
  OBVIOUS
<1>2. PICK m \in L : \A k \in L : m <= k
  <2> HIDE DEF L
  <2>1. QED
    BY <1>1, Smallest
<1>3. m # 0 /\ m \in 1 .. n /\ m \notin T
  OBVIOUS
<1>4. m - 1 \notin T /\ m - 1 \in 0 .. n
  BY <1>3
<1>5. m - 1 \in L /\ ~(m <= m - 1)
  BY <1>3, <1>4
<1> HIDE DEF L
<1>6. QED
  BY <1>2, <1>5

\* h takes n steps f in a set V from a.
Iteration(h, n, V, a, f) ==
  h \in [0 .. n -> V] /\ \A k \in 0 .. n : h[k] = IF k = 0 THEN a ELSE f[k][h[k - 1]]

\* A step on a set V can be repeated any number of times.
LEMMA Iterates ==
  ASSUME NEW n \in Nat, NEW V, NEW a \in V, NEW f \in [1 .. n -> [V -> V]]
  PROVE  \E h : Iteration(h, n, V, a, f)
<1> DEFINE Good(m) == \E h \in [0 .. m -> V] :
                        \A k \in 0 .. m : h[k] = IF k = 0 THEN a ELSE f[k][h[k - 1]]
           Stuck   == {m \in 0 .. n : ~Good(m)}
<1> SUFFICES ASSUME Stuck # {}
             PROVE  FALSE
  BY DEF Iteration
<1>1. PICK m \in Stuck : \A k \in Stuck : m <= k
  <2>1. Stuck \subseteq Nat
    OBVIOUS
  <2> HIDE DEF Stuck
  <2>2. QED
    BY <2>1, Smallest
<1>2. m # 0
  <2>1. Good(0)
    <3> DEFINE h == [k \in 0 .. 0 |-> a]
    <3>1. \A k \in 0 .. 0 : h[k] = IF k = 0 THEN a ELSE f[k][h[k - 1]]
      OBVIOUS
    <3>2. h \in [0 .. 0 -> V]
      OBVIOUS
    <3> HIDE DEF h
    <3>3. QED
      BY <3>1, <3>2
  <2>2. QED
    BY <2>1
<1>3. m - 1 \in 0 .. n /\ m \in 1 .. n /\ m - 1 \notin Stuck
  <2>1. m \in 0 .. n
    OBVIOUS
  <2> HIDE DEF Stuck
  <2>2. m - 1 \in 0 .. n /\ m \in 1 .. n /\ ~(m <= m - 1)
    BY <1>2, <2>1
  <2>3. QED
    BY <1>1, <2>2
<1>4. PICK h \in [0 .. m - 1 -> V] :
        \A k \in 0 .. m - 1 : h[k] = IF k = 0 THEN a ELSE f[k][h[k - 1]]
  BY <1>3
<1> DEFINE g == [k \in 0 .. m |-> IF k = m THEN f[m][h[m - 1]] ELSE h[k]]
<1>5. g \in [0 .. m -> V]
  <2>1. m - 1 \in 0 .. m - 1 /\ f[m][h[m - 1]] \in V
    BY <1>3
  <2>2. \A k \in 0 .. m : k # m => k \in 0 .. m - 1
    BY <1>3
  <2>3. QED
    BY <2>1, <2>2
<1>6. \A k \in 0 .. m : g[k] = IF k = 0 THEN a ELSE f[k][g[k - 1]]
  <2> SUFFICES ASSUME NEW k \in 0 .. m
               PROVE  g[k] = IF k = 0 THEN a ELSE f[k][g[k - 1]]
    OBVIOUS
  <2>1. \A j \in 0 .. m - 1 : g[j] = h[j]
    BY <1>3
  <2>2. CASE k = m
    BY <1>2, <1>3, <2>1, <2>2
  <2>3. CASE k # m
    <3>1. k \in 0 .. m - 1 /\ (k # 0 => k - 1 \in 0 .. m - 1)
      BY <1>3, <2>3
    <3>2. QED
      BY <1>4, <2>1, <3>1
  <2>4. QED
    BY <2>2, <2>3
<1> HIDE DEF g
<1>7. Good(m)
  BY <1>5, <1>6
<1>8. QED
  BY <1>7

-------------------------------------------------------------------------------
(***************************************************************************)
(* Sequences                                                               *)
(***************************************************************************)

\* A sequence that is not empty is its front and its last element.
LEMMA FrontAndLast ==
  ASSUME NEW S, NEW p \in Seq(S), p # << >>
  PROVE  /\ Front(p) \in Seq(S) /\ Last(p) \in S /\ Len(Front(p)) = Len(p) - 1
         /\ Len(p) \in Nat \ {0} /\ p = Append(Front(p), Last(p))
<1>1. Len(p) \in Nat \ {0} /\ DOMAIN p = 1 .. Len(p)
  BY EmptySeq
<1>2. Front(p) \in Seq(S) /\ Len(Front(p)) = Len(p) - 1
      /\ \A i \in 1 .. Len(p) - 1 : Front(p)[i] = p[i]
  BY <1>1 DEF Front
<1>3. Last(p) \in S
  BY <1>1 DEF Last
<1> DEFINE f == Front(p)
           l == Last(p)
<1>4. f \in Seq(S) /\ l \in S /\ Len(f) = Len(p) - 1 /\ \A i \in 1 .. Len(p) - 1 : f[i] = p[i]
  BY <1>2, <1>3
<1>5. l = p[Len(p)]
  BY DEF Last
<1> HIDE DEF f, l
<1>6. Append(f, l) \in Seq(S) /\ Len(Append(f, l)) = Len(p)
  <2>1. Append(f, l) \in Seq(S) /\ Len(Append(f, l)) = Len(f) + 1
    BY <1>4, AppendProperties
  <2>2. QED
    BY <1>1, <1>4, <2>1
<1>7. \A i \in 1 .. Len(p) : Append(f, l)[i] = p[i]
  BY <1>1, <1>4, <1>5
<1>8. p = Append(f, l)
  BY <1>6, <1>7, SeqEqual
<1>9. QED
  BY <1>1, <1>4, <1>8 DEF f, l

\* What a prefix is, element by element.
LEMMA PrefixIs ==
  ASSUME NEW S, NEW p \in Seq(S), NEW q \in Seq(S)
  PROVE  IsPrefix(p, q) <=> Len(p) <= Len(q) /\ \A i \in 1 .. Len(p) : p[i] = q[i]
<1>1. SubSeq(p, 1, Len(p)) = p
  OBVIOUS
<1>2. ASSUME Len(p) <= Len(q)
      PROVE  SubSeq(q, 1, Len(p)) = p <=> \A i \in 1 .. Len(p) : p[i] = q[i]
  <2>1. /\ SubSeq(q, 1, Len(p)) \in Seq(S) /\ Len(SubSeq(q, 1, Len(p))) = Len(p)
        /\ \A i \in 1 .. Len(p) : SubSeq(q, 1, Len(p))[i] = q[i]
    BY <1>2
  <2>2. QED
    BY <2>1, SeqEqual
<1>3. QED
  BY <1>1, <1>2 DEF IsPrefix

\* Prefixes: of a longer sequence, of one sequence, one after the other.
LEMMA PrefixOfAppend ==
  ASSUME NEW S, NEW p \in Seq(S), NEW z \in Seq(S), NEW n \in S
  PROVE  IsPrefix(p, Append(z, n)) <=> IsPrefix(p, z) \/ p = Append(z, n)
<1> DEFINE a == Append(z, n)
<1>1. /\ a \in Seq(S) /\ Len(a) = Len(z) + 1 /\ Len(z) \in Nat /\ Len(p) \in Nat
      /\ \A i \in 1 .. Len(z) : a[i] = z[i]
  BY AppendProperties
<1> HIDE DEF a
<1>2. CASE Len(p) <= Len(z)
  <2>1. IsPrefix(p, a) <=> IsPrefix(p, z)
    <3>1. IsPrefix(p, a) <=> Len(p) <= Len(a) /\ \A i \in 1 .. Len(p) : p[i] = a[i]
      BY <1>1, PrefixIs
    <3>2. IsPrefix(p, z) <=> Len(p) <= Len(z) /\ \A i \in 1 .. Len(p) : p[i] = z[i]
      BY PrefixIs
    <3>3. QED
      BY <1>1, <1>2, <3>1, <3>2
  <2>2. p # a
    BY <1>1, <1>2
  <2>3. QED
    BY <2>1, <2>2 DEF a
<1>3. CASE ~(Len(p) <= Len(z))
  <2>1. ~IsPrefix(p, z)
    BY <1>3, PrefixIs
  <2>2. IsPrefix(p, a) => p = a
    <3> SUFFICES ASSUME IsPrefix(p, a)
                 PROVE  p = a
      OBVIOUS
    <3>1. Len(p) = Len(a) /\ \A i \in 1 .. Len(p) : p[i] = a[i]
      BY <1>1, <1>3, PrefixIs
    <3>2. QED
      BY <1>1, <3>1, SeqEqual
  <2>3. p = a => IsPrefix(p, a)
    BY <1>1, PrefixIs
  <2>4. QED
    BY <2>1, <2>2, <2>3 DEF a
<1>4. QED
  BY <1>2, <1>3, Zenon

\* The prefixes of a sequence are ordered one after the other.
LEMMA PrefixLaws ==
  ASSUME NEW S, NEW p \in Seq(S), NEW q \in Seq(S), NEW x \in Seq(S)
  PROVE  /\ IsPrefix(<< >>, p) /\ IsPrefix(p, p)
         /\ IsPrefix(p, q) /\ IsPrefix(q, x) => IsPrefix(p, x)
         /\ IsPrefix(p, x) /\ IsPrefix(q, x) => IsPrefix(p, q) \/ IsPrefix(q, p)
         /\ IsPrefix(p, q) /\ IsPrefix(q, p) => p = q
<1>1. /\ Len(p) \in Nat /\ Len(q) \in Nat /\ Len(x) \in Nat
      /\ << >> \in Seq(S) /\ Len(<< >>) = 0
  OBVIOUS
<1>2. IsPrefix(<< >>, p) /\ IsPrefix(p, p)
  <2>1. SubSeq(<< >>, 1, 0) = << >> /\ SubSeq(p, 1, 0) = << >>
    BY SubSeqEmpty
  <2>2. IsPrefix(<< >>, p)
    BY <1>1, <2>1 DEF IsPrefix
  <2>3. IsPrefix(p, p)
    BY <1>1 DEF IsPrefix
  <2>4. QED
    BY <2>2, <2>3
<1>3. IsPrefix(p, q) /\ IsPrefix(q, x) => IsPrefix(p, x)
  BY <1>1, PrefixIs
<1>4. IsPrefix(p, x) /\ IsPrefix(q, x) => IsPrefix(p, q) \/ IsPrefix(q, p)
  <2> SUFFICES ASSUME IsPrefix(p, x), IsPrefix(q, x)
               PROVE  IsPrefix(p, q) \/ IsPrefix(q, p)
    OBVIOUS
  <2>1. CASE Len(p) <= Len(q)
    BY <1>1, <2>1, PrefixIs
  <2>2. CASE ~(Len(p) <= Len(q))
    BY <1>1, <2>2, PrefixIs
  <2>3. QED
    BY <2>1, <2>2
<1>5. IsPrefix(p, q) /\ IsPrefix(q, p) => p = q
  <2> SUFFICES ASSUME IsPrefix(p, q), IsPrefix(q, p)
               PROVE  p = q
    OBVIOUS
  <2>1. Len(p) = Len(q) /\ \A i \in 1 .. Len(p) : p[i] = q[i]
    BY <1>1, PrefixIs
  <2>2. QED
    BY <2>1, SeqEqual
<1>6. QED
  BY <1>2, <1>3, <1>4, <1>5, Zenon

\* Only the empty sequence is a prefix of it.
LEMMA PrefixOfEmpty ==
  ASSUME NEW S, NEW p \in Seq(S)
  PROVE  << >> \in Seq(S) /\ (IsPrefix(p, << >>) => p = << >>)
<1> DEFINE e == << >>
<1>1. e \in Seq(S) /\ IsPrefix(e, p)
  BY PrefixLaws
<1> HIDE DEF e
<1>2. IsPrefix(p, e) /\ IsPrefix(e, p) => p = e
  BY <1>1, PrefixLaws
<1>3. QED
  BY <1>1, <1>2 DEF e

\* The first member of a sequence alone is a prefix of it.
LEMMA HeadIsPrefix ==
  ASSUME NEW S, NEW x \in Seq(S), x # << >>
  PROVE  /\ x[1] \in S /\ <<x[1]>> \in Seq(S) /\ Len(x) \in Nat \ {0}
         /\ IsPrefix(<<x[1]>>, x)
<1> DEFINE h == <<x[1]>>
<1>1. Len(x) \in Nat \ {0} /\ x[1] \in S
  BY EmptySeq
<1>2. h \in Seq(S) /\ Len(h) = 1 /\ h[1] = x[1]
  BY <1>1
<1> HIDE DEF h
<1>3. IsPrefix(h, x) <=> Len(h) <= Len(x) /\ \A i \in 1 .. Len(h) : h[i] = x[i]
  BY <1>2, PrefixIs
<1>4. IsPrefix(h, x)
  BY <1>1, <1>2, <1>3
<1>5. QED
  BY <1>1, <1>2, <1>4 DEF h

\* What holds of the empty sequence, and of one that is longer by an element
\* because it holds of the shorter one, holds of all.
LEMMA OnSequences ==
  ASSUME NEW S, NEW T, T \subseteq Seq(S), << >> \in T,
         \A z \in Seq(S), n \in S : z \in T => Append(z, n) \in T
  PROVE  T = Seq(S)
<1> DEFINE L == {m \in Nat : \E p \in Seq(S) : Len(p) = m /\ p \notin T}
<1>0. L = {} => Seq(S) \subseteq T
  <2> SUFFICES ASSUME L = {}, NEW p \in Seq(S)
               PROVE  p \in T
    OBVIOUS
  <2>1. Len(p) \in Nat
    OBVIOUS
  <2>2. p \notin T => Len(p) \in L
    BY <2>1
  <2> HIDE DEF L
  <2>3. QED
    BY <2>2
<1> SUFFICES ASSUME L # {}
             PROVE  FALSE
  BY <1>0, Zenon
<1>1. PICK m \in L : \A k \in L : m <= k
  <2>1. L \subseteq Nat
    OBVIOUS
  <2> HIDE DEF L
  <2>2. QED
    BY <2>1, Smallest
<1>2. PICK p \in Seq(S) : Len(p) = m /\ p \notin T
  OBVIOUS
<1>3. p # << >>
  BY <1>2
<1> DEFINE f == Front(p)
           l == Last(p)
<1>4. f \in Seq(S) /\ l \in S /\ Len(f) = m - 1 /\ m \in Nat \ {0} /\ p = Append(f, l)
  BY <1>2, <1>3, FrontAndLast
<1> HIDE DEF f, l
<1>5. f \notin T
  BY <1>2, <1>4
<1>6. m - 1 \in L
  BY <1>4, <1>5
<1> HIDE DEF L
<1>7. QED
  BY <1>1, <1>4, <1>6

-------------------------------------------------------------------------------
(***************************************************************************)
(* Walking a path                                                          *)
(***************************************************************************)

Points == Inodes \cup {None}

\* What an inode is.
LEMMA NodeIs ==
  ASSUME NEW t, IsTree(t), NEW i \in Inodes
  PROVE  /\ t[i] \in Nodes /\ t[i].kind \in {"free", "file", "link", "dir"}
         /\ t[i].kind = "free" <=> t[i] = Free
         /\ t[i].kind = "file" => t[i].text \in Seq(Nat)
         /\ t[i].kind = "link" => t[i].to \in Names
         /\ t[i].kind = "dir"  => t[i].names \in [Names -> Points]
BY DEF IsTree, Nodes, Free, Points

\* The root is an inode, and no inode is none.
LEMMA Numbers == Root \in Inodes /\ None \notin Inodes /\ Root # None
BY InodeAssumption DEF Root, None, Inodes

\* A look-up ends at an inode or at none.
LEMMA LookupIs ==
  ASSUME NEW t, IsTree(t), NEW i \in Points, NEW n
  PROVE  Follow(t, i) \in Points /\ Entry(t, i, n) \in Points
<1>1. ASSUME NEW j \in Points, NEW m
      PROVE  Entry(t, j, m) \in Points
  <2>1. CASE Is(t, j, "dir") /\ m \in Names
    <3>1. j \in Inodes /\ t[j].kind = "dir"
      BY <2>1 DEF Is, Points
    <3>2. QED
      BY <2>1, <3>1, NodeIs DEF Entry
  <2>2. CASE ~(Is(t, j, "dir") /\ m \in Names)
    BY <2>2 DEF Entry, Points
  <2>3. QED
    BY <2>1, <2>2
<1>2. Is(t, Root, "dir") /\ Root \in Points
  BY Numbers DEF Is, IsTree, Points
<1>3. Follow(t, i) \in Points
  <2>1. CASE Is(t, i, "link")
    <3>1. i \in Inodes /\ t[i].kind = "link"
      BY <2>1 DEF Is, Points
    <3>2. t[i].to \in Names
      BY <3>1, NodeIs
    <3>3. Follow(t, i) = Entry(t, Root, t[i].to)
      BY <1>2, <2>1, <3>2 DEF Follow, Entry
    <3>4. QED
      BY <1>1, <1>2, <3>3
  <2>2. CASE ~Is(t, i, "link")
    BY <2>2 DEF Follow
  <2>3. QED
    BY <2>1, <2>2
<1>4. QED
  BY <1>1, <1>3

\* The inodes along a path, one after the other.
LEMMA AlongIs ==
  ASSUME NEW t, IsTree(t), NEW p, NEW n \in Nat, n = Len(p)
  PROVE  /\ Along(t, p) \in [0 .. n -> Points]
         /\ Along(t, p)[0] = Root
         /\ \A k \in 1 .. n : Along(t, p)[k] = Entry(t, Follow(t, Along(t, p)[k - 1]), p[k])
<1> DEFINE Step(i, k) == Entry(t, Follow(t, i), p[k])
           f == [k \in 1 .. n |-> [i \in Points |-> Step(i, k)]]
<1>1. \A i \in Points : \A k \in 1 .. n : Step(i, k) \in Points
  BY LookupIs
<1>2. Root \in Points
  BY Numbers DEF Points
<1> HIDE DEF Step
<1>3. f \in [1 .. n -> [Points -> Points]]
  BY <1>1
<1>4. \A i \in Points : \A k \in 1 .. n : f[k][i] = Step(i, k)
  OBVIOUS
<1> HIDE DEF f
<1>5. PICK h \in [0 .. n -> Points] :
        \A k \in 0 .. n : h[k] = IF k = 0 THEN Root ELSE f[k][h[k - 1]]
  <2>1. \E h : Iteration(h, n, Points, Root, f)
    BY <1>2, <1>3, Iterates
  <2>2. QED
    BY <2>1 DEF Iteration
<1>6. \A k \in 0 .. n : h[k] = IF k = 0 THEN Root ELSE Step(h[k - 1], k)
  <2> SUFFICES ASSUME NEW k \in 0 .. n, k # 0
               PROVE  h[k] = Step(h[k - 1], k)
    BY <1>5
  <2>1. k \in 1 .. n /\ h[k - 1] \in Points
    BY <1>5
  <2>2. QED
    BY <1>4, <1>5, <2>1
<1>7. h = [k \in 0 .. n |-> IF k = 0 THEN Root ELSE Step(h[k - 1], k)]
  BY <1>5, <1>6
<1> DEFINE Solves(g) == g = [k \in 0 .. n |-> IF k = 0 THEN Root ELSE Step(g[k - 1], k)]
<1>8. Along(t, p) = CHOOSE g : Solves(g)
  BY DEF Along, Step
<1>9. Solves(Along(t, p))
  BY <1>7, <1>8
<1> DEFINE g == Along(t, p)
<1>10. g = [k \in 0 .. n |-> IF k = 0 THEN Root ELSE Step(g[k - 1], k)]
  BY <1>9
<1> HIDE DEF g
<1>11. \A k \in 0 .. n : g[k] = IF k = 0 THEN Root ELSE Step(g[k - 1], k)
  BY <1>10
<1>12. DOMAIN g = 0 .. n
  BY <1>10
<1>13. \A k \in 0 .. n : g[k] \in Points
  <2> DEFINE T == {k \in 0 .. n : g[k] \in Points}
  <2>1. 0 \in T
    BY <1>2, <1>11
  <2>2. ASSUME NEW k \in 1 .. n, k - 1 \in T
        PROVE  k \in T
    <3>1. k \in 0 .. n /\ k # 0 /\ g[k - 1] \in Points
      BY <2>2
    <3>2. g[k] = Step(g[k - 1], k)
      BY <1>11, <3>1
    <3>3. QED
      BY <1>1, <2>2, <3>1, <3>2
  <2> HIDE DEF T
  <2>3. 0 .. n \subseteq T
    BY <2>1, <2>2, OnNumbers
  <2>4. QED
    BY <2>3 DEF T
<1>14. g = [k \in 0 .. n |-> g[k]]
  BY <1>10
<1>15. g \in [0 .. n -> Points]
  BY <1>13, <1>14
<1>16. QED
  BY <1>11, <1>15 DEF g, Step

\* What is at a path, name by name.
LEMMA LstatEmpty ==
  ASSUME NEW t, IsTree(t)
  PROVE  Lstat(t, << >>) = Root
<1>1. Len(<< >>) = 0
  OBVIOUS
<1>2. Along(t, << >>)[0] = Root
  BY <1>1, AlongIs
<1>3. QED
  BY <1>1, <1>2 DEF Lstat

\* A path leads to what its last name is in the directory that the rest leads to.
LEMMA LstatAppend ==
  ASSUME NEW t, IsTree(t), NEW S, NEW q \in Seq(S), NEW n \in S
  PROVE  /\ Lstat(t, q) \in Points
         /\ Lstat(t, Append(q, n)) = Entry(t, Stat(t, q), n)
<1> DEFINE a == Append(q, n)
           l == Len(q)
<1>1. /\ l \in Nat /\ Len(a) = l + 1 /\ a[l + 1] = n /\ \A k \in 1 .. l : a[k] = q[k]
  BY AppendProperties
<1>2. /\ Along(t, q) \in [0 .. l -> Points] /\ Along(t, q)[0] = Root
      /\ \A k \in 1 .. l : Along(t, q)[k] = Entry(t, Follow(t, Along(t, q)[k - 1]), q[k])
  BY AlongIs
<1>3. /\ Along(t, a) \in [0 .. l + 1 -> Points] /\ Along(t, a)[0] = Root
      /\ \A k \in 1 .. l + 1 : Along(t, a)[k] = Entry(t, Follow(t, Along(t, a)[k - 1]), a[k])
  <2> HIDE DEF a, l
  <2>1. l + 1 \in Nat /\ Len(a) = l + 1
    BY <1>1
  <2>2. QED
    BY <2>1, AlongIs
<1> DEFINE T == {k \in 0 .. l : Along(t, a)[k] = Along(t, q)[k]}
<1> HIDE DEF a, l
<1>4. 0 \in T
  BY <1>1, <1>2, <1>3
<1>5. \A k \in 1 .. l : k - 1 \in T => k \in T
  <2> SUFFICES ASSUME NEW k \in 1 .. l, k - 1 \in T
               PROVE  k \in T
    OBVIOUS
  <2>1. k \in 0 .. l /\ k \in 1 .. l + 1 /\ Along(t, a)[k - 1] = Along(t, q)[k - 1] /\ a[k] = q[k]
    BY <1>1
  <2>2. Along(t, a)[k] = Along(t, q)[k]
    BY <1>2, <1>3, <2>1
  <2>3. QED
    BY <2>1, <2>2
<1> HIDE DEF T
<1>6. l \in T
  <2>1. 0 .. l \subseteq T
    BY <1>1, <1>4, <1>5, OnNumbers
  <2>2. QED
    BY <1>1, <2>1
<1>7. Along(t, a)[l] = Along(t, q)[l] /\ l + 1 \in 1 .. l + 1
  BY <1>1, <1>6 DEF T
<1>8. Along(t, a)[l + 1] = Entry(t, Follow(t, Along(t, q)[l]), n)
  BY <1>1, <1>3, <1>7
<1>9. Along(t, q)[l] \in Points
  BY <1>1, <1>2
<1>10. QED
  BY <1>1, <1>8, <1>9 DEF Lstat, Stat, a, l

\* A name leads to its entry in the root.
LEMMA LstatOfName ==
  ASSUME NEW t, IsTree(t), NEW n
  PROVE  Lstat(t, <<n>>) = Entry(t, Root, n)
<1> DEFINE z == << >>
           S == {n}
<1>1. z \in Seq(S) /\ Append(z, n) = <<n>> /\ n \in S
  OBVIOUS
<1>2. Lstat(t, z) = Root /\ ~Is(t, Root, "link")
  BY LstatEmpty DEF Is, IsTree
<1> HIDE DEF z, S
<1>3. Lstat(t, Append(z, n)) = Entry(t, Stat(t, z), n)
  BY <1>1, LstatAppend
<1>4. QED
  BY <1>1, <1>2, <1>3 DEF Stat, Follow

\* Every path leads to an inode or nowhere, by its last name.
LEMMA LstatIs ==
  ASSUME NEW t, IsTree(t), NEW S, NEW p \in Seq(S)
  PROVE  /\ Lstat(t, p) \in Points /\ Stat(t, p) \in Points
         /\ p # << >> => Lstat(t, p) = Entry(t, Stat(t, Front(p)), Last(p))
<1>1. CASE p = << >>
  <2>1. Lstat(t, p) = Root /\ Root \in Points
    BY <1>1, LstatEmpty, Numbers DEF Points
  <2>2. QED
    BY <1>1, <2>1, LookupIs DEF Stat
<1>2. CASE p # << >>
  <2> DEFINE f == Front(p)
             l == Last(p)
  <2>1. f \in Seq(S) /\ l \in S /\ p = Append(f, l)
    BY <1>2, FrontAndLast
  <2> HIDE DEF f, l
  <2>2. Lstat(t, f) \in Points /\ Lstat(t, p) = Entry(t, Stat(t, f), l)
    BY <2>1, LstatAppend
  <2>3. Stat(t, f) \in Points
    BY <2>2, LookupIs DEF Stat
  <2>4. Lstat(t, p) \in Points /\ Stat(t, p) \in Points
    BY <2>2, <2>3, LookupIs DEF Stat
  <2>5. QED
    BY <2>2, <2>4 DEF f, l
<1>3. QED
  BY <1>1, <1>2

-------------------------------------------------------------------------------
(***************************************************************************)
(* Trees: a path on which no link is followed is the only one to its inode *)
(***************************************************************************)

\* A path that has no link at its head, and one that has none but at its end.
Straight(t, x) == x = << >> \/ ~Is(t, Lstat(t, <<x[1]>>), "link")
Direct(t, x)   == x = << >> \/ Straight(t, Front(x))

\* An entry that leads somewhere is the only one that leads there.
LEMMA OneName ==
  ASSUME NEW t, IsTree(t), NEW k \in Points, NEW n, Entry(t, k, n) # None
  PROVE  LET i == Entry(t, k, n)
         IN  /\ k \in Inodes /\ n \in Names /\ t[k].kind = "dir" /\ t[k].names[n] = i
             /\ i \in Inodes /\ i # Root /\ t[i] # Free
             /\ t[i].kind = "link" => k = Root
             /\ \A j \in Points : \A m : Entry(t, j, m) = i => j = k /\ m = n
<1> DEFINE i == Entry(t, k, n)
<1>1. /\ k \in Inodes /\ n \in Names /\ t[k].kind = "dir" /\ t[k].names[n] = i
  BY DEF Entry, Is, Points
<1>2. i \in Inodes
  BY LookupIs DEF Points
<1>3. <<k, n>> \in NamesOf(t, i)
  BY <1>1 DEF NamesOf
<1>4. /\ \A e, f \in NamesOf(t, i) : e = f
      /\ i = Root \/ t[i] = Free => NamesOf(t, i) = {}
      /\ t[i].kind = "link" => \A e \in NamesOf(t, i) : e[1] = Root
  BY <1>2 DEF IsTree
<1>5. t[i].kind = "link" => k = Root
  BY <1>3, <1>4
<1>6. ASSUME NEW j \in Points, NEW m, Entry(t, j, m) = i
      PROVE  j = k /\ m = n
  <2>1. j \in Inodes /\ m \in Names
    BY <1>6 DEF Entry, Is, Points
  <2>2. <<j, m>> \in NamesOf(t, i)
    BY <1>6, <2>1 DEF NamesOf
  <2>3. <<j, m>> = <<k, n>>
    BY <1>3, <1>4, <2>2
  <2>4. QED
    BY <2>3
<1> HIDE DEF i
<1>7. QED
  BY <1>1, <1>2, <1>3, <1>4, <1>5, <1>6 DEF i

\* The head of a longer path.
LEMMA HeadOfAppend ==
  ASSUME NEW S, NEW z \in Seq(S), NEW n \in S
  PROVE  /\ Append(z, n) # << >> /\ Append(z, n)[1] = IF z = << >> THEN n ELSE z[1]
         /\ Front(Append(z, n)) = z /\ Last(Append(z, n)) = n
         /\ z = << >> => Append(z, n) = <<n>>
<1> DEFINE a == Append(z, n)
<1>1. /\ a \in Seq(S) /\ a # << >> /\ Len(a) = Len(z) + 1 /\ Len(z) \in Nat
      /\ \A i \in 1 .. Len(z) : a[i] = z[i]
      /\ a[Len(z) + 1] = n
  BY AppendProperties
<1>2. z = << >> => a = <<n>>
  OBVIOUS
<1> HIDE DEF a
<1>3. a[1] = IF z = << >> THEN n ELSE z[1]
  <2>1. z = << >> => Len(z) = 0
    OBVIOUS
  <2>2. z # << >> => 1 \in 1 .. Len(z)
    BY EmptySeq
  <2>3. QED
    BY <1>1, <2>1, <2>2
<1>4. Front(a) \in Seq(S) /\ Last(a) \in S /\ Len(Front(a)) = Len(a) - 1 /\ a = Append(Front(a), Last(a))
  BY <1>1, FrontAndLast
<1>5. Last(a) = n
  BY <1>1 DEF Last
<1>6. Front(a) = z
  <2>1. Len(Front(a)) = Len(z)
    BY <1>1, <1>4
  <2>2. \A i \in 1 .. Len(z) : Front(a)[i] = z[i]
    BY <1>1 DEF Front
  <2>3. QED
    BY <1>4, <2>1, <2>2, SeqEqual
<1>7. QED
  BY <1>1, <1>2, <1>3, <1>5, <1>6 DEF a

\* A straight path ends at no link, and at the root only if it is empty; a
\* direct path is straight up to its end.
LEMMA StraightIs ==
  ASSUME NEW t, IsTree(t), NEW x \in Seq(Names), Straight(t, x)
  PROVE  /\ ~Is(t, Lstat(t, x), "link") /\ Stat(t, x) = Lstat(t, x)
         /\ x # << >> => Lstat(t, x) # Root
<1> DEFINE T == {y \in Seq(Names) : Straight(t, y) => /\ ~Is(t, Lstat(t, y), "link")
                                                      /\ y # << >> => Lstat(t, y) # Root}
<1>1. << >> \in T
  <2>1. Lstat(t, << >>) = Root /\ t[Root].kind = "dir"
    BY LstatEmpty DEF IsTree
  <2>2. ~Is(t, Root, "link")
    BY <2>1 DEF Is
  <2>3. QED
    BY <2>1, <2>2
<1>2. ASSUME NEW z \in Seq(Names), NEW n \in Names, z \in T
      PROVE  Append(z, n) \in T
  <2> DEFINE a == Append(z, n)
  <2>1. /\ a \in Seq(Names) /\ a # << >> /\ a[1] = IF z = << >> THEN n ELSE z[1]
        /\ z = << >> => a = <<n>>
    BY HeadOfAppend, AppendProperties
  <2>2. Stat(t, z) \in Points /\ Lstat(t, a) = Entry(t, Stat(t, z), n)
    BY LstatIs, LstatAppend
  <2> HIDE DEF a
  <2> SUFFICES ASSUME Straight(t, a), Lstat(t, a) # None
               PROVE  ~Is(t, Lstat(t, a), "link") /\ Lstat(t, a) # Root
    <3>1. Lstat(t, a) = None => ~Is(t, Lstat(t, a), "link") /\ Lstat(t, a) # Root
      BY Numbers DEF Is
    <3>2. QED
      BY <2>1, <3>1 DEF a
  <2>3. /\ Lstat(t, a) # Root
        /\ t[Lstat(t, a)].kind = "link" => Stat(t, z) = Root
    BY <2>2, OneName
  <2>4. CASE z = << >>
    BY <2>1, <2>3, <2>4 DEF Straight
  <2>5. CASE z # << >>
    <3>1. Straight(t, z)
      BY <2>1, <2>5 DEF Straight
    <3>2. Stat(t, z) = Lstat(t, z) /\ Lstat(t, z) # Root
      BY <1>2, <2>5, <3>1 DEF Stat, Follow
    <3>3. QED
      BY <2>3, <3>2 DEF Is
  <2>6. QED
    BY <2>4, <2>5
<1> HIDE DEF T
<1>3. T = Seq(Names)
  <2>1. T \subseteq Seq(Names)
    BY DEF T
  <2>2. QED
    BY <1>1, <1>2, <2>1, OnSequences
<1>4. QED
  BY <1>3 DEF T, Stat, Follow

\* What is straight or direct stays so without its end.
LEMMA DirectAppend ==
  ASSUME NEW t, IsTree(t), NEW z \in Seq(Names), NEW n \in Names
  PROVE  /\ Direct(t, Append(z, n)) <=> Straight(t, z)
         /\ Straight(t, Append(z, n)) => Straight(t, z)
         /\ Straight(t, z) => Direct(t, z)
         /\ Direct(t, << >>) /\ Straight(t, << >>) /\ Direct(t, <<n>>)
         /\ Straight(t, z) /\ z # << >> => Straight(t, Append(z, n))
         /\ Direct(t, z) /\ ~Is(t, Lstat(t, z), "link") => Straight(t, z)
<1> DEFINE a == Append(z, n)
<1>1. a # << >> /\ a[1] = (IF z = << >> THEN n ELSE z[1]) /\ Front(a) = z
  BY HeadOfAppend
<1>2. Direct(t, a) <=> Straight(t, z)
  BY <1>1 DEF Direct
<1>3. Straight(t, a) => Straight(t, z)
  BY <1>1 DEF Straight
<1>4. z # << >> => /\ Front(z) \in Seq(Names) /\ Last(z) \in Names /\ z = Append(Front(z), Last(z))
                   /\ z[1] = IF Front(z) = << >> THEN Last(z) ELSE Front(z)[1]
                   /\ Front(z) = << >> => z = <<z[1]>>
  <2> SUFFICES ASSUME z # << >>
               PROVE  /\ Front(z) \in Seq(Names) /\ Last(z) \in Names /\ z = Append(Front(z), Last(z))
                      /\ z[1] = IF Front(z) = << >> THEN Last(z) ELSE Front(z)[1]
                      /\ Front(z) = << >> => z = <<z[1]>>
    OBVIOUS
  <2> DEFINE f == Front(z)
             l == Last(z)
  <2>1. f \in Seq(Names) /\ l \in Names /\ z = Append(f, l)
    BY FrontAndLast
  <2> HIDE DEF f, l
  <2>2. z[1] = (IF f = << >> THEN l ELSE f[1]) /\ (f = << >> => z = <<l>>)
    BY <2>1, HeadOfAppend
  <2>3. QED
    BY <2>1, <2>2 DEF f, l
<1>5. Straight(t, z) => Direct(t, z)
  BY <1>4 DEF Straight, Direct
<1>6. Direct(t, << >>) /\ Straight(t, << >>)
  BY DEF Direct, Straight
<1>7. Direct(t, <<n>>)
  <2>1. Front(<<n>>) = << >>
    <3>1. << >> \in Seq(Names)
      OBVIOUS
    <3>2. Front(Append(<< >>, n)) = << >> /\ Append(<< >>, n) = <<n>>
      BY <3>1, HeadOfAppend
    <3>3. QED
      BY <3>2
  <2>2. QED
    BY <1>6, <2>1 DEF Direct
<1>8. Straight(t, z) /\ z # << >> => Straight(t, a)
  BY <1>1 DEF Straight
<1>9. Direct(t, z) /\ ~Is(t, Lstat(t, z), "link") => Straight(t, z)
  BY <1>4 DEF Straight, Direct
<1>10. QED
  BY <1>2, <1>3, <1>5, <1>6, <1>7, <1>8, <1>9

\* What is at a direct path, name by name.
LEMMA DirectIs ==
  ASSUME NEW t, IsTree(t), NEW z \in Seq(Names), NEW n \in Names, Direct(t, Append(z, n))
  PROVE  /\ Lstat(t, Append(z, n)) = Entry(t, Lstat(t, z), n)
         /\ Direct(t, z) /\ Straight(t, z) /\ Stat(t, z) = Lstat(t, z) /\ Lstat(t, z) \in Points
<1>1. Straight(t, z) /\ Direct(t, z)
  BY DirectAppend
<1>2. Stat(t, z) = Lstat(t, z)
  BY <1>1, StraightIs
<1>3. QED
  BY <1>1, <1>2, LstatAppend

\* No path leads to a free inode.
LEMMA NotFree ==
  ASSUME NEW t, IsTree(t), NEW x \in Seq(Names), Lstat(t, x) # None
  PROVE  Lstat(t, x) \in Inodes /\ t[Lstat(t, x)] # Free /\ (x # << >> => Lstat(t, x) # Root)
<1>1. CASE x = << >>
  BY <1>1, LstatEmpty, Numbers DEF IsTree, Free
<1>2. CASE x # << >>
  <2>1. Front(x) \in Seq(Names)
    BY <1>2, FrontAndLast
  <2>2. Lstat(t, x) = Entry(t, Stat(t, Front(x)), Last(x)) /\ Stat(t, Front(x)) \in Points
    BY <1>2, <2>1, LstatIs
  <2>3. QED
    BY <2>2, OneName
<1>3. QED
  BY <1>1, <1>2

\* An inode is at one direct path at most.
LEMMA OnePath ==
  ASSUME NEW t, IsTree(t), NEW p \in Seq(Names), NEW q \in Seq(Names),
         Direct(t, p), Direct(t, q), Lstat(t, p) = Lstat(t, q), Lstat(t, p) # None
  PROVE  p = q
<1> DEFINE T == {x \in Seq(Names) : Direct(t, x) /\ Lstat(t, x) # None =>
                   \A y \in Seq(Names) : Direct(t, y) /\ Lstat(t, y) = Lstat(t, x) => y = x}
<1>1. ASSUME NEW z \in Seq(Names), NEW n \in Names, Direct(t, Append(z, n)),
             Lstat(t, Append(z, n)) # None
      PROVE  /\ Lstat(t, Append(z, n)) # Root /\ Lstat(t, z) # None
             /\ \A k \in Points, m \in Names :
                  Entry(t, k, m) = Lstat(t, Append(z, n)) => k = Lstat(t, z) /\ m = n
  <2>1. Lstat(t, Append(z, n)) = Entry(t, Lstat(t, z), n) /\ Lstat(t, z) \in Points
    BY <1>1, DirectIs
  <2>2. QED
    BY <1>1, <2>1, OneName, Numbers
<1>2. ASSUME NEW y \in Seq(Names), Direct(t, y), y # << >>, Lstat(t, y) # None
      PROVE  Lstat(t, y) # Root
  <2>1. Front(y) \in Seq(Names) /\ Last(y) \in Names /\ y = Append(Front(y), Last(y))
    BY <1>2, FrontAndLast
  <2>2. QED
    BY <1>1, <1>2, <2>1
<1>3. << >> \in T
  <2>1. Lstat(t, << >>) = Root /\ Root # None
    BY LstatEmpty, Numbers
  <2>2. QED
    BY <1>2, <2>1
<1>4. ASSUME NEW z \in Seq(Names), NEW n \in Names, z \in T
      PROVE  Append(z, n) \in T
  <2> DEFINE a == Append(z, n)
  <2> SUFFICES ASSUME Direct(t, a), Lstat(t, a) # None,
                      NEW y \in Seq(Names), Direct(t, y), Lstat(t, y) = Lstat(t, a)
               PROVE  y = a
    BY AppendProperties
  <2>1. /\ Lstat(t, a) # Root /\ Lstat(t, z) # None /\ Direct(t, z)
        /\ \A k \in Points, m \in Names :
             Entry(t, k, m) = Lstat(t, a) => k = Lstat(t, z) /\ m = n
    BY <1>1, DirectIs
  <2>2. y # << >>
    BY <2>1, LstatEmpty
  <2> DEFINE f == Front(y)
             l == Last(y)
  <2>3. f \in Seq(Names) /\ l \in Names /\ y = Append(f, l)
    BY <2>2, FrontAndLast
  <2> HIDE DEF f, l
  <2>4. Lstat(t, y) = Entry(t, Lstat(t, f), l) /\ Direct(t, f) /\ Lstat(t, f) \in Points
    BY <2>3, DirectIs
  <2>5. Lstat(t, f) = Lstat(t, z) /\ l = n
    BY <2>1, <2>3, <2>4
  <2>6. f = z
    BY <1>4, <2>1, <2>3, <2>4, <2>5
  <2>7. QED
    BY <2>3, <2>5, <2>6
<1>5. T = Seq(Names)
  <2>1. T \subseteq Seq(Names)
    OBVIOUS
  <2> HIDE DEF T
  <2>2. QED
    BY <1>3, <1>4, <2>1, OnSequences
<1>6. p \in T
  BY <1>5
<1>7. QED
  BY <1>6

\* What lies below a path lies in a directory.
LEMMA BelowIs ==
  ASSUME NEW t, IsTree(t), NEW p \in Seq(Names), NEW x \in Seq(Names),
         Direct(t, x), IsPrefix(p, x), p # x, Lstat(t, x) # None
  PROVE  /\ Straight(t, p) /\ Is(t, Lstat(t, p), "dir")
         /\ \E m \in Names : Entry(t, Lstat(t, p), m) # None
<1> DEFINE InDir == /\ Straight(t, p) /\ Is(t, Lstat(t, p), "dir")
                   /\ \E m \in Names : Entry(t, Lstat(t, p), m) # None
           T == {y \in Seq(Names) : Direct(t, y) /\ IsPrefix(p, y) /\ p # y /\ Lstat(t, y) # None => InDir}
<1>1. << >> \in T
  <2>1. IsPrefix(p, << >>) => p = << >>
    BY PrefixOfEmpty
  <2>2. QED
    BY <2>1
<1>2. ASSUME NEW z \in Seq(Names), NEW n \in Names, z \in T
      PROVE  Append(z, n) \in T
  <2> DEFINE a == Append(z, n)
  <2> SUFFICES ASSUME Direct(t, a), IsPrefix(p, a), p # a, Lstat(t, a) # None
               PROVE  InDir
    BY AppendProperties
  <2>1. IsPrefix(p, z)
    BY PrefixOfAppend
  <2>2. /\ Lstat(t, a) = Entry(t, Lstat(t, z), n)
        /\ Direct(t, z) /\ Straight(t, z) /\ Lstat(t, z) \in Points
    BY DirectIs
  <2>3. Is(t, Lstat(t, z), "dir") /\ Lstat(t, z) # None
    BY <2>2 DEF Entry, Is
  <2>4. QED
    BY <1>2, <2>1, <2>2, <2>3
<1>3. T = Seq(Names)
  <2>1. T \subseteq Seq(Names)
    OBVIOUS
  <2> HIDE DEF T
  <2>2. QED
    BY <1>1, <1>2, <2>1, OnSequences
<1>4. x \in T
  BY <1>3
<1>5. QED
  BY <1>4

-------------------------------------------------------------------------------
(***************************************************************************)
(* What a change leaves alone                                              *)
(***************************************************************************)

\* x begins with one of the paths P.
Covered(P, x) == \E p \in P : IsPrefix(p, x)

\* No inode that is there becomes another kind, and no link is made.
Evolves(t, u) ==
  /\ \A i \in Inodes : t[i] # Free => /\ u[i].kind = t[i].kind
                                      /\ t[i].kind = "link" => u[i] = t[i]
  /\ \A n \in Names : Is(u, Entry(u, Root, n), "link") => Entry(u, Root, n) = Entry(t, Root, n)

\* What is not below the paths P looks the same in u as in t.
Frame(t, u, P) ==
  \A x \in Seq(Names) : Direct(t, x) /\ ~Covered(P, x) =>
    Direct(u, x) /\ Lstat(u, x) = Lstat(t, x) /\ Seen(u, Lstat(u, x)) = Seen(t, Lstat(t, x))

\* A change within the paths P.
Changes(t, u, P) ==
  /\ IsTree(t) /\ IsTree(u) /\ P \subseteq Seq(Names)
  /\ Evolves(t, u) /\ Frame(t, u, P)

\* Where an inode that was there is now, it was before, or it moved within P.
Moves(t, u, P) ==
  \A x \in Seq(Names), i \in Inodes :
    Direct(u, x) /\ Lstat(u, x) = i /\ t[i] # Free =>
      \/ Direct(t, x) /\ Lstat(t, x) = i
      \/ Covered(P, x) /\ \E y \in Seq(Names) : Direct(t, y) /\ Lstat(t, y) = i /\ Covered(P, y)

\* The heads of paths that are not covered.
LEMMA HeadIsFramed ==
  ASSUME NEW t, NEW u, NEW P, Changes(t, u, P), NEW x \in Seq(Names), x # << >>, ~Covered(P, <<x[1]>>)
  PROVE  Is(u, Lstat(u, <<x[1]>>), "link") <=> Is(t, Lstat(t, <<x[1]>>), "link")
<1>1. x[1] \in Names /\ <<x[1]>> \in Seq(Names)
  BY EmptySeq
<1>2. Direct(t, <<x[1]>>)
  <2>1. << >> \in Seq(Names)
    OBVIOUS
  <2>2. QED
    BY <1>1, <2>1, DirectAppend DEF Changes
<1>3. /\ Lstat(u, <<x[1]>>) = Lstat(t, <<x[1]>>)
      /\ Seen(u, Lstat(u, <<x[1]>>)) = Seen(t, Lstat(t, <<x[1]>>))
  BY <1>1, <1>2 DEF Changes, Frame
<1>4. ASSUME NEW i \in Points, Seen(u, i) = Seen(t, i)
      PROVE  Is(u, i, "link") <=> Is(t, i, "link")
  BY <1>4 DEF Seen, Is
<1>5. Lstat(t, <<x[1]>>) \in Points
  BY <1>1, LstatIs DEF Changes
<1>6. QED
  BY <1>3, <1>4, <1>5

\* The frame holds both ways.
LEMMA FrameBack ==
  ASSUME NEW t, NEW u, NEW P, Changes(t, u, P), NEW x \in Seq(Names), Direct(u, x), ~Covered(P, x)
  PROVE  /\ Direct(t, x) /\ Lstat(u, x) = Lstat(t, x)
         /\ Seen(u, Lstat(u, x)) = Seen(t, Lstat(t, x))
<1>1. Direct(t, x)
  <2>1. CASE x = << >>
    BY <2>1 DEF Direct
  <2>2. CASE x # << >>
    <3> DEFINE f == Front(x)
               l == Last(x)
    <3>1. f \in Seq(Names) /\ l \in Names /\ x = Append(f, l)
      BY <2>2, FrontAndLast
    <3> HIDE DEF f, l
    <3>2. Straight(u, f)
      BY <3>1, DirectAppend DEF Changes
    <3>3. SUFFICES ASSUME f # << >>
                   PROVE  Straight(t, f)
      BY <3>1, DirectAppend DEF Changes, Straight
    <3>4. ~Covered(P, <<f[1]>>)
      <4>1. SUFFICES ASSUME NEW p \in P, IsPrefix(p, <<f[1]>>)
                     PROVE  FALSE
        BY DEF Covered
      <4>2. f[1] \in Names /\ p \in Seq(Names) /\ <<f[1]>> \in Seq(Names)
        BY <3>1, <3>3, EmptySeq DEF Changes
      <4>3. IsPrefix(<<f[1]>>, x)
        <5>1. x[1] = f[1]
          BY <3>1, <3>3, HeadOfAppend
        <5>2. IsPrefix(<<x[1]>>, x)
          BY <2>2, HeadIsPrefix
        <5>3. QED
          BY <5>1, <5>2
      <4>4. IsPrefix(p, x)
        BY <4>1, <4>2, <4>3, PrefixLaws
      <4>5. QED
        BY <4>4 DEF Covered
    <3>5. QED
      BY <3>1, <3>2, <3>3, <3>4, HeadIsFramed DEF Straight
  <2>3. QED
    BY <2>1, <2>2
<1>2. QED
  BY <1>1 DEF Changes, Frame

\* A new entry n of directory k.
LEMMA NameIs ==
  ASSUME NEW t, IsTree(t), NEW k \in Inodes, t[k].kind = "dir", NEW n \in Names, NEW i \in Points
  PROVE  LET u == Name(t, k, n, i)
         IN  /\ u \in [Inodes -> Nodes] /\ u[k].kind = "dir"
             /\ \A j \in Inodes : u[j].kind = t[j].kind /\ (j # k => u[j] = t[j])
             /\ \A j, m : Entry(u, j, m) = IF j = k /\ m = n THEN i ELSE Entry(t, j, m)
<1> DEFINE u == Name(t, k, n, i)
<1>1. t \in [Inodes -> Nodes] /\ t[k] \in Nodes /\ t[k].names \in [Names -> Points]
  BY NodeIs DEF IsTree
<1>2. t[k] \in [kind : {"dir"}, names : [Names -> Points]]
  BY <1>1 DEF Nodes, Free, Points
<1> DEFINE node == [t[k] EXCEPT !.names = [t[k].names EXCEPT ![n] = i]]
<1>3. /\ node \in [kind : {"dir"}, names : [Names -> Points]]
      /\ \A m \in Names : node.names[m] = IF m = n THEN i ELSE t[k].names[m]
  BY <1>2
<1>4. u = [t EXCEPT ![k] = node]
  BY <1>1, <1>2 DEF Name
<1>5. node \in Nodes /\ node.kind = "dir"
  BY <1>3 DEF Nodes, Points
<1> HIDE DEF node, u
<1>6. u \in [Inodes -> Nodes] /\ u[k] = node /\ \A j \in Inodes : j # k => u[j] = t[j]
  BY <1>1, <1>4, <1>5
<1>7. \A j \in Inodes : u[j].kind = t[j].kind
  BY <1>5, <1>6
<1>8. ASSUME NEW j, NEW m
      PROVE  Entry(u, j, m) = IF j = k /\ m = n THEN i ELSE Entry(t, j, m)
  <2>1. CASE j = k /\ m \in Names
    <3>1. k # None
      BY Numbers
    <3>2. Is(u, k, "dir") /\ Is(t, k, "dir")
      BY <1>5, <1>6, <3>1 DEF Is
    <3>3. QED
      BY <1>3, <1>6, <2>1, <3>2 DEF Entry
  <2>2. CASE m \notin Names
    BY <2>2 DEF Entry
  <2>3. CASE j # k
    BY <2>3, <1>8 DEF Entry, Is, Name, u
  <2>4. QED
    BY <2>1, <2>2, <2>3
<1>9. QED
  BY <1>5, <1>6, <1>7, <1>8 DEF u

\* It changes what is below one path.
LEMMA NameChanges ==
  ASSUME NEW t, IsTree(t), NEW y \in Seq(Names), y # << >>, Direct(t, y),
         Is(t, Stat(t, Front(y)), "dir"), NEW i \in Points, ~Is(t, i, "link"),
         NEW u, u = Name(t, Stat(t, Front(y)), Last(y), i), IsTree(u)
  PROVE  Changes(t, u, {y}) /\ Lstat(u, y) = i /\ Direct(u, y)
<1> DEFINE f == Front(y)
           n == Last(y)
           k == Lstat(t, f)
<1>1. f \in Seq(Names) /\ n \in Names /\ y = Append(f, n)
  BY FrontAndLast
<1>2. Straight(t, f) /\ Direct(t, f) /\ Stat(t, f) = k /\ k \in Points
  BY <1>1, DirectIs
<1>3. k \in Inodes /\ t[k].kind = "dir" /\ u = Name(t, k, n, i)
  BY <1>2 DEF Is, Points
<1> HIDE DEF f, n, k
<1>4. /\ \A j \in Inodes : u[j].kind = t[j].kind /\ (j # k => u[j] = t[j])
      /\ \A j, m : Entry(u, j, m) = IF j = k /\ m = n THEN i ELSE Entry(t, j, m)
  BY <1>1, <1>3, NameIs
<1>5. ASSUME NEW j \in Points
      PROVE  /\ Seen(u, j) = Seen(t, j)
             /\ \A kind : Is(u, j, kind) <=> Is(t, j, kind)
  <2>1. j # None => j \in Inodes
    BY DEF Points
  <2>2. \A kind : Is(u, j, kind) <=> Is(t, j, kind)
    BY <1>4, <2>1 DEF Is
  <2>3. j # None /\ ~Is(t, j, "dir") => u[j] = t[j]
    BY <1>3, <1>4, <2>1 DEF Is
  <2>4. QED
    BY <2>2, <2>3 DEF Seen
<1>6. Evolves(t, u)
  <2>1. \A j \in Inodes : t[j].kind = "link" => u[j] = t[j]
    BY <1>3, <1>4
  <2>2. ASSUME NEW m \in Names, Is(u, Entry(u, Root, m), "link")
        PROVE  Entry(u, Root, m) = Entry(t, Root, m)
    BY <1>4, <1>5, <2>2
  <2>3. QED
    BY <1>4, <2>1, <2>2 DEF Evolves
<1> DEFINE T == {x \in Seq(Names) : Direct(t, x) /\ ~IsPrefix(y, x) =>
                                      Direct(u, x) /\ Lstat(u, x) = Lstat(t, x)}
<1>7. << >> \in T
  BY LstatEmpty DEF Direct
<1>8. ASSUME NEW z \in Seq(Names), NEW m \in Names, z \in T
      PROVE  Append(z, m) \in T
  <2> DEFINE a == Append(z, m)
  <2> SUFFICES ASSUME Direct(t, a), ~IsPrefix(y, a)
               PROVE  Direct(u, a) /\ Lstat(u, a) = Lstat(t, a)
    BY AppendProperties
  <2>1. ~IsPrefix(y, z) /\ y # a
    BY PrefixOfAppend
  <2>2. /\ Lstat(t, a) = Entry(t, Lstat(t, z), m)
        /\ Direct(t, z) /\ Straight(t, z) /\ Lstat(t, z) \in Points
    BY DirectIs
  <2>3. Direct(u, z) /\ Lstat(u, z) = Lstat(t, z)
    BY <1>8, <2>1, <2>2
  <2>4. ~Is(t, Lstat(t, z), "link")
    BY <2>2, StraightIs
  <2>5. ~Is(u, Lstat(u, z), "link")
    BY <1>5, <2>2, <2>3, <2>4
  <2>6. Direct(u, a)
    BY <2>3, <2>5, DirectAppend
  <2>7. Lstat(u, a) = Entry(u, Lstat(t, z), m)
    BY <2>3, <2>6, DirectIs
  <2>8. ~(Lstat(t, z) = k /\ m = n)
    <3>1. ASSUME Lstat(t, z) = k, m = n
          PROVE  FALSE
      <4>1. k # None
        BY <1>3, Numbers
      <4>2. z = f
        BY <1>1, <1>2, <2>2, <3>1, <4>1, OnePath DEF k
      <4>3. QED
        BY <1>1, <2>1, <3>1, <4>2
    <3>2. QED
      BY <3>1
  <2>9. QED
    BY <1>4, <2>2, <2>6, <2>7, <2>8
<1>9. T = Seq(Names)
  <2>1. T \subseteq Seq(Names)
    OBVIOUS
  <2> HIDE DEF T
  <2>2. QED
    BY <1>7, <1>8, <2>1, OnSequences
<1>10. Frame(t, u, {y})
  <2> SUFFICES ASSUME NEW x \in Seq(Names), Direct(t, x), ~Covered({y}, x)
               PROVE  /\ Direct(u, x) /\ Lstat(u, x) = Lstat(t, x)
                      /\ Seen(u, Lstat(u, x)) = Seen(t, Lstat(t, x))
    BY DEF Frame
  <2>1. ~IsPrefix(y, x) /\ x \in T
    BY <1>9 DEF Covered
  <2>2. Direct(u, x) /\ Lstat(u, x) = Lstat(t, x) /\ Lstat(t, x) \in Points
    BY <2>1, LstatIs
  <2>3. QED
    BY <1>5, <2>2
<1>11. Changes(t, u, {y})
  BY <1>6, <1>10 DEF Changes
<1>12. ~IsPrefix(y, f)
  <2>1. IsPrefix(f, y)
    BY <1>1, PrefixOfAppend, PrefixLaws
  <2>2. y # f
    <3>1. Len(y) = Len(f) + 1 /\ Len(f) \in Nat
      BY <1>1, AppendProperties
    <3>2. QED
      BY <3>1
  <2>3. QED
    BY <1>1, <2>1, <2>2, PrefixLaws
<1>13. Direct(u, f) /\ Lstat(u, f) = k
  <2>1. f \in T
    BY <1>1, <1>9
  <2>2. QED
    BY <1>2, <1>12, <2>1 DEF k
<1>14. ~Is(u, k, "link") /\ k \in Points
  BY <1>2, <1>3, <1>4 DEF Is, Points
<1>15. Direct(u, y)
  BY <1>1, <1>13, <1>14, DirectAppend
<1>16. Lstat(u, y) = Entry(u, k, n)
  BY <1>1, <1>13, <1>15, DirectIs
<1>17. QED
  BY <1>4, <1>11, <1>15, <1>16

\* A tree stays one when an entry is cleared, or given to an inode without name.
LEMMA NameKeepsTree ==
  ASSUME NEW t, IsTree(t), NEW k \in Inodes, t[k].kind = "dir", NEW n \in Names, NEW i \in Points,
         i # None => i # Root /\ t[i] # Free /\ t[i].kind # "link" /\ NamesOf(t, i) = {},
         NEW u, u = Name(t, k, n, i)
  PROVE  IsTree(u) /\ \A j \in Inodes : j # i => NamesOf(u, j) = NamesOf(t, j) \ {<<k, n>>}
<1>1. /\ u \in [Inodes -> Nodes] /\ u[k].kind = "dir"
      /\ \A j \in Inodes : u[j].kind = t[j].kind /\ (j # k => u[j] = t[j])
      /\ \A j, m : Entry(u, j, m) = IF j = k /\ m = n THEN i ELSE Entry(t, j, m)
  BY NameIs
<1>2. \A j \in Inodes : j # i => NamesOf(u, j) = NamesOf(t, j) \ {<<k, n>>}
  <2> SUFFICES ASSUME NEW j \in Inodes, j # i, NEW a \in Inodes, NEW m \in Names
               PROVE  Entry(u, a, m) = j <=> Entry(t, a, m) = j /\ <<a, m>> # <<k, n>>
    BY DEF NamesOf
  <2>1. CASE a = k /\ m = n
    BY <1>1, <2>1
  <2>2. CASE ~(a = k /\ m = n)
    BY <1>1, <2>2
  <2>3. QED
    BY <2>1, <2>2
<1>3. i # None => i \in Inodes /\ NamesOf(u, i) \subseteq {<<k, n>>}
  <2> SUFFICES ASSUME i # None, NEW a \in Inodes, NEW m \in Names, Entry(u, a, m) = i
               PROVE  <<a, m>> = <<k, n>>
    BY DEF NamesOf, Points
  <2>1. i \in Inodes
    BY DEF Points
  <2>2. Entry(t, a, m) # i
    <3>1. Entry(t, a, m) = i => <<a, m>> \in NamesOf(t, i)
      BY DEF NamesOf
    <3>2. QED
      BY <3>1
  <2>3. QED
    BY <1>1, <2>2
<1>4. \A j \in Inodes : /\ u[j] = Free <=> t[j] = Free
                        /\ u[j].kind = "link" => u[j] = t[j]
  <2>1. k # None /\ \A j \in Inodes : t[j] = Free <=> t[j].kind = "free"
    BY NodeIs, Numbers
  <2>2. \A j \in Inodes : u[j] = Free => u[j].kind = "free"
    BY DEF Free
  <2>3. QED
    BY <1>1, <2>1, <2>2
<1>5. ASSUME NEW j \in Inodes
      PROVE  /\ \A e, f \in NamesOf(u, j) : e = f
             /\ j = Root \/ u[j] = Free => NamesOf(u, j) = {}
             /\ u[j].kind = "link" => \A e \in NamesOf(u, j) : e[1] = Root
  <2>0. /\ \A e, f \in NamesOf(t, j) : e = f
        /\ j = Root \/ t[j] = Free => NamesOf(t, j) = {}
        /\ t[j].kind = "link" => \A e \in NamesOf(t, j) : e[1] = Root
    BY DEF IsTree
  <2>1. CASE j # i
    BY <1>2, <1>4, <2>0, <2>1
  <2>2. CASE j = i
    <3>1. i # None
      BY <2>2, Numbers
    <3>2. j # Root /\ u[j] # Free /\ u[j].kind # "link"
      BY <1>1, <1>4, <2>2, <3>1
    <3>3. QED
      BY <1>3, <2>2, <3>1, <3>2
  <2>3. QED
    BY <2>1, <2>2
<1>6. ASSUME NEW j \in Inodes, u[j].kind = "link"
      PROVE  ~Is(u, Follow(u, j), "link")
  <2>1. u[j] = t[j] /\ u[j].to \in Names /\ Is(u, j, "link") /\ Is(t, j, "link")
    BY <1>4, <1>6, NodeIs, Numbers DEF Is
  <2>2. Is(u, Root, "dir") /\ Is(t, Root, "dir")
    BY <1>1, Numbers DEF Is, IsTree
  <2>3. Follow(u, j) = Entry(u, Root, u[j].to) /\ Follow(t, j) = Entry(t, Root, u[j].to)
    BY <2>1, <2>2 DEF Follow, Entry
  <2>4. ~Is(t, Follow(t, j), "link") /\ Follow(t, j) \in Points
    BY <1>6, <2>1, LookupIs DEF IsTree, Points
  <2>5. Follow(u, j) = i \/ Follow(u, j) = Follow(t, j)
    BY <1>1, <2>3
  <2>6. ~Is(t, Follow(u, j), "link") /\ Follow(u, j) \in Points
    BY <2>4, <2>5 DEF Is
  <2>7. QED
    BY <1>1, <2>6 DEF Is, Points
<1>7. u[Root].kind = "dir"
  BY <1>1, Numbers DEF IsTree
<1>8. QED
  BY <1>1, <1>2, <1>5, <1>6, <1>7 DEF IsTree

\* rm and rmdir: what is at p has no path any more (os.Remove).
LEMMA RemovedIs ==
  ASSUME NEW t, IsTree(t), NEW p \in Seq(Names), p # << >>, Direct(t, p), Lstat(t, p) # None
  PROVE  LET u == Removed(t, p)
         IN  /\ Changes(t, u, {p}) /\ Moves(t, u, {p})
             /\ Lstat(u, p) = None /\ Direct(u, p)
             /\ NamesOf(u, Lstat(t, p)) = {} /\ Lstat(t, p) # Root /\ t[Lstat(t, p)] # Free
             /\ \A j \in Inodes : u[j].kind = t[j].kind
             /\ \A j, m : Entry(u, j, m) # None => Entry(u, j, m) = Entry(t, j, m)
             /\ \A x \in Seq(Names) : Direct(u, x) /\ Lstat(u, x) # None =>
                                        Direct(t, x) /\ Lstat(t, x) = Lstat(u, x)
<1> DEFINE u == Removed(t, p)
           f == Front(p)
           n == Last(p)
           k == Stat(t, f)
           i == Lstat(t, p)
<1>1. f \in Seq(Names) /\ n \in Names /\ p = Append(f, n)
  BY FrontAndLast
<1>2. i = Entry(t, k, n) /\ k \in Points
  BY <1>1, LstatIs
<1>3. /\ k \in Inodes /\ t[k].kind = "dir" /\ t[k].names[n] = i
      /\ i \in Inodes /\ i # Root /\ t[i] # Free
      /\ \A j \in Points : \A m : Entry(t, j, m) = i => j = k /\ m = n
  BY <1>2, OneName
<1>4. u = Name(t, k, n, None) /\ None \in Points /\ ~Is(t, None, "link") /\ Is(t, k, "dir")
  BY <1>3, Numbers DEF Removed, Enter, Points, Is
<1>5. NamesOf(t, i) = {<<k, n>>}
  BY <1>1, <1>2, <1>3 DEF NamesOf, Points
<1>6. IsTree(u) /\ NamesOf(u, i) = {}
  <2> HIDE DEF u, f, n, k, i
  <2>1. IsTree(u) /\ \A j \in Inodes : j # None => NamesOf(u, j) = NamesOf(t, j) \ {<<k, n>>}
    BY <1>1, <1>3, <1>4, NameKeepsTree
  <2>2. i # None
    BY <1>3, Numbers
  <2>3. QED
    BY <1>3, <1>5, <2>1, <2>2
<1>7. Changes(t, u, {p}) /\ Lstat(u, p) = None /\ Direct(u, p)
  <2> HIDE DEF u
  <2>1. QED
    BY <1>4, <1>6, NameChanges
<1>8. ASSUME NEW x \in Seq(Names), Direct(u, x), Lstat(u, x) # None
      PROVE  Direct(t, x) /\ Lstat(t, x) = Lstat(u, x)
  <2> HIDE DEF u
  <2>1. ~IsPrefix(p, x)
    <3>1. p # x
      BY <1>7, <1>8
    <3>2. IsPrefix(p, x) => Is(u, Lstat(u, p), "dir")
      BY <1>6, <1>8, <3>1, BelowIs
    <3>3. QED
      BY <1>7, <3>2 DEF Is
  <2>2. ~Covered({p}, x)
    BY <2>1 DEF Covered
  <2>3. QED
    BY <1>7, <1>8, <2>2, FrameBack
<1>9. Moves(t, u, {p})
  <2>1. None \notin Inodes
    BY Numbers
  <2>2. QED
    BY <1>8, <2>1 DEF Moves
<1>10. /\ \A j \in Inodes : u[j].kind = t[j].kind
       /\ \A j, m : Entry(u, j, m) # None => Entry(u, j, m) = Entry(t, j, m)
  <2> HIDE DEF f, n, k
  <2>1. /\ \A j \in Inodes : u[j].kind = t[j].kind
        /\ \A j, m : Entry(u, j, m) = IF j = k /\ m = n THEN None ELSE Entry(t, j, m)
    BY <1>1, <1>3, <1>4, NameIs
  <2>2. QED
    BY <2>1
<1>11. QED
  BY <1>3, <1>6, <1>7, <1>8, <1>9, <1>10

\* An inode without a name gets one; it does not take a path from another.
LEMMA NewName ==
  ASSUME NEW t, IsTree(t), NEW q \in Seq(Names), q # << >>, Direct(t, q),
         Is(t, Stat(t, Front(q)), "dir"),
         NEW i \in Inodes, i # Root, t[i] # Free, t[i].kind # "link", NamesOf(t, i) = {},
         NEW u, u = Name(t, Stat(t, Front(q)), Last(q), i)
  PROVE  Changes(t, u, {q}) /\ Lstat(u, q) = i /\ Direct(u, q)
<1> DEFINE f == Front(q)
           n == Last(q)
           k == Stat(t, f)
<1>1. f \in Seq(Names) /\ n \in Names
  BY FrontAndLast
<1>2. k \in Inodes /\ t[k].kind = "dir"
  BY <1>1, LstatIs DEF Is, Points
<1>3. i \in Points /\ ~Is(t, i, "link")
  BY DEF Points, Is
<1>4. IsTree(u)
  BY <1>1, <1>2, <1>3, NameKeepsTree
<1>5. QED
  BY <1>3, <1>4, NameChanges

\* Changes one after the other.
LEMMA ChangesCompose ==
  ASSUME NEW t, NEW u, NEW v, NEW P, NEW Q, Changes(t, u, P), Changes(u, v, Q)
  PROVE  Changes(t, v, P \cup Q)
<1>1. Evolves(t, v)
  <2>1. /\ \A i \in Inodes : t[i] # Free => u[i].kind = t[i].kind /\ (t[i].kind = "link" => u[i] = t[i])
        /\ \A i \in Inodes : u[i] # Free => v[i].kind = u[i].kind /\ (u[i].kind = "link" => v[i] = u[i])
        /\ \A i \in Inodes : t[i] # Free => u[i] # Free
    <3>1. \A i \in Inodes : (t[i].kind = "free" <=> t[i] = Free) /\ (u[i].kind = "free" <=> u[i] = Free)
      BY NodeIs DEF Changes
    <3>2. QED
      BY <3>1 DEF Changes, Evolves
  <2>2. ASSUME NEW n \in Names, Is(v, Entry(v, Root, n), "link")
        PROVE  Entry(v, Root, n) = Entry(t, Root, n)
    <3>1. Entry(v, Root, n) = Entry(u, Root, n)
      BY <2>2 DEF Changes, Evolves
    <3>2. Root \in Points /\ Entry(u, Root, n) # None
      BY <2>2, <3>1, Numbers DEF Points, Is
    <3>3. Entry(u, Root, n) \in Inodes /\ u[Entry(u, Root, n)] # Free
      BY <3>2, OneName DEF Changes
    <3>4. Is(u, Entry(u, Root, n), "link")
      BY <2>1, <2>2, <3>1, <3>3 DEF Is
    <3>5. QED
      BY <3>1, <3>4 DEF Changes, Evolves
  <2>3. QED
    BY <2>1, <2>2 DEF Evolves
<1>2. Frame(t, v, P \cup Q)
  <2> SUFFICES ASSUME NEW x \in Seq(Names), Direct(t, x), ~Covered(P \cup Q, x)
               PROVE  /\ Direct(v, x) /\ Lstat(v, x) = Lstat(t, x)
                      /\ Seen(v, Lstat(v, x)) = Seen(t, Lstat(t, x))
    BY DEF Frame
  <2>1. ~Covered(P, x) /\ ~Covered(Q, x)
    BY DEF Covered
  <2>2. Direct(u, x) /\ Lstat(u, x) = Lstat(t, x) /\ Seen(u, Lstat(u, x)) = Seen(t, Lstat(t, x))
    BY <2>1 DEF Changes, Frame
  <2>3. Direct(v, x) /\ Lstat(v, x) = Lstat(u, x) /\ Seen(v, Lstat(v, x)) = Seen(u, Lstat(u, x))
    BY <2>1, <2>2 DEF Changes, Frame
  <2>4. QED
    BY <2>2, <2>3
<1>3. QED
  BY <1>1, <1>2 DEF Changes

\* rename: what was at p and below is at q and below (os.Rename).
LEMMA RenamedIs ==
  ASSUME NEW t, IsTree(t), NEW p \in Seq(Names), NEW q \in Seq(Names),
         Straight(t, p), Direct(t, q), CanRename(t, p, q)
  PROVE  Changes(t, Renamed(t, p, q), {p, q}) /\ Moves(t, Renamed(t, p, q), {p, q})
<1> DEFINE i == Lstat(t, p)
           t1 == Removed(t, p)
           f == Front(q)
           n == Last(q)
           k == Stat(t, f)
           u == Name(t1, k, n, i)
<1>1. /\ p # << >> /\ q # << >> /\ i # None /\ Is(t, k, "dir")
      /\ Is(t, i, "dir") => ~IsStrictPrefix(p, q)
      /\ Direct(t, p) /\ ~Is(t, i, "link")
  <2>1. Direct(t, p) /\ ~Is(t, i, "link")
    <3>1. \A m \in Names : Straight(t, p) => Direct(t, p)
      BY DirectAppend
    <3>2. p # << >> => p[1] \in Names
      BY HeadIsPrefix
    <3>3. QED
      BY <3>1, <3>2, StraightIs DEF CanRename
  <2>2. QED
    BY <2>1 DEF CanRename
<1>2. CASE Lstat(t, p) = Lstat(t, q)
  <2>1. Renamed(t, p, q) = t
    BY <1>2 DEF Renamed
  <2>2. QED
    BY <2>1 DEF Changes, Moves, Evolves, Frame
<1>3. CASE Lstat(t, p) # Lstat(t, q)
  <2>1. Renamed(t, p, q) = u
    BY <1>3 DEF Renamed
  <2>2. f \in Seq(Names) /\ n \in Names /\ q = Append(f, n)
    BY <1>1, FrontAndLast
  <2>3. /\ Changes(t, t1, {p}) /\ NamesOf(t1, i) = {} /\ i # Root /\ t[i] # Free
        /\ \A j \in Inodes : t1[j].kind = t[j].kind
        /\ \A j, m : Entry(t1, j, m) # None => Entry(t1, j, m) = Entry(t, j, m)
        /\ \A x \in Seq(Names) : Direct(t1, x) /\ Lstat(t1, x) # None =>
                                   Direct(t, x) /\ Lstat(t, x) = Lstat(t1, x)
    BY <1>1, RemovedIs
  <2>4. i \in Inodes /\ t1[i] # Free /\ t1[i].kind # "link" /\ IsTree(t1)
    <3>1. i \in Inodes
      BY <1>1, LstatIs DEF Points
    <3>2. t1[i].kind = t[i].kind /\ t[i].kind # "link" /\ t[i].kind # "free" /\ IsTree(t1)
      BY <1>1, <2>3, <3>1, NodeIs DEF Is, Changes
    <3>3. QED
      BY <3>1, <3>2 DEF Free
  <2>5. Straight(t, f) /\ Direct(t, f) /\ k = Lstat(t, f) /\ k \in Points
    <3> HIDE DEF f, n
    <3>1. Direct(t, Append(f, n))
      BY <2>2
    <3>2. QED
      BY <2>2, <3>1, DirectIs
  <2>6. ~IsPrefix(p, f)
    <3> SUFFICES ASSUME IsPrefix(p, f)
                 PROVE  FALSE
      OBVIOUS
    <3>1. p # q /\ IsPrefix(p, q)
      BY <1>3, <2>2, PrefixOfAppend
    <3>2. Is(t, i, "dir")
      <4>1. CASE p = f
        BY <1>1, <2>5, <4>1
      <4>2. CASE p # f
        <5>1. Lstat(t, f) # None
          BY <1>1, <2>5 DEF Is
        <5>2. QED
          BY <2>2, <2>5, <4>2, <5>1, BelowIs
      <4>3. QED
        BY <4>1, <4>2
    <3>3. QED
      BY <1>1, <3>1, <3>2 DEF IsStrictPrefix
  <2>7. Direct(t1, f) /\ Lstat(t1, f) = k
    BY <2>2, <2>3, <2>5, <2>6 DEF Changes, Frame, Covered
  <2>8. Is(t1, k, "dir") /\ ~Is(t1, k, "link")
    BY <1>1, <2>3, <2>5 DEF Is, Points
  <2>9. Straight(t1, f) /\ Direct(t1, q) /\ Stat(t1, f) = k
    <3>1. Straight(t1, f)
      BY <2>2, <2>4, <2>7, <2>8, DirectAppend
    <3>2. QED
      BY <2>2, <2>4, <2>7, <3>1, DirectAppend, StraightIs
  <2> HIDE DEF t1, i, k, f, n
  <2>10. Changes(t1, u, {q}) /\ Lstat(u, q) = i /\ Direct(u, q)
    BY <1>1, <2>3, <2>4, <2>8, <2>9, NewName DEF f, n
  <2>11. Changes(t, u, {p, q})
    <3>1. {p} \cup {q} = {p, q}
      OBVIOUS
    <3>2. QED
      BY <2>3, <2>10, <3>1, ChangesCompose
  <2>12. /\ \A j, m : Entry(u, j, m) = IF j = k /\ m = n THEN i ELSE Entry(t1, j, m)
    <3>1. k \in Inodes /\ t1[k].kind = "dir" /\ i \in Points
      BY <2>4, <2>5, <2>8 DEF Is, Points
    <3>2. QED
      BY <2>2, <2>4, <3>1, NameIs
  <2>13. Direct(u, f) /\ Lstat(u, f) = k /\ IsTree(u) /\ ~IsPrefix(q, f)
    <3>1. ~IsPrefix(q, f)
      <4>1. IsPrefix(f, q) /\ Len(q) = Len(f) + 1 /\ Len(f) \in Nat
        BY <2>2, PrefixOfAppend, PrefixLaws, AppendProperties
      <4>2. IsPrefix(q, f) => q = f
        BY <2>2, <4>1, PrefixLaws
      <4>3. QED
        BY <4>1, <4>2
    <3>2. QED
      BY <2>2, <2>7, <2>10, <3>1 DEF Changes, Frame, Covered
  <2> DEFINE Old(x) == \E z \in Seq(Names) : IsPrefix(p, z) /\ Direct(t, z) /\ Lstat(t, z) = Lstat(u, x)
             T == {x \in Seq(Names) : IsPrefix(q, x) /\ Direct(u, x) /\ Lstat(u, x) # None => Old(x)}
  <2>14. << >> \in T
    <3>1. << >> \in Seq(Names) /\ (IsPrefix(q, << >>) => q = << >>)
      BY PrefixOfEmpty
    <3>2. QED
      BY <1>1, <3>1
  <2>15. ASSUME NEW y \in Seq(Names), NEW m \in Names, y \in T
         PROVE  Append(y, m) \in T
    <3> DEFINE x == Append(y, m)
    <3> SUFFICES ASSUME IsPrefix(q, x), Direct(u, x), Lstat(u, x) # None
                 PROVE  Old(x)
      BY AppendProperties
    <3>1. CASE q = x
      <4>1. IsPrefix(p, p) /\ Lstat(t, p) = Lstat(u, x)
        BY <2>10, <3>1, PrefixLaws DEF i
      <4>2. QED
        BY <1>1, <4>1
    <3>2. CASE q # x
      <4> DEFINE j == Lstat(u, y)
      <4>1. IsPrefix(q, y)
        BY <3>2, PrefixOfAppend
      <4>2. Lstat(u, x) = Entry(u, j, m) /\ Direct(u, y) /\ Straight(u, y) /\ j \in Points
        BY <2>13, DirectIs
      <4>3. j # None /\ j \in Inodes /\ ~Is(u, j, "link")
        <5>1. Is(u, j, "dir")
          BY <4>2 DEF Entry
        <5>2. QED
          BY <2>13, <4>2, <5>1, StraightIs DEF Is, Points
      <4>4. PICK z \in Seq(Names) : IsPrefix(p, z) /\ Direct(t, z) /\ Lstat(t, z) = j
        BY <2>15, <4>1, <4>2, <4>3
      <4>5. ~Is(t, j, "link")
        <5>1. u[j].kind = t[j].kind
          <6>1. t[j] # Free
            BY <4>3, <4>4, NotFree
          <6>2. QED
            BY <2>11, <4>3, <6>1 DEF Changes, Evolves
        <5>2. QED
          BY <4>3, <5>1 DEF Is
      <4>6. Direct(t, Append(z, m)) /\ IsPrefix(p, Append(z, m)) /\ Append(z, m) \in Seq(Names)
        BY <4>4, <4>5, DirectAppend, PrefixOfAppend, AppendProperties
      <4>7. Lstat(t, Append(z, m)) = Entry(t, j, m)
        BY <4>4, <4>6, DirectIs
      <4>8. ~(j = k /\ m = n)
        <5>1. j = k => y = f
          BY <2>2, <2>13, <4>2, <4>3, OnePath
        <5>2. QED
          BY <2>13, <4>1, <5>1
      <4>9. Entry(u, j, m) = Entry(t, j, m)
        <5>1. Entry(u, j, m) = Entry(t1, j, m)
          BY <2>12, <4>8
        <5>2. Entry(t1, j, m) # None
          BY <4>2, <5>1
        <5>3. QED
          BY <2>3, <5>1, <5>2
      <4>10. Lstat(t, Append(z, m)) = Lstat(u, x)
        BY <4>2, <4>7, <4>9
      <4>11. QED
        BY <4>6, <4>10
    <3>3. QED
      BY <3>1, <3>2
  <2>16. T = Seq(Names)
    <3>1. T \subseteq Seq(Names)
      OBVIOUS
    <3> HIDE DEF T
    <3>2. QED
      BY <2>14, <2>15, <3>1, OnSequences
  <2>17. Moves(t, u, {p, q})
    <3> SUFFICES ASSUME NEW x \in Seq(Names), NEW j \in Inodes,
                        Direct(u, x), Lstat(u, x) = j, t[j] # Free
                 PROVE  \/ Direct(t, x) /\ Lstat(t, x) = j
                        \/ /\ Covered({p, q}, x)
                           /\ \E y \in Seq(Names) : Direct(t, y) /\ Lstat(t, y) = j /\ Covered({p, q}, y)
      BY DEF Moves
    <3>1. Lstat(u, x) # None
      BY Numbers
    <3>2. CASE IsPrefix(q, x)
      <4>1. PICK z \in Seq(Names) : IsPrefix(p, z) /\ Direct(t, z) /\ Lstat(t, z) = j
        BY <2>16, <3>1, <3>2
      <4>2. QED
        BY <3>2, <4>1 DEF Covered
    <3>3. CASE ~IsPrefix(q, x)
      <4>1. Direct(t1, x) /\ Lstat(t1, x) = Lstat(u, x)
        BY <2>10, <3>3, FrameBack DEF Covered
      <4>2. QED
        BY <2>3, <3>1, <4>1
    <3>4. QED
      BY <3>2, <3>3
  <2>18. QED
    BY <2>1, <2>11, <2>17
<1>4. QED
  BY <1>2, <1>3

\* A new inode without content, that has no name yet.
LEMMA NewInode ==
  ASSUME NEW t, IsTree(t), NEW i \in Inodes, t[i] = Free, NEW node \in {File(<< >>), EmptyDir},
         NEW u, u = [t EXCEPT ![i] = node]
  PROVE  /\ Changes(t, u, {}) /\ NamesOf(u, i) = {} /\ i # Root /\ u[i] = node
         /\ u[i] # Free /\ u[i].kind # "link"
         /\ \A x \in Seq(Names) : Lstat(u, x) = Lstat(t, x) /\ (Direct(u, x) => Direct(t, x))
<1>1. /\ t \in [Inodes -> Nodes] /\ t[Root].kind = "dir" /\ i # Root /\ i # None
      /\ NamesOf(t, i) = {}
  BY Numbers DEF IsTree, Free
<1>2. node \in Nodes /\ node.kind \in {"file", "dir"} /\ (node.kind = "dir" => \A m \in Names : node.names[m] = None)
  <2>1. CASE node = File(<< >>)
    <3>1. node = [kind |-> "file", text |-> << >>] /\ << >> \in Seq(Nat)
      BY <2>1 DEF File
    <3>2. QED
      BY <3>1 DEF Nodes
  <2>2. CASE node = EmptyDir
    <3>1. node = [kind |-> "dir", names |-> [m \in Names |-> None]]
      BY <2>2 DEF EmptyDir, Dir
    <3>2. [m \in Names |-> None] \in [Names -> Inodes \cup {None}]
      OBVIOUS
    <3>3. QED
      BY <3>1, <3>2 DEF Nodes
  <2>3. QED
    BY <2>1, <2>2
<1>3. u \in [Inodes -> Nodes] /\ u[i] = node /\ \A j \in Inodes : j # i => u[j] = t[j]
  BY <1>1, <1>2
<1>4. ASSUME NEW j \in Points, NEW m
      PROVE  Entry(u, j, m) = Entry(t, j, m)
  <2>1. CASE j = i
    <3>1. Entry(t, i, m) = None
      BY DEF Entry, Is, Free
    <3>2. Entry(u, i, m) = None
      BY <1>2, <1>3 DEF Entry, Is
    <3>3. QED
      BY <2>1, <3>1, <3>2
  <2>2. CASE j # i
    BY <1>3, <2>2 DEF Entry, Is, Points
  <2>3. QED
    BY <2>1, <2>2
<1>5. \A j \in Inodes : NamesOf(u, j) = NamesOf(t, j)
  BY <1>4 DEF NamesOf, Points
<1>6. ASSUME NEW j \in Points, j # i
      PROVE  /\ \A kind : Is(u, j, kind) <=> Is(t, j, kind)
             /\ Seen(u, j) = Seen(t, j) /\ Follow(u, j) = Follow(t, j)
  <2>1. j # None => u[j] = t[j]
    BY <1>3, <1>6 DEF Points
  <2>2. \A kind : Is(u, j, kind) <=> Is(t, j, kind)
    BY <2>1 DEF Is
  <2>3. Seen(u, j) = Seen(t, j)
    BY <2>1, <2>2 DEF Seen
  <2>4. u[Root] = t[Root]
    BY <1>1, <1>3, Numbers
  <2>5. Follow(u, j) = Follow(t, j)
    BY <2>1, <2>2, <2>4 DEF Follow, Is
  <2>6. QED
    BY <2>2, <2>3, <2>5
<1>7. u[i] # Free /\ u[i].kind # "link" /\ u[i].kind \in {"file", "dir"}
  BY <1>2, <1>3 DEF Free
<1>8. IsTree(u)
  <2>1. u[Root].kind = "dir"
    BY <1>1, <1>3, Numbers
  <2>2. ASSUME NEW j \in Inodes
        PROVE  /\ \A e, f \in NamesOf(u, j) : e = f
               /\ j = Root \/ u[j] = Free => NamesOf(u, j) = {}
               /\ u[j].kind = "link" => \A e \in NamesOf(u, j) : e[1] = Root
               /\ u[j].kind = "link" => ~Is(u, Follow(u, j), "link")
    <3>0. /\ \A e, f \in NamesOf(t, j) : e = f
          /\ j = Root \/ t[j] = Free => NamesOf(t, j) = {}
          /\ t[j].kind = "link" => \A e \in NamesOf(t, j) : e[1] = Root
          /\ t[j].kind = "link" => ~Is(t, Follow(t, j), "link")
      BY DEF IsTree
    <3>1. CASE j = i
      BY <1>1, <1>5, <1>7, <3>1
    <3>2. CASE j # i
      <4>1. u[j] = t[j] /\ j \in Points /\ Follow(t, j) \in Points
        BY <1>3, <3>2, LookupIs DEF Points
      <4>2. Follow(u, j) = Follow(t, j)
        BY <1>6, <3>2, <4>1
      <4>3. Is(u, Follow(t, j), "link") => Is(t, Follow(t, j), "link")
        <5>1. CASE Follow(t, j) = i
          BY <1>7, <5>1 DEF Is
        <5>2. CASE Follow(t, j) # i
          BY <1>6, <4>1, <5>2
        <5>3. QED
          BY <5>1, <5>2
      <4>4. QED
        BY <1>5, <3>0, <4>1, <4>2, <4>3
    <3>3. QED
      BY <3>1, <3>2
  <2>3. QED
    BY <1>3, <2>1, <2>2 DEF IsTree
<1> DEFINE T == {x \in Seq(Names) : Lstat(u, x) = Lstat(t, x)}
<1>9. << >> \in T
  BY <1>8, LstatEmpty
<1>10. ASSUME NEW z \in Seq(Names), NEW m \in Names, z \in T
       PROVE  Append(z, m) \in T
  <2>1. Lstat(u, z) = Lstat(t, z) /\ Lstat(t, z) \in Points
    BY <1>10, LstatIs
  <2>2. Lstat(t, z) # i
    BY <1>1, NotFree
  <2>3. Stat(u, z) = Stat(t, z) /\ Stat(t, z) \in Points
    BY <1>6, <2>1, <2>2, LstatIs DEF Stat
  <2>4. Lstat(u, Append(z, m)) = Lstat(t, Append(z, m))
    <3>1. Lstat(u, Append(z, m)) = Entry(u, Stat(u, z), m)
      BY <1>8, LstatAppend
    <3>2. Lstat(t, Append(z, m)) = Entry(t, Stat(t, z), m)
      BY LstatAppend
    <3>3. QED
      BY <1>4, <2>3, <3>1, <3>2
  <2>5. QED
    BY <2>4, AppendProperties
<1>11. T = Seq(Names)
  <2>1. T \subseteq Seq(Names)
    OBVIOUS
  <2> HIDE DEF T
  <2>2. QED
    BY <1>9, <1>10, <2>1, OnSequences
<1>12. ASSUME NEW x \in Seq(Names)
       PROVE  /\ Lstat(u, x) = Lstat(t, x) /\ Lstat(t, x) \in Points /\ Lstat(t, x) # i
              /\ Seen(u, Lstat(u, x)) = Seen(t, Lstat(t, x))
  <2>1. Lstat(u, x) = Lstat(t, x)
    BY <1>11
  <2>2. Lstat(t, x) \in Points /\ Lstat(t, x) # i
    BY <1>1, LstatIs, NotFree
  <2>3. QED
    BY <1>6, <2>1, <2>2
<1>13. ASSUME NEW x \in Seq(Names)
       PROVE  Direct(u, x) <=> Direct(t, x)
  <2>1. CASE x = << >>
    BY <2>1 DEF Direct
  <2>2. CASE x # << >> /\ Front(x) = << >>
    BY <2>2 DEF Direct, Straight
  <2>3. CASE x # << >> /\ Front(x) # << >>
    <3> DEFINE h == <<Front(x)[1]>>
    <3>1. h \in Seq(Names)
      BY <2>3, FrontAndLast, HeadIsPrefix
    <3>2. Is(u, Lstat(u, h), "link") <=> Is(t, Lstat(t, h), "link")
      <4> HIDE DEF h
      <4>1. QED
        BY <1>6, <1>12, <3>1
    <3>3. QED
      BY <2>3, <3>2 DEF Direct, Straight
  <2>4. QED
    BY <2>1, <2>2, <2>3
<1>14. Evolves(t, u)
  <2>1. \A j \in Inodes : t[j] # Free => u[j] = t[j]
    BY <1>3
  <2>2. \A n \in Names : Entry(u, Root, n) = Entry(t, Root, n)
    BY <1>4, Numbers DEF Points
  <2>3. QED
    BY <2>1, <2>2 DEF Evolves
<1>15. Frame(t, u, {})
  BY <1>12, <1>13 DEF Frame
<1>16. QED
  BY <1>1, <1>3, <1>5, <1>7, <1>8, <1>12, <1>13, <1>14, <1>15 DEF Changes

\* All the paths to inode i are within P, and the same inodes are at the same paths.
Within(t, i, P) == \A x \in Seq(Names) : Direct(t, x) /\ Lstat(t, x) = i => Covered(P, x)
SameShape(t, u) == /\ \A j \in Inodes : u[j].kind = t[j].kind
                   /\ \A x \in Seq(Names) : Lstat(u, x) = Lstat(t, x) /\ (Direct(u, x) <=> Direct(t, x))

\* Another content of file i.
Rewritten(t, i, s) == [t EXCEPT ![i].text = s]

\* Another content of a file: seen only where the file is.
LEMMA NewText ==
  ASSUME NEW t, IsTree(t), NEW i \in Inodes, t[i].kind = "file", NEW s \in Seq(Nat),
         NEW u, u = Rewritten(t, i, s),
         NEW P, P \subseteq Seq(Names),
         Within(t, i, P)
  PROVE  Changes(t, u, P) /\ Moves(t, u, P) /\ SameShape(t, u)
<1>1. t \in [Inodes -> Nodes] /\ t[Root].kind = "dir" /\ i # None
  BY Numbers DEF IsTree
<1>2. /\ u \in [Inodes -> Nodes] /\ u[i].kind = "file" /\ \A j \in Inodes : j # i => u[j] = t[j]
  <2>1. t[i] \in [kind : {"file"}, text : Seq(Nat)]
    BY <1>1 DEF Nodes, Free
  <2> DEFINE node == [t[i] EXCEPT !.text = s]
  <2>2. node \in [kind : {"file"}, text : Seq(Nat)]
    BY <2>1
  <2>3. node \in Nodes /\ node.kind = "file"
    BY <2>2 DEF Nodes
  <2>4. u = [t EXCEPT ![i] = node]
    BY <1>1 DEF Rewritten
  <2> HIDE DEF node
  <2>5. QED
    BY <1>1, <2>3, <2>4
<1>3. \A j \in Inodes : u[j].kind = t[j].kind
  BY <1>2
<1>4. ASSUME NEW j \in Points
      PROVE  /\ \A kind : Is(u, j, kind) <=> Is(t, j, kind)
             /\ \A m : Entry(u, j, m) = Entry(t, j, m)
             /\ Follow(u, j) = Follow(t, j)
             /\ j # i => Seen(u, j) = Seen(t, j)
  <2>1. \A kind : Is(u, j, kind) <=> Is(t, j, kind)
    BY <1>3 DEF Is, Points
  <2>2. j # None /\ t[j].kind # "file" => u[j] = t[j]
    BY <1>2 DEF Points
  <2>3. \A m : Entry(u, j, m) = Entry(t, j, m)
    BY <2>1, <2>2 DEF Entry, Is
  <2>4. u[Root] = t[Root]
    BY <1>1, <1>2, Numbers
  <2>5. Follow(u, j) = Follow(t, j)
    BY <2>1, <2>2, <2>4 DEF Follow, Is
  <2>6. j # None /\ j # i => u[j] = t[j]
    BY <1>2 DEF Points
  <2>7. j # i => Seen(u, j) = Seen(t, j)
    BY <2>1, <2>6 DEF Seen
  <2>8. QED
    BY <2>1, <2>3, <2>5, <2>7
<1>5. \A j \in Inodes : NamesOf(u, j) = NamesOf(t, j)
  BY <1>4 DEF NamesOf, Points
<1>6. IsTree(u)
  <2>1. u[Root].kind = "dir"
    BY <1>1, <1>3, Numbers
  <2>2. ASSUME NEW j \in Inodes
        PROVE  /\ \A e, f \in NamesOf(u, j) : e = f
               /\ j = Root \/ u[j] = Free => NamesOf(u, j) = {}
               /\ u[j].kind = "link" => \A e \in NamesOf(u, j) : e[1] = Root
               /\ u[j].kind = "link" => ~Is(u, Follow(u, j), "link")
    <3>1. /\ \A e, f \in NamesOf(t, j) : e = f
          /\ j = Root \/ t[j] = Free => NamesOf(t, j) = {}
          /\ t[j].kind = "link" => \A e \in NamesOf(t, j) : e[1] = Root
          /\ t[j].kind = "link" => ~Is(t, Follow(t, j), "link")
      BY DEF IsTree
    <3>2. u[j] = Free => t[j] = Free
      <4>1. t[j] = Free <=> t[j].kind = "free"
        BY NodeIs
      <4>2. u[j] = Free => u[j].kind = "free"
        BY DEF Free
      <4>3. QED
        BY <1>3, <4>1, <4>2
    <3>3. Is(u, Follow(u, j), "link") <=> Is(t, Follow(t, j), "link")
      <4>1. j \in Points /\ Follow(t, j) \in Points
        BY LookupIs DEF Points
      <4>2. QED
        BY <1>4, <4>1
    <3>4. QED
      BY <1>3, <1>5, <3>1, <3>2, <3>3
  <2>3. QED
    BY <1>2, <2>1, <2>2 DEF IsTree
<1> DEFINE T == {x \in Seq(Names) : Lstat(u, x) = Lstat(t, x)}
<1>7. << >> \in T
  BY <1>6, LstatEmpty
<1>8. ASSUME NEW z \in Seq(Names), NEW m \in Names, z \in T
      PROVE  Append(z, m) \in T
  <2>1. Stat(u, z) = Stat(t, z) /\ Stat(t, z) \in Points
    BY <1>4, <1>8, LstatIs DEF Stat
  <2>2. Lstat(u, Append(z, m)) = Entry(u, Stat(u, z), m)
    BY <1>6, LstatAppend
  <2>3. Lstat(t, Append(z, m)) = Entry(t, Stat(t, z), m)
    BY LstatAppend
  <2>4. QED
    BY <1>4, <2>1, <2>2, <2>3, AppendProperties
<1>9. T = Seq(Names)
  <2>1. T \subseteq Seq(Names)
    OBVIOUS
  <2> HIDE DEF T
  <2>2. QED
    BY <1>7, <1>8, <2>1, OnSequences
<1>10. ASSUME NEW x \in Seq(Names)
       PROVE  /\ Lstat(u, x) = Lstat(t, x) /\ Lstat(t, x) \in Points
              /\ Lstat(t, x) # i => Seen(u, Lstat(u, x)) = Seen(t, Lstat(t, x))
              /\ Is(u, Lstat(u, x), "link") <=> Is(t, Lstat(t, x), "link")
  <2>1. Lstat(u, x) = Lstat(t, x) /\ Lstat(t, x) \in Points
    BY <1>9, LstatIs
  <2>2. QED
    BY <1>4, <2>1
<1>11. ASSUME NEW x \in Seq(Names)
       PROVE  Direct(u, x) <=> Direct(t, x)
  <2>1. CASE x = << >>
    BY <2>1 DEF Direct
  <2>2. CASE x # << >> /\ Front(x) = << >>
    BY <2>2 DEF Direct, Straight
  <2>3. CASE x # << >> /\ Front(x) # << >>
    <3>1. <<Front(x)[1]>> \in Seq(Names)
      BY <2>3, FrontAndLast, HeadIsPrefix
    <3>2. QED
      BY <1>10, <2>3, <3>1 DEF Direct, Straight
  <2>4. QED
    BY <2>1, <2>2, <2>3
<1>12. Evolves(t, u)
  <2>1. \A j \in Inodes : t[j].kind = "link" => u[j] = t[j]
    BY <1>2
  <2>2. \A n \in Names : Entry(u, Root, n) = Entry(t, Root, n)
    BY <1>4, Numbers DEF Points
  <2>3. QED
    BY <1>3, <2>1, <2>2 DEF Evolves
<1>13. Frame(t, u, P)
  <2> SUFFICES ASSUME NEW x \in Seq(Names), Direct(t, x), ~Covered(P, x)
               PROVE  /\ Direct(u, x) /\ Lstat(u, x) = Lstat(t, x)
                      /\ Seen(u, Lstat(u, x)) = Seen(t, Lstat(t, x))
    BY DEF Frame
  <2>1. QED
    BY <1>10, <1>11 DEF Within
<1>14. Changes(t, u, P)
  BY <1>6, <1>12, <1>13 DEF Changes
<1>15. Moves(t, u, P)
  BY <1>10, <1>11 DEF Moves
<1>16. QED
  BY <1>3, <1>10, <1>11, <1>14, <1>15 DEF SameShape

\* Something new at y (os.Mkdir, open).
LEMMA MakeIs ==
  ASSUME NEW t, IsTree(t), HasRoom(t), NEW y \in Seq(Names), Direct(t, y), CanMake(t, y),
         NEW node \in {File(<< >>), EmptyDir}
  PROVE  LET u == Make(t, y, node)
         IN  /\ Changes(t, u, {y}) /\ Moves(t, u, {y})
             /\ Direct(u, y) /\ Lstat(u, y) \in Inodes /\ u[Lstat(u, y)] = node
             /\ t[Lstat(u, y)] = Free
<1> DEFINE i  == Unused(t)
           t1 == [t EXCEPT ![i] = node]
           f  == Front(y)
           n  == Last(y)
           k  == Stat(t, f)
           u  == Make(t, y, node)
<1>1. i \in Inodes /\ t[i] = Free
  BY DEF HasRoom, Unused
<1>2. u = Name(t1, k, n, i) /\ y # << >> /\ Is(t, k, "dir") /\ Lstat(t, y) = None
  BY DEF Make, CanMake
<1>3. f \in Seq(Names) /\ n \in Names /\ y = Append(f, n)
  BY <1>2, FrontAndLast
<1> HIDE DEF i, u
<1>4. /\ Changes(t, t1, {}) /\ NamesOf(t1, i) = {} /\ i # Root /\ t1[i] = node
      /\ t1[i] # Free /\ t1[i].kind # "link"
      /\ \A x \in Seq(Names) : Lstat(t1, x) = Lstat(t, x) /\ (Direct(t1, x) => Direct(t, x))
  BY <1>1, NewInode
<1> HIDE DEF t1
<1>5. IsTree(t1) /\ Direct(t1, y)
  BY <1>4 DEF Changes, Frame, Covered
<1>6. Direct(t1, Append(f, n)) /\ Direct(t, Append(f, n))
  BY <1>3, <1>5
<1> HIDE DEF f, n
<1>7. /\ Straight(t1, f) /\ Direct(t1, f) /\ Stat(t1, f) = Lstat(t1, f)
      /\ Stat(t, f) = Lstat(t, f)
  BY <1>3, <1>5, <1>6, DirectIs
<1>8. Stat(t1, f) = k /\ k \in Inodes /\ k # i
  BY <1>1, <1>2, <1>3, <1>4, <1>7, LstatIs DEF Is, Points, Free
<1>9. Is(t1, k, "dir")
  BY <1>1, <1>2, <1>8 DEF Is, t1, IsTree
<1>10. Changes(t1, u, {y}) /\ Lstat(u, y) = i /\ Direct(u, y)
  BY <1>1, <1>2, <1>4, <1>5, <1>8, <1>9, NewName DEF f, n
<1>11. Changes(t, u, {y})
  <2>1. {} \cup {y} = {y}
    OBVIOUS
  <2>2. QED
    BY <1>4, <1>10, <2>1, ChangesCompose
<1>12. u[i] = node
  <2>1. k \in Inodes /\ t1[k].kind = "dir" /\ i \in Points
    BY <1>1, <1>8, <1>9 DEF Is, Points
  <2>2. \A j \in Inodes : j # k => u[j] = t1[j]
    BY <1>2, <1>3, <1>5, <2>1, NameIs
  <2>3. QED
    BY <1>1, <1>4, <1>8, <2>2
<1>13. Moves(t, u, {y})
  <2> SUFFICES ASSUME NEW x \in Seq(Names), NEW j \in Inodes,
                      Direct(u, x), Lstat(u, x) = j, t[j] # Free
               PROVE  Direct(t, x) /\ Lstat(t, x) = j
    BY DEF Moves
  <2>1. ~IsPrefix(y, x)
    <3> SUFFICES ASSUME IsPrefix(y, x)
                 PROVE  FALSE
      OBVIOUS
    <3>1. y # x
      BY <1>1, <1>10
    <3>2. Is(u, i, "dir") /\ \E m \in Names : Entry(u, i, m) # None
      <4>1. Lstat(u, x) # None /\ IsTree(u)
        BY <1>10, Numbers DEF Changes
      <4>2. QED
        BY <1>10, <3>1, <4>1, BelowIs
    <3>3. \A m \in Names : Entry(u, i, m) = None
      <4>1. node.kind = "dir" => node.names = [a \in Names |-> None]
        BY DEF EmptyDir, Dir, File
      <4>2. QED
        BY <1>12, <3>2, <4>1 DEF Entry, Is
    <3>4. QED
      BY <3>2, <3>3
  <2>2. Direct(t1, x) /\ Lstat(t1, x) = j
    BY <1>10, <2>1, FrameBack DEF Covered
  <2>3. QED
    BY <1>4, <2>2
<1>14. QED
  BY <1>1, <1>10, <1>11, <1>12, <1>13 DEF u

-------------------------------------------------------------------------------
(***************************************************************************)
(* Paths of the callers, and paths without links                           *)
(***************************************************************************)

CleanPaths == Seq(Names) \cup {Escapes}

\* A clean path is one of names, or escapes (resolvePath, filepath.CleanPaths).
LEMMA CleanedIs ==
  ASSUME NEW p \in Paths
  PROVE  Cleaned(p) \in CleanPaths
<1>0. Len(p) \in Nat /\ \A k \in 1 .. Len(p) : p[k] \in Names \cup {".."}
  BY DEF Paths
<1> SUFFICES ASSUME NEW n \in Nat, n = Len(p)
             PROVE  Cleaned(p) \in CleanPaths
  BY <1>0
<1> DEFINE Step(c, k) == IF c = Escapes \/ (p[k] = ".." /\ c = << >>) THEN Escapes
                         ELSE IF p[k] = ".." THEN Front(c) ELSE Append(c, p[k])
<1>1. \A k \in 1 .. n : p[k] \in Names \cup {".."}
  BY <1>0
<1>2. ASSUME NEW c \in CleanPaths, NEW k \in 1 .. n
      PROVE  Step(c, k) \in CleanPaths
  <2>1. CASE c = Escapes \/ (p[k] = ".." /\ c = << >>)
    BY <2>1 DEF CleanPaths
  <2>2. CASE c # Escapes /\ p[k] = ".." /\ c # << >>
    <3>1. c \in Seq(Names)
      BY <2>2 DEF CleanPaths
    <3>2. Front(c) \in Seq(Names)
      BY <2>2, <3>1, FrontAndLast
    <3>3. QED
      BY <2>2, <3>2 DEF CleanPaths
  <2>3. CASE c # Escapes /\ p[k] # ".."
    <3>1. c \in Seq(Names) /\ p[k] \in Names
      BY <1>1, <2>3 DEF CleanPaths
    <3>2. Append(c, p[k]) \in Seq(Names)
      BY <3>1, AppendProperties
    <3>3. QED
      BY <2>3, <3>2 DEF CleanPaths
  <2>4. QED
    BY <2>1, <2>2, <2>3
<1>3. << >> \in CleanPaths
  BY DEF CleanPaths
<1>4. Cleaned(p) = (CHOOSE g : g = [k \in 0 .. n |-> IF k = 0 THEN << >> ELSE Step(g[k - 1], k)])[n]
  BY DEF Cleaned
<1> HIDE DEF Step
<1>5. PICK f \in [1 .. n -> [CleanPaths -> CleanPaths]] :
        \A c \in CleanPaths : \A k \in 1 .. n : f[k][c] = Step(c, k)
  <2> DEFINE s == [k \in 1 .. n |-> [c \in CleanPaths |-> Step(c, k)]]
  <2>1. s \in [1 .. n -> [CleanPaths -> CleanPaths]]
    BY <1>2
  <2>2. \A c \in CleanPaths : \A k \in 1 .. n : s[k][c] = Step(c, k)
    OBVIOUS
  <2> HIDE DEF s
  <2>3. QED
    BY <2>1, <2>2
<1>6. PICK h \in [0 .. n -> CleanPaths] :
        \A k \in 0 .. n : h[k] = IF k = 0 THEN << >> ELSE f[k][h[k - 1]]
  <2>1. \E h : Iteration(h, n, CleanPaths, << >>, f)
    BY <1>3, <1>5, Iterates
  <2>2. QED
    BY <2>1 DEF Iteration
<1>7. \A k \in 0 .. n : h[k] = IF k = 0 THEN << >> ELSE Step(h[k - 1], k)
  <2> SUFFICES ASSUME NEW k \in 0 .. n, k # 0
               PROVE  h[k] = Step(h[k - 1], k)
    BY <1>6
  <2>1. k \in 1 .. n /\ h[k - 1] \in CleanPaths
    BY <1>1, <1>6
  <2>2. QED
    BY <1>5, <1>6, <2>1
<1>8. h = [k \in 0 .. n |-> IF k = 0 THEN << >> ELSE Step(h[k - 1], k)]
  BY <1>6, <1>7
<1> DEFINE g == CHOOSE g : g = [k \in 0 .. n |-> IF k = 0 THEN << >> ELSE Step(g[k - 1], k)]
<1>9. g = [k \in 0 .. n |-> IF k = 0 THEN << >> ELSE Step(g[k - 1], k)]
  BY <1>8
<1>10. Cleaned(p) = g[n]
  BY <1>4
<1> HIDE DEF g
<1>11. \A k \in 0 .. n : g[k] = IF k = 0 THEN << >> ELSE Step(g[k - 1], k)
  BY <1>9
<1> DEFINE T == {k \in 0 .. n : g[k] \in CleanPaths}
<1>12. 0 \in T
  BY <1>1, <1>3, <1>11
<1>13. ASSUME NEW k \in 1 .. n, k - 1 \in T
       PROVE  k \in T
  <2>1. k \in 0 .. n /\ k # 0 /\ g[k - 1] \in CleanPaths
    BY <1>1, <1>13
  <2>2. QED
    BY <1>2, <1>11, <1>13, <2>1
<1> HIDE DEF T
<1>14. n \in T
  <2>1. 0 .. n \subseteq T
    BY <1>1, <1>12, <1>13, OnNumbers
  <2>2. QED
    BY <1>1, <2>1
<1>15. QED
  BY <1>10, <1>14 DEF T

\* A path without links has their end for its head (filepath.EvalSymlinks).
LEMMA CanonicalIs ==
  ASSUME NEW t, IsTree(t), NEW p \in Seq(Names)
  PROVE  /\ Canonical(t, p) \in Seq(Names) /\ Straight(t, Canonical(t, p))
         /\ Canonical(t, p) = << >> <=> p = << >>
         /\ p # << >> => LET i == Lstat(t, <<p[1]>>)
                         IN  IF Is(t, i, "link") THEN Canonical(t, p)[1] = t[i].to ELSE Canonical(t, p) = p
<1> SUFFICES ASSUME NEW n \in Nat, n = Len(p)
             PROVE  /\ Canonical(t, p) \in Seq(Names) /\ Straight(t, Canonical(t, p))
                    /\ Canonical(t, p) = << >> <=> p = << >>
                    /\ p # << >> => LET i == Lstat(t, <<p[1]>>)
                                    IN  IF Is(t, i, "link") THEN Canonical(t, p)[1] = t[i].to
                                        ELSE Canonical(t, p) = p
  OBVIOUS
<1> DEFINE i       == Lstat(t, <<p[1]>>)
           link    == Is(t, i, "link")
           head    == IF link THEN t[i].to ELSE p[1]
           Part(k) == [j \in 1 .. k |-> IF j = 1 THEN head ELSE p[j]]
           Real(a) == IF Is(t, Lstat(t, a), "link") THEN <<t[Lstat(t, a)].to>> ELSE a
           Step(c, k) == Real(Append(c, p[k]))
<1>1. \A k \in 1 .. n : p[k] \in Names
  OBVIOUS
<1>2. n > 0 => /\ i \in Points /\ head \in Names
               /\ ~Is(t, Lstat(t, <<head>>), "link")
               /\ Real(<<p[1]>>) = <<head>>
  <2> SUFFICES ASSUME n > 0
               PROVE  /\ i \in Points /\ head \in Names
                      /\ ~Is(t, Lstat(t, <<head>>), "link")
                      /\ Real(<<p[1]>>) = <<head>>
    OBVIOUS
  <2>1. p[1] \in Names /\ <<p[1]>> \in Seq(Names)
    BY <1>1
  <2>2. i \in Points
    BY <2>1, LstatIs
  <2>3. CASE link
    <3>1. i \in Inodes /\ t[i].kind = "link"
      BY <2>2, <2>3 DEF Is, Points
    <3>2. t[i].to \in Names /\ ~Is(t, Follow(t, i), "link")
      BY <3>1, NodeIs DEF IsTree
    <3>3. Lstat(t, <<t[i].to>>) = Entry(t, Root, t[i].to)
      <4> DEFINE m == t[i].to
      <4>1. m \in Names
        BY <3>2
      <4> HIDE DEF m
      <4>2. Lstat(t, <<m>>) = Entry(t, Root, m)
        BY <4>1, LstatOfName
      <4>3. QED
        BY <4>2 DEF m
    <3>4. Is(t, Root, "dir")
      BY Numbers DEF Is, IsTree
    <3>5. Follow(t, i) = Entry(t, Root, t[i].to)
      BY <2>3, <3>2, <3>4 DEF Follow, Entry
    <3>6. QED
      BY <2>2, <2>3, <3>2, <3>3, <3>5
  <2>4. CASE ~link
    BY <2>1, <2>2, <2>4
  <2>5. QED
    BY <2>3, <2>4
<1>3. ASSUME NEW k \in 0 .. n
      PROVE  /\ Part(k) \in Seq(Names) /\ Len(Part(k)) = k
             /\ \A j \in 1 .. k : Part(k)[j] = IF j = 1 THEN head ELSE p[j]
             /\ k # 0 => Part(k) # << >> /\ Straight(t, Part(k))
  <2>1. \A j \in 1 .. k : (IF j = 1 THEN head ELSE p[j]) \in Names
    BY <1>1, <1>2
  <2> HIDE DEF head
  <2>2. Part(k) \in [1 .. k -> Names] /\ \A j \in 1 .. k : Part(k)[j] = IF j = 1 THEN head ELSE p[j]
    BY <2>1
  <2>3. Part(k) \in Seq(Names) /\ Len(Part(k)) = k
    BY <2>2
  <2>4. k # 0 => Part(k) # << >> /\ Part(k)[1] = head
    BY <2>2, <2>3
  <2> HIDE DEF Part
  <2>5. QED
    BY <1>2, <2>2, <2>3, <2>4 DEF Straight
<1>4. Part(0) = << >>
  OBVIOUS
<1>5. ASSUME NEW k \in 1 .. n
      PROVE  Step(Part(k - 1), k) = Part(k)
  <2> DEFINE c == Part(k - 1)
             a == Append(c, p[k])
  <2>1. k - 1 \in 0 .. n /\ k \in 0 .. n
    OBVIOUS
  <2> HIDE DEF Part, head
  <2>2. /\ c \in Seq(Names) /\ Len(c) = k - 1 /\ p[k] \in Names
        /\ \A j \in 1 .. k - 1 : c[j] = IF j = 1 THEN head ELSE p[j]
        /\ k # 1 => c # << >> /\ Straight(t, c)
    BY <1>1, <1>3, <2>1
  <2>3. CASE k = 1
    <3>1. a = <<p[1]>> /\ Part(1) = <<head>>
      BY <1>4, <2>3 DEF Part
    <3> HIDE DEF Real, a
    <3>2. Real(a) = <<head>>
      BY <1>2, <2>3, <3>1
    <3>3. QED
      BY <2>3, <3>1, <3>2 DEF a
  <2>4. CASE k # 1
    <3> HIDE DEF c
    <3>0. Straight(t, a)
      BY <2>2, <2>4, DirectAppend
    <3>1. Straight(t, a) /\ a \in Seq(Names) /\ Len(a) = k /\ a[k] = p[k]
          /\ \A j \in 1 .. k - 1 : a[j] = c[j]
      BY <2>2, <3>0, AppendProperties
    <3>2. ~Is(t, Lstat(t, a), "link")
      BY <3>1, StraightIs
    <3>3. Part(k) \in Seq(Names) /\ Len(Part(k)) = k
          /\ \A j \in 1 .. k : Part(k)[j] = IF j = 1 THEN head ELSE p[j]
      BY <1>3, <2>1
    <3>4. a = Part(k)
      <4>1. \A j \in 1 .. k : a[j] = Part(k)[j]
        BY <2>2, <2>4, <3>1, <3>3
      <4> HIDE DEF a, Part
      <4>2. QED
        BY <3>1, <3>3, <4>1, SeqEqual
    <3>5. QED
      BY <3>2, <3>4 DEF c
  <2>5. QED
    BY <2>3, <2>4
<1> DEFINE Solves(g) == g = [k \in 0 .. n |-> IF k = 0 THEN << >> ELSE Step(g[k - 1], k)]
           g == CHOOSE g : Solves(g)
<1>6. Canonical(t, p) = g[n]
  BY DEF Canonical
<1> HIDE DEF Step
<1>7. Solves(g)
  <2> DEFINE w == [k \in 0 .. n |-> Part(k)]
  <2> HIDE DEF Part
  <2>1. \A k \in 0 .. n : w[k] = IF k = 0 THEN << >> ELSE Step(w[k - 1], k)
    <3> SUFFICES ASSUME NEW k \in 0 .. n, k # 0
                 PROVE  w[k] = Step(w[k - 1], k)
      BY <1>4
    <3>1. k - 1 \in 0 .. n /\ k \in 1 .. n
      OBVIOUS
    <3>2. QED
      BY <1>5, <3>1
  <2>2. w = [k \in 0 .. n |-> IF k = 0 THEN << >> ELSE Step(w[k - 1], k)]
    BY <2>1
  <2> HIDE DEF w
  <2>3. QED
    BY <2>2
<1> HIDE DEF g, Part
<1>8. \A k \in 0 .. n : g[k] = IF k = 0 THEN << >> ELSE Step(g[k - 1], k)
  BY <1>7
<1> DEFINE T == {k \in 0 .. n : g[k] = Part(k)}
<1>9. 0 \in T
  BY <1>4, <1>8
<1>10. ASSUME NEW k \in 1 .. n, k - 1 \in T
       PROVE  k \in T
  <2>1. k \in 0 .. n /\ k # 0 /\ g[k - 1] = Part(k - 1)
    BY <1>10
  <2>2. QED
    BY <1>5, <1>8, <1>10, <2>1
<1> HIDE DEF T
<1>11. n \in T /\ n \in 0 .. n
  <2>1. 0 .. n \subseteq T
    BY <1>9, <1>10, OnNumbers
  <2>2. QED
    BY <2>1
<1>12. Canonical(t, p) = Part(n)
  BY <1>6, <1>11 DEF T
<1>13. CASE n = 0
  BY <1>4, <1>12, <1>13, EmptySeq DEF Straight
<1>14. CASE n # 0
  <2>1. /\ Part(n) \in Seq(Names) /\ Len(Part(n)) = n /\ Part(n) # << >> /\ Straight(t, Part(n))
        /\ \A j \in 1 .. n : Part(n)[j] = IF j = 1 THEN head ELSE p[j]
    BY <1>3, <1>11, <1>14
  <2>2. Part(n)[1] = head
    BY <1>14, <2>1
  <2>3. ~link => Part(n) = p
    <3> SUFFICES ASSUME ~link
                 PROVE  Part(n) = p
      OBVIOUS
    <3>1. \A j \in 1 .. n : Part(n)[j] = p[j]
      BY <2>1
    <3>2. QED
      BY <2>1, <3>1, SeqEqual
  <2>4. p # << >>
    BY <1>14
  <2>5. QED
    BY <1>12, <2>1, <2>2, <2>3, <2>4
<1>15. QED
  BY <1>13, <1>14

-------------------------------------------------------------------------------
(***************************************************************************)
(* What a request knows of a tree that others change                       *)
(***************************************************************************)

\* Where open makes a file: at the end of a link.
Opened(t, p) == IF Is(t, Lstat(t, p), "link") THEN <<t[Lstat(t, p)].to>> ELSE p

\* Links are in the root.
LEMMA LinkIsShort ==
  ASSUME NEW t, IsTree(t), NEW x \in Seq(Names), Direct(t, x), Is(t, Lstat(t, x), "link")
  PROVE  x # << >> /\ x = <<x[1]>>
<1>1. x # << >>
  <2>1. ~Is(t, Root, "link")
    BY DEF Is, IsTree
  <2>2. QED
    BY <2>1, LstatEmpty
<1> DEFINE f == Front(x)
           n == Last(x)
<1>2. f \in Seq(Names) /\ n \in Names /\ x = Append(f, n)
  BY <1>1, FrontAndLast
<1> HIDE DEF f, n
<1>3. Lstat(t, x) = Entry(t, Lstat(t, f), n) /\ Straight(t, f) /\ Lstat(t, f) \in Points
  BY <1>2, DirectIs
<1>4. Lstat(t, x) # None /\ t[Lstat(t, x)].kind = "link"
  BY DEF Is
<1>5. Lstat(t, f) = Root
  BY <1>3, <1>4, OneName
<1>6. f = << >>
  BY <1>2, <1>3, <1>5, StraightIs
<1>7. x = <<n>>
  BY <1>2, <1>6
<1>8. QED
  BY <1>1, <1>7

\* A link that is there was there.
LEMMA LinkWasThere ==
  ASSUME NEW t, NEW u, IsTree(t), IsTree(u), Evolves(t, u), NEW n, Is(u, Lstat(u, <<n>>), "link")
  PROVE  /\ Is(t, Lstat(t, <<n>>), "link") /\ Lstat(t, <<n>>) = Lstat(u, <<n>>)
         /\ u[Lstat(u, <<n>>)] = t[Lstat(u, <<n>>)]
<1> DEFINE i == Lstat(u, <<n>>)
<1>1. i = Entry(u, Root, n) /\ Lstat(t, <<n>>) = Entry(t, Root, n)
  BY LstatOfName
<1>2. Root \in Points /\ i # None /\ u[i].kind = "link"
  BY Numbers DEF Points, Is
<1> HIDE DEF i
<1>3. n \in Names /\ i \in Inodes
  BY <1>1, <1>2, OneName
<1>4. Entry(t, Root, n) = i
  BY <1>1, <1>3 DEF Evolves, i
<1>5. t[i] # Free
  BY <1>2, <1>4, OneName
<1>6. t[i].kind = "link" /\ u[i] = t[i]
  BY <1>2, <1>3, <1>5 DEF Evolves
<1>7. QED
  BY <1>1, <1>2, <1>4, <1>6 DEF Is, i

\* A change makes no link, so that a path without links stays one.
LEMMA StaysDirect ==
  ASSUME NEW t, NEW u, IsTree(t), IsTree(u), Evolves(t, u), NEW x
  PROVE  (Straight(t, x) => Straight(u, x)) /\ (Direct(t, x) => Direct(u, x))
<1>1. \A y : Straight(t, y) => Straight(u, y)
  BY LinkWasThere DEF Straight
<1>2. QED
  BY <1>1 DEF Direct

\* Where a link is found after a change, the same link was before it.
LEMMA StaysTheLink ==
  ASSUME NEW t, NEW u, IsTree(t), IsTree(u), Evolves(t, u),
         NEW x \in Seq(Names), Direct(t, x), Is(u, Lstat(u, x), "link")
  PROVE  /\ Is(t, Lstat(t, x), "link") /\ Lstat(t, x) = Lstat(u, x)
         /\ u[Lstat(u, x)] = t[Lstat(u, x)]
<1>1. Direct(u, x)
  BY StaysDirect
<1>2. x = <<x[1]>>
  BY <1>1, LinkIsShort
<1>3. QED
  BY <1>2, LinkWasThere

\* What leads to a target leads to no more.
LEMMA StaysTargeted ==
  ASSUME NEW t, NEW u, IsTree(t), IsTree(u), Evolves(t, u), NEW P, NEW x \in Seq(Names),
         Direct(t, x), Covered(P, x), Covered(P, Opened(t, x))
  PROVE  Direct(u, x) /\ Covered(P, Opened(u, x))
<1>1. Direct(u, x)
  BY StaysDirect
<1>2. CASE Is(u, Lstat(u, x), "link")
  <2>1. Opened(u, x) = Opened(t, x)
    BY <1>2, StaysTheLink DEF Opened
  <2>2. QED
    BY <1>1, <2>1
<1>3. CASE ~Is(u, Lstat(u, x), "link")
  BY <1>1, <1>3 DEF Opened
<1>4. QED
  BY <1>2, <1>3

\* The paths that a call may touch become no more.
LEMMA FootprintShrinks ==
  ASSUME IsTree(fs), IsTree(fs'), Evolves(fs, fs'), NEW c
  PROVE  Footprint(c)' \subseteq Footprint(c)
<1>1. ASSUME NEW p, NEW i \in HeadLinks(p)'
      PROVE  i \in HeadLinks(p) /\ fs'[i] = fs[i]
  <2>1. i \in Inodes /\ p # << >> /\ i = Lstat(fs', <<p[1]>>) /\ fs'[i].kind = "link"
    BY <1>1 DEF HeadLinks
  <2>2. Is(fs', Lstat(fs', <<p[1]>>), "link")
    BY <2>1, Numbers DEF Is
  <2>3. /\ Is(fs, Lstat(fs, <<p[1]>>), "link") /\ Lstat(fs, <<p[1]>>) = Lstat(fs', <<p[1]>>)
        /\ fs'[i] = fs[i]
    BY <2>1, <2>2, LinkWasThere
  <2>4. QED
    BY <2>1, <2>3 DEF HeadLinks, Is
<1>2. \A p : LinksOf(p)' \subseteq LinksOf(p)
  BY <1>1 DEF LinksOf
<1>3. QED
  BY <1>2 DEF Footprint, PathsOf

-------------------------------------------------------------------------------
(***************************************************************************)
(* Opening a file to write it                                              *)
(***************************************************************************)

\* Nothing changes, and a change within some paths is one within more.
LEMMA NoChange ==
  ASSUME NEW t, IsTree(t), NEW P, P \subseteq Seq(Names)
  PROVE  Changes(t, t, P) /\ Moves(t, t, P)
<1>1. Evolves(t, t) /\ Frame(t, t, P)
  BY DEF Evolves, Frame
<1>2. QED
  BY <1>1 DEF Changes, Moves

\* A change below some paths is one below any paths that cover them.
LEMMA Widened ==
  ASSUME NEW t, NEW u, NEW P, NEW Q, Q \subseteq Seq(Names), \A p \in P : Covered(Q, p),
         Changes(t, u, P), Moves(t, u, P)
  PROVE  Changes(t, u, Q) /\ Moves(t, u, Q)
<1>1. ASSUME NEW x \in Seq(Names), Covered(P, x)
      PROVE  Covered(Q, x)
  <2>1. PICK p \in P : IsPrefix(p, x)
    BY <1>1 DEF Covered
  <2>2. PICK q \in Q : IsPrefix(q, p)
    BY <2>1 DEF Covered
  <2>3. p \in Seq(Names) /\ q \in Seq(Names)
    BY <2>1, <2>2 DEF Changes
  <2>4. IsPrefix(q, x)
    BY <2>1, <2>2, <2>3, PrefixLaws
  <2>5. QED
    BY <2>2, <2>4 DEF Covered
<1>2. Frame(t, u, Q)
  BY <1>1 DEF Changes, Frame
<1>3. Moves(t, u, Q)
  BY <1>1 DEF Moves
<1>4. QED
  BY <1>2, <1>3 DEF Changes

\* What open(2) gets to at a path is at a path without links.
LEMMA OpenedIs ==
  ASSUME NEW t, IsTree(t), NEW p \in Seq(Names), Direct(t, p)
  PROVE  /\ Opened(t, p) \in Seq(Names) /\ Direct(t, Opened(t, p))
         /\ Lstat(t, Opened(t, p)) = Stat(t, p)
         /\ Is(t, Lstat(t, p), "link") => t[Lstat(t, p)].to \in Names
<1> DEFINE i == Lstat(t, p)
<1>1. CASE Is(t, i, "link")
  <2>1. i \in Inodes /\ t[i].kind = "link"
    BY <1>1, LstatIs DEF Is, Points
  <2>2. t[i].to \in Names
    BY <2>1, NodeIs
  <2>3. << >> \in Seq(Names) /\ <<t[i].to>> \in Seq(Names)
    BY <2>2
  <2>4. Direct(t, <<t[i].to>>)
    BY <2>2, <2>3, DirectAppend
  <2>5. Lstat(t, <<t[i].to>>) = Entry(t, Root, t[i].to)
    BY LstatOfName
  <2>6. Is(t, Root, "dir")
    BY Numbers DEF Is, IsTree
  <2>7. Stat(t, p) = Entry(t, Root, t[i].to)
    BY <1>1, <2>2, <2>6 DEF Stat, Follow, Entry
  <2>8. QED
    BY <1>1, <2>2, <2>3, <2>4, <2>5, <2>7 DEF Opened
<1>2. CASE ~Is(t, i, "link")
  BY <1>2 DEF Opened, Stat, Follow
<1>3. QED
  BY <1>1, <1>2

\* open with O_CREAT changes what is there at that path alone, and what is
\* opened is at that path alone (os.OpenFile).
LEMMA CreatedIs ==
  ASSUME NEW t, IsTree(t), HasRoom(t), NEW p \in Seq(Names), Direct(t, p)
  PROVE  LET u == Created(t, p)
             q == Opened(t, p)
         IN  /\ Changes(t, u, {q}) /\ Moves(t, u, {q})
             /\ Direct(u, q) /\ Lstat(u, q) = Stat(u, p)
<1> DEFINE u == Created(t, p)
           q == Opened(t, p)
           i == Lstat(t, p)
           new == File(<< >>)
<1>1. /\ q \in Seq(Names) /\ Direct(t, q) /\ Lstat(t, q) = Stat(t, p)
      /\ Is(t, i, "link") => t[i].to \in Names
  BY OpenedIs
<1>2. u = IF CanMake(t, q) THEN Make(t, q, new) ELSE t
  BY DEF Created, Opened
<1>3. Is(t, i, "link") => q = <<t[i].to>>
  BY DEF Opened
<1>4. ~Is(t, i, "link") => q = p
  BY DEF Opened
<1> HIDE DEF u, q, new
<1> SUFFICES /\ Changes(t, u, {q}) /\ Moves(t, u, {q})
             /\ Direct(u, q) /\ Lstat(u, q) = Stat(u, p)
  BY DEF u, q
<1>5. CASE ~CanMake(t, q)
  BY <1>1, <1>2, <1>5, NoChange
<1>6. CASE CanMake(t, q)
  <2>1. new \in {File(<< >>), EmptyDir} /\ new.kind = "file"
    BY DEF new, File
  <2>2. /\ Changes(t, u, {q}) /\ Moves(t, u, {q})
        /\ Direct(u, q) /\ Lstat(u, q) \in Inodes /\ u[Lstat(u, q)] = new
    BY <1>1, <1>2, <1>6, <2>1, MakeIs
  <2>3. Lstat(t, q) = None /\ q # << >>
    BY <1>6 DEF CanMake
  <2>4. CASE ~Is(t, i, "link")
    <3>1. ~Is(u, Lstat(u, q), "link")
      BY <2>1, <2>2 DEF Is
    <3>2. Stat(u, q) = Lstat(u, q)
      BY <3>1 DEF Stat, Follow
    <3>3. QED
      BY <1>4, <2>2, <2>4, <3>2
  <2>5. CASE Is(t, i, "link")
    <3>1. i # None /\ i \in Inodes /\ t[i].kind = "link" /\ t[i] # Free
      BY <2>5, LstatIs DEF Is, Points, Free
    <3>2. ~Covered({q}, p)
      <4> SUFFICES ASSUME IsPrefix(q, p)
                   PROVE  FALSE
        BY DEF Covered
      <4>1. q # p
        BY <2>3, <3>1
      <4>2. Is(t, Lstat(t, q), "dir")
        BY <1>1, <3>1, <4>1, BelowIs
      <4>3. QED
        BY <2>3, <4>2 DEF Is
    <3>3. Lstat(u, p) = i /\ u[i] = t[i] /\ IsTree(u)
      BY <2>2, <3>1, <3>2 DEF Changes, Frame, Evolves
    <3>4. Is(u, Root, "dir")
      BY <3>3, Numbers DEF Is, IsTree
    <3>5. Stat(u, p) = Entry(u, Root, t[i].to)
      BY <1>1, <2>5, <3>1, <3>3, <3>4 DEF Stat, Follow, Entry, Is
    <3>6. Lstat(u, q) = Entry(u, Root, t[i].to)
      <4>1. Lstat(u, <<t[i].to>>) = Entry(u, Root, t[i].to)
        BY <3>3, LstatOfName
      <4>2. QED
        BY <1>3, <2>5, <4>1
    <3>7. QED
      BY <2>2, <3>5, <3>6
  <2>6. QED
    BY <2>4, <2>5
<1>7. QED
  BY <1>5, <1>6

\* The same when the file that was opened is emptied (O_TRUNC).
LEMMA OpenForWritingIs ==
  ASSUME NEW t, IsTree(t), HasRoom(t), NEW p \in Seq(Names), Direct(t, p),
         NEW i, i = Stat(Created(t, p), p), Is(Created(t, p), i, "file"),
         NEW truncate \in BOOLEAN,
         NEW v, v = IF truncate THEN [Created(t, p) EXCEPT ![i].text = << >>] ELSE Created(t, p)
  PROVE  LET q == Opened(t, p)
         IN  /\ Changes(t, v, {q}) /\ Moves(t, v, {q})
             /\ i \in Inodes /\ Is(v, i, "file")
             /\ Within(v, i, {q})
<1> DEFINE u == Created(t, p)
           q == Opened(t, p)
<1>1. /\ Changes(t, u, {q}) /\ Moves(t, u, {q})
      /\ Direct(u, q) /\ Lstat(u, q) = i /\ q \in Seq(Names)
  BY CreatedIs, OpenedIs
<1>2. i = Stat(u, p) /\ Is(u, i, "file") /\ v = IF truncate THEN [u EXCEPT ![i].text = << >>] ELSE u
  OBVIOUS
<1> HIDE DEF u, q
<1>3. IsTree(u) /\ i # None /\ i \in Inodes /\ u[i].kind = "file"
  BY <1>1, <1>2, LstatIs DEF Is, Points, Changes
<1>4. Within(u, i, {q})
  <2>1. \A x \in Seq(Names) : Direct(u, x) /\ Lstat(u, x) = i => x = q
    BY <1>1, <1>3, OnePath
  <2>2. IsPrefix(q, q)
    BY <1>1, PrefixLaws
  <2>3. QED
    BY <2>1, <2>2 DEF Within, Covered
<1>5. CASE ~truncate
  BY <1>1, <1>2, <1>3, <1>4, <1>5 DEF q
<1>6. CASE truncate
  <2> DEFINE s == << >>
             P == {q}
  <2>0. s \in Seq(Nat)
    OBVIOUS
  <2>1. v = Rewritten(u, i, s)
    BY <1>2, <1>6 DEF Rewritten
  <2>2. P \subseteq Seq(Names) /\ Within(u, i, P)
    BY <1>1, <1>4
  <2> HIDE DEF s, P
  <2>3. Changes(u, v, P) /\ SameShape(u, v)
    BY <1>3, <2>0, <2>1, <2>2, NewText
  <2>4. Changes(t, v, {q})
    <3>1. P \cup P = P /\ Changes(t, u, P)
      BY <1>1 DEF P
    <3>2. Changes(t, v, P \cup P)
      BY <2>3, <3>1, ChangesCompose
    <3>3. QED
      BY <3>1, <3>2 DEF P
  <2>5. Moves(t, v, {q})
    BY <1>1, <2>3 DEF Moves, SameShape
  <2>6. Within(v, i, {q}) /\ Is(v, i, "file")
    BY <1>3, <1>4, <2>3 DEF Within, SameShape, Is
  <2>7. QED
    BY <1>3, <2>4, <2>5, <2>6 DEF q
<1>7. QED
  BY <1>5, <1>6

-------------------------------------------------------------------------------
(***************************************************************************)
(* Resolving the paths of a call                                           *)
(***************************************************************************)

\* A call and paths P that it may touch.
MayTouch(c, P) == P \subseteq Paths /\ Footprint(c) \subseteq P

\* What a path of a call leads to is within its paths.
LEMMA ResolvedIs ==
  ASSUME IsTree(fs), NEW c, NEW P, MayTouch(c, P), NEW p \in Seq(Names), p \in PathsOf(c)
  PROVE  /\ Canonical(fs, p) \in Seq(Names) /\ Straight(fs, Canonical(fs, p))
         /\ Direct(fs, Canonical(fs, p)) /\ Opened(fs, Canonical(fs, p)) = Canonical(fs, p)
         /\ Covered(P, Canonical(fs, p)) /\ Covered(P, p)
         /\ p = << >> => Canonical(fs, p) = << >>
<1> DEFINE k == Canonical(fs, p)
           i == Lstat(fs, <<p[1]>>)
<1>1. /\ k \in Seq(Names) /\ Straight(fs, k) /\ (k = << >> <=> p = << >>)
      /\ p # << >> => IF Is(fs, i, "link") THEN k[1] = fs[i].to ELSE k = p
  BY CanonicalIs
<1> HIDE DEF k
<1>2. Direct(fs, k) /\ ~Is(fs, Lstat(fs, k), "link")
  <2>1. \A n \in Names : Straight(fs, k) => Direct(fs, k)
    BY <1>1, DirectAppend
  <2>2. k = << >> => Direct(fs, k)
    BY DEF Direct
  <2>3. k # << >> => k[1] \in Names
    BY <1>1, HeadIsPrefix
  <2>4. QED
    BY <1>1, <2>1, <2>2, <2>3, StraightIs
<1>3. p \in P
  BY DEF MayTouch, Footprint
<1>4. Covered(P, p)
  BY <1>3, PrefixLaws DEF Covered
<1>5. Covered(P, k)
  <2>1. CASE p = << >> \/ ~Is(fs, i, "link")
    BY <1>1, <1>4, <2>1
  <2>2. CASE p # << >> /\ Is(fs, i, "link")
    <3>1. k[1] = fs[i].to /\ k # << >>
      BY <1>1, <2>2
    <3>2. i \in HeadLinks(p)
      <4>1. <<p[1]>> \in Seq(Names)
        BY <2>2, HeadIsPrefix
      <4>2. i \in Points
        BY <4>1, LstatIs
      <4>3. QED
        BY <2>2, <4>2 DEF HeadLinks, Is, Points
    <3>3. <<fs[i].to>> \in P
      BY <3>2 DEF LinksOf, MayTouch, Footprint
    <3>4. IsPrefix(<<k[1]>>, k)
      BY <1>1, <3>1, HeadIsPrefix
    <3>5. QED
      BY <3>1, <3>3, <3>4 DEF Covered
  <2>3. QED
    BY <2>1, <2>2
<1>6. QED
  BY <1>1, <1>2, <1>4, <1>5 DEF k, Opened

\* The same of the parent of a path that leads to nothing, and the name in it.
LEMMA ParentIs ==
  ASSUME IsTree(fs), NEW c, NEW P, MayTouch(c, P),
         NEW p \in Seq(Names), p # << >>, p \in PathsOf(c),
         NEW d, d = Append(Canonical(fs, Front(p)), Last(p))
  PROVE  /\ d \in Seq(Names) /\ Direct(fs, d) /\ Covered(P, d) /\ Covered(P, Opened(fs, d))
<1> DEFINE f == Front(p)
           n == Last(p)
           k == Canonical(fs, f)
           i == Lstat(fs, <<p[1]>>)
           j == Lstat(fs, d)
<1>1. f \in Seq(Names) /\ n \in Names /\ p = Append(f, n)
  BY FrontAndLast
<1>2. d = Append(k, n)
  OBVIOUS
<1> HIDE DEF f, n
<1>3. p[1] = IF f = << >> THEN n ELSE f[1]
  BY <1>1, HeadOfAppend
<1>4. /\ k \in Seq(Names) /\ Straight(fs, k) /\ (k = << >> <=> f = << >>)
      /\ f # << >> => IF Is(fs, i, "link") THEN k[1] = fs[i].to ELSE k = f
  BY <1>1, <1>3, CanonicalIs
<1> HIDE DEF k
<1>5. d \in Seq(Names) /\ Direct(fs, d)
  <2>1. Direct(fs, Append(k, n))
    BY <1>1, <1>4, DirectAppend
  <2>2. Append(k, n) \in Seq(Names)
    BY <1>1, <1>4, AppendProperties
  <2>3. QED
    BY <1>2, <2>1, <2>2
<1>6. p \in P
  BY DEF MayTouch, Footprint
<1>7. Is(fs, i, "link") => <<fs[i].to>> \in P
  <2> SUFFICES ASSUME Is(fs, i, "link")
               PROVE  <<fs[i].to>> \in P
    OBVIOUS
  <2>1. <<p[1]>> \in Seq(Names)
    BY HeadIsPrefix
  <2>2. i \in HeadLinks(p)
    BY <2>1, LstatIs DEF HeadLinks, Is, Points
  <2>3. QED
    BY <2>2 DEF LinksOf, MayTouch, Footprint
<1>8. CASE f = << >>
  <2>1. d = p /\ p = <<p[1]>>
    <3>1. p = <<n>> /\ d = <<n>>
      <4>1. Append(<< >>, n) = <<n>>
        OBVIOUS
      <4>2. QED
        BY <1>1, <1>2, <1>4, <1>8, <4>1, Zenon
    <3>2. QED
      BY <3>1
  <2>2. Covered(P, d)
    BY <1>6, <2>1, PrefixLaws DEF Covered
  <2>3. Is(fs, j, "link") => Covered(P, <<fs[j].to>>)
    <3> SUFFICES ASSUME Is(fs, j, "link")
                 PROVE  Covered(P, <<fs[j].to>>)
      OBVIOUS
    <3>1. j = i
      BY <2>1
    <3> DEFINE o == <<fs[j].to>>
    <3>2. o \in P /\ o \in Seq(Names)
      <4>1. fs[j].to \in Names
        BY <1>5, OpenedIs
      <4>2. QED
        BY <1>7, <3>1, <4>1
    <3> HIDE DEF o
    <3>3. Covered(P, o)
      BY <3>2, PrefixLaws DEF Covered
    <3>4. QED
      BY <3>3 DEF o
  <2>4. QED
    BY <1>5, <2>2, <2>3 DEF Opened
<1>9. CASE f # << >>
  <2>1. Straight(fs, d) /\ d # << >> /\ d[1] = k[1]
    <3>1. Straight(fs, Append(k, n))
      BY <1>1, <1>4, <1>9, DirectAppend
    <3>2. Append(k, n) # << >> /\ Append(k, n)[1] = k[1]
      BY <1>1, <1>4, <1>9, HeadOfAppend
    <3>3. QED
      BY <1>2, <3>1, <3>2
  <2>2. ~Is(fs, j, "link")
    BY <1>5, <2>1, StraightIs
  <2>3. Covered(P, d)
    <3>1. CASE Is(fs, i, "link")
      <4>1. IsPrefix(<<d[1]>>, d)
        BY <1>5, <2>1, HeadIsPrefix
      <4>2. d[1] = fs[i].to
        BY <1>4, <1>9, <2>1, <3>1
      <4>3. QED
        BY <1>7, <3>1, <4>1, <4>2 DEF Covered
    <3>2. CASE ~Is(fs, i, "link")
      <4>1. d = p
        BY <1>1, <1>2, <1>4, <1>9, <3>2
      <4>2. QED
        BY <1>6, <4>1, PrefixLaws DEF Covered
    <3>3. QED
      BY <3>1, <3>2
  <2>4. QED
    BY <1>5, <2>2, <2>3 DEF Opened
<1>10. QED
  BY <1>8, <1>9

-------------------------------------------------------------------------------
(***************************************************************************)
(* The invariant                                                           *)
(***************************************************************************)

Fields == {"pc", "call", "id", "src", "dst", "in", "fd", "walk", "size", "out", "cut", "ok",
           "asked", "broken", "over", "before", "paths", "quiet"}

\* When src and dst have been resolved and are still to be used, and fd is open.
HasSource(q) ==
  \/ q.call.tool = "mv" /\ q.pc \in {"dst", "parent", "check", "isdir", "rename"}
  \/ q.call.tool \in {"rm", "rmdir"} /\ q.pc \in {"check", "remove"}
HasTarget(q) ==
  \/ q.call.tool = "touch" /\ q.pc \in {"open", "chtimes"}
  \/ q.call.tool = "mkdir" /\ q.pc = "make"
  \/ q.call.tool = "cp" /\ q.pc \in {"checkdst", "opensrc", "opendst", "copy"}
  \/ q.call.tool = "mv" /\ q.pc \in {"check", "isdir", "rename"}
  \/ q.call.tool = "write_file" /\ q.pc \in {"check", "open", "write"}
HasFile(q) ==
  \/ q.call.tool = "touch" /\ q.pc = "chtimes"
  \/ q.call.tool = "cp" /\ q.pc = "copy"
  \/ q.call.tool = "write_file" /\ q.pc = "write"
NeedsParent(q) == q.pc = "parent" /\ q.call.tool \in {"touch", "mkdir", "cp", "mv", "write_file"}

Aim(c) == IF c.tool \in {"cp", "mv"} THEN c.dest ELSE c.path

\* What a request has resolved stays within its paths: no link gets into src or
\* dst, and the open file has no path elsewhere.
Aimed(t, q) ==
  /\ q.asked \/ q.pc = "done"
  /\ NeedsParent(q) => Cleaned(Aim(q.call)) \notin {<< >>, Escapes}
  /\ HasSource(q) => Straight(t, q.src) /\ Covered(q.paths, q.src)
  /\ HasTarget(q) => /\ Direct(t, q.dst) /\ Covered(q.paths, q.dst)
                     /\ Covered(q.paths, Opened(t, q.dst))
  /\ HasFile(q)   => q.fd \in Inodes /\ Is(t, q.fd, "file") /\ Within(t, q.fd, q.paths)

\* What a request that is left alone has checked is still so.
Agreed(t, q) ==
  /\ q.call.tool = "cp" /\ q.pc \in {"opensrc", "opendst"} => q.call.consent \/ Stat(t, q.dst) = None
  /\ q.call.tool = "mv" /\ q.pc \in {"isdir", "rename"} =>
       q.call.consent \/ Lstat(t, q.dst) = None
  /\ q.call.tool = "write_file" /\ q.pc = "open" =>
       q.call.consent \/ q.call.append \/ Lstat(t, q.dst) = None
  /\ q.over => q.call.consent

\* A request that makes its next step on tree t.
Steady(t, q) ==
  /\ DOMAIN q = Fields /\ IsRequest(q)
  /\ Aimed(t, q) /\ (q.quiet => Agreed(t, q))

\* A request that no writer came near is not near one, and writers that came
\* near each other share their paths.
Apart ==
  \A r, w \in Slots : r # w /\ Busy(r) /\ Writes(w) =>
    /\ req[r].quiet => ~Near(req[r].paths, req[w].paths)
    /\ Writes(r) => req[r].paths = req[w].paths \/ ~Near(req[r].paths, req[w].paths)

Inv ==
  /\ TypeOK
  /\ req = [r \in Slots |-> req[r]]
  /\ Apart
  /\ \A r \in Slots : Busy(r) => Steady(fs, req[r]) /\ MayTouch(req[r].call, req[r].paths)

-------------------------------------------------------------------------------
(***************************************************************************)
(* A step of a request                                                     *)
(***************************************************************************)

\* The paths below those of a request.
Region(q) == {x \in Seq(Names) : Covered(q.paths, x)}

\* q becomes u in a step from t to v that changes the tree, if at all, below
\* the paths of q.
StepOf(q, u, t, v) ==
  /\ u.call = q.call /\ u.paths = q.paths /\ u.quiet = q.quiet /\ u.asked = q.asked
  /\ u.pc # "idle" /\ Steady(v, u)
  /\ v = t \/ (Changes(t, v, Region(q)) /\ Moves(t, v, Region(q)) /\ u.pc # q.pc /\ q.call.tool \notin ReadOnly)

Advances(r) == \E u : Become(r, u) /\ StepOf(req[r], u, fs, fs')

\* A request that can make a step.
Ready(r) == /\ IsTree(fs) /\ req[r].pc # "done"
            /\ Steady(fs, req[r]) /\ MayTouch(req[r].call, req[r].paths)

\* The request is over.
LEMMA Ending ==
  ASSUME NEW r, Ready(r), NEW u, Become(r, u),
         u.pc = "done" /\ DOMAIN u = Fields /\ IsRequest(u),
         u.call = req[r].call /\ u.paths = req[r].paths /\ u.quiet = req[r].quiet /\ u.asked = req[r].asked,
         u.quiet /\ u.over => u.call.consent,
         \/ fs' = fs
         \/ /\ Changes(fs, fs', Region(req[r])) /\ Moves(fs, fs', Region(req[r]))
            /\ req[r].call.tool \notin ReadOnly
  PROVE  Advances(r)
<1>1. Aimed(fs', u) /\ (u.quiet => Agreed(fs', u))
  BY DEF Aimed, Agreed, NeedsParent, HasSource, HasTarget, HasFile
<1>2. StepOf(req[r], u, fs, fs')
  BY <1>1 DEF StepOf, Steady, Ready
<1>3. QED
  BY <1>2 DEF Advances

\* A request may fail, or succeed, at any time.
LEMMA FailsIs ==
  ASSUME NEW r, Ready(r), Keep, Fails(r) \/ Succeeds(r)
  PROVE  Advances(r)
<1> DEFINE q == req[r]
           a == [q EXCEPT !.pc = "done"]
           b == [q EXCEPT !.pc = "done", !.ok = TRUE]
<1>1. DOMAIN q = Fields /\ IsRequest(q) /\ (q.quiet => Agreed(fs, q))
  BY DEF Ready, Steady
<1>2. Become(r, a) \/ Become(r, b)
  BY DEF Fails, Succeeds
<1> HIDE DEF q
<1>3. /\ a.pc = "done" /\ DOMAIN a = Fields /\ IsRequest(a)
      /\ a.call = q.call /\ a.paths = q.paths /\ a.quiet = q.quiet /\ a.asked = q.asked
      /\ a.over = q.over
  BY <1>1 DEF Fields, IsRequest, Steps
<1>4. /\ b.pc = "done" /\ DOMAIN b = Fields /\ IsRequest(b)
      /\ b.call = q.call /\ b.paths = q.paths /\ b.quiet = q.quiet /\ b.asked = q.asked
      /\ b.over = q.over
  BY <1>1 DEF Fields, IsRequest, Steps
<1> HIDE DEF a, b
<1>5. q.quiet /\ q.over => q.call.consent
  BY <1>1 DEF Agreed
<1>6. Become(r, a) => Advances(r)
  BY <1>3, <1>5, Ending DEF Keep, q
<1>7. Become(r, b) => Advances(r)
  BY <1>4, <1>5, Ending DEF Keep, q
<1>8. QED
  BY <1>2, <1>6, <1>7

\* The request goes on, and the tree is as it was.
LEMMA GoesOn ==
  ASSUME NEW r, Ready(r), Keep, NEW u, Become(r, u), DOMAIN u = Fields /\ IsRequest(u),
         u.call = req[r].call /\ u.paths = req[r].paths /\ u.quiet = req[r].quiet /\ u.asked = req[r].asked,
         Aimed(fs, u), u.quiet => Agreed(fs, u)
  PROVE  Advances(r)
<1>1. u.pc # "idle"
  BY DEF IsRequest, Steps
<1>2. QED
  BY <1>1 DEF Keep, Advances, StepOf, Steady

\* The same to another pc, that nothing is required at.
Plain(q, pc) ==
  LET u == [q EXCEPT !.pc = pc]
  IN  /\ pc \in Steps /\ ~NeedsParent(u)
      /\ HasSource(u) => HasSource(q)
      /\ HasTarget(u) => HasTarget(q)
      /\ HasFile(u) => HasFile(q)

\* A request may go to a step at which it needs no more than it has.
LEMMA GotoIs ==
  ASSUME NEW r, Ready(r), Keep, NEW pc, Goto(r, pc), Plain(req[r], pc),
         req[r].quiet => Agreed(fs, [req[r] EXCEPT !.pc = pc])
  PROVE  Advances(r)
<1> DEFINE q == req[r]
           u == [q EXCEPT !.pc = pc]
<1>1. DOMAIN q = Fields /\ IsRequest(q) /\ Aimed(fs, q) /\ Become(r, u) /\ q.pc # "done" /\ pc \in Steps
      /\ ~NeedsParent(u) /\ (HasSource(u) => HasSource(q)) /\ (HasTarget(u) => HasTarget(q))
      /\ (HasFile(u) => HasFile(q)) /\ (q.quiet => Agreed(fs, u))
  BY DEF Ready, Steady, Goto, Plain
<1> HIDE DEF q
<1>2. /\ u.pc = pc /\ DOMAIN u = Fields /\ IsRequest(u)
      /\ u.call = q.call /\ u.paths = q.paths /\ u.quiet = q.quiet /\ u.asked = q.asked
      /\ u.over = q.over /\ u.src = q.src /\ u.dst = q.dst /\ u.fd = q.fd
  BY <1>1 DEF Fields, IsRequest, Steps
<1> HIDE DEF u
<1>3. Aimed(fs, u)
  BY <1>1, <1>2 DEF Aimed
<1>4. QED
  BY <1>1, <1>2, <1>3, GoesOn DEF q

\* A path that was resolved, to read or remove and to make or write.
Sourced(k, P)  == k \in Seq(Names) /\ Straight(fs, k) /\ Covered(P, k)
Targeted(k, P) == k \in Seq(Names) /\ Direct(fs, k) /\ Covered(P, k) /\ Covered(P, Opened(fs, k))

\* resolvePath finds a path that is within those of the request, or fails.
LEMMA ResolvePathIs ==
  ASSUME NEW r, Ready(r), NEW p \in Paths, Cleaned(p) \in PathsOf(req[r].call),
         NEW field, NEW next, ResolvePath(r, p, field, next)
  PROVE  /\ Keep
         /\ \/ Fails(r)
            \/ \E k : /\ Sourced(k, req[r].paths) /\ Targeted(k, req[r].paths)
                      /\ Become(r, [req[r] EXCEPT ![field] = k, !.pc = next])
<1> DEFINE q == Cleaned(p)
           k == Canonical(fs, q)
<1>1. Keep /\ (Fails(r) \/ (q # Escapes /\ Become(r, [req[r] EXCEPT ![field] = k, !.pc = next])))
  BY DEF ResolvePath
<1>2. SUFFICES ASSUME q # Escapes
               PROVE  Sourced(k, req[r].paths) /\ Targeted(k, req[r].paths)
  BY <1>1
<1>3. q \in Seq(Names) /\ q \in PathsOf(req[r].call)
  BY <1>2, CleanedIs DEF CleanPaths
<1>4. IsTree(fs) /\ MayTouch(req[r].call, req[r].paths)
  BY DEF Ready
<1> HIDE DEF q
<1>5. QED
  BY <1>3, <1>4, ResolvedIs DEF Sourced, Targeted

\* The steps that find a target, and those that find a source.
FindsTarget(c, pc, next) ==
  /\ pc \in {"begin", "dst", "parent"}
  /\ \/ c.tool = "touch" /\ pc # "dst" /\ next = "open"
     \/ c.tool = "mkdir" /\ pc # "dst" /\ next = "make"
     \/ c.tool = "write_file" /\ pc # "dst" /\ next = "check"
     \/ c.tool = "cp" /\ pc # "begin" /\ next = "checkdst"
     \/ c.tool = "mv" /\ pc # "begin" /\ next = "check"

\* A request takes a path that was found as its target.
LEMMA TargetIs ==
  ASSUME NEW r, Ready(r), NEW next, FindsTarget(req[r].call, req[r].pc, next),
         NEW k, Targeted(k, req[r].paths), Keep,
         Become(r, [req[r] EXCEPT !.dst = k, !.pc = next])
  PROVE  Advances(r)
<1> DEFINE q == req[r]
           u == [q EXCEPT !.dst = k, !.pc = next]
<1>1. DOMAIN q = Fields /\ IsRequest(q) /\ Aimed(fs, q) /\ (q.quiet => Agreed(fs, q))
  BY DEF Ready, Steady
<1>2. Become(r, u) /\ Targeted(k, q.paths) /\ FindsTarget(q.call, q.pc, next) /\ q.pc # "done"
  BY DEF Ready
<1> HIDE DEF q
<1>3. next \in Steps /\ next # "parent" /\ next # "done" /\ k \in Seq(Names)
  BY <1>2 DEF FindsTarget, Steps, Targeted
<1>4. /\ u.pc = next /\ u.dst = k /\ DOMAIN u = Fields /\ IsRequest(u)
      /\ u.call = q.call /\ u.paths = q.paths /\ u.quiet = q.quiet /\ u.asked = q.asked
      /\ u.over = q.over /\ u.src = q.src /\ u.fd = q.fd
  BY <1>1, <1>3 DEF Fields, IsRequest
<1> HIDE DEF u
<1>5. ~HasFile(u) /\ ~NeedsParent(u) /\ (HasSource(u) => HasSource(q))
  BY <1>2, <1>4 DEF FindsTarget, HasFile, NeedsParent, HasSource
<1>6. Aimed(fs, u)
  BY <1>1, <1>2, <1>4, <1>5 DEF Aimed, Targeted
<1>7. u.quiet => Agreed(fs, u)
  BY <1>1, <1>2, <1>4 DEF Agreed, FindsTarget
<1>8. QED
  BY <1>1, <1>2, <1>4, <1>6, <1>7, GoesOn DEF q

\* The paths in the arguments of a call are paths of the call.
LEMMA AimIs ==
  ASSUME NEW c \in Calls
  PROVE  /\ Aim(c) \in Paths /\ Cleaned(Aim(c)) \in PathsOf(c)
         /\ c.path \in Paths /\ Cleaned(c.path) \in PathsOf(c)
BY CallAssumption DEF Aim, PathsOf

\* resolveTouchPath finds a target, or leaves it to the parent.
LEMMA TouchPathIs ==
  ASSUME NEW r, Ready(r), NEW next, FindsTarget(req[r].call, req[r].pc, next), req[r].pc # "parent",
         ResolveTouchPath(r, Aim(req[r].call), next)
  PROVE  Advances(r)
<1> DEFINE p == Aim(req[r].call)
           q == Cleaned(p)
<1>1. p \in Paths /\ q \in PathsOf(req[r].call)
  BY AimIs DEF Ready, Steady, IsRequest
<1>2. CASE q # Escapes /\ q # << >> /\ Stat(fs, q) = None
  <2>1. Goto(r, "parent") /\ Keep
    BY <1>2 DEF ResolveTouchPath
  <2> DEFINE o == req[r]
             u == [o EXCEPT !.pc = "parent"]
  <2>2. DOMAIN o = Fields /\ IsRequest(o) /\ Aimed(fs, o) /\ (o.quiet => Agreed(fs, o))
        /\ FindsTarget(o.call, o.pc, next) /\ o.pc # "done" /\ Become(r, u)
        /\ Cleaned(Aim(o.call)) \notin {<< >>, Escapes}
    BY <1>2, <2>1 DEF Ready, Steady, Goto
  <2> HIDE DEF o
  <2>3. /\ u.pc = "parent" /\ DOMAIN u = Fields /\ IsRequest(u)
        /\ u.call = o.call /\ u.paths = o.paths /\ u.quiet = o.quiet /\ u.asked = o.asked
        /\ u.over = o.over /\ u.src = o.src
    BY <2>2 DEF Fields, IsRequest, Steps
  <2> HIDE DEF u
  <2>4. ~HasFile(u) /\ ~HasTarget(u) /\ (HasSource(u) => HasSource(o))
    BY <2>2, <2>3 DEF FindsTarget, HasFile, HasTarget, HasSource
  <2>5. Aimed(fs, u)
    BY <2>2, <2>3, <2>4 DEF Aimed
  <2>6. u.quiet => Agreed(fs, u)
    BY <2>2, <2>3 DEF Agreed
  <2>7. QED
    BY <2>1, <2>2, <2>3, <2>5, <2>6, GoesOn DEF o
<1>3. CASE ~(q # Escapes /\ q # << >> /\ Stat(fs, q) = None)
  <2>1. ResolvePath(r, p, "dst", next)
    BY <1>3 DEF ResolveTouchPath
  <2> HIDE DEF p
  <2>2. Keep /\ (Fails(r) \/ \E k : /\ Targeted(k, req[r].paths)
                                    /\ Become(r, [req[r] EXCEPT !["dst"] = k, !.pc = next]))
    BY <1>1, <2>1, ResolvePathIs
  <2>3. QED
    BY <2>2, FailsIs, TargetIs
<1>4. QED
  BY <1>2, <1>3

\* The parent and the last name give a target.
LEMMA ParentPathIs ==
  ASSUME NEW r, Ready(r), NEW next, FindsTarget(req[r].call, req[r].pc, next),
         ResolveParent(r, Aim(req[r].call), next)
  PROVE  Advances(r)
<1> DEFINE p == Aim(req[r].call)
           q == Cleaned(p)
           d == Append(Canonical(fs, Front(q)), Last(q))
<1>1. p \in Paths /\ q \in PathsOf(req[r].call)
  BY AimIs DEF Ready, Steady, IsRequest
<1>2. Keep /\ req[r].pc = "parent" /\ (Fails(r) \/ Become(r, [req[r] EXCEPT !.dst = d, !.pc = next]))
  BY DEF ResolveParent
<1>3. q # << >> /\ q # Escapes
  <2>1. NeedsParent(req[r])
    BY <1>2 DEF NeedsParent, FindsTarget
  <2>2. QED
    BY <2>1 DEF Ready, Steady, Aimed
<1>4. q \in Seq(Names)
  BY <1>1, <1>3, CleanedIs DEF CleanPaths
<1>5. IsTree(fs) /\ MayTouch(req[r].call, req[r].paths)
  BY DEF Ready
<1> HIDE DEF q
<1>6. Targeted(d, req[r].paths)
  BY <1>1, <1>3, <1>4, <1>5, ParentIs DEF Targeted
<1> HIDE DEF d
<1>7. QED
  BY <1>2, <1>6, FailsIs, TargetIs

FindsSource(c, next) ==
  \/ c.tool = "ls" /\ next = "list"
  \/ c.tool \in {"cat", "find", "rm", "rmdir"} /\ next = "check"
  \/ c.tool = "cp" /\ next = "checksrc"
  \/ c.tool = "mv" /\ next = "dst"

\* resolvePath finds a source.
LEMMA SourcePathIs ==
  ASSUME NEW r, Ready(r), req[r].pc = "begin", NEW next, FindsSource(req[r].call, next),
         ResolvePath(r, req[r].call.path, "src", next)
  PROVE  Advances(r)
<1> DEFINE q == req[r]
<1>1. DOMAIN q = Fields /\ IsRequest(q) /\ Aimed(fs, q) /\ (q.quiet => Agreed(fs, q)) /\ FindsSource(q.call, next)
  BY DEF Ready, Steady
<1>2. q.call.path \in Paths /\ Cleaned(q.call.path) \in PathsOf(q.call)
  BY <1>1, AimIs DEF IsRequest
<1>3. Keep /\ (Fails(r) \/ \E k : /\ Sourced(k, q.paths)
                                  /\ Become(r, [q EXCEPT !["src"] = k, !.pc = next]))
  BY <1>2, ResolvePathIs
<1>4. ASSUME NEW k, Sourced(k, q.paths), Become(r, [q EXCEPT !["src"] = k, !.pc = next])
      PROVE  Advances(r)
  <2> DEFINE u == [q EXCEPT !["src"] = k, !.pc = next]
  <2>1. Become(r, u) /\ Sourced(k, q.paths)
    BY <1>4
  <2> HIDE DEF q
  <2>2. next \in Steps /\ next # "parent" /\ next # "done" /\ k \in Seq(Names)
    BY <1>1, <2>1 DEF FindsSource, Steps, Sourced
  <2>3. /\ u.pc = next /\ u.src = k /\ DOMAIN u = Fields /\ IsRequest(u)
        /\ u.call = q.call /\ u.paths = q.paths /\ u.quiet = q.quiet /\ u.asked = q.asked
        /\ u.over = q.over
    BY <1>1, <2>2 DEF Fields, IsRequest
  <2> HIDE DEF u
  <2>4. ~HasFile(u) /\ ~NeedsParent(u) /\ ~HasTarget(u)
    BY <1>1, <2>3 DEF FindsSource, HasFile, NeedsParent, HasTarget
  <2>5. q.asked
    BY <1>1 DEF Aimed, q
  <2>6. Aimed(fs, u)
    BY <2>1, <2>3, <2>4, <2>5 DEF Aimed, Sourced
  <2>7. u.quiet => Agreed(fs, u)
    BY <1>1, <2>3 DEF Agreed, FindsSource
  <2>8. QED
    BY <1>3, <2>1, <2>3, <2>6, <2>7, GoesOn DEF q
<1>5. QED
  BY <1>3, <1>4, FailsIs

\* The steps that open a file, and the consent they need.
Opens(c, pc, next) ==
  \/ c.tool = "touch" /\ pc = "open" /\ next = "chtimes"
  \/ c.tool = "cp" /\ pc = "opendst" /\ next = "copy"
  \/ c.tool = "write_file" /\ pc = "open" /\ next = "write"

\* Opening a target changes the tree below the paths of the request only, and
\* gives a file that has its paths there.
LEMMA OpensIs ==
  ASSUME NEW r, Ready(r), NEW next, Opens(req[r].call, req[r].pc, next), NEW truncate \in BOOLEAN,
         req[r].quiet /\ truncate /\ Stat(fs, req[r].dst) # None => req[r].call.consent,
         OpenForWriting(r, truncate, next)
  PROVE  Advances(r)
<1> DEFINE q    == req[r]
           p    == q.dst
           made == Created(fs, p)
           i    == Stat(made, p)
           over == truncate /\ Stat(fs, p) # None
           u    == [q EXCEPT !.pc = next, !.fd = i, !.over = over]
           v    == IF truncate THEN [made EXCEPT ![i].text = << >>] ELSE made
<1>1. /\ DOMAIN q = Fields /\ IsRequest(q) /\ Aimed(fs, q) /\ (q.quiet => Agreed(fs, q))
      /\ Opens(q.call, q.pc, next) /\ IsTree(fs) /\ q.paths \subseteq Paths
  BY DEF Ready, Steady, MayTouch
<1>2. HasRoom(fs) /\ IF Is(made, i, "file") THEN fs' = v /\ Become(r, u) ELSE Keep /\ Fails(r)
  BY DEF OpenForWriting
<1>3. CASE ~Is(made, i, "file")
  BY <1>2, <1>3, FailsIs
<1>4. CASE Is(made, i, "file")
  <2>1. HasTarget(q)
    BY <1>1 DEF Opens, HasTarget
  <2>2. p \in Seq(Names) /\ Direct(fs, p) /\ Covered(q.paths, Opened(fs, p))
    BY <1>1, <2>1 DEF Aimed, IsRequest
  <2> DEFINE o == Opened(fs, p)
             w == fs'
  <2>3. /\ Changes(fs, w, {o}) /\ Moves(fs, w, {o})
        /\ i \in Inodes /\ Is(w, i, "file") /\ Within(w, i, {o})
    <3>1. fs' = v
      BY <1>2, <1>4
    <3>2. ASSUME NEW x, x = v
          PROVE  /\ Changes(fs, x, {o}) /\ Moves(fs, x, {o})
                 /\ i \in Inodes /\ Is(x, i, "file") /\ Within(x, i, {o})
      BY <1>1, <1>2, <1>4, <2>2, <3>2, OpenForWritingIs
    <3> HIDE DEF v, o, i
    <3>3. QED
      BY <3>1, <3>2
  <2>4. o \in Seq(Names)
    BY <1>1, <2>2, OpenedIs
  <2>5. Become(r, u) /\ over \in BOOLEAN
    BY <1>2, <1>4
  <2>6. q.quiet /\ over => q.call.consent
    OBVIOUS
  <2> HIDE DEF o, i, over, p, q, v, made
  <2>7. Changes(fs, fs', Region(q)) /\ Moves(fs, fs', Region(q))
    <3>1. Region(q) \subseteq Seq(Names)
      BY DEF Region
    <3>2. \A x \in {o} : Covered(Region(q), x)
      <4>1. o \in Region(q)
        BY <2>2, <2>4 DEF Region, o
      <4>2. QED
        BY <2>4, <4>1, PrefixLaws DEF Covered
    <3>3. QED
      BY <2>3, <3>1, <3>2, Widened
  <2>8. Within(fs', i, q.paths)
    <3> SUFFICES ASSUME NEW x \in Seq(Names), Direct(fs', x), Lstat(fs', x) = i
                 PROVE  Covered(q.paths, x)
      BY DEF Within
    <3>1. IsPrefix(o, x)
      BY <2>3 DEF Within, Covered
    <3>2. PICK y \in q.paths : IsPrefix(y, o)
      BY <2>2 DEF Covered, o
    <3> DEFINE S == Names \cup {".."}
    <3>3. y \in Seq(S) /\ o \in Seq(S) /\ x \in Seq(S)
      BY <1>1, <2>4, <3>2 DEF Paths
    <3> HIDE DEF S
    <3>4. IsPrefix(y, x)
      BY <3>1, <3>2, <3>3, PrefixLaws
    <3>5. QED
      BY <3>2, <3>4 DEF Covered
  <2>9. next \in Steps /\ next # "parent" /\ next # q.pc /\ next # "idle" /\ q.pc # "done"
    BY <1>1 DEF Opens, Steps
  <2>10. /\ u.pc = next /\ u.fd = i /\ u.over = over /\ DOMAIN u = Fields /\ IsRequest(u)
         /\ u.call = q.call /\ u.paths = q.paths /\ u.quiet = q.quiet /\ u.asked = q.asked
         /\ u.dst = q.dst
    BY <1>1, <2>3, <2>5, <2>9 DEF Fields, IsRequest
  <2> HIDE DEF u
  <2>11. ~NeedsParent(u) /\ ~HasSource(u)
    BY <1>1, <2>10 DEF Opens, HasSource, NeedsParent
  <2>12. Direct(fs', u.dst) /\ Covered(u.paths, u.dst) /\ Covered(u.paths, Opened(fs', u.dst))
    <3>1. Direct(fs, q.dst) /\ Covered(q.paths, q.dst) /\ Covered(q.paths, Opened(fs, q.dst)) /\ q.dst \in Seq(Names)
      BY <1>1, <2>1 DEF Aimed, IsRequest
    <3>2. IsTree(fs') /\ Evolves(fs, fs')
      BY <2>3 DEF Changes
    <3>3. QED
      BY <1>1, <2>10, <3>1, <3>2, StaysTargeted
  <2>13. Aimed(fs', u)
    BY <1>1, <2>3, <2>8, <2>9, <2>10, <2>11, <2>12 DEF Aimed
  <2>14. u.quiet => Agreed(fs', u)
    BY <1>1, <2>6, <2>10 DEF Opens, Agreed
  <2>15. q.call.tool \notin ReadOnly
    BY <1>1 DEF Opens, ReadOnly
  <2>16. StepOf(q, u, fs, fs')
    BY <2>7, <2>9, <2>10, <2>13, <2>14, <2>15 DEF StepOf, Steady
  <2>17. QED
    BY <2>5, <2>16 DEF Advances, q
<1>5. QED
  BY <1>3, <1>4

\* A write changes what is seen where the open file is (File.Write, io.Copy).
LEMMA WriteIs ==
  ASSUME NEW r, Ready(r), HasFile(req[r]), NEW text \in Seq(Nat), Write(r, text)
  PROVE  Advances(r)
<1> DEFINE q == req[r]
           a == [q EXCEPT !.pc = "done", !.broken = TRUE]
           b == [q EXCEPT !.pc = "done", !.ok = TRUE]
<1>1. /\ DOMAIN q = Fields /\ IsRequest(q) /\ Aimed(fs, q) /\ (q.quiet => Agreed(fs, q))
      /\ IsTree(fs) /\ HasFile(q)
  BY DEF Ready, Steady
<1>2. \/ Become(r, a) /\ Keep
      \/ Become(r, b) /\ fs' = Rewritten(fs, q.fd, text)
  BY DEF Write, Succeeds, Rewritten
<1> HIDE DEF q
<1>3. /\ a.pc = "done" /\ DOMAIN a = Fields /\ IsRequest(a)
      /\ a.call = q.call /\ a.paths = q.paths /\ a.quiet = q.quiet /\ a.asked = q.asked
      /\ a.over = q.over
  BY <1>1 DEF Fields, IsRequest, Steps
<1>4. /\ b.pc = "done" /\ DOMAIN b = Fields /\ IsRequest(b)
      /\ b.call = q.call /\ b.paths = q.paths /\ b.quiet = q.quiet /\ b.asked = q.asked
      /\ b.over = q.over
  BY <1>1 DEF Fields, IsRequest, Steps
<1> HIDE DEF a, b
<1>5. q.quiet /\ q.over => q.call.consent
  BY <1>1 DEF Agreed
<1>6. CASE Become(r, a) /\ Keep
  BY <1>3, <1>5, <1>6, Ending DEF Keep, q
<1>7. CASE Become(r, b) /\ fs' = Rewritten(fs, q.fd, text)
  <2>1. q.fd \in Inodes /\ fs[q.fd].kind = "file" /\ Within(fs, q.fd, q.paths)
    BY <1>1 DEF Aimed, Is
  <2> DEFINE P == Region(q)
  <2>2. P \subseteq Seq(Names)
    BY DEF Region
  <2>3. Within(fs, q.fd, P)
    <3> SUFFICES ASSUME NEW x \in Seq(Names), Direct(fs, x), Lstat(fs, x) = q.fd
                 PROVE  Covered(P, x)
      BY DEF Within
    <3>1. x \in P
      BY <2>1 DEF Within, Region
    <3>2. QED
      BY <3>1, PrefixLaws DEF Covered
  <2>4. q.call.tool \notin ReadOnly
    BY <1>1 DEF HasFile, ReadOnly
  <2> DEFINE v == fs'
             i == q.fd
  <2>5. v = Rewritten(fs, i, text)
    BY <1>7
  <2>6. i \in Inodes /\ fs[i].kind = "file" /\ Within(fs, i, P)
    BY <2>1, <2>3
  <2> HIDE DEF P, v, i
  <2>7. Changes(fs, v, P) /\ Moves(fs, v, P)
    BY <1>1, <2>2, <2>5, <2>6, NewText
  <2>8. Changes(fs, fs', Region(req[r])) /\ Moves(fs, fs', Region(req[r]))
    BY <2>7 DEF P, v, q
  <2>9. QED
    BY <1>4, <1>5, <1>7, <2>4, <2>8, Ending DEF q
<1>8. QED
  BY <1>2, <1>6, <1>7

\* What a written file holds.
LEMMA TextIs ==
  ASSUME NEW t, IsTree(t), NEW i \in Points, Is(t, i, "file")
  PROVE  i \in Inodes /\ t[i].kind = "file" /\ t[i].text \in Seq(Nat) /\ Len(t[i].text) \in Nat
<1>1. i \in Inodes /\ t[i].kind = "file"
  BY DEF Is, Points
<1>2. t[i].text \in Seq(Nat)
  BY <1>1, NodeIs
<1>3. QED
  BY <1>1, <1>2

\* A text that is written over is a text.
LEMMA WrittenIs ==
  ASSUME NEW old \in Seq(Nat), NEW new \in Seq(Nat)
  PROVE  Written(old, new) \in Seq(Nat)
<1>1. Len(old) \in Nat /\ Len(new) \in Nat /\ \A k \in 1 .. Len(old) : old[k] \in Nat
  OBVIOUS
<1>2. SubSeq(old, Len(new) + 1, Len(old)) \in Seq(Nat)
  <2>1. \A k \in Len(new) + 1 .. Len(old) : old[k] \in Nat
    BY <1>1
  <2>2. QED
    BY <1>1, <2>1, SubSeqProperties
<1>3. QED
  BY <1>2 DEF Written

-------------------------------------------------------------------------------
(***************************************************************************)
(* The tools                                                               *)
(***************************************************************************)

\* A step that answers a read-only call.
LEMMA Reads ==
  ASSUME NEW r, Ready(r), Keep, NEW out, NEW cut \in BOOLEAN,
         Become(r, [req[r] EXCEPT !.pc = "done", !.ok = TRUE, !.out = out, !.cut = cut])
  PROVE  Advances(r)
<1> DEFINE q == req[r]
           a == [q EXCEPT !.pc = "done", !.ok = TRUE, !.out = out, !.cut = cut]
<1>1. DOMAIN q = Fields /\ IsRequest(q) /\ (q.quiet => Agreed(fs, q)) /\ Become(r, a)
  BY DEF Ready, Steady
<1> HIDE DEF q
<1>2. /\ a.pc = "done" /\ DOMAIN a = Fields /\ IsRequest(a)
      /\ a.call = q.call /\ a.paths = q.paths /\ a.quiet = q.quiet /\ a.asked = q.asked
      /\ a.over = q.over
  BY <1>1 DEF Fields, IsRequest, Steps
<1> HIDE DEF a
<1>3. q.quiet /\ q.over => q.call.consent
  BY <1>1 DEF Agreed
<1>4. QED
  BY <1>1, <1>2, <1>3, Ending DEF Keep, q

\* ls reads, and steps as a request may.
LEMMA RunLSIs ==
  ASSUME NEW r, Ready(r), RunLS(r)
  PROVE  Advances(r)
<1>1. CASE Runs(r, "ls", "begin") /\ ResolvePath(r, req[r].call.path, "src", "list")
  <2>1. FindsSource(req[r].call, "list") /\ req[r].pc = "begin"
    BY <1>1 DEF FindsSource, Runs
  <2>2. QED
    BY <1>1, <2>1, SourcePathIs
<1>2. CASE Runs(r, "ls", "list") /\ Keep /\ Fails(r)
  BY <1>2, FailsIs
<1> DEFINE out == Slice(EntriesOf(fs, Stat(fs, req[r].src), NameOrder), 1, MaxList)
           cut == Len(out) = MaxList
<1>3. CASE Keep /\ Become(r, [req[r] EXCEPT !.pc = "done", !.ok = TRUE, !.out = out, !.cut = cut])
  <2>1. cut \in BOOLEAN
    OBVIOUS
  <2> HIDE DEF out, cut
  <2>2. QED
    BY <1>3, <2>1, Reads
<1>4. QED
  BY <1>1, <1>2, <1>3 DEF RunLS

\* A step on the way of one.
LEMMA Looks ==
  ASSUME NEW r, Ready(r), Keep, req[r].call.tool \in ReadOnly,
         NEW u, Become(r, u), DOMAIN u = Fields /\ IsRequest(u),
         u.call = req[r].call /\ u.paths = req[r].paths /\ u.quiet = req[r].quiet /\ u.asked = req[r].asked,
         u.over = req[r].over
  PROVE  Advances(r)
<1>1. Aimed(fs, req[r]) /\ (req[r].quiet => Agreed(fs, req[r])) /\ req[r].pc # "done"
  BY DEF Ready, Steady
<1>2. Aimed(fs, u)
  BY <1>1 DEF Aimed, NeedsParent, HasSource, HasTarget, HasFile, ReadOnly
<1>3. u.quiet => Agreed(fs, u)
  BY <1>1 DEF Agreed, ReadOnly
<1>4. QED
  BY <1>2, <1>3, GoesOn

\* cat reads, and steps as a request may.
LEMMA RunCatIs ==
  ASSUME NEW r, Ready(r), RunCat(r)
  PROVE  Advances(r)
<1> DEFINE q == req[r]
<1>1. DOMAIN q = Fields /\ IsRequest(q) /\ IsTree(fs)
  BY DEF Ready, Steady
<1>2. CASE Runs(r, "cat", "begin") /\ ResolvePath(r, q.call.path, "src", "check")
  <2>1. FindsSource(q.call, "check") /\ q.pc = "begin"
    BY <1>2 DEF FindsSource, Runs
  <2>2. QED
    BY <1>2, <2>1, SourcePathIs
<1>3. CASE Runs(r, "cat", "check") /\ Keep /\ RunCat(r)
  <2> DEFINE i    == Lstat(fs, q.src)
             size == Len(fs[i].text)
             u    == [q EXCEPT !.pc = "open", !.size = size]
  <2>1. IF Is(fs, i, "file") THEN Become(r, u) ELSE Fails(r)
    BY <1>3 DEF RunCat, Runs
  <2>2. CASE Is(fs, i, "file")
    <3>1. q.call.tool \in ReadOnly /\ Become(r, u)
      BY <1>3, <2>1, <2>2 DEF Runs, ReadOnly
    <3>2. size \in Nat
      <4>1. i \in Points
        BY <1>1, LstatIs DEF IsRequest
      <4>2. QED
        BY <1>1, <2>2, <4>1, TextIs
    <3> HIDE DEF q, size
    <3>3. /\ DOMAIN u = Fields /\ IsRequest(u) /\ u.call = q.call /\ u.paths = q.paths
          /\ u.quiet = q.quiet /\ u.asked = q.asked /\ u.over = q.over
      BY <1>1, <3>2 DEF Fields, IsRequest, Steps
    <3> HIDE DEF u
    <3>4. QED
      BY <1>3, <3>1, <3>3, Looks DEF q
  <2>3. CASE ~Is(fs, i, "file")
    BY <1>3, <2>1, <2>3, FailsIs
  <2>4. QED
    BY <2>2, <2>3
<1>4. CASE Runs(r, "cat", "open") /\ Keep /\ RunCat(r)
  <2> DEFINE i == Stat(fs, q.src)
             u == [q EXCEPT !.pc = "read", !.in = i]
  <2>1. IF Is(fs, i, "file") THEN Become(r, u) ELSE Fails(r)
    BY <1>4 DEF RunCat, Runs
  <2>2. CASE Is(fs, i, "file")
    <3>1. q.call.tool \in ReadOnly /\ Become(r, u)
      BY <1>4, <2>1, <2>2 DEF Runs, ReadOnly
    <3>2. i \in Points
      BY <1>1, LstatIs DEF IsRequest
    <3> HIDE DEF q, i
    <3>3. /\ DOMAIN u = Fields /\ IsRequest(u) /\ u.call = q.call /\ u.paths = q.paths
          /\ u.quiet = q.quiet /\ u.asked = q.asked /\ u.over = q.over
      BY <1>1, <3>2 DEF Fields, IsRequest, Steps, Points
    <3> HIDE DEF u
    <3>4. QED
      BY <1>4, <3>1, <3>3, Looks DEF q
  <2>3. CASE ~Is(fs, i, "file")
    BY <1>4, <2>1, <2>3, FailsIs
  <2>4. QED
    BY <2>2, <2>3
<1>5. CASE Runs(r, "cat", "read") /\ Keep /\ RunCat(r)
  <2> DEFINE text   == fs[q.in].text
             size   == q.size
             offset == IF q.call.view = "tail" /\ size > MaxRead THEN size - MaxRead ELSE 0
             out    == Slice(text, offset + 1, MaxRead)
             cut    == offset > 0 \/ Len(text) - offset > MaxRead
  <2>1. Become(r, [q EXCEPT !.pc = "done", !.ok = TRUE, !.out = out, !.cut = cut])
    BY <1>5 DEF RunCat, Runs
  <2>2. cut \in BOOLEAN
    OBVIOUS
  <2> HIDE DEF out, cut
  <2>3. QED
    BY <1>5, <2>1, <2>2, Reads
<1>6. QED
  BY <1>2, <1>3, <1>4, <1>5 DEF RunCat

\* The next step of a walk.
Walks(q, pc, walk, out) == [q EXCEPT !.pc = pc, !.walk = walk, !.out = out]

\* A step of the walk of find is one that a request may make.
LEMMA WalksIs ==
  ASSUME NEW r, Ready(r), Keep, req[r].call.tool = "find", NEW pc \in Steps, NEW walk, NEW out,
         Become(r, Walks(req[r], pc, walk, out))
  PROVE  Advances(r)
<1> DEFINE q == req[r]
           u == Walks(q, pc, walk, out)
<1>1. DOMAIN q = Fields /\ IsRequest(q) /\ q.call.tool \in ReadOnly /\ Become(r, u)
  BY DEF Ready, Steady, ReadOnly
<1> HIDE DEF q
<1>2. /\ DOMAIN u = Fields /\ IsRequest(u) /\ u.call = q.call /\ u.paths = q.paths
      /\ u.quiet = q.quiet /\ u.asked = q.asked /\ u.over = q.over
  BY <1>1 DEF Fields, IsRequest, Walks
<1> HIDE DEF u
<1>3. QED
  BY <1>1, <1>2, Looks DEF q

\* The records that find becomes, as such steps.
LEMMA WalksForms ==
  ASSUME NEW q, DOMAIN q = Fields, NEW pc, NEW walk
  PROVE  /\ [q EXCEPT !.pc = pc] = Walks(q, pc, q.walk, q.out)
         /\ [q EXCEPT !.pc = pc, !.walk = walk] = Walks(q, pc, walk, q.out)
BY DEF Walks, Fields

\* find reads, and steps as a request may.
LEMMA RunFindIs ==
  ASSUME NEW r, Ready(r), RunFind(r)
  PROVE  Advances(r)
<1> DEFINE q == req[r]
<1>1. DOMAIN q = Fields
  BY DEF Ready, Steady
<1>2. CASE Runs(r, "find", "begin") /\ ResolvePath(r, q.call.path, "src", "check")
  <2>1. FindsSource(q.call, "check") /\ q.pc = "begin"
    BY <1>2 DEF FindsSource, Runs
  <2>2. QED
    BY <1>2, <2>1, SourcePathIs
<1>3. CASE Runs(r, "find", "check") /\ RunFind(r)
  <2>1. Keep /\ (Goto(r, "root") \/ Fails(r)) /\ q.call.tool = "find" /\ "root" \in Steps
    BY <1>3 DEF RunFind, Runs, Check, Steps
  <2>2. Goto(r, "root") => Become(r, Walks(q, "root", q.walk, q.out))
    <3>1. [q EXCEPT !.pc = "root"] = Walks(q, "root", q.walk, q.out)
      BY <1>1, WalksForms
    <3>2. QED
      BY <3>1 DEF Goto
  <2>3. QED
    BY <2>1, <2>2, WalksIs, FailsIs
<1>4. CASE Runs(r, "find", "root") /\ RunFind(r)
  <2> DEFINE walk == Children(q.src, Stat(fs, q.src))
  <2>1. Keep /\ q.call.tool = "find" /\ "walk" \in Steps
        /\ (Become(r, [q EXCEPT !.pc = "walk", !.walk = walk]) \/ Fails(r))
    BY <1>4 DEF RunFind, Runs, Steps
  <2> HIDE DEF walk
  <2>2. [q EXCEPT !.pc = "walk", !.walk = walk] = Walks(q, "walk", walk, q.out)
    BY <1>1, WalksForms
  <2>3. Become(r, Walks(q, "walk", walk, q.out)) \/ Fails(r)
    BY <2>1, <2>2
  <2>4. QED
    BY <2>1, <2>3, WalksIs, FailsIs
<1>5. CASE Runs(r, "find", "walk") /\ q.walk = << >> /\ Keep /\ Succeeds(r)
  BY <1>5, FailsIs
<1>6. CASE Runs(r, "find", "walk") /\ q.walk # << >> /\ RunFind(r)
  <2> DEFINE c    == q.call
             e    == Head(q.walk)
             i    == Lstat(fs, e.path)
             hit  == e.kind # "link" /\ Last(e.path) \in c.match
             out  == IF hit THEN Append(q.out, e.path) ELSE q.out
             walk == (IF e.kind = "dir" THEN Children(e.path, i) ELSE << >>) \o Tail(q.walk)
             a    == [q EXCEPT !.pc = "done", !.ok = TRUE, !.out = out, !.cut = TRUE]
  <2>1. /\ Keep /\ c.tool = "find" /\ q.pc = "walk"
        /\ Become(r, a) \/ Fails(r) \/ Become(r, [q EXCEPT !.out = out, !.walk = walk])
    <3>1. [q EXCEPT !.out = out, !.walk = (IF e.kind = "dir" THEN Children(e.path, i) ELSE << >>) \o Tail(@)]
            = [q EXCEPT !.out = out, !.walk = walk]
      <4> HIDE DEF out
      <4>1. QED
        BY <1>1 DEF Fields
    <3> HIDE DEF walk
    <3>2. QED
      BY <1>6, <3>1 DEF RunFind, Runs
  <2> HIDE DEF out, walk
  <2>2. [q EXCEPT !.out = out, !.walk = walk] = Walks(q, "walk", walk, out)
    <3> HIDE DEF q
    <3>1. [q EXCEPT !.out = out, !.walk = walk] = Walks(q, q.pc, walk, out)
      BY <1>1 DEF Walks, Fields
    <3>2. QED
      BY <2>1, <3>1
  <2>3. "walk" \in Steps /\ TRUE \in BOOLEAN
    BY DEF Steps
  <2>4. Become(r, a) => Advances(r)
    BY <2>1, <2>3, Reads
  <2> HIDE DEF a
  <2>5. Become(r, Walks(q, "walk", walk, out)) \/ Become(r, a) \/ Fails(r)
    BY <2>1, <2>2
  <2>6. QED
    BY <2>1, <2>3, <2>4, <2>5, WalksIs, FailsIs
<1>7. QED
  BY <1>2, <1>3, <1>4, <1>5, <1>6 DEF RunFind

\* A change at paths that a request has resolved is one in its region.
LEMMA RegionIs ==
  ASSUME NEW q, NEW Q, Q \subseteq Seq(Names), \A x \in Q : Covered(q.paths, x),
         NEW t, NEW u, Changes(t, u, Q), Moves(t, u, Q)
  PROVE  Changes(t, u, Region(q)) /\ Moves(t, u, Region(q))
<1>1. Region(q) \subseteq Seq(Names)
  BY DEF Region
<1>2. \A x \in Q : Covered(Region(q), x)
  <2> SUFFICES ASSUME NEW x \in Q
               PROVE  Covered(Region(q), x)
    OBVIOUS
  <2>1. x \in Region(q) /\ IsPrefix(x, x)
    BY PrefixLaws DEF Region
  <2>2. QED
    BY <2>1 DEF Covered
<1> HIDE DEF Region
<1>3. QED
  BY <1>1, <1>2, Widened

\* A request that succeeds with a change in its region.
LEMMA SucceedsIs ==
  ASSUME NEW r, Ready(r), Succeeds(r), req[r].call.tool \notin ReadOnly,
         Changes(fs, fs', Region(req[r])), Moves(fs, fs', Region(req[r]))
  PROVE  Advances(r)
<1> DEFINE q == req[r]
           b == [q EXCEPT !.pc = "done", !.ok = TRUE]
<1>1. DOMAIN q = Fields /\ IsRequest(q) /\ (q.quiet => Agreed(fs, q)) /\ Become(r, b)
  BY DEF Ready, Steady, Succeeds
<1> HIDE DEF q
<1>2. /\ b.pc = "done" /\ DOMAIN b = Fields /\ IsRequest(b)
      /\ b.call = q.call /\ b.paths = q.paths /\ b.quiet = q.quiet /\ b.asked = q.asked
      /\ b.over = q.over
  BY <1>1 DEF Fields, IsRequest, Steps
<1> HIDE DEF b
<1>3. q.quiet /\ q.over => q.call.consent
  BY <1>1 DEF Agreed
<1>4. QED
  BY <1>1, <1>2, <1>3, Ending DEF q

\* A check that lets the request go on.
LEMMA CheckIs ==
  ASSUME NEW r, Ready(r), NEW good, NEW next, Check(r, good, next), Plain(req[r], next),
         good /\ req[r].quiet => Agreed(fs, [req[r] EXCEPT !.pc = next])
  PROVE  Advances(r)
<1>1. Keep /\ IF good THEN Goto(r, next) ELSE Fails(r)
  BY DEF Check
<1>2. CASE good
  BY <1>1, <1>2, GotoIs
<1>3. CASE ~good
  BY <1>1, <1>3, FailsIs
<1>4. QED
  BY <1>2, <1>3

\* touch stays within its paths.
LEMMA RunTouchIs ==
  ASSUME NEW r, Ready(r), RunTouch(r)
  PROVE  Advances(r)
<1>1. CASE Runs(r, "touch", "begin") /\ ResolveTouchPath(r, req[r].call.path, "open")
  <2>1. /\ FindsTarget(req[r].call, req[r].pc, "open") /\ req[r].pc # "parent"
        /\ Aim(req[r].call) = req[r].call.path
    BY <1>1 DEF FindsTarget, Runs, Aim
  <2>2. QED
    BY <1>1, <2>1, TouchPathIs
<1>2. CASE Runs(r, "touch", "parent") /\ ResolveParent(r, req[r].call.path, "open")
  <2>1. FindsTarget(req[r].call, req[r].pc, "open") /\ Aim(req[r].call) = req[r].call.path
    BY <1>2 DEF FindsTarget, Runs, Aim
  <2>2. QED
    BY <1>2, <2>1, ParentPathIs
<1>3. CASE Runs(r, "touch", "open") /\ OpenForWriting(r, FALSE, "chtimes")
  <2>1. Opens(req[r].call, req[r].pc, "chtimes")
    BY <1>3 DEF Opens, Runs
  <2>2. QED
    BY <1>3, <2>1, OpensIs
<1>4. CASE Keep /\ IF Stat(fs, req[r].dst) # None THEN Succeeds(r) ELSE Fails(r)
  BY <1>4, FailsIs
<1>5. QED
  BY <1>1, <1>2, <1>3, <1>4 DEF RunTouch

\* mkdir stays within its paths.
LEMMA RunMkdirIs ==
  ASSUME NEW r, Ready(r), RunMkdir(r)
  PROVE  Advances(r)
<1> DEFINE q == req[r]
<1>1. CASE Runs(r, "mkdir", "begin") /\ ResolveTouchPath(r, req[r].call.path, "make")
  <2>1. /\ FindsTarget(req[r].call, req[r].pc, "make") /\ req[r].pc # "parent"
        /\ Aim(req[r].call) = req[r].call.path
    BY <1>1 DEF FindsTarget, Runs, Aim
  <2>2. QED
    BY <1>1, <2>1, TouchPathIs
<1>2. CASE Runs(r, "mkdir", "parent") /\ ResolveParent(r, req[r].call.path, "make")
  <2>1. FindsTarget(req[r].call, req[r].pc, "make") /\ Aim(req[r].call) = req[r].call.path
    BY <1>2 DEF FindsTarget, Runs, Aim
  <2>2. QED
    BY <1>2, <2>1, ParentPathIs
<1>3. CASE /\ Runs(r, "mkdir", "make") /\ HasRoom(fs) /\ CanMake(fs, q.dst)
           /\ fs' = Make(fs, q.dst, EmptyDir) /\ Succeeds(r)
  <2> DEFINE d == q.dst
             u == Make(fs, d, EmptyDir)
  <2>1. /\ IsTree(fs) /\ HasRoom(fs) /\ CanMake(fs, d) /\ d \in Seq(Names)
        /\ Direct(fs, d) /\ Covered(q.paths, d) /\ EmptyDir \in {File(<< >>), EmptyDir}
    BY <1>3 DEF Ready, Steady, Aimed, HasTarget, Runs, IsRequest
  <2>2. fs' = u
    BY <1>3
  <2> HIDE DEF d
  <2>3. Changes(fs, u, {d}) /\ Moves(fs, u, {d})
    BY <2>1, MakeIs
  <2> HIDE DEF u
  <2>4. {d} \subseteq Seq(Names) /\ \A x \in {d} : Covered(q.paths, x)
    BY <2>1
  <2> HIDE DEF q
  <2>5. Changes(fs, u, Region(q)) /\ Moves(fs, u, Region(q))
    BY <2>3, <2>4, RegionIs
  <2>6. Changes(fs, fs', Region(q)) /\ Moves(fs, fs', Region(q))
    BY <2>2, <2>5
  <2>7. req[r].call.tool \notin ReadOnly
    BY <1>3 DEF Runs, ReadOnly
  <2>8. QED
    BY <1>3, <2>6, <2>7, SucceedsIs DEF q
<1>4. CASE Keep /\ Fails(r)
  BY <1>4, FailsIs
<1>5. QED
  BY <1>1, <1>2, <1>3, <1>4 DEF RunMkdir

\* cp stays within its paths, and overwrites only with consent when it is left alone.
LEMMA RunCopyIs ==
  ASSUME NEW r, Ready(r), RunCopy(r)
  PROVE  Advances(r)
<1> DEFINE q == req[r]
           c == q.call
<1>1. DOMAIN q = Fields /\ IsRequest(q) /\ IsTree(fs) /\ Aimed(fs, q) /\ (q.quiet => Agreed(fs, q))
  BY DEF Ready, Steady
<1>2. CASE Runs(r, "cp", "begin") /\ ResolvePath(r, c.path, "src", "checksrc")
  <2>1. FindsSource(c, "checksrc") /\ q.pc = "begin"
    BY <1>2 DEF FindsSource, Runs
  <2>2. QED
    BY <1>2, <2>1, SourcePathIs
<1>3. CASE Runs(r, "cp", "checksrc") /\ RunCopy(r)
  <2> DEFINE good == LET i == Stat(fs, q.src) IN Is(fs, i, "file") /\ Len(fs[i].text) <= MaxCopy
             u    == [q EXCEPT !.pc = "dst"]
  <2>1. Check(r, good, "dst") /\ c.tool = "cp"
    BY <1>3 DEF RunCopy, Runs
  <2> HIDE DEF good
  <2>2. u.pc = "dst" /\ u.call = c /\ u.quiet = q.quiet /\ u.over = q.over
    BY <1>1 DEF Fields
  <2>3. Plain(q, "dst")
    BY <2>1, <2>2 DEF Plain, NeedsParent, HasSource, HasTarget, HasFile, Steps
  <2>4. q.quiet => Agreed(fs, u)
    BY <1>1, <2>1, <2>2 DEF Agreed
  <2>5. QED
    BY <2>1, <2>3, <2>4, CheckIs
<1>4. CASE Runs(r, "cp", "dst") /\ ResolveTouchPath(r, c.dest, "checkdst")
  <2>1. FindsTarget(c, q.pc, "checkdst") /\ q.pc # "parent" /\ Aim(c) = c.dest
    BY <1>4 DEF FindsTarget, Runs, Aim
  <2>2. QED
    BY <1>4, <2>1, TouchPathIs
<1>5. CASE Runs(r, "cp", "parent") /\ ResolveParent(r, c.dest, "checkdst")
  <2>1. FindsTarget(c, q.pc, "checkdst") /\ Aim(c) = c.dest
    BY <1>5 DEF FindsTarget, Runs, Aim
  <2>2. QED
    BY <1>5, <2>1, ParentPathIs
<1>6. CASE Runs(r, "cp", "checkdst") /\ RunCopy(r)
  <2> DEFINE good == q.src # q.dst /\ (Stat(fs, q.dst) # None => c.consent)
             u    == [q EXCEPT !.pc = "opensrc"]
  <2>1. Check(r, good, "opensrc") /\ c.tool = "cp" /\ q.pc = "checkdst"
    BY <1>6 DEF RunCopy, Runs
  <2>2. good => (c.consent \/ Stat(fs, q.dst) = None)
    OBVIOUS
  <2> HIDE DEF good
  <2>3. u.pc = "opensrc" /\ u.call = c /\ u.quiet = q.quiet /\ u.over = q.over /\ u.dst = q.dst
    BY <1>1 DEF Fields
  <2>4. Plain(q, "opensrc")
    BY <2>1, <2>3 DEF Plain, NeedsParent, HasSource, HasTarget, HasFile, Steps
  <2>5. good /\ q.quiet => Agreed(fs, u)
    BY <1>1, <2>1, <2>2, <2>3 DEF Agreed
  <2>6. QED
    BY <2>1, <2>4, <2>5, CheckIs
<1>7. CASE Runs(r, "cp", "opensrc") /\ RunCopy(r)
  <2> DEFINE i == Stat(fs, q.src)
             u == [q EXCEPT !.pc = "opendst", !.in = i]
  <2>1. Keep /\ (Become(r, u) \/ Fails(r)) /\ c.tool = "cp" /\ q.pc = "opensrc"
    BY <1>7 DEF RunCopy, Runs
  <2>2. i \in Points
    BY <1>1, LstatIs DEF IsRequest
  <2> HIDE DEF q, i
  <2>3. /\ u.pc = "opendst" /\ DOMAIN u = Fields /\ IsRequest(u)
        /\ u.call = q.call /\ u.paths = q.paths /\ u.quiet = q.quiet /\ u.asked = q.asked
        /\ u.over = q.over /\ u.dst = q.dst
    BY <1>1, <2>2 DEF Fields, IsRequest, Steps, Points
  <2> HIDE DEF u
  <2>4. ~NeedsParent(u) /\ ~HasSource(u) /\ ~HasFile(u) /\ HasTarget(q)
    BY <2>1, <2>3 DEF NeedsParent, HasSource, HasTarget, HasFile
  <2>5. Aimed(fs, u)
    BY <1>1, <2>1, <2>3, <2>4 DEF Aimed
  <2>6. u.quiet => Agreed(fs, u)
    BY <1>1, <2>1, <2>3 DEF Agreed
  <2>7. Become(r, u) => Advances(r)
    BY <2>1, <2>3, <2>5, <2>6, GoesOn DEF q
  <2>8. QED
    BY <2>1, <2>7, FailsIs
<1>8. CASE Runs(r, "cp", "opendst") /\ OpenForWriting(r, TRUE, "copy")
  <2>1. Opens(c, q.pc, "copy") /\ c.tool = "cp" /\ q.pc = "opendst"
    BY <1>8 DEF Opens, Runs
  <2>2. q.quiet /\ TRUE /\ Stat(fs, q.dst) # None => c.consent
    BY <1>1, <2>1 DEF Agreed
  <2>3. QED
    BY <1>8, <2>1, <2>2, OpensIs
<1>9. CASE Runs(r, "cp", "copy") /\ RunCopy(r)
  <2>1. HasFile(q) /\ c.tool = "cp" /\ q.pc = "copy"
    BY <1>9 DEF HasFile, Runs
  <2> DEFINE text == Written(fs[q.fd].text, fs[q.in].text)
  <2>2. IF Is(fs, q.in, "file") THEN Write(r, text)
        ELSE Keep /\ Become(r, [q EXCEPT !.pc = "done", !.broken = TRUE])
    BY <2>1, <1>9 DEF RunCopy, Runs
  <2>3. CASE Is(fs, q.in, "file")
    <3>1. q.in \in Points /\ q.fd \in Points /\ Is(fs, q.fd, "file")
      BY <1>1, <2>1 DEF IsRequest, Aimed, Points
    <3>2. text \in Seq(Nat)
      BY <1>1, <2>3, <3>1, TextIs, WrittenIs
    <3>3. QED
      BY <2>1, <2>2, <2>3, <3>2, WriteIs
  <2>4. CASE ~Is(fs, q.in, "file")
    <3>1. Write(r, << >>)
      BY <2>2, <2>4 DEF Write
    <3>2. << >> \in Seq(Nat)
      OBVIOUS
    <3>3. QED
      BY <2>1, <3>1, <3>2, WriteIs
  <2>5. QED
    BY <2>3, <2>4
<1>10. QED
  BY <1>2, <1>3, <1>4, <1>5, <1>6, <1>7, <1>8, <1>9 DEF RunCopy

\* mv stays within its paths, and replaces only with consent when it is left alone.
LEMMA RunMoveIs ==
  ASSUME NEW r, Ready(r), RunMove(r)
  PROVE  Advances(r)
<1> DEFINE q == req[r]
           c == q.call
<1>1. DOMAIN q = Fields /\ IsRequest(q) /\ IsTree(fs) /\ Aimed(fs, q) /\ (q.quiet => Agreed(fs, q))
  BY DEF Ready, Steady
<1>2. CASE Runs(r, "mv", "begin") /\ RunMove(r)
  <2>1. FindsSource(c, "dst") /\ q.pc = "begin"
    BY <1>2 DEF FindsSource, Runs
  <2>2. (Keep /\ Fails(r)) \/ ResolvePath(r, c.path, "src", "dst")
    BY <1>2 DEF RunMove, Runs
  <2>3. QED
    BY <2>1, <2>2, SourcePathIs, FailsIs
<1>3. CASE Runs(r, "mv", "dst") /\ ResolveTouchPath(r, c.dest, "check")
  <2>1. FindsTarget(c, q.pc, "check") /\ q.pc # "parent" /\ Aim(c) = c.dest
    BY <1>3 DEF FindsTarget, Runs, Aim
  <2>2. QED
    BY <1>3, <2>1, TouchPathIs
<1>4. CASE Runs(r, "mv", "parent") /\ ResolveParent(r, c.dest, "check")
  <2>1. FindsTarget(c, q.pc, "check") /\ Aim(c) = c.dest
    BY <1>4 DEF FindsTarget, Runs, Aim
  <2>2. QED
    BY <1>4, <2>1, ParentPathIs
<1>5. CASE Runs(r, "mv", "check") /\ RunMove(r)
  <2> DEFINE good == Lstat(fs, q.dst) # None => c.consent
             u    == [q EXCEPT !.pc = "isdir"]
  <2>1. Check(r, good, "isdir") /\ c.tool = "mv" /\ q.pc = "check"
    BY <1>5 DEF RunMove, Runs
  <2>2. good => (c.consent \/ Lstat(fs, q.dst) = None)
    OBVIOUS
  <2> HIDE DEF good
  <2>3. u.pc = "isdir" /\ u.call = c /\ u.quiet = q.quiet /\ u.over = q.over /\ u.dst = q.dst
    BY <1>1 DEF Fields
  <2>4. Plain(q, "isdir")
    BY <2>1, <2>3 DEF Plain, NeedsParent, HasSource, HasTarget, HasFile, Steps
  <2>5. good /\ q.quiet => Agreed(fs, u)
    BY <1>1, <2>1, <2>2, <2>3 DEF Agreed
  <2>6. QED
    BY <2>1, <2>4, <2>5, CheckIs
<1>6. CASE Runs(r, "mv", "isdir") /\ RunMove(r)
  <2> DEFINE good == ~Is(fs, Lstat(fs, q.dst), "dir")
             u    == [q EXCEPT !.pc = "rename"]
  <2>1. Check(r, good, "rename") /\ c.tool = "mv" /\ q.pc = "isdir"
    BY <1>6 DEF RunMove, Runs
  <2> HIDE DEF good
  <2>2. u.pc = "rename" /\ u.call = c /\ u.quiet = q.quiet /\ u.over = q.over /\ u.dst = q.dst
    BY <1>1 DEF Fields
  <2>3. Plain(q, "rename")
    BY <2>1, <2>2 DEF Plain, NeedsParent, HasSource, HasTarget, HasFile, Steps
  <2>4. q.quiet => Agreed(fs, u)
    BY <1>1, <2>1, <2>2 DEF Agreed
  <2>5. QED
    BY <2>1, <2>3, <2>4, CheckIs
<1>7. CASE Runs(r, "mv", "rename") /\ RunMove(r)
  <2> DEFINE s    == q.src
             d    == q.dst
             t    == Renamed(fs, s, d)
             over == Lstat(fs, d) \notin {None, Lstat(fs, s)}
             u    == [q EXCEPT !.pc = "done", !.ok = TRUE, !.over = over]
  <2>1. /\ c.tool = "mv" /\ q.pc = "rename"
        /\ \/ CanRename(fs, s, d) /\ fs' = t /\ Become(r, u)
           \/ Keep /\ Fails(r)
    BY <1>7 DEF RunMove, Runs
  <2>2. CASE CanRename(fs, s, d) /\ fs' = t /\ Become(r, u)
    <3>1. HasSource(q) /\ HasTarget(q)
      BY <2>1 DEF HasSource, HasTarget
    <3>2. /\ Straight(fs, s) /\ Covered(q.paths, s) /\ Direct(fs, d) /\ Covered(q.paths, d)
          /\ s \in Seq(Names) /\ d \in Seq(Names)
      BY <1>1, <3>1 DEF Aimed, IsRequest
    <3>3. q.quiet /\ over => c.consent
      BY <1>1, <2>1 DEF Agreed
    <3>4. over \in BOOLEAN
      OBVIOUS
    <3> HIDE DEF s, d, over
    <3>5. Changes(fs, t, {s, d}) /\ Moves(fs, t, {s, d})
      BY <1>1, <2>2, <3>2, RenamedIs
    <3> HIDE DEF t
    <3>6. {s, d} \subseteq Seq(Names) /\ \A x \in {s, d} : Covered(q.paths, x)
      BY <3>2
    <3>7. Become(r, u) /\ fs' = t
      BY <2>2
    <3> HIDE DEF q
    <3>8. Changes(fs, t, Region(q)) /\ Moves(fs, t, Region(q))
      BY <3>5, <3>6, RegionIs
    <3>9. Changes(fs, fs', Region(q)) /\ Moves(fs, fs', Region(q))
      BY <3>7, <3>8
    <3>10. /\ u.pc = "done" /\ DOMAIN u = Fields /\ IsRequest(u)
           /\ u.call = q.call /\ u.paths = q.paths /\ u.quiet = q.quiet /\ u.asked = q.asked
           /\ u.over = over
      BY <1>1, <3>4 DEF Fields, IsRequest, Steps
    <3> HIDE DEF u
    <3>11. u.quiet /\ u.over => u.call.consent
      BY <3>3, <3>10
    <3>12. q.call.tool \notin ReadOnly
      BY <2>1 DEF ReadOnly
    <3>13. QED
      BY <3>7, <3>9, <3>10, <3>11, <3>12, Ending DEF q
  <2>3. QED
    BY <2>1, <2>2, FailsIs
<1>8. QED
  BY <1>2, <1>3, <1>4, <1>5, <1>6, <1>7 DEF RunMove

\* rm and rmdir.
LEMMA RemovalIs ==
  ASSUME NEW r, Ready(r), NEW kind, req[r].call.tool \in {"rm", "rmdir"}, Removal(r, kind)
  PROVE  Advances(r)
<1> DEFINE q == req[r]
           c == q.call
<1>1. /\ DOMAIN q = Fields /\ IsRequest(q) /\ IsTree(fs) /\ Aimed(fs, q) /\ (q.quiet => Agreed(fs, q))
      /\ c.tool \in {"rm", "rmdir"}
  BY DEF Ready, Steady
<1>2. CASE q.pc = "begin" /\ ((Keep /\ Fails(r)) \/ ResolvePath(r, c.path, "src", "check"))
  <2>1. FindsSource(c, "check")
    BY <1>1 DEF FindsSource
  <2>2. QED
    BY <1>2, <2>1, SourcePathIs, FailsIs
<1>3. CASE q.pc = "check" /\ Check(r, Is(fs, Lstat(fs, q.src), kind), "remove")
  <2> DEFINE good == Is(fs, Lstat(fs, q.src), kind)
             u    == [q EXCEPT !.pc = "remove"]
  <2>1. Check(r, good, "remove")
    BY <1>3
  <2> HIDE DEF good
  <2>2. u.pc = "remove" /\ u.call = c /\ u.quiet = q.quiet /\ u.over = q.over
    BY <1>1 DEF Fields
  <2>3. Plain(q, "remove")
    BY <1>1, <1>3, <2>2 DEF Plain, NeedsParent, HasSource, HasTarget, HasFile, Steps
  <2>4. q.quiet => Agreed(fs, u)
    BY <1>1, <2>2 DEF Agreed
  <2>5. QED
    BY <2>1, <2>3, <2>4, CheckIs
<1>4. CASE q.pc = "remove" /\ CanRemove(fs, q.src) /\ fs' = Removed(fs, q.src) /\ Succeeds(r)
  <2> DEFINE s == q.src
             t == Removed(fs, s)
  <2>1. /\ IsTree(fs) /\ s \in Seq(Names) /\ Straight(fs, s) /\ Covered(q.paths, s)
        /\ s # << >> /\ Lstat(fs, s) # None /\ fs' = t
    BY <1>1, <1>4 DEF Aimed, HasSource, IsRequest, CanRemove
  <2> HIDE DEF s
  <2>2. Direct(fs, s)
    <3>1. PICK z \in Seq(Names), n \in Names : s = Append(z, n)
      BY <2>1, FrontAndLast
    <3>2. QED
      BY <2>1, <3>1, DirectAppend
  <2>3. Changes(fs, t, {s}) /\ Moves(fs, t, {s})
    BY <2>1, <2>2, RemovedIs
  <2>4. {s} \subseteq Seq(Names) /\ \A x \in {s} : Covered(q.paths, x)
    BY <2>1
  <2> HIDE DEF t, q
  <2>5. Changes(fs, t, Region(q)) /\ Moves(fs, t, Region(q))
    BY <2>3, <2>4, RegionIs
  <2>6. Changes(fs, fs', Region(q)) /\ Moves(fs, fs', Region(q))
    BY <2>1, <2>5
  <2>7. req[r].call.tool \notin ReadOnly
    BY DEF ReadOnly
  <2>8. QED
    BY <1>4, <2>6, <2>7, SucceedsIs DEF q
<1>5. CASE Keep /\ Fails(r)
  BY <1>5, FailsIs
<1>6. QED
  BY <1>2, <1>3, <1>4, <1>5 DEF Removal

\* write_file stays within its paths, and empties a file only with consent when
\* it is left alone.
LEMMA RunWriteFileIs ==
  ASSUME NEW r, Ready(r), RunWriteFile(r)
  PROVE  Advances(r)
<1> DEFINE q == req[r]
           c == q.call
<1>1. DOMAIN q = Fields /\ IsRequest(q) /\ IsTree(fs) /\ Aimed(fs, q) /\ (q.quiet => Agreed(fs, q))
  BY DEF Ready, Steady
<1>2. CASE Runs(r, "write_file", "begin") /\ ResolveTouchPath(r, c.path, "check")
  <2>1. FindsTarget(c, q.pc, "check") /\ q.pc # "parent" /\ Aim(c) = c.path
    BY <1>2 DEF FindsTarget, Runs, Aim
  <2>2. QED
    BY <1>2, <2>1, TouchPathIs
<1>3. CASE Runs(r, "write_file", "parent") /\ ResolveParent(r, c.path, "check")
  <2>1. FindsTarget(c, q.pc, "check") /\ Aim(c) = c.path
    BY <1>3 DEF FindsTarget, Runs, Aim
  <2>2. QED
    BY <1>3, <2>1, ParentPathIs
<1>4. CASE Runs(r, "write_file", "check") /\ RunWriteFile(r)
  <2> DEFINE i    == Lstat(fs, q.dst)
             good == i # None => Is(fs, i, "file") /\ (c.consent \/ c.append)
             u    == [q EXCEPT !.pc = "open"]
  <2>1. Check(r, good, "open") /\ c.tool = "write_file" /\ q.pc = "check"
    BY <1>4 DEF RunWriteFile, Runs
  <2>2. good => (c.consent \/ c.append \/ Lstat(fs, q.dst) = None)
    OBVIOUS
  <2> HIDE DEF good
  <2>3. u.pc = "open" /\ u.call = c /\ u.quiet = q.quiet /\ u.over = q.over /\ u.dst = q.dst
    BY <1>1 DEF Fields
  <2>4. Plain(q, "open")
    BY <2>1, <2>3 DEF Plain, NeedsParent, HasSource, HasTarget, HasFile, Steps
  <2>5. good /\ q.quiet => Agreed(fs, u)
    BY <1>1, <2>1, <2>2, <2>3 DEF Agreed
  <2>6. QED
    BY <2>1, <2>4, <2>5, CheckIs
<1>5. CASE Runs(r, "write_file", "open") /\ OpenForWriting(r, ~c.append, "write")
  <2>1. Opens(c, q.pc, "write") /\ c.tool = "write_file" /\ q.pc = "open"
    BY <1>5 DEF Opens, Runs
  <2>2. HasTarget(q) /\ q.dst \in Seq(Names)
    BY <1>1, <2>1 DEF HasTarget, IsRequest
  <2>3. Lstat(fs, q.dst) = None => Stat(fs, q.dst) = None
    BY DEF Stat, Follow, Is
  <2> DEFINE truncate == ~c.append
  <2>4. truncate \in BOOLEAN
    OBVIOUS
  <2>5. q.quiet /\ truncate /\ Stat(fs, q.dst) # None => c.consent
    BY <1>1, <2>1, <2>3 DEF Agreed
  <2>6. OpenForWriting(r, truncate, "write")
    BY <1>5
  <2> HIDE DEF truncate
  <2>7. QED
    BY <2>1, <2>4, <2>5, <2>6, OpensIs
<1>6. CASE Runs(r, "write_file", "write") /\ RunWriteFile(r)
  <2>1. HasFile(q) /\ c.tool = "write_file" /\ q.pc = "write"
    BY <1>6 DEF HasFile, Runs
  <2> DEFINE old  == fs[q.fd].text
             text == IF c.append THEN Append(old, q.id) ELSE Written(old, <<q.id>>)
  <2>2. Write(r, text)
    BY <2>1, <1>6 DEF RunWriteFile, Runs
  <2>3. old \in Seq(Nat) /\ q.id \in Nat
    <3>1. q.fd \in Points /\ Is(fs, q.fd, "file")
      BY <1>1, <2>1 DEF IsRequest, Aimed, Points
    <3>2. q.id \in 1 .. MaxCalls /\ MaxCalls \in Nat
      BY <1>1, WorkspaceAssumption DEF IsRequest
    <3>3. QED
      BY <1>1, <3>1, <3>2, TextIs
  <2> HIDE DEF old
  <2>4. text \in Seq(Nat)
    <3>1. Append(old, q.id) \in Seq(Nat) /\ <<q.id>> \in Seq(Nat)
      BY <2>3
    <3>2. QED
      BY <2>3, <3>1, WrittenIs
  <2>5. QED
    BY <2>1, <2>2, <2>4, WriteIs
<1>7. QED
  BY <1>2, <1>3, <1>4, <1>5, <1>6, FailsIs DEF RunWriteFile

\* Whatever the tool, a step of its request is one that stays within the paths
\* of the request.
LEMMA HandleIs ==
  ASSUME Inv, NEW r \in Slots, Handle(r)
  PROVE  Ready(r) /\ Advances(r)
<1>1. Ready(r)
  BY DEF Inv, TypeOK, Handle, Ready
<1>2. \/ RunLS(r) \/ RunCat(r) \/ RunFind(r) \/ RunTouch(r) \/ RunMkdir(r) \/ RunCopy(r)
      \/ RunMove(r) \/ RunRemove(r) \/ RunRemoveDirectory(r) \/ RunWriteFile(r)
  BY DEF Handle
<1>3. RunRemove(r) \/ RunRemoveDirectory(r) => Advances(r)
  BY <1>1, RemovalIs DEF RunRemove, RunRemoveDirectory
<1>4. QED
  BY <1>1, <1>2, <1>3, RunLSIs, RunCatIs, RunFindIs, RunTouchIs, RunMkdirIs, RunCopyIs, RunMoveIs,
     RunWriteFileIs

-------------------------------------------------------------------------------
(***************************************************************************)
(* What a step leaves to the other requests                                *)
(***************************************************************************)

\* What is below some of the paths is below one of them.
LEMMA RegionCovers ==
  ASSUME NEW q, q.paths \subseteq Paths, NEW x \in Seq(Names), Covered(Region(q), x)
  PROVE  Covered(q.paths, x)
<1> DEFINE S == Names \cup {".."}
           F == q.paths
<1>1. PICK o \in Region(q) : IsPrefix(o, x)
  BY DEF Covered
<1>2. o \in Seq(Names) /\ Covered(F, o)
  BY <1>1 DEF Region
<1>3. PICK y \in F : IsPrefix(y, o)
  BY <1>2 DEF Covered
<1>4. y \in Seq(S) /\ o \in Seq(S) /\ x \in Seq(S)
  BY <1>2, <1>3 DEF Paths
<1> HIDE DEF S
<1>5. IsPrefix(y, x)
  BY <1>1, <1>3, <1>4, PrefixLaws
<1>6. QED
  BY <1>3, <1>5 DEF Covered

\* Paths that are not near each other have nothing below them in common.
LEMMA FarApart ==
  ASSUME NEW F, NEW G, F \subseteq Paths, G \subseteq Paths, ~Near(F, G),
         NEW x \in Seq(Names), Covered(F, x)
  PROVE  ~Covered(G, x)
<1> SUFFICES ASSUME Covered(G, x)
             PROVE  FALSE
  OBVIOUS
<1> DEFINE S == Names \cup {".."}
<1>1. PICK a \in F : IsPrefix(a, x)
  BY DEF Covered
<1>2. PICK b \in G : IsPrefix(b, x)
  BY DEF Covered
<1>3. a \in Seq(S) /\ b \in Seq(S) /\ x \in Seq(S)
  BY <1>1, <1>2 DEF Paths
<1> HIDE DEF S
<1>4. IsPrefix(a, b) \/ IsPrefix(b, a)
  BY <1>1, <1>2, <1>3, PrefixLaws
<1>5. QED
  BY <1>1, <1>2, <1>4 DEF Near

\* What a path outside of a change leads to stays, when what the link there
\* leads to is outside as well.
LEMMA StatStays ==
  ASSUME NEW t, NEW u, NEW P, Changes(t, u, P), NEW x \in Seq(Names), Direct(t, x),
         ~Covered(P, x), ~Covered(P, Opened(t, x))
  PROVE  Lstat(u, x) = Lstat(t, x) /\ Stat(u, x) = Stat(t, x)
<1> DEFINE i == Lstat(t, x)
           o == Opened(t, x)
<1>1. IsTree(t) /\ IsTree(u) /\ Evolves(t, u) /\ Frame(t, u, P)
  BY DEF Changes
<1>2. Lstat(u, x) = i /\ Direct(u, x)
  BY <1>1 DEF Frame
<1>3. /\ o \in Seq(Names) /\ Direct(t, o) /\ Lstat(t, o) = Stat(t, x)
      /\ Lstat(u, Opened(u, x)) = Stat(u, x)
  BY <1>1, <1>2, OpenedIs
<1>4. Opened(u, x) = o
  <2>1. CASE Is(u, i, "link")
    <3>1. Is(t, i, "link") /\ u[i] = t[i]
      BY <1>1, <1>2, <2>1, StaysTheLink
    <3>2. QED
      BY <1>2, <2>1, <3>1 DEF Opened
  <2>2. CASE ~Is(u, i, "link")
    <3>1. ~Is(t, i, "link")
      <4> SUFFICES ASSUME Is(t, i, "link")
                   PROVE  FALSE
        OBVIOUS
      <4>1. i \in Points /\ i # None /\ t[i].kind = "link"
        BY <1>1, LstatIs DEF Is
      <4>2. i \in Inodes /\ t[i] # Free
        BY <1>1, <4>1, NodeIs DEF Points, Free
      <4>3. QED
        BY <1>1, <2>2, <4>1, <4>2 DEF Evolves, Is
    <3>2. QED
      BY <1>2, <2>2, <3>1 DEF Opened
  <2>3. QED
    BY <2>1, <2>2
<1>5. Lstat(u, o) = Lstat(t, o)
  BY <1>1, <1>3 DEF Frame
<1>6. QED
  BY <1>2, <1>3, <1>4, <1>5

\* A request keeps what it has resolved, opened and, if it is left alone,
\* checked, when another one changes the tree.
LEMMA StaysSteady ==
  ASSUME IsTree(fs), NEW q, NEW z, q.paths \subseteq Paths, z.paths \subseteq Paths, Steady(fs, q),
         q.quiet => ~Near(q.paths, z.paths),
         HasFile(q) => q.paths = z.paths \/ ~Near(q.paths, z.paths),
         NEW v, Changes(fs, v, Region(z)), Moves(fs, v, Region(z))
  PROVE  Steady(v, q)
<1>1. IsTree(v) /\ Evolves(fs, v) /\ Frame(fs, v, Region(z))
  BY DEF Changes
<1>2. DOMAIN q = Fields /\ IsRequest(q) /\ Aimed(fs, q) /\ (q.quiet => Agreed(fs, q))
  BY DEF Steady
<1>3. q.src \in Seq(Names) /\ q.dst \in Seq(Names)
  BY <1>2 DEF IsRequest
<1>4. HasSource(q) => Straight(v, q.src) /\ Covered(q.paths, q.src)
  BY <1>1, <1>2, StaysDirect DEF Aimed
<1>5. HasTarget(q) => /\ Direct(v, q.dst) /\ Covered(q.paths, q.dst)
                      /\ Covered(q.paths, Opened(v, q.dst))
  BY <1>1, <1>2, <1>3, StaysTargeted DEF Aimed
<1>6. HasFile(q) => q.fd \in Inodes /\ Is(v, q.fd, "file") /\ Within(v, q.fd, q.paths)
  <2> SUFFICES ASSUME HasFile(q)
               PROVE  q.fd \in Inodes /\ Is(v, q.fd, "file") /\ Within(v, q.fd, q.paths)
    OBVIOUS
  <2> DEFINE i == q.fd
  <2>1. i \in Inodes /\ Is(fs, i, "file") /\ Within(fs, i, q.paths)
    BY <1>2 DEF Aimed
  <2>2. fs[i] # Free
    BY <2>1 DEF Is, Free
  <2>3. Is(v, i, "file")
    BY <1>1, <2>1, <2>2 DEF Is, Evolves
  <2> HIDE DEF i
  <2>4. Within(v, i, q.paths)
    <3> SUFFICES ASSUME NEW x \in Seq(Names), Direct(v, x), Lstat(v, x) = i
                 PROVE  Covered(q.paths, x)
      BY DEF Within
    <3>1. CASE Direct(fs, x) /\ Lstat(fs, x) = i
      BY <2>1, <3>1 DEF Within
    <3>2. ASSUME Covered(Region(z), x), NEW y \in Seq(Names), Direct(fs, y), Lstat(fs, y) = i,
                 Covered(Region(z), y)
          PROVE  Covered(q.paths, x)
      <4>1. Covered(z.paths, x) /\ Covered(z.paths, y) /\ Covered(q.paths, y)
        BY <2>1, <3>2, RegionCovers DEF Within
      <4>2. q.paths = z.paths
        BY <4>1, FarApart
      <4>3. QED
        BY <4>1, <4>2
    <3>3. QED
      BY <2>1, <2>2, <3>1, <3>2 DEF Moves
  <2>5. QED
    BY <2>1, <2>3, <2>4 DEF i
<1>7. Aimed(v, q)
  BY <1>2, <1>4, <1>5, <1>6 DEF Aimed
<1>8. q.quiet => Agreed(v, q)
  <2> SUFFICES ASSUME q.quiet
               PROVE  Agreed(v, q)
    OBVIOUS
  <2>1. HasTarget(q) => Lstat(v, q.dst) = Lstat(fs, q.dst) /\ Stat(v, q.dst) = Stat(fs, q.dst)
    <3> SUFFICES ASSUME HasTarget(q)
                 PROVE  Lstat(v, q.dst) = Lstat(fs, q.dst) /\ Stat(v, q.dst) = Stat(fs, q.dst)
      OBVIOUS
    <3> DEFINE d == q.dst
               o == Opened(fs, d)
    <3>1. Direct(fs, d) /\ Covered(q.paths, d) /\ Covered(q.paths, o) /\ o \in Seq(Names) /\ d \in Seq(Names)
      BY <1>2, <1>3, OpenedIs DEF Aimed
    <3> HIDE DEF d, o
    <3>2. ~Covered(Region(z), d) /\ ~Covered(Region(z), o)
      BY <3>1, FarApart, RegionCovers
    <3>3. QED
      BY <3>1, <3>2, StatStays DEF d, o
  <2>2. Agreed(fs, q)
    BY <1>2
  <2>3. QED
    BY <2>1, <2>2 DEF Agreed, HasTarget
<1>9. QED
  BY <1>2, <1>7, <1>8 DEF Steady

\* A request may touch the same paths in a tree that has changed.
LEMMA TouchStays ==
  ASSUME IsTree(fs), IsTree(fs'), Evolves(fs, fs'), NEW r, NEW c, NEW P, MayTouch(c, P),
         c = req'[r].call, P = req'[r].paths
  PROVE  MayTouch(req[r].call, req[r].paths)'
<1>1. P \subseteq Paths /\ Footprint(c)' \subseteq P
  BY FootprintShrinks DEF MayTouch
<1>2. Footprint(req[r].call)' = Footprint(c)'
  BY DEF Footprint, PathsOf, LinksOf, HeadLinks
<1>3. QED
  BY <1>1, <1>2 DEF MayTouch

\* A step of a request leaves the others what they know.
LEMMA HandleKeeps ==
  ASSUME Inv, NEW w \in Slots, Handle(w)
  PROVE  Inv'
<1> DEFINE z == req[w]
<1>1. Ready(w) /\ Advances(w)
  BY HandleIs
<1>2. PICK u : Become(w, u) /\ StepOf(z, u, fs, fs')
  BY <1>1 DEF Advances
<1>3. /\ IsTree(fs) /\ req = [r \in Slots |-> req[r]] /\ Apart
      /\ \A r \in Slots : Busy(r) => Steady(fs, req[r]) /\ MayTouch(req[r].call, req[r].paths)
  BY DEF Inv, TypeOK
<1>4. Busy(w) /\ z.pc # "done" /\ server' = server /\ count' = count
  BY DEF Handle
<1>5. /\ req' = [r \in Slots |-> req'[r]] /\ req'[w] = u
      /\ \A r \in Slots : r # w => req'[r] = req[r]
  BY <1>2, <1>3 DEF Become
<1>6. /\ u.call = z.call /\ u.paths = z.paths /\ u.quiet = z.quiet /\ u.asked = z.asked
      /\ u.pc # "idle" /\ Steady(fs', u)
      /\ \/ fs' = fs
         \/ /\ Changes(fs, fs', Region(z)) /\ Moves(fs, fs', Region(z)) /\ z.call.tool \notin ReadOnly
  BY <1>2 DEF StepOf
<1>7. IsTree(fs') /\ Evolves(fs, fs')
  <2>1. CASE fs' = fs
    <3>1. {} \subseteq Seq(Names)
      OBVIOUS
    <3>2. Evolves(fs, fs)
      BY <1>3, <3>1, NoChange DEF Changes
    <3>3. QED
      BY <1>3, <2>1, <3>2
  <2>2. CASE Changes(fs, fs', Region(z))
    BY <2>2 DEF Changes
  <2>3. QED
    BY <1>6, <2>1, <2>2
<1>8. ASSUME NEW r \in Slots
      PROVE  /\ Busy(r)' = Busy(r) /\ Writes(r)' = Writes(r)
             /\ Busy(r) => req'[r].paths = req[r].paths /\ req'[r].quiet = req[r].quiet
                           /\ req'[r].call = req[r].call
  <2>1. CASE r = w
    BY <1>4, <1>5, <1>6, <2>1 DEF Busy, Writes
  <2>2. CASE r # w
    BY <1>5, <2>2 DEF Busy, Writes
  <2>3. QED
    BY <2>1, <2>2
<1>9. Apart'
  <2> SUFFICES ASSUME NEW r \in Slots, NEW s \in Slots, r # s, Busy(r)', Writes(s)'
               PROVE  /\ req'[r].quiet => ~Near(req'[r].paths, req'[s].paths)
                      /\ Writes(r)' => \/ req'[r].paths = req'[s].paths
                                       \/ ~Near(req'[r].paths, req'[s].paths)
    BY Zenon DEF Apart
  <2>1. Busy(r) /\ Writes(s) /\ Busy(s) /\ (Writes(r)' => Writes(r))
    BY <1>8 DEF Writes
  <2>2. /\ req'[r].paths = req[r].paths /\ req'[r].quiet = req[r].quiet /\ req'[s].paths = req[s].paths
    BY <1>8, <2>1
  <2>3. QED
    BY <1>3, <2>1, <2>2 DEF Apart
<1>10. ASSUME NEW r \in Slots, Busy(r)
       PROVE  Steady(fs', req'[r])
  <2>1. CASE r = w
    BY <1>5, <1>6, <2>1
  <2>2. CASE r # w
    <3> DEFINE q == req[r]
    <3>1. req'[r] = q /\ Steady(fs, q) /\ q.paths \subseteq Paths /\ z.paths \subseteq Paths
      BY <1>3, <1>4, <1>5, <1>10, <2>2 DEF MayTouch
    <3>2. CASE fs' = fs
      BY <3>1, <3>2
    <3>3. CASE fs' # fs
      <4>1. Changes(fs, fs', Region(z)) /\ Moves(fs, fs', Region(z)) /\ Writes(w)
        <5>1. z.asked
          BY <1>3, <1>4 DEF Steady, Aimed
        <5>2. QED
          BY <1>4, <1>6, <3>3, <5>1 DEF Writes
      <4>2. q.quiet => ~Near(q.paths, z.paths)
        BY <1>3, <1>10, <2>2, <4>1 DEF Apart
      <4>3. HasFile(q) => Writes(r)
        BY <1>10, <3>1 DEF HasFile, Writes, ReadOnly, Steady, Aimed
      <4>4. HasFile(q) => q.paths = z.paths \/ ~Near(q.paths, z.paths)
        BY <1>3, <1>10, <2>2, <4>1, <4>3 DEF Apart
      <4> DEFINE v == fs'
      <4>5. Changes(fs, v, Region(z)) /\ Moves(fs, v, Region(z))
        BY <4>1
      <4> HIDE DEF v, q, z
      <4>6. Steady(v, q)
        BY <1>3, <3>1, <4>2, <4>4, <4>5, StaysSteady
      <4>7. QED
        BY <3>1, <4>6 DEF v
    <3>4. QED
      BY <3>2, <3>3
  <2>3. QED
    BY <2>1, <2>2
<1>11. ASSUME NEW r \in Slots, Busy(r)
       PROVE  MayTouch(req[r].call, req[r].paths)'
  <2> DEFINE c == req[r].call
             P == req[r].paths
  <2>1. MayTouch(c, P) /\ c = req'[r].call /\ P = req'[r].paths
    BY <1>3, <1>8, <1>11
  <2> HIDE DEF c, P
  <2>2. QED
    BY <1>3, <1>7, <2>1, TouchStays
<1>12. TypeOK'
  BY <1>4, <1>7, <1>8, <1>10 DEF Inv, TypeOK, Steady
<1>13. \A r \in Slots : Busy(r)' => Steady(fs', req'[r]) /\ MayTouch(req[r].call, req[r].paths)'
  BY <1>8, <1>10, <1>11
<1>14. QED
  BY <1>5, <1>9, <1>12, <1>13 DEF Inv

-------------------------------------------------------------------------------
(***************************************************************************)
(* A request that comes                                                    *)
(***************************************************************************)

\* Nearness goes both ways.
LEMMA NearBothWays ==
  ASSUME NEW F, NEW G, Near(F, G)
  PROVE  Near(G, F)
BY DEF Near

\* The paths of a call are paths.
LEMMA FootprintIs ==
  ASSUME IsTree(fs), NEW c \in Calls
  PROVE  Footprint(c) \subseteq Paths
<1>1. PathsOf(c) \subseteq Paths
  <2>1. \A p \in Paths : Cleaned(p) \in Paths
    <3> SUFFICES ASSUME NEW p \in Paths
                 PROVE  Cleaned(p) \in Paths
      OBVIOUS
    <3>1. Cleaned(p) \in CleanPaths
      BY CleanedIs
    <3>2. Seq(Names) \subseteq Paths
      BY DEF Paths
    <3>3. Escapes \in Paths
      BY DEF Escapes, Paths
    <3>4. QED
      BY <3>1, <3>2, <3>3 DEF CleanPaths
  <2>2. c.path \in Paths /\ (c.tool \in {"cp", "mv"} => c.dest \in Paths)
    BY CallAssumption
  <2>3. QED
    BY <2>1, <2>2 DEF PathsOf
<1>2. ASSUME NEW p, NEW i \in HeadLinks(p)
      PROVE  <<fs[i].to>> \in Paths
  <2>1. i \in Inodes /\ fs[i].kind = "link"
    BY DEF HeadLinks
  <2>2. fs[i].to \in Names
    BY <2>1, NodeIs
  <2>3. QED
    BY <2>2 DEF Paths
<1>3. QED
  BY <1>1, <1>2 DEF Footprint, LinksOf

\* A request that another one has come near to.
Disturbed(q, P) == [q EXCEPT !.quiet = FALSE, !.paths = P]

\* It keeps what it has resolved and opened.
LEMMA DisturbedIs ==
  ASSUME NEW t, NEW q, Steady(t, q), NEW P, q.paths \subseteq P, P \subseteq Paths
  PROVE  LET u == Disturbed(q, P)
         IN  /\ Steady(t, u) /\ u.pc = q.pc /\ u.call = q.call /\ u.asked = q.asked /\ u.paths = P
             /\ ~u.quiet
<1> DEFINE u == Disturbed(q, P)
<1>1. DOMAIN q = Fields /\ IsRequest(q) /\ Aimed(t, q)
  BY DEF Steady
<1>2. /\ DOMAIN u = Fields /\ IsRequest(u) /\ u.quiet = FALSE /\ u.paths = P
      /\ u.pc = q.pc /\ u.call = q.call /\ u.asked = q.asked /\ u.src = q.src /\ u.dst = q.dst
      /\ u.fd = q.fd
  BY <1>1 DEF Fields, IsRequest, Disturbed
<1> HIDE DEF u
<1>3. \A x : Covered(q.paths, x) => Covered(P, x)
  BY DEF Covered
<1>4. \A i : Within(t, i, q.paths) => Within(t, i, P)
  BY <1>3 DEF Within
<1>5. /\ HasSource(u) = HasSource(q) /\ HasTarget(u) = HasTarget(q) /\ HasFile(u) = HasFile(q)
      /\ NeedsParent(u) = NeedsParent(q)
  BY <1>2 DEF HasSource, HasTarget, HasFile, NeedsParent
<1>6. Aimed(t, u)
  BY <1>1, <1>2, <1>3, <1>4, <1>5 DEF Aimed
<1>7. Steady(t, u)
  BY <1>2, <1>6 DEF Steady
<1>8. QED
  BY <1>2, <1>7 DEF u

\* The slots that a request of paths F comes near, those of them that write,
\* and the paths of all these.
NearOnes(r, F) == {s \in Slots \ {r} : Busy(s) /\ Near(F, req[s].paths)}
Met(r, F)      == {s \in NearOnes(r, F) : Writes(s)}
Reach(r, F)    == F \cup UNION {req[s].paths : s \in Met(r, F)}

\* A request that is left alone or writes, and is not near F, is not near the
\* writers that are.
LEMMA ReachIsFar ==
  ASSUME Apart, NEW r \in Slots, NEW F, NEW y \in Slots \ {r}, Busy(y), y \notin NearOnes(r, F),
         req[y].quiet \/ Writes(y)
  PROVE  ~Near(Reach(r, F), req[y].paths)
<1>1. ~Near(F, req[y].paths)
  BY DEF NearOnes
<1>2. ASSUME NEW s \in Met(r, F)
      PROVE  ~Near(req[s].paths, req[y].paths)
  <2>1. s \in Slots /\ s # y /\ Busy(s) /\ Writes(s) /\ Near(F, req[s].paths)
    BY DEF Met, NearOnes
  <2>2. CASE req[y].quiet
    BY <2>1, <2>2, NearBothWays DEF Apart
  <2>3. CASE Writes(y)
    <3>1. req[y].paths = req[s].paths \/ ~Near(req[y].paths, req[s].paths)
      BY <2>1, <2>3 DEF Apart
    <3>2. QED
      BY <1>1, <2>1, <3>1, NearBothWays
  <2>4. QED
    BY <2>2, <2>3
<1>3. QED
  BY <1>1, <1>2 DEF Near, Reach

\* The request that has come.
Begun(c, runs, quiet, P) ==
  [Begin(c, count + 1) EXCEPT !.quiet = quiet, !.paths = P, !.asked = runs,
                              !.pc = IF runs THEN "begin" ELSE "done"]

\* A request that has just come knows nothing that could change.
LEMMA BeginIs ==
  ASSUME IsTree(fs), count \in Nat, count < MaxCalls, NEW c \in Calls, NEW runs \in BOOLEAN,
         NEW quiet \in BOOLEAN, NEW P, P \subseteq Paths
  PROVE  LET b == Begun(c, runs, quiet, P)
         IN  /\ Steady(fs, b) /\ b.pc # "idle" /\ b.call = c /\ b.asked = runs /\ b.paths = P
             /\ b.quiet = quiet
<1> DEFINE b == Begun(c, runs, quiet, P)
<1>1. /\ b.pc = (IF runs THEN "begin" ELSE "done") /\ b.call = c /\ b.asked = runs /\ b.paths = P
      /\ b.quiet = quiet /\ b.over = FALSE /\ b.id = count + 1
      /\ b.src = << >> /\ b.dst = << >> /\ b.in = None /\ b.fd = None /\ b.size = 0
      /\ b.ok = FALSE /\ b.cut = FALSE /\ b.broken = FALSE
      /\ DOMAIN b = Fields
  BY DEF Begin, Begun, Fields
<1> HIDE DEF b
<1>2. count + 1 \in 1 .. MaxCalls
  BY WorkspaceAssumption
<1>3. IsRequest(b)
  <2>1. b.pc \in Steps /\ b.call \in Calls /\ b.id \in 1 .. MaxCalls
    BY <1>1, <1>2 DEF Steps
  <2>2. {b.src, b.dst} \subseteq Seq(Names) /\ {b.in, b.fd} \subseteq Inodes \cup {None} /\ b.size \in Nat
    BY <1>1
  <2>3. {b.ok, b.cut, b.asked, b.broken, b.over, b.quiet} \subseteq BOOLEAN /\ b.paths \subseteq Paths
    BY <1>1
  <2>4. QED
    BY <2>1, <2>2, <2>3 DEF IsRequest
<1>4. Aimed(fs, b) /\ Agreed(fs, b) /\ b.pc # "idle"
  BY <1>1 DEF Aimed, Agreed, NeedsParent, HasSource, HasTarget, HasFile
<1>5. Steady(fs, b)
  BY <1>1, <1>3, <1>4 DEF Steady
<1>6. QED
  BY <1>1, <1>4, <1>5 DEF b

\* A new request shares the paths of the writers that it meets.
LEMMA AcceptKeeps ==
  ASSUME Inv, NEW r \in Slots, NEW c \in Calls, NEW form \in Forms, Accept(r, c, form)
  PROVE  Inv'
<1> DEFINE F    == Footprint(c)
           near == NearOnes(r, F)
           met  == Met(r, F)
           P    == Reach(r, F)
           runs == Status(form) = 0
           hit  == IF runs /\ c.tool \notin ReadOnly THEN near ELSE {}
           b    == Begun(c, runs, met = {}, P)
<1>1. /\ IsTree(fs) /\ count \in 0 .. MaxCalls /\ req = [s \in Slots |-> req[s]] /\ Apart
      /\ \A s \in Slots : Busy(s) => Steady(fs, req[s]) /\ MayTouch(req[s].call, req[s].paths)
  BY DEF Inv, TypeOK
<1>2. /\ server = "serving" /\ ~Busy(r) /\ count < MaxCalls
      /\ req' = [s \in Slots |->
                   IF s = r THEN b
                   ELSE IF s \in hit THEN [req[s] EXCEPT !.quiet = FALSE, !.paths = @ \cup P]
                   ELSE req[s]]
      /\ count' = count + 1 /\ fs' = fs /\ server' = server
  BY DEF Accept, NearOnes, Met, Reach, Begun
<1>3. F \subseteq Paths /\ P \subseteq Paths /\ F \subseteq P
  <2>1. F \subseteq Paths
    BY <1>1, FootprintIs
  <2>2. \A s \in met : req[s].paths \subseteq Paths
    BY <1>1 DEF Met, NearOnes, MayTouch
  <2>3. QED
    BY <2>1, <2>2 DEF Reach
<1>4. /\ Steady(fs, b) /\ b.pc # "idle" /\ b.call = c /\ b.asked = runs /\ b.paths = P
      /\ b.quiet = (met = {})
  <2>1. count \in Nat /\ runs \in BOOLEAN /\ (met = {}) \in BOOLEAN
    BY <1>1
  <2> DEFINE quiet == met = {}
  <2> DEFINE d     == Begun(c, runs, quiet, P)
  <2>3. b = d /\ IsTree(fs) /\ count \in Nat /\ count < MaxCalls /\ P \subseteq Paths
        /\ runs \in BOOLEAN /\ quiet \in BOOLEAN
    BY <1>1, <1>2, <1>3, <2>1
  <2> HIDE DEF quiet, runs, P, b, F
  <2>4. Steady(fs, d) /\ d.pc # "idle" /\ d.call = c /\ d.asked = runs /\ d.paths = P /\ d.quiet = quiet
    BY <2>3, BeginIs
  <2> HIDE DEF d
  <2>5. QED
    BY <2>3, <2>4 DEF quiet
<1>5. /\ hit \subseteq near /\ (runs /\ c.tool \notin ReadOnly => hit = near)
      /\ \A x, y : x \in hit /\ y \notin hit => y \notin near
  OBVIOUS
<1> HIDE DEF b, hit, runs
<1>6. ASSUME NEW s \in Slots, s # r, Busy(s)
      PROVE  /\ Steady(fs, req'[s]) /\ req'[s].pc = req[s].pc /\ req'[s].call = req[s].call
             /\ req'[s].asked = req[s].asked
             /\ s \in hit  => req'[s].paths = req[s].paths \cup P /\ ~req'[s].quiet
             /\ s \notin hit => req'[s] = req[s]
  <2>1. CASE s \in hit
    <3> DEFINE q == req[s]
               G == q.paths \cup P
    <3>1. req'[s] = Disturbed(q, G)
      <4>1. [q EXCEPT !.quiet = FALSE, !.paths = @ \cup P] = Disturbed(q, G)
        <5>1. DOMAIN q = Fields
          BY <1>1, <1>6 DEF Steady
        <5> HIDE DEF P, q
        <5>2. QED
          BY <5>1 DEF Fields, Disturbed
      <4>2. QED
        BY <1>2, <1>6, <2>1, <4>1
    <3>2. Steady(fs, q) /\ q.paths \subseteq G /\ G \subseteq Paths
      BY <1>1, <1>3, <1>6 DEF MayTouch
    <3> HIDE DEF G
    <3>3. /\ Steady(fs, req'[s]) /\ req'[s].pc = q.pc /\ req'[s].call = q.call
          /\ req'[s].asked = q.asked /\ req'[s].paths = G /\ ~req'[s].quiet
      BY <3>1, <3>2, DisturbedIs
    <3>4. QED
      BY <2>1, <3>3 DEF G
  <2>2. CASE s \notin hit
    BY <1>1, <1>2, <1>6, <2>2
  <2>3. QED
    BY <2>1, <2>2
<1>7. req' = [s \in Slots |-> req'[s]] /\ req'[r] = b
  BY <1>2
<1>8. ASSUME NEW s \in Slots, s # r
      PROVE  Busy(s)' = Busy(s) /\ Writes(s)' = Writes(s)
  <2>1. CASE Busy(s)
    BY <1>6, <1>8, <2>1 DEF Busy, Writes
  <2>2. CASE ~Busy(s)
    <3>1. req'[s] = req[s]
      BY <1>2, <1>5, <1>8, <2>2 DEF NearOnes
    <3>2. QED
      BY <2>2, <3>1 DEF Busy, Writes
  <2>3. QED
    BY <2>1, <2>2
<1>9. Busy(r)' /\ (Writes(r)' => hit = near)
  BY <1>4, <1>5, <1>7 DEF Busy, Writes
\* A writer that the request comes near has paths among those of the request.
<1>10. \A s \in met : req[s].paths \subseteq P
  BY DEF Reach
\* What stays as it was is not near the request.
<1>11. ASSUME NEW s \in Slots, s # r, Busy(s), s \notin near, req[s].quiet \/ Writes(s)
       PROVE  ~Near(P, req[s].paths) /\ ~Near(req[s].paths, P)
  BY <1>1, <1>11, ReachIsFar, NearBothWays
<1>12. ASSUME NEW s \in Slots, s # r, Writes(s), s \in near
       PROVE  s \in met
  BY <1>12 DEF Met
<1> HIDE DEF near, met, P
<1>13. ASSUME NEW s \in Slots, s # r, Busy(s)
      PROVE  /\ s \in hit => ~req'[s].quiet /\ (Writes(s) => req'[s].paths = P)
             /\ s \notin hit => req'[s] = req[s]
  <2>1. s \in hit /\ Writes(s) => req[s].paths \subseteq P
    BY <1>5, <1>10, <1>12, <1>13
  <2>2. QED
    BY <1>6, <1>13, <2>1
<1>14. Apart'
  <2> SUFFICES ASSUME NEW x \in Slots, NEW y \in Slots, x # y, Busy(x)', Writes(y)'
               PROVE  /\ req'[x].quiet => ~Near(req'[x].paths, req'[y].paths)
                      /\ Writes(x)' => \/ req'[x].paths = req'[y].paths
                                       \/ ~Near(req'[x].paths, req'[y].paths)
    BY Zenon DEF Apart
  <2>1. CASE x = r
    <3>1. y # r /\ Writes(y) /\ Busy(y) /\ req'[x].paths = P /\ req'[x].quiet = (met = {})
      BY <1>4, <1>7, <1>8, <2>1 DEF Writes
    <3>2. CASE y \in near
      <4>1. y \in met /\ req[y].paths \subseteq P
        BY <1>10, <1>12, <3>1, <3>2
      <4>2. Writes(x)' => y \in hit
        BY <1>9, <2>1, <3>2 DEF Writes, Busy
      <4>3. y \in hit => req'[y].paths = P
        <5>1. y \in hit => req'[y].paths = req[y].paths \cup P
          BY <1>6, <3>1
        <5>2. QED
          BY <4>1, <5>1
      <4>4. QED
        BY <3>1, <4>1, <4>2, <4>3
    <3>3. CASE y \notin near
      <4>1. req'[y] = req[y]
        BY <1>5, <1>6, <3>1, <3>3
      <4>2. QED
        BY <1>11, <3>1, <3>3, <4>1
    <3>4. QED
      BY <3>2, <3>3
  <2>2. CASE x # r /\ y = r
    <3>1. Busy(x) /\ hit = near /\ req'[y].paths = P /\ (Writes(x)' => Writes(x))
      BY <1>4, <1>7, <1>8, <1>9, <2>2
    <3>2. CASE x \in near
      <4>1. ~req'[x].quiet /\ req'[x].paths = req[x].paths \cup P
        BY <1>6, <2>2, <3>1, <3>2
      <4>2. Writes(x)' => req'[x].paths = P
        BY <1>10, <1>12, <2>2, <3>1, <3>2, <4>1
      <4>3. QED
        BY <3>1, <4>1, <4>2
    <3>3. CASE x \notin near
      <4>1. req'[x] = req[x]
        BY <1>6, <2>2, <3>1, <3>3
      <4>2. QED
        BY <1>11, <2>2, <3>1, <3>3, <4>1
    <3>4. QED
      BY <3>2, <3>3
  <2>3. CASE x # r /\ y # r
    <3>1. Busy(x) /\ Writes(y) /\ Busy(y) /\ (Writes(x)' => Writes(x))
      BY <1>8, <2>3 DEF Writes
    <3>2. CASE x \in hit /\ y \in hit
      <4>1. ~req'[x].quiet /\ (Writes(x) => req'[x].paths = P) /\ req'[y].paths = P
        BY <1>13, <2>3, <3>1, <3>2
      <4>2. QED
        BY <3>1, <4>1
    <3>3. CASE x \in hit /\ y \notin hit
      <4>1. ~req'[x].quiet /\ (Writes(x) => req'[x].paths = P) /\ req'[y] = req[y] /\ y \notin near
        BY <1>5, <1>13, <2>3, <3>1, <3>3
      <4>2. QED
        BY <1>11, <2>3, <3>1, <4>1
    <3>4. CASE x \notin hit /\ y \in hit
      <4>1. req'[x] = req[x] /\ req'[y].paths = P /\ x \notin near
        BY <1>5, <1>13, <2>3, <3>1, <3>4
      <4>2. QED
        BY <1>11, <2>3, <3>1, <4>1
    <3>5. CASE x \notin hit /\ y \notin hit
      <4>1. req'[x] = req[x] /\ req'[y] = req[y]
        BY <1>6, <2>3, <3>1, <3>5
      <4>2. QED
        BY <1>1, <3>1, <4>1 DEF Apart
    <3>6. QED
      BY <3>2, <3>3, <3>4, <3>5
  <2>4. QED
    BY <2>1, <2>2, <2>3
<1>15. IsTree(fs') /\ Evolves(fs, fs')
  <2>1. {} \subseteq Seq(Names)
    OBVIOUS
  <2>2. Evolves(fs, fs)
    BY <1>1, <2>1, NoChange DEF Changes
  <2>3. QED
    BY <1>1, <1>2, <2>2
<1>16. ASSUME NEW s \in Slots, Busy(s)'
       PROVE  Steady(fs', req'[s]) /\ MayTouch(req[s].call, req[s].paths)'
  <2>1. CASE s = r
    <3>1. Steady(fs', req'[s]) /\ c = req'[s].call /\ P = req'[s].paths
      BY <1>2, <1>4, <1>7, <2>1
    <3>2. MayTouch(c, P)
      BY <1>3 DEF MayTouch
    <3>3. MayTouch(req[s].call, req[s].paths)'
      <4> DEFINE G == P
      <4>1. MayTouch(c, G) /\ G = req'[s].paths
        BY <3>1, <3>2
      <4> HIDE DEF G
      <4>2. QED
        BY <1>1, <1>15, <3>1, <4>1, TouchStays
    <3>4. QED
      BY <3>1, <3>3
  <2>2. CASE s # r
    <3>1. Busy(s)
      BY <1>8, <1>16, <2>2
    <3>2. /\ Steady(fs', req'[s]) /\ req'[s].call = req[s].call /\ req[s].paths \subseteq req'[s].paths
          /\ req'[s].paths \subseteq req[s].paths \cup P
      BY <1>2, <1>6, <2>2, <3>1
    <3>3. MayTouch(req[s].call, req[s].paths)
      BY <1>1, <3>1
    <3> DEFINE d == req[s].call
               G == req[s].paths \cup (req'[s].paths)
    <3>4. MayTouch(d, G) /\ d = req'[s].call /\ G = req'[s].paths
      BY <1>3, <3>2, <3>3 DEF MayTouch
    <3> HIDE DEF d, G
    <3>5. MayTouch(req[s].call, req[s].paths)'
      BY <1>1, <1>15, <3>4, TouchStays
    <3>6. QED
      BY <3>2, <3>5
  <2>3. QED
    BY <2>1, <2>2
<1>17. TypeOK'
  <2>1. \A s \in Slots : Busy(s)' => IsRequest(req'[s])
    BY <1>16 DEF Steady
  <2>2. IsTree(fs') /\ server' = "serving"
    BY <1>1, <1>2
  <2>3. count' \in 0 .. MaxCalls
    <3>1. count \in 0 .. MaxCalls /\ count < MaxCalls /\ count' = count + 1
      BY <1>1, <1>2
    <3>2. MaxCalls \in Nat
      BY WorkspaceAssumption
    <3>3. QED
      BY <3>1, <3>2
  <2>4. QED
    BY <2>1, <2>2, <2>3 DEF TypeOK
<1>18. \A s \in Slots : Busy(s)' => Steady(fs', req'[s]) /\ MayTouch(req[s].call, req[s].paths)'
  BY <1>16
<1>19. QED
  BY <1>7, <1>14, <1>17, <1>18 DEF Inv

\* A tree that stays the same.
LEMMA SameTree ==
  ASSUME IsTree(fs), fs' = fs
  PROVE  IsTree(fs') /\ Evolves(fs, fs')
<1>1. {} \subseteq Seq(Names)
  OBVIOUS
<1>2. Evolves(fs, fs)
  BY <1>1, NoChange DEF Changes
<1>3. QED
  BY <1>2

\* A request is answered: the others stay as they are.
LEMMA AnswerKeeps ==
  ASSUME Inv, NEW r \in Slots, Answer(r)
  PROVE  Inv'
<1>1. /\ IsTree(fs) /\ req = [s \in Slots |-> req[s]] /\ Apart
      /\ \A s \in Slots : Busy(s) => Steady(fs, req[s]) /\ MayTouch(req[s].call, req[s].paths)
      /\ server \in {"serving", "draining", "gone"} /\ count \in 0 .. MaxCalls
  BY DEF Inv, TypeOK
<1>2. /\ fs' = fs /\ server' = server /\ count' = count
      /\ req' = [s \in Slots |-> req'[s]]
      /\ \A s \in Slots : IF s = r THEN req'[s] = Idle ELSE req'[s] = req[s]
  BY <1>1 DEF Answer, Become
<1>3. \A s \in Slots : /\ Busy(s)' => s # r /\ req'[s] = req[s] /\ Busy(s)
                       /\ Writes(s)' => Writes(s)
  BY <1>2 DEF Busy, Writes, Idle
<1>4. Apart'
  <2> SUFFICES ASSUME NEW x \in Slots, NEW y \in Slots, x # y, Busy(x)', Writes(y)'
               PROVE  /\ req'[x].quiet => ~Near(req'[x].paths, req'[y].paths)
                      /\ Writes(x)' => \/ req'[x].paths = req'[y].paths
                                       \/ ~Near(req'[x].paths, req'[y].paths)
    BY Zenon DEF Apart
  <2>1. Busy(x) /\ Writes(y) /\ Busy(y)' /\ (Writes(x)' => Writes(x))
    BY <1>3 DEF Writes
  <2>2. req'[x] = req[x] /\ req'[y] = req[y]
    BY <1>3, <2>1
  <2>3. QED
    BY <1>1, <2>1, <2>2 DEF Apart
<1>5. ASSUME NEW s \in Slots, Busy(s)'
      PROVE  Steady(fs', req'[s]) /\ MayTouch(req[s].call, req[s].paths)'
  <2> DEFINE c == req[s].call
             P == req[s].paths
  <2>1. Steady(fs', req'[s]) /\ MayTouch(c, P) /\ c = req'[s].call /\ P = req'[s].paths
    BY <1>1, <1>2, <1>3, <1>5
  <2>2. IsTree(fs') /\ Evolves(fs, fs')
    BY <1>1, <1>2, SameTree
  <2> HIDE DEF c, P
  <2>3. QED
    BY <1>1, <2>1, <2>2, TouchStays
<1>6. TypeOK'
  BY <1>1, <1>2, <1>5 DEF TypeOK, Steady
<1>7. \A s \in Slots : Busy(s)' => Steady(fs', req'[s]) /\ MayTouch(req[s].call, req[s].paths)'
  BY <1>5
<1>8. QED
  BY <1>2, <1>4, <1>6, <1>7 DEF Inv

\* The tree is one, and it knows what each request is about, at every time.
LEMMA InitIs == Init => Inv
<1> SUFFICES ASSUME Init
             PROVE  Inv
  OBVIOUS
<1>1. /\ IsTree(fs) /\ server = "serving" /\ count = 0 /\ req = [r \in Slots |-> Idle]
      /\ req = [r \in Slots |-> req[r]]
  BY TreeAssumption DEF Init
<1>2. \A r \in Slots : ~Busy(r)
  BY <1>1 DEF Busy, Idle
<1>3. 0 \in 0 .. MaxCalls
  BY WorkspaceAssumption
<1>4. QED
  BY <1>1, <1>2, <1>3 DEF Inv, TypeOK, Apart

\* Every step keeps the invariant.
LEMMA NextKeeps == Inv /\ [Next]_vars => Inv'
<1> SUFFICES ASSUME Inv, [Next]_vars
             PROVE  Inv'
  OBVIOUS
<1>1. CASE UNCHANGED <<fs, req>> /\ count' = count /\ server' \in {"serving", "draining", "gone"}
  <2>1. TypeOK'
    BY <1>1 DEF Inv, TypeOK, Busy
  <2>2. Apart' /\ (req = [r \in Slots |-> req[r]])'
    BY <1>1 DEF Inv, Apart, Busy, Writes
  <2>3. \A r \in Slots : Busy(r)' => Steady(fs', req'[r]) /\ MayTouch(req[r].call, req[r].paths)'
    BY <1>1 DEF Inv, Busy, MayTouch, Footprint, PathsOf, LinksOf, HeadLinks
  <2>4. QED
    BY <2>1, <2>2, <2>3 DEF Inv
<1>2. ASSUME NEW r \in Slots, NEW c \in Calls, NEW form \in Forms, Accept(r, c, form)
      PROVE  Inv'
  BY <1>2, AcceptKeeps
<1>3. ASSUME NEW r \in Slots, Handle(r)
      PROVE  Inv'
  BY <1>3, HandleKeeps
<1>4. ASSUME NEW r \in Slots, Answer(r)
      PROVE  Inv'
  BY <1>4, AnswerKeeps
<1>5. CASE Shutdown
  BY <1>1, <1>5 DEF Shutdown
<1>6. CASE Drained
  BY <1>1, <1>6 DEF Drained
<1>7. CASE ShutdownExpires
  BY <1>1, <1>7 DEF ShutdownExpires
<1>8. CASE UNCHANGED vars
  BY <1>1, <1>8 DEF vars, Inv, TypeOK
<1>9. QED
  BY <1>2, <1>3, <1>4, <1>5, <1>6, <1>7, <1>8 DEF Next

-------------------------------------------------------------------------------
(***************************************************************************)
(* What requests see of each other                                         *)
(***************************************************************************)

\* Two levels are seen of a tree.
ShownAt(t, x) == IF Is(t, Lstat(t, <<x[1]>>), "link") /\ Len(x) > 1 THEN None ELSE Lstat(t, x)

\* What is not below the paths of a change looks the same after it.
LEMMA ViewStays ==
  ASSUME NEW t, NEW u, NEW P, Changes(t, u, P), NEW x \in Shown, ~Covered(P, x)
  PROVE  View(u)[x] = View(t)[x]
<1>1. View(u)[x] = Seen(u, ShownAt(u, x)) /\ View(t)[x] = Seen(t, ShownAt(t, x))
  BY DEF View, ShownAt
<1>2. IsTree(t) /\ IsTree(u) /\ P \subseteq Seq(Names) /\ Frame(t, u, P)
  BY DEF Changes
<1>3. ASSUME Direct(t, x), x \in Seq(Names)
      PROVE  Seen(u, Lstat(u, x)) = Seen(t, Lstat(t, x))
  BY <1>2, <1>3 DEF Frame
<1>4. CASE \E n \in Names : x = <<n>>
  <2>1. PICK n \in Names : x = <<n>>
    BY <1>4
  <2>2. x \in Seq(Names) /\ Len(x) = 1 /\ Direct(t, x)
    <3>1. << >> \in Seq(Names) /\ x \in Seq(Names) /\ Len(x) = 1
      BY <2>1
    <3>2. Direct(t, <<n>>)
      BY <1>2, <3>1, DirectAppend
    <3>3. QED
      BY <2>1, <3>1, <3>2
  <2>3. ShownAt(u, x) = Lstat(u, x) /\ ShownAt(t, x) = Lstat(t, x)
    BY <2>2 DEF ShownAt
  <2>4. QED
    BY <1>1, <1>3, <2>2, <2>3
<1>5. CASE \E n, m \in Names : x = <<n, m>>
  <2>1. PICK n \in Names, m \in Names : x = <<n, m>>
    BY <1>5
  <2> DEFINE h == <<n>>
  <2>2. /\ h \in Seq(Names) /\ x \in Seq(Names) /\ Len(x) = 2 /\ x # << >> /\ x[1] = n
        /\ x = Append(h, m) /\ h = <<x[1]>> /\ h # << >> /\ h[1] = n
    BY <2>1
  <2> HIDE DEF h
  <2>3. ~Covered(P, h)
    <3> SUFFICES ASSUME NEW o \in P, IsPrefix(o, h)
                 PROVE  FALSE
      BY DEF Covered
    <3>1. o \in Seq(Names) /\ IsPrefix(h, x)
      BY <1>2, <2>2, HeadIsPrefix
    <3>2. IsPrefix(o, x)
      BY <2>2, <3>1, PrefixLaws
    <3>3. QED
      BY <3>2 DEF Covered
  <2>4. Is(u, Lstat(u, h), "link") <=> Is(t, Lstat(t, h), "link")
    <3>1. ~Covered(P, <<x[1]>>)
      BY <2>2, <2>3
    <3>2. Is(u, Lstat(u, <<x[1]>>), "link") <=> Is(t, Lstat(t, <<x[1]>>), "link")
      BY <2>2, <3>1, HeadIsFramed
    <3>3. QED
      BY <2>2, <3>2
  <2>5. CASE Is(t, Lstat(t, h), "link")
    <3>1. ShownAt(u, x) = None /\ ShownAt(t, x) = None
      BY <2>2, <2>4, <2>5 DEF ShownAt
    <3>2. QED
      BY <1>1, <3>1 DEF Seen
  <2>6. CASE ~Is(t, Lstat(t, h), "link")
    <3>1. ShownAt(u, x) = Lstat(u, x) /\ ShownAt(t, x) = Lstat(t, x)
      BY <2>2, <2>4, <2>6 DEF ShownAt
    <3>2. Straight(t, h)
      BY <2>2, <2>6 DEF Straight
    <3>3. Direct(t, x)
      <4>1. Direct(t, Append(h, m))
        BY <1>2, <2>2, <3>2, DirectAppend
      <4>2. QED
        BY <2>2, <4>1
    <3>4. QED
      BY <1>1, <1>3, <2>2, <3>1, <3>3
  <2>7. QED
    BY <2>5, <2>6
<1>6. QED
  BY <1>4, <1>5 DEF Shown

\* A path near those of one request is not below those of another that is not
\* near it.
LEMMA NotCovered ==
  ASSUME NEW F, NEW G, F \subseteq Paths, G \subseteq Paths, ~Near(F, G),
         NEW x \in Seq(Names), Near({x}, F)
  PROVE  ~Covered(G, x)
<1> SUFFICES ASSUME Covered(G, x)
             PROVE  FALSE
  OBVIOUS
<1> DEFINE S == Names \cup {".."}
<1>1. PICK g \in G : IsPrefix(g, x)
  BY DEF Covered
<1>2. PICK f \in F : IsPrefix(x, f) \/ IsPrefix(f, x)
  BY DEF Near
<1>3. f \in Seq(S) /\ g \in Seq(S) /\ x \in Seq(S)
  BY <1>1, <1>2 DEF Paths
<1> HIDE DEF S
<1>4. IsPrefix(g, f) \/ IsPrefix(f, g)
  BY <1>1, <1>2, <1>3, PrefixLaws
<1>5. QED
  BY <1>1, <1>2, <1>4 DEF Near

\* A step of a request is not seen near the paths of one that is left alone.
LEMMA HandleIsolates ==
  ASSUME Inv, NEW w \in Slots, Handle(w), NEW r \in Slots, Busy(r), req[r].quiet, req'[r] = req[r],
         NEW x \in Shown, Near({x}, req[r].paths)
  PROVE  View(fs')[x] = View(fs)[x]
<1> DEFINE q == req[r]
           z == req[w]
<1>1. PICK u : Become(w, u) /\ StepOf(z, u, fs, fs')
  BY HandleIs DEF Advances
<1>2. /\ req = [s \in Slots |-> req[s]] /\ Apart /\ Busy(w) /\ z.pc # "done"
      /\ Steady(fs, z) /\ q.paths \subseteq Paths /\ z.paths \subseteq Paths
  BY DEF Inv, MayTouch, Handle
<1>3. CASE fs' = fs
  BY <1>3
<1>4. CASE fs' # fs
  <2>1. Changes(fs, fs', Region(z)) /\ u.pc # z.pc /\ z.call.tool \notin ReadOnly
    BY <1>1, <1>4 DEF StepOf
  <2>2. req'[w] = u
    BY <1>1, <1>2 DEF Become
  <2>3. r # w
    BY <2>1, <2>2
  <2>4. Writes(w)
    BY <1>2, <2>1 DEF Writes, Steady, Aimed
  <2>5. ~Near(q.paths, z.paths)
    BY <1>2, <2>3, <2>4 DEF Apart
  <2>6. x \in Seq(Names)
    <3>1. \A n, m \in Names : <<n>> \in Seq(Names) /\ <<n, m>> \in Seq(Names)
      OBVIOUS
    <3>2. (\E n \in Names : x = <<n>>) \/ (\E n, m \in Names : x = <<n, m>>)
      BY DEF Shown
    <3>3. QED
      BY <3>1, <3>2
  <2> HIDE DEF q, z
  <2>7. ~Covered(z.paths, x)
    BY <1>2, <2>5, <2>6, NotCovered DEF q
  <2>8. ~Covered(Region(z), x)
    BY <1>2, <2>6, <2>7, RegionCovers
  <2> DEFINE v == fs'
  <2>9. Changes(fs, v, Region(z))
    BY <2>1
  <2> HIDE DEF v
  <2>10. View(v)[x] = View(fs)[x]
    BY <2>8, <2>9, ViewStays
  <2>11. QED
    BY <2>10 DEF v
<1>5. QED
  BY <1>3, <1>4

-------------------------------------------------------------------------------
(***************************************************************************)
(* Refusals                                                                *)
(***************************************************************************)

\* A request may have changed the tree once it has opened its file or is done
\* and was not refused.
Changed(q)      == q.ok \/ q.broken \/ HasFile(q)
Untouched(t, q) == \A x \in Shown : Near({x}, q.paths) => View(t)[x] = View(q.before)[x]

\* touch has made its file, and so does not fail any more.
Reached(t, q) == q.call.tool = "touch" /\ q.pc = "chtimes" => Stat(t, q.dst) # None

\* What holds of the requests that no writer came near.
Traces ==
  \A r \in Slots : Busy(r) /\ req[r].quiet =>
    Reached(fs, req[r]) /\ (~Changed(req[r]) => Untouched(fs, req[r]))

\* q becomes u in a step from t to v: it changes the tree only if u tells so.
Traced(q, u, t, v) ==
  /\ u.before = q.before
  /\ v = t \/ Changed(u)
  /\ Changed(q) => Changed(u)
  /\ Reached(v, u)

\* A request in its slot that is ready.
Stands(r) == r \in Slots /\ req = [s \in Slots |-> req[s]] /\ Ready(r) /\ Reached(fs, req[r])

\* A request in its slot is replaced by what it becomes.
LEMMA Records ==
  ASSUME NEW r, Stands(r), NEW u, Become(r, u)
  PROVE  req'[r] = u /\ DOMAIN req[r] = Fields /\ req[r].pc # "done"
BY DEF Stands, Become, Ready, Steady

\* A step that leaves the tree alone, of a request that has no file open.
LEMMA LightStep ==
  ASSUME NEW r, Stands(r), ~HasFile(req[r]), Keep, NEW u, Become(r, u),
         u.before = req[r].before, req[r].ok => u.ok, req[r].broken => u.broken, u.pc # "chtimes"
  PROVE  Traced(req[r], req'[r], fs, fs')
<1>1. req'[r] = u
  BY Records
<1>2. QED
  BY <1>1 DEF Traced, Changed, Reached, Keep

\* Going on changes nothing.
LEMMA GotoTraced ==
  ASSUME NEW r, Stands(r), ~HasFile(req[r]), Keep, NEW pc, pc # "chtimes", Goto(r, pc)
  PROVE  Traced(req[r], req'[r], fs, fs')
<1> DEFINE q == req[r]
           u == [q EXCEPT !.pc = pc]
<1>1. Become(r, u) /\ DOMAIN q = Fields
  BY Records DEF Goto
<1> HIDE DEF q
<1>2. u.before = q.before /\ u.ok = q.ok /\ u.broken = q.broken /\ u.pc # "chtimes"
  BY <1>1 DEF Fields
<1> HIDE DEF u
<1>3. QED
  BY <1>1, <1>2, LightStep DEF q

\* Failing changes nothing, before a file is open.
LEMMA FailsTraced ==
  ASSUME NEW r, Stands(r), ~HasFile(req[r]), Keep, Fails(r)
  PROVE  Traced(req[r], req'[r], fs, fs')
<1>1. Goto(r, "done")
  BY DEF Fails, Goto
<1>2. QED
  BY <1>1, GotoTraced

\* Whatever a step changes, a request that succeeds with it tells so.
LEMMA SucceedsTraced ==
  ASSUME NEW r, Stands(r), Succeeds(r)
  PROVE  Traced(req[r], req'[r], fs, fs')
<1> DEFINE q == req[r]
           u == [q EXCEPT !.pc = "done", !.ok = TRUE]
<1>1. req'[r] = u /\ DOMAIN q = Fields
  BY Records DEF Succeeds
<1> HIDE DEF q
<1>2. u.before = q.before /\ u.ok /\ u.pc = "done"
  BY <1>1 DEF Fields
<1> HIDE DEF u
<1>3. QED
  BY <1>1, <1>2 DEF Traced, Changed, Reached, q

\* resolvePath changes nothing.
LEMMA ResolveTraced ==
  ASSUME NEW r, Stands(r), ~HasFile(req[r]), NEW p, NEW field \in {"src", "dst"},
         NEW next, next # "chtimes", ResolvePath(r, p, field, next)
  PROVE  Traced(req[r], req'[r], fs, fs')
<1> DEFINE q == req[r]
           k == Canonical(fs, Cleaned(p))
           u == [q EXCEPT ![field] = k, !.pc = next]
<1>1. Keep /\ (Become(r, u) \/ Fails(r))
  BY DEF ResolvePath
<1>2. CASE Become(r, u)
  <2>1. Become(r, u) /\ DOMAIN q = Fields
    BY <1>2, Records
  <2> HIDE DEF q, k
  <2>2. u.before = q.before /\ u.ok = q.ok /\ u.broken = q.broken /\ u.pc # "chtimes"
    BY <2>1 DEF Fields
  <2> HIDE DEF u
  <2>3. QED
    BY <1>1, <2>1, <2>2, LightStep DEF q
<1>3. QED
  BY <1>1, <1>2, FailsTraced

\* resolveTouchPath changes nothing.
LEMMA ResolveTouchTraced ==
  ASSUME NEW r, Stands(r), ~HasFile(req[r]), NEW p, NEW next, next # "chtimes",
         ResolveTouchPath(r, p, next)
  PROVE  Traced(req[r], req'[r], fs, fs')
<1>1. (Goto(r, "parent") /\ Keep) \/ ResolvePath(r, p, "dst", next)
  BY DEF ResolveTouchPath
<1>2. QED
  BY <1>1, GotoTraced, ResolveTraced

\* Looking for the parent changes nothing.
LEMMA ParentTraced ==
  ASSUME NEW r, Stands(r), ~HasFile(req[r]), NEW p, NEW next, next # "chtimes",
         ResolveParent(r, p, next)
  PROVE  Traced(req[r], req'[r], fs, fs')
<1> DEFINE q == req[r]
           d == Append(Canonical(fs, Front(Cleaned(p))), Last(Cleaned(p)))
           u == [q EXCEPT !.dst = d, !.pc = next]
<1>1. Keep /\ (Become(r, u) \/ Fails(r))
  BY DEF ResolveParent
<1>2. CASE Become(r, u)
  <2>1. Become(r, u) /\ DOMAIN q = Fields
    BY <1>2, Records
  <2> HIDE DEF q, d
  <2>2. u.before = q.before /\ u.ok = q.ok /\ u.broken = q.broken /\ u.pc # "chtimes"
    BY <2>1 DEF Fields
  <2> HIDE DEF u
  <2>3. QED
    BY <1>1, <2>1, <2>2, LightStep DEF q
<1>3. QED
  BY <1>1, <1>2, FailsTraced

\* A check changes nothing.
LEMMA CheckTraced ==
  ASSUME NEW r, Stands(r), ~HasFile(req[r]), NEW good, NEW next, next # "chtimes",
         Check(r, good, next)
  PROVE  Traced(req[r], req'[r], fs, fs')
BY GotoTraced, FailsTraced DEF Check

\* Opening a target changes the tree, and leaves a file open.
LEMMA OpenTraced ==
  ASSUME NEW r, Stands(r), ~HasFile(req[r]), NEW next, Opens(req[r].call, req[r].pc, next),
         NEW truncate \in BOOLEAN, req[r].call.tool = "touch" => ~truncate,
         OpenForWriting(r, truncate, next)
  PROVE  Traced(req[r], req'[r], fs, fs')
<1> DEFINE q    == req[r]
           made == Created(fs, q.dst)
           i    == Stat(made, q.dst)
           over == truncate /\ Stat(fs, q.dst) # None
           u    == [q EXCEPT !.pc = next, !.fd = i, !.over = over]
<1>1. \/ /\ Is(made, i, "file") /\ Become(r, u)
         /\ fs' = IF truncate THEN [made EXCEPT ![i].text = << >>] ELSE made
      \/ Keep /\ Fails(r)
  BY DEF OpenForWriting
<1>2. CASE Is(made, i, "file") /\ Become(r, u) /\ fs' = IF truncate THEN [made EXCEPT ![i].text = << >>] ELSE made
  <2>1. req'[r] = u /\ DOMAIN q = Fields /\ Opens(q.call, q.pc, next) /\ i # None
    BY <1>2, Records DEF Is
  <2>2. q.call.tool = "touch" => fs' = made
    BY <1>2
  <2>3. i = Stat(made, q.dst)
    OBVIOUS
  <2> HIDE DEF q, i, over, made
  <2>4. u.before = q.before /\ u.pc = next /\ u.call = q.call /\ u.dst = q.dst
    BY <2>1 DEF Fields
  <2> HIDE DEF u
  <2>5. HasFile(u)
    BY <2>1, <2>4 DEF Opens, HasFile
  <2>6. Reached(fs', u)
    BY <2>1, <2>2, <2>3, <2>4 DEF Reached
  <2>7. QED
    BY <2>1, <2>4, <2>5, <2>6 DEF Traced, Changed, q
<1>3. QED
  BY <1>1, <1>2, FailsTraced

\* A write succeeds or is told to have failed on the disk.
LEMMA WriteTraced ==
  ASSUME NEW r, Stands(r), NEW text, Write(r, text)
  PROVE  Traced(req[r], req'[r], fs, fs')
<1> DEFINE q == req[r]
           u == [q EXCEPT !.pc = "done", !.broken = TRUE]
<1>1. Succeeds(r) \/ Become(r, u)
  BY DEF Write
<1>2. CASE Become(r, u)
  <2>1. req'[r] = u /\ DOMAIN q = Fields
    BY <1>2, Records
  <2> HIDE DEF q
  <2>2. u.before = q.before /\ u.broken /\ u.pc = "done"
    BY <2>1 DEF Fields
  <2> HIDE DEF u
  <2>3. QED
    BY <2>1, <2>2 DEF Traced, Changed, Reached, q
<1>3. QED
  BY <1>1, <1>2, SucceedsTraced

\* The tools that change nothing.
LEMMA ReadTraced ==
  ASSUME NEW r, Stands(r), RunLS(r) \/ RunCat(r) \/ RunFind(r)
  PROVE  Traced(req[r], req'[r], fs, fs')
<1> DEFINE q == req[r]
<1>1. ~HasFile(q) /\ DOMAIN q = Fields
  <2>1. q.call.tool \in ReadOnly
    BY DEF RunLS, RunCat, RunFind, Runs, ReadOnly
  <2>2. QED
    BY <2>1 DEF HasFile, ReadOnly, Stands, Ready, Steady
<1>2. CASE RunLS(r)
  <2> DEFINE out == Slice(EntriesOf(fs, Stat(fs, q.src), NameOrder), 1, MaxList)
             cut == Len(out) = MaxList
             u   == [q EXCEPT !.pc = "done", !.ok = TRUE, !.out = out, !.cut = cut]
  <2>1. ResolvePath(r, q.call.path, "src", "list") \/ (Keep /\ Fails(r)) \/ (Keep /\ Become(r, u))
    BY <1>2 DEF RunLS
  <2>2. Keep /\ Become(r, u) => Traced(q, req'[r], fs, fs')
    <3> HIDE DEF q, out, cut
    <3>1. u.before = q.before /\ (q.ok => u.ok) /\ u.broken = q.broken /\ u.pc = "done"
      BY <1>1 DEF Fields
    <3> HIDE DEF u
    <3>2. QED
      BY <1>1, <3>1, LightStep DEF q
  <2>3. QED
    BY <1>1, <2>1, <2>2, ResolveTraced, FailsTraced
<1>3. CASE RunCat(r)
  <2> DEFINE size   == Len(fs[Lstat(fs, q.src)].text)
             i      == Stat(fs, q.src)
             text   == fs[q.in].text
             offset == IF q.call.view = "tail" /\ q.size > MaxRead THEN q.size - MaxRead ELSE 0
             out    == Slice(text, offset + 1, MaxRead)
             cut    == offset > 0 \/ Len(text) - offset > MaxRead
             a      == [q EXCEPT !.pc = "open", !.size = size]
             b      == [q EXCEPT !.pc = "read", !.in = i]
             u      == [q EXCEPT !.pc = "done", !.ok = TRUE, !.out = out, !.cut = cut]
  <2>1. \/ ResolvePath(r, q.call.path, "src", "check")
        \/ Keep /\ (Fails(r) \/ Become(r, a) \/ Become(r, b) \/ Become(r, u))
    BY <1>3 DEF RunCat
  <2>2. /\ Keep /\ Become(r, a) => Traced(q, req'[r], fs, fs')
        /\ Keep /\ Become(r, b) => Traced(q, req'[r], fs, fs')
        /\ Keep /\ Become(r, u) => Traced(q, req'[r], fs, fs')
    <3> HIDE DEF q, size, i, out, cut
    <3>1. a.before = q.before /\ a.ok = q.ok /\ a.broken = q.broken /\ a.pc = "open"
      BY <1>1 DEF Fields
    <3>2. b.before = q.before /\ b.ok = q.ok /\ b.broken = q.broken /\ b.pc = "read"
      BY <1>1 DEF Fields
    <3>3. u.before = q.before /\ (q.ok => u.ok) /\ u.broken = q.broken /\ u.pc = "done"
      BY <1>1 DEF Fields
    <3> HIDE DEF a, b, u
    <3>4. QED
      BY <1>1, <3>1, <3>2, <3>3, LightStep DEF q
  <2>3. QED
    BY <1>1, <2>1, <2>2, ResolveTraced, FailsTraced
<1>4. CASE RunFind(r)
  <2> DEFINE c    == q.call
             good == Is(fs, Stat(fs, q.src), "dir")
             from == Children(q.src, Stat(fs, q.src))
             e    == Head(q.walk)
             i    == Lstat(fs, e.path)
             hit  == e.kind # "link" /\ Last(e.path) \in c.match
             out  == IF hit THEN Append(q.out, e.path) ELSE q.out
             more == IF e.kind = "dir" THEN Children(e.path, i) ELSE << >>
             a    == [q EXCEPT !.pc = "walk", !.walk = from]
             b    == [q EXCEPT !.out = out, !.walk = more \o Tail(@)]
             u    == [q EXCEPT !.pc = "done", !.ok = TRUE, !.out = out, !.cut = TRUE]
  <2>1. \/ ResolvePath(r, c.path, "src", "check")
        \/ Check(r, good, "root")
        \/ Succeeds(r)
        \/ Keep /\ (Fails(r) \/ Become(r, a) \/ Become(r, u))
        \/ Keep /\ Become(r, b) /\ q.pc = "walk"
    BY <1>4 DEF RunFind, Runs
  <2>2. /\ Keep /\ Become(r, a) => Traced(q, req'[r], fs, fs')
        /\ Keep /\ Become(r, b) /\ q.pc = "walk" => Traced(q, req'[r], fs, fs')
        /\ Keep /\ Become(r, u) => Traced(q, req'[r], fs, fs')
    <3> HIDE DEF q, from, out, more
    <3>1. a.before = q.before /\ a.ok = q.ok /\ a.broken = q.broken /\ a.pc = "walk"
      BY <1>1 DEF Fields
    <3>2. b.before = q.before /\ b.ok = q.ok /\ b.broken = q.broken /\ b.pc = q.pc
      BY <1>1 DEF Fields
    <3>3. u.before = q.before /\ (q.ok => u.ok) /\ u.broken = q.broken /\ u.pc = "done"
      BY <1>1 DEF Fields
    <3> HIDE DEF a, b, u
    <3>4. QED
      BY <1>1, <3>1, <3>2, <3>3, LightStep DEF q
  <2> HIDE DEF a, b, u, good
  <2>3. QED
    BY <1>1, <2>1, <2>2, ResolveTraced, CheckTraced, SucceedsTraced, FailsTraced
<1>5. QED
  BY <1>2, <1>3, <1>4

\* touch makes its file when it has nothing more to refuse.
LEMMA TouchTraced ==
  ASSUME NEW r, Stands(r), RunTouch(r)
  PROVE  Traced(req[r], req'[r], fs, fs')
<1> DEFINE p == req[r].call.path
<1>1. CASE Runs(r, "touch", "begin") /\ ResolveTouchPath(r, p, "open")
  <2>1. ~HasFile(req[r])
    BY <1>1 DEF Runs, HasFile
  <2>2. QED
    BY <1>1, <2>1, ResolveTouchTraced
<1>2. CASE Runs(r, "touch", "parent") /\ ResolveParent(r, p, "open")
  <2>1. ~HasFile(req[r])
    BY <1>2 DEF Runs, HasFile
  <2>2. QED
    BY <1>2, <2>1, ParentTraced
<1>3. CASE Runs(r, "touch", "open") /\ OpenForWriting(r, FALSE, "chtimes")
  <2>1. ~HasFile(req[r]) /\ Opens(req[r].call, req[r].pc, "chtimes")
    BY <1>3 DEF Runs, HasFile, Opens
  <2>2. QED
    BY <1>3, <2>1, OpenTraced
<1>4. CASE Runs(r, "touch", "chtimes") /\ IF Stat(fs, req[r].dst) # None THEN Succeeds(r) ELSE Fails(r)
  <2>1. Stat(fs, req[r].dst) # None
    BY <1>4 DEF Stands, Reached, Runs
  <2>2. QED
    BY <1>4, <2>1, SucceedsTraced
<1>5. QED
  BY <1>1, <1>2, <1>3, <1>4 DEF RunTouch

\* mkdir makes its directory in its last step.
LEMMA MkdirTraced ==
  ASSUME NEW r, Stands(r), RunMkdir(r)
  PROVE  Traced(req[r], req'[r], fs, fs')
<1>1. ~HasFile(req[r])
  BY DEF RunMkdir, Runs, HasFile
<1>2. \/ ResolveTouchPath(r, req[r].call.path, "make")
      \/ ResolveParent(r, req[r].call.path, "make")
      \/ Succeeds(r) \/ (Keep /\ Fails(r))
  BY DEF RunMkdir
<1>3. QED
  BY <1>1, <1>2, ResolveTouchTraced, ParentTraced, SucceedsTraced, FailsTraced

\* cp opens its target after all of its checks.
LEMMA CopyTraced ==
  ASSUME NEW r, Stands(r), RunCopy(r)
  PROVE  Traced(req[r], req'[r], fs, fs')
<1> DEFINE q == req[r]
           c == q.call
<1>1. CASE Runs(r, "cp", "begin") /\ ResolvePath(r, c.path, "src", "checksrc")
  <2>1. ~HasFile(q)
    BY <1>1 DEF Runs, HasFile
  <2>2. QED
    BY <1>1, <2>1, ResolveTraced
<1>2. CASE \E good : Runs(r, "cp", "checksrc") /\ Check(r, good, "dst")
  <2>1. ~HasFile(q)
    BY <1>2 DEF Runs, HasFile
  <2>2. QED
    BY <1>2, <2>1, CheckTraced
<1>3. CASE Runs(r, "cp", "dst") /\ ResolveTouchPath(r, c.dest, "checkdst")
  <2>1. ~HasFile(q)
    BY <1>3 DEF Runs, HasFile
  <2>2. QED
    BY <1>3, <2>1, ResolveTouchTraced
<1>4. CASE Runs(r, "cp", "parent") /\ ResolveParent(r, c.dest, "checkdst")
  <2>1. ~HasFile(q)
    BY <1>4 DEF Runs, HasFile
  <2>2. QED
    BY <1>4, <2>1, ParentTraced
<1>5. CASE \E good : Runs(r, "cp", "checkdst") /\ Check(r, good, "opensrc")
  <2>1. ~HasFile(q)
    BY <1>5 DEF Runs, HasFile
  <2>2. QED
    BY <1>5, <2>1, CheckTraced
<1>6. CASE Runs(r, "cp", "opensrc") /\ RunCopy(r)
  <2> DEFINE i == Stat(fs, q.src)
             u == [q EXCEPT !.pc = "opendst", !.in = i]
  <2>1. Keep /\ (Become(r, u) \/ Fails(r)) /\ ~HasFile(q)
    BY <1>6 DEF RunCopy, Runs, HasFile
  <2>2. CASE Become(r, u)
    <3>1. Become(r, u) /\ DOMAIN q = Fields
      BY <2>2, Records
    <3> HIDE DEF q, i
    <3>2. u.before = q.before /\ u.ok = q.ok /\ u.broken = q.broken /\ u.pc = "opendst"
      BY <3>1 DEF Fields
    <3> HIDE DEF u
    <3>3. QED
      BY <2>1, <3>1, <3>2, LightStep DEF q
  <2>3. QED
    BY <2>1, <2>2, FailsTraced
<1>7. CASE Runs(r, "cp", "opendst") /\ OpenForWriting(r, TRUE, "copy")
  <2>1. ~HasFile(q) /\ Opens(c, q.pc, "copy") /\ c.tool # "touch"
    BY <1>7 DEF Runs, HasFile, Opens
  <2>2. QED
    BY <1>7, <2>1, OpenTraced
<1>8. CASE Runs(r, "cp", "copy") /\ RunCopy(r)
  <2> DEFINE text == Written(fs[q.fd].text, fs[q.in].text)
  <2>1. Write(r, text) \/ (Keep /\ Become(r, [q EXCEPT !.pc = "done", !.broken = TRUE]))
    BY <1>8 DEF RunCopy, Runs
  <2>2. \E w : Write(r, w)
    BY <2>1 DEF Write
  <2>3. QED
    BY <2>2, WriteTraced
<1>9. QED
  BY <1>1, <1>2, <1>3, <1>4, <1>5, <1>6, <1>7, <1>8 DEF RunCopy

\* mv renames in its last step.
LEMMA MoveTraced ==
  ASSUME NEW r, Stands(r), RunMove(r)
  PROVE  Traced(req[r], req'[r], fs, fs')
<1> DEFINE q == req[r]
           c == q.call
<1>1. ~HasFile(q)
  BY DEF RunMove, Runs, HasFile
<1> DEFINE over == Lstat(fs, q.dst) \notin {None, Lstat(fs, q.src)}
           u    == [q EXCEPT !.pc = "done", !.ok = TRUE, !.over = over]
<1>2. \/ Keep /\ Fails(r)
      \/ ResolvePath(r, c.path, "src", "dst")
      \/ ResolveTouchPath(r, c.dest, "check")
      \/ ResolveParent(r, c.dest, "check")
      \/ \E good : Check(r, good, "isdir") \/ Check(r, good, "rename")
      \/ Become(r, u)
  BY DEF RunMove
<1>3. CASE Become(r, u)
  <2>1. req'[r] = u /\ DOMAIN q = Fields
    BY <1>3, Records
  <2> HIDE DEF q, over
  <2>2. u.before = q.before /\ u.ok /\ u.pc = "done"
    BY <2>1 DEF Fields
  <2> HIDE DEF u
  <2>3. QED
    BY <2>1, <2>2 DEF Traced, Changed, Reached, q
<1>4. QED
  BY <1>1, <1>2, <1>3, ResolveTraced, ResolveTouchTraced, ParentTraced, CheckTraced, FailsTraced

\* rm and rmdir remove in their last step.
LEMMA RemovalTraced ==
  ASSUME NEW r, Stands(r), RunRemove(r) \/ RunRemoveDirectory(r)
  PROVE  Traced(req[r], req'[r], fs, fs')
<1>1. ~HasFile(req[r])
  BY DEF RunRemove, RunRemoveDirectory, HasFile
<1>2. \/ Keep /\ Fails(r)
      \/ ResolvePath(r, req[r].call.path, "src", "check")
      \/ \E good : Check(r, good, "remove")
      \/ Succeeds(r)
  BY DEF RunRemove, RunRemoveDirectory, Removal
<1>3. QED
  BY <1>1, <1>2, ResolveTraced, CheckTraced, SucceedsTraced, FailsTraced

\* write_file opens its target after all of its checks.
LEMMA WriteFileTraced ==
  ASSUME NEW r, Stands(r), RunWriteFile(r)
  PROVE  Traced(req[r], req'[r], fs, fs')
<1> DEFINE q == req[r]
           c == q.call
<1>1. CASE Runs(r, "write_file", "begin") /\ ResolveTouchPath(r, c.path, "check")
  <2>1. ~HasFile(q)
    BY <1>1 DEF Runs, HasFile
  <2>2. QED
    BY <1>1, <2>1, ResolveTouchTraced
<1>2. CASE Runs(r, "write_file", "parent") /\ ResolveParent(r, c.path, "check")
  <2>1. ~HasFile(q)
    BY <1>2 DEF Runs, HasFile
  <2>2. QED
    BY <1>2, <2>1, ParentTraced
<1>3. CASE \E good : Runs(r, "write_file", "check") /\ Check(r, good, "open")
  <2>1. ~HasFile(q)
    BY <1>3 DEF Runs, HasFile
  <2>2. QED
    BY <1>3, <2>1, CheckTraced
<1>4. CASE Runs(r, "write_file", "open") /\ OpenForWriting(r, ~c.append, "write")
  <2>1. ~HasFile(q) /\ Opens(c, q.pc, "write") /\ c.tool # "touch"
    BY <1>4 DEF Runs, HasFile, Opens
  <2> DEFINE truncate == ~c.append
  <2>2. truncate \in BOOLEAN /\ OpenForWriting(r, truncate, "write")
    BY <1>4
  <2> HIDE DEF truncate
  <2>3. QED
    BY <2>1, <2>2, OpenTraced
<1>5. CASE \E text : Write(r, text)
  BY <1>5, WriteTraced
<1>6. CASE Runs(r, "write_file", "begin") /\ Keep /\ Fails(r)
  <2>1. ~HasFile(q)
    BY <1>6 DEF Runs, HasFile
  <2>2. QED
    BY <1>6, <2>1, FailsTraced
<1>7. QED
  BY <1>1, <1>2, <1>3, <1>4, <1>5, <1>6 DEF RunWriteFile

\* A step of a request changes the tree only if the request tells so, and what
\* has told so once is not refused.
LEMMA HandleTraced ==
  ASSUME Inv, NEW r \in Slots, Handle(r), Reached(fs, req[r])
  PROVE  Traced(req[r], req'[r], fs, fs')
<1>1. Stands(r)
  BY HandleIs DEF Inv, Stands
<1>2. \/ RunLS(r) \/ RunCat(r) \/ RunFind(r) \/ RunTouch(r) \/ RunMkdir(r) \/ RunCopy(r)
      \/ RunMove(r) \/ RunRemove(r) \/ RunRemoveDirectory(r) \/ RunWriteFile(r)
  BY DEF Handle
<1>3. QED
  BY <1>1, <1>2, ReadTraced, TouchTraced, MkdirTraced, CopyTraced, MoveTraced, RemovalTraced,
     WriteFileTraced

\* A request keeps what it has reached, when another one changes the tree away
\* from its paths.
LEMMA ReachedStays ==
  ASSUME NEW q, NEW z, q.paths \subseteq Paths, z.paths \subseteq Paths, Steady(fs, q),
         ~Near(q.paths, z.paths), NEW v, Changes(fs, v, Region(z)), Reached(fs, q)
  PROVE  Reached(v, q)
<1> SUFFICES ASSUME q.call.tool = "touch" /\ q.pc = "chtimes"
             PROVE  Stat(v, q.dst) # None
  BY DEF Reached
<1> DEFINE d == q.dst
           o == Opened(fs, d)
<1>1. IsTree(fs) /\ Stat(fs, d) # None
  BY DEF Changes, Reached
<1>2. d \in Seq(Names) /\ Direct(fs, d) /\ Covered(q.paths, d) /\ Covered(q.paths, o)
  BY DEF Steady, IsRequest, Aimed, HasTarget
<1>3. o \in Seq(Names)
  BY <1>1, <1>2, OpenedIs
<1> HIDE DEF d, o
<1>4. ~Covered(Region(z), d) /\ ~Covered(Region(z), o)
  BY <1>2, <1>3, FarApart, RegionCovers
<1>5. QED
  BY <1>1, <1>2, <1>4, StatStays DEF d, o

\* What a request that is left alone has left untouched, the steps of the
\* others leave so, and its own steps until it has changed something itself.
LEMMA HandleKeepsTraces ==
  ASSUME Inv, Traces, NEW w \in Slots, Handle(w)
  PROVE  Traces'
<1> DEFINE z == req[w]
<1>1. PICK u : Become(w, u) /\ StepOf(z, u, fs, fs')
  BY HandleIs DEF Advances
<1>2. /\ req = [s \in Slots |-> req[s]] /\ Apart /\ Busy(w) /\ z.pc # "done" /\ Steady(fs, z)
      /\ \A s \in Slots : Busy(s) => Steady(fs, req[s]) /\ req[s].paths \subseteq Paths
  BY DEF Inv, MayTouch, Handle
<1>3. /\ req'[w] = u /\ u.paths = z.paths /\ u.quiet = z.quiet
      /\ \A s \in Slots : s # w => req'[s] = req[s]
  BY <1>1, <1>2 DEF Become, StepOf
<1>4. SUFFICES ASSUME NEW r \in Slots, Busy(r)', req'[r].quiet
               PROVE  Reached(fs', req'[r]) /\ (~Changed(req'[r]) => Untouched(fs', req'[r]))
  BY DEF Traces
<1>5. CASE r = w
  <2>1. Reached(fs, z) /\ (~Changed(z) => Untouched(fs, z))
    BY <1>2, <1>3, <1>4, <1>5 DEF Traces
  <2>2. Traced(z, u, fs, fs')
    BY <1>3, <2>1, HandleTraced
  <2>3. ~Changed(u) => Untouched(fs', u)
    BY <1>3, <2>1, <2>2 DEF Traced, Untouched
  <2>4. QED
    BY <1>3, <1>5, <2>2, <2>3 DEF Traced
<1>6. CASE r # w
  <2> DEFINE q == req[r]
  <2>1. req'[r] = q /\ Busy(r) /\ q.quiet
    BY <1>3, <1>4, <1>6 DEF Busy
  <2>2. Reached(fs, q) /\ (~Changed(q) => Untouched(fs, q))
    BY <2>1 DEF Traces
  <2>3. ~Changed(q) => Untouched(fs', q)
    <3>1. \A x \in Shown : Near({x}, q.paths) => View(fs')[x] = View(fs)[x]
      BY <2>1, HandleIsolates
    <3>2. QED
      BY <2>2, <3>1 DEF Untouched
  <2>4. CASE fs' = fs
    BY <2>1, <2>2, <2>3, <2>4
  <2>5. CASE fs' # fs
    <3>1. Changes(fs, fs', Region(z)) /\ Writes(w)
      BY <1>1, <1>2, <2>5 DEF StepOf, Writes, Steady, Aimed
    <3>2. ~Near(q.paths, z.paths) /\ Steady(fs, q) /\ q.paths \subseteq Paths /\ z.paths \subseteq Paths
      BY <1>2, <1>6, <2>1, <3>1 DEF Apart
    <3> DEFINE v == fs'
    <3>3. Changes(fs, v, Region(z))
      BY <3>1
    <3> HIDE DEF q, z, v
    <3>4. Reached(v, q)
      BY <2>2, <3>2, <3>3, ReachedStays
    <3>5. QED
      BY <2>1, <2>3, <3>4 DEF v
  <2>6. QED
    BY <2>4, <2>5
<1>7. QED
  BY <1>5, <1>6

\* A request that comes has left no trace yet, and disturbs no other's.
LEMMA AcceptKeepsTraces ==
  ASSUME Inv, Traces, NEW r \in Slots, NEW c \in Calls, NEW form \in Forms, Accept(r, c, form)
  PROVE  Traces'
<1> DEFINE F    == Footprint(c)
           met  == Met(r, F)
           P    == Reach(r, F)
           runs == Status(form) = 0
           hit  == IF runs /\ c.tool \notin ReadOnly THEN NearOnes(r, F) ELSE {}
           b    == Begun(c, runs, met = {}, P)
<1>1. /\ req = [s \in Slots |-> req[s]]
      /\ \A s \in Slots : Busy(s) => DOMAIN req[s] = Fields
  BY DEF Inv, Steady
<1>2. /\ req' = [s \in Slots |->
                   IF s = r THEN b
                   ELSE IF s \in hit THEN [req[s] EXCEPT !.quiet = FALSE, !.paths = @ \cup P]
                   ELSE req[s]]
      /\ fs' = fs
  BY DEF Accept, NearOnes, Met, Reach, Begun
<1>3. /\ b.pc \in {"begin", "done"} /\ b.before = fs /\ b.paths = P
  BY DEF Begin, Begun
<1>4. \A s \in hit : Busy(s)
  BY DEF NearOnes
<1> HIDE DEF b, hit, P
<1>5. SUFFICES ASSUME NEW s \in Slots, Busy(s)', req'[s].quiet
               PROVE  Reached(fs', req'[s]) /\ (~Changed(req'[s]) => Untouched(fs', req'[s]))
  BY DEF Traces
<1>6. CASE s = r
  <2>1. req'[s] = b
    BY <1>2, <1>6
  <2>2. QED
    BY <1>2, <1>3, <2>1 DEF Reached, Untouched
<1>7. CASE s # r /\ s \in hit
  <2> DEFINE q == req[s]
  <2>1. req'[s] = [q EXCEPT !.quiet = FALSE, !.paths = @ \cup P] /\ DOMAIN q = Fields
    BY <1>1, <1>2, <1>4, <1>7
  <2> HIDE DEF q
  <2>2. ~req'[s].quiet
    BY <2>1 DEF Fields
  <2>3. QED
    BY <1>5, <2>2
<1>8. CASE s # r /\ s \notin hit
  <2>1. req'[s] = req[s] /\ Busy(s)
    BY <1>1, <1>2, <1>5, <1>8 DEF Busy
  <2>2. QED
    BY <1>2, <1>5, <2>1 DEF Traces
<1>9. QED
  BY <1>6, <1>7, <1>8

\* Whatever happens, a request that is left alone and has changed nothing finds
\* the tree at its paths as it was.
LEMMA TracesKept == Inv /\ Traces /\ [Next]_vars => Traces'
<1> SUFFICES ASSUME Inv, Traces, [Next]_vars
             PROVE  Traces'
  OBVIOUS
<1>1. ASSUME NEW r \in Slots, Answer(r)
      PROVE  Traces'
  <2>1. fs' = fs /\ \A s \in Slots : IF s = r THEN req'[s] = Idle ELSE req'[s] = req[s]
    BY <1>1 DEF Inv, Answer, Become
  <2>2. \A s \in Slots : Busy(s)' => req'[s] = req[s] /\ Busy(s)
    BY <2>1 DEF Busy, Idle
  <2>3. QED
    BY <2>1, <2>2 DEF Traces
<1>2. CASE UNCHANGED <<fs, req>>
  BY <1>2 DEF Traces, Busy
<1>3. QED
  BY <1>1, <1>2, HandleKeepsTraces, AcceptKeepsTraces DEF Next, vars, Shutdown, Drained, ShutdownExpires

-------------------------------------------------------------------------------
(***************************************************************************)
(* Theorems                                                                *)
(***************************************************************************)

\* The invariant holds, however the system calls of the tools interleave
\* (internal/mcpserver/tools.go, workspace.go).
THEOREM Invariance == Spec => []Inv
<1>1. QED
  BY InitIs, NextKeeps, PTL DEF Spec

\* The file system stays a tree, where no inode has two names and every link
\* leads to no link, and every request is at a step of its tool.
THEOREM TypeCorrect == Spec => []TypeOK
<1>1. Inv => TypeOK
  BY DEF Inv
<1>2. QED
  BY <1>1, Invariance, PTL

\* cp, mv and write_file replace nothing without consent when no writer came
\* near between the check and the open or rename (runCopy, runMove,
\* runWriteFile).
THEOREM ConsentHolds == Spec => []OverwriteHasConsent
<1>1. Inv => OverwriteHasConsent
  BY DEF Inv, OverwriteHasConsent, Steady, Agreed
<1>2. QED
  BY <1>1, Invariance, PTL

\* However requests interleave, a step of one changes nothing that can be seen
\* near the paths of another that no writer came near (resolvePath,
\* resolveTouchPath and the run functions of tools.go).
THEOREM IsolationHolds == Spec => RequestsAreIsolated
<1> DEFINE Isolated ==
      \A r \in Slots : (Busy(r) /\ req[r].quiet /\ req'[r] = req[r]) =>
        \A x \in Shown : Near({x}, req[r].paths) => View(fs')[x] = View(fs)[x]
<1>1. Inv /\ [Next]_vars => Isolated
  <2> SUFFICES ASSUME Inv, [Next]_vars, NEW r \in Slots, Busy(r), req[r].quiet, req'[r] = req[r],
                      NEW x \in Shown, Near({x}, req[r].paths)
               PROVE  View(fs')[x] = View(fs)[x]
    OBVIOUS
  <2>1. fs' = fs \/ \E w \in Slots : Handle(w)
    BY DEF Next, vars, Accept, Answer, Shutdown, Drained, ShutdownExpires
  <2>2. CASE fs' = fs
    BY <2>2
  <2>3. CASE \E w \in Slots : Handle(w)
    BY <2>3, HandleIsolates
  <2>4. QED
    BY <2>1, <2>2, <2>3
<1>2. Inv /\ [Next]_vars => [Isolated]_vars
  BY <1>1
<1>3. Spec => [][Isolated]_vars
  BY <1>2, Invariance, PTL DEF Spec
<1>4. QED
  BY <1>3 DEF RequestsAreIsolated

\* A tool that refuses has changed nothing at its paths when no writer came
\* near: no check fails after the first system call that changes the tree (the
\* run functions of tools.go).
THEOREM RefusalHolds == Spec => []RefusalLeavesNoTrace
<1>1. Init => Traces
  BY DEF Init, Traces, Busy, Idle
<1>2. Traces => RefusalLeavesNoTrace
  BY DEF Traces, RefusalLeavesNoTrace, Changed, HasFile, Untouched
<1>3. Spec => []Traces
  BY <1>1, TracesKept, Invariance, PTL DEF Spec
<1>4. QED
  BY <1>2, <1>3, PTL

=============================================================================
