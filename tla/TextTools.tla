------------------------------ MODULE TextTools ------------------------------
(***************************************************************************)
(* The package coreutils: functions on texts, which are sequences of       *)
(* characters of a small alphabet, and the parts of the workspace tools    *)
(* cat and grep that cut a file down to the answer (internal/mcpserver).   *)
(*                                                                         *)
(* Patterns of grep are literal, and a number is a run of digits between   *)
(* spaces: regular expressions, and what else ParseFloat reads, are left   *)
(* out.  Sorting is by insertion, which is what SliceStable does up to     *)
(* twenty lines.                                                           *)
(***************************************************************************)
EXTENDS Integers, FiniteSets, SequencesExt

CONSTANTS
    Alphabet,       \* the characters in the order of their bytes
    Newline, Blank, \* two of them
    Digits,         \* those that are digits, with their values
    MaxLineLength

Rank(c) == CHOOSE i \in DOMAIN Alphabet : Alphabet[i] = c
Least(a, b) == IF a <= b THEN a ELSE b

-----------------------------------------------------------------------------
(* coreutils.go *)

SplitOn(text, d) ==
    FoldLeft(LAMBDA parts, c : IF c = d THEN Append(parts, <<>>)
                               ELSE [parts EXCEPT ![Len(parts)] = Append(@, c)],
             << <<>> >>, text)

SplitLines(text) ==
    IF text = <<>> THEN <<>>
    ELSE SplitOn(IF Last(text) = Newline THEN Front(text) ELSE text, Newline)

JoinLines(lines) == FlattenSeq([i \in DOMAIN lines |-> Append(lines[i], Newline)])

Clamp(text, limit) ==
    [text |-> SubSeq(text, 1, Least(limit, Len(text))), cut |-> Len(text) > limit]

ClampLines(lines) ==
    LET clamped == [i \in DOMAIN lines |-> Clamp(lines[i], MaxLineLength)] IN
    [lines |-> [i \in DOMAIN lines |-> clamped[i].text],
     cut   |-> \E i \in DOMAIN lines : clamped[i].cut]

-----------------------------------------------------------------------------
(* text.go *)

\* What Head and Tail return for the lines they keep of all of them.
Kept(kept, lines) ==
    LET clamped == ClampLines(kept) IN
    [text |-> JoinLines(clamped.lines), cut |-> Len(kept) < Len(lines) \/ clamped.cut]

HeadLines(text, n) ==
    LET lines == SplitLines(text) IN Kept(SubSeq(lines, 1, Least(n, Len(lines))), lines)

TailLines(text, n) ==
    LET lines == SplitLines(text)
    IN  Kept(SubSeq(lines, Len(lines) + 1 - Least(n, Len(lines)), Len(lines)), lines)

Space(c) == c \in {Blank, Newline}

WordCount(text) ==
    [lines |-> Cardinality({i \in DOMAIN text : text[i] = Newline})
                 + (IF text # <<>> /\ Last(text) # Newline THEN 1 ELSE 0),
     words |-> Cardinality({i \in DOMAIN text :
                              ~Space(text[i]) /\ (i = 1 \/ Space(text[i - 1]))}),
     bytes |-> Len(text)]

Smaller(a, b) ==
    \E i \in 1 .. Len(b) :
        /\ i <= Len(a) + 1 /\ \A j \in 1 .. i - 1 : a[j] = b[j]
        /\ i <= Len(a) => Rank(a[i]) < Rank(b[i])

\* The line without the spaces around it, if what is left is a number.
Trimmed(line) ==
    LET ink == {i \in DOMAIN line : ~Space(line[i])}
    IN  IF ink = {} THEN <<>>
        ELSE SubSeq(line, CHOOSE i \in ink : \A j \in ink : i <= j,
                          CHOOSE i \in ink : \A j \in ink : i >= j)
IsNumber(line) == Trimmed(line) # <<>> /\ \A i \in DOMAIN Trimmed(line) : Trimmed(line)[i] \in DOMAIN Digits
Value(line) == FoldLeft(LAMBDA n, c : 10 * n + Digits[c], 0, Trimmed(line))

Before(a, b, numeric) ==
    IF numeric /\ IsNumber(a) /\ IsNumber(b) THEN Value(a) < Value(b) ELSE Smaller(a, b)

\* An insertion that also passes the lines equal to the new one.
InsertFirst(sorted, line, numeric) ==
    LET stay == {i \in DOMAIN sorted : Before(sorted[i], line, numeric)}
        at   == IF stay = {} THEN 1 ELSE 1 + CHOOSE i \in stay : \A j \in stay : i >= j
    IN  InsertAt(sorted, at, line)

\* The new line moves up past the lines it is smaller than.
Insert(sorted, line, numeric) ==
    LET stay == {i \in DOMAIN sorted : ~Before(line, sorted[i], numeric)}
        at   == IF stay = {} THEN 1 ELSE 1 + CHOOSE i \in stay : \A j \in stay : i >= j
    IN  InsertAt(sorted, at, line)

UniqueAdjacent(lines) ==
    LET first(i) == i = 1 \/ lines[i] # lines[i - 1]
        keep == SelectSeq([i \in DOMAIN lines |-> i], first)
    IN  [i \in DOMAIN keep |-> lines[keep[i]]]

Sort(text, reverse, numeric, unique) ==
    LET sorted  == FoldLeft(LAMBDA s, line : Insert(s, line, numeric), <<>>, SplitLines(text))
        ordered == IF reverse THEN Reverse(sorted) ELSE sorted
    IN  JoinLines(IF unique THEN UniqueAdjacent(ordered) ELSE ordered)

\* Each run of equal lines, with its length: the prefix that count asks for.
Uniq(text) ==
    FoldLeft(LAMBDA runs, line :
                IF runs # <<>> /\ Last(runs).line = line
                THEN [runs EXCEPT ![Len(runs)].count = @ + 1]
                ELSE Append(runs, [line |-> line, count |-> 1]),
             <<>>, SplitLines(text))

Join(parts, d) ==
    FoldLeft(LAMBDA all, i : (IF i = 1 THEN <<>> ELSE Append(all, d)) \o parts[i],
             <<>>, [i \in DOMAIN parts |-> i])

\* Fields that a line does not have are skipped.
Cut(text, d, fields) ==
    LET cells(line) == SplitOn(line, d)
        here(line) == SelectSeq(fields, LAMBDA f : f <= Len(cells(line)))
        chosen(line) == [i \in DOMAIN here(line) |-> cells(line)[here(line)[i]]]
        lines == SplitLines(text)
    IN  JoinLines([i \in DOMAIN lines |-> Join(chosen(lines[i]), d)])

Paste(inputs, d) ==
    LET columns == [i \in DOMAIN inputs |-> SplitLines(inputs[i])]
        longest == CHOOSE n \in {Len(columns[i]) : i \in DOMAIN columns} :
                      \A i \in DOMAIN columns : Len(columns[i]) <= n
        cell(row, i) == IF row <= Len(columns[i]) THEN columns[i][row] ELSE <<>>
    IN  JoinLines([row \in 1 .. longest |-> Join([i \in DOMAIN columns |-> cell(row, i)], d)])

\* The last entry for a character counts; a short target repeats its last one.
Tr(text, from, to) ==
    LET entry(c) == CHOOSE i \in DOMAIN from : from[i] = c /\ \A j \in DOMAIN from : from[j] = c => j <= i
    IN  [k \in DOMAIN text |-> IF Contains(from, text[k])
                               THEN to[Least(entry(text[k]), Len(to))] ELSE text[k]]

TrDelete(text, from) == SelectSeq(text, LAMBDA c : ~Contains(from, c))

-----------------------------------------------------------------------------
(* search.go *)

Has(line, pattern) == \E i \in 0 .. Len(line) - Len(pattern) : SubSeq(line, i + 1, i + Len(pattern)) = pattern

\* A search that reports a full list of matches as a truncated one.
GrepFull(text, pattern, max) ==
    LET lines == SplitLines(text)
        hits  == SelectSeq([i \in DOMAIN lines |-> i], LAMBDA i : Has(lines[i], pattern))
        kept  == SubSeq(hits, 1, Least(max, Len(hits)))
    IN  [matches |-> [k \in DOMAIN kept |-> [line |-> kept[k], text |-> Clamp(lines[kept[k]], MaxLineLength).text]],
         cut     |-> Len(hits) >= max \/ \E k \in DOMAIN kept : Len(lines[kept[k]]) > MaxLineLength]

Grep(text, pattern, max) ==
    LET lines == SplitLines(text)
        hits  == SelectSeq([i \in DOMAIN lines |-> i], LAMBDA i : Has(lines[i], pattern))
        kept  == SubSeq(hits, 1, Least(max, Len(hits)))
    IN  [matches |-> [k \in DOMAIN kept |-> [line |-> kept[k], text |-> Clamp(lines[kept[k]], MaxLineLength).text]],
         cut     |-> Len(hits) > max \/ \E k \in DOMAIN kept : Len(lines[kept[k]]) > MaxLineLength]

-----------------------------------------------------------------------------
(* internal/mcpserver: readFile, readFileTail, runCat, runGrep. *)

ReadFile(file, limit) == Clamp(file, limit)

ReadFileTail(file, limit) ==
    [text |-> SubSeq(file, 1 + Len(file) - Least(limit, Len(file)), Len(file)),
     cut  |-> Len(file) > limit]

Cat(file, view, n, limit) ==
    LET read == IF view = "tail" THEN ReadFileTail(file, limit) ELSE ReadFile(file, limit)
        shown == CASE view = "head" -> HeadLines(read.text, n)
                   [] view = "tail" -> TailLines(read.text, n)
                   [] OTHER -> LET all == ClampLines(SplitLines(read.text))
                                   out == Clamp(JoinLines(all.lines), limit)
                               IN  [out EXCEPT !.cut = @ \/ all.cut]
    IN  [shown EXCEPT !.cut = @ \/ read.cut]

GrepFile(file, pattern, max, limit) ==
    LET read == ReadFile(file, limit) found == Grep(read.text, pattern, max)
    IN  [found EXCEPT !.cut = @ \/ read.cut]

-----------------------------------------------------------------------------
(* command.go: coreutils_run.  The only truncation it tells is that of its  *)
(* own limit: the flag of head and tail, which clamp lines, is dropped.     *)

Permitted(c) ==
    CASE c.name \in {"head", "tail"} -> c.count \in 0 .. 10000
      [] c.name = "cut" -> c.fields # <<>> /\ \A i \in DOMAIN c.fields : c.fields[i] \in 1 .. 1024
      [] OTHER -> c.name \in {"sort", "uniq", "wc", "tr"}

Run(c, stdin) ==
    CASE c.name = "head" -> HeadLines(stdin, c.count).text
      [] c.name = "tail" -> TailLines(stdin, c.count).text
      [] c.name = "sort" -> Sort(stdin, c.reverse, c.numeric, FALSE)
      [] c.name = "uniq" -> LET runs == Uniq(stdin) IN JoinLines([i \in DOMAIN runs |-> runs[i].line])
      [] c.name = "wc"   -> WordCount(stdin)     \* as numbers
      [] c.name = "cut"  -> Cut(stdin, c.delimiter, c.fields)
      [] c.name = "tr"   -> IF c.delete THEN TrDelete(stdin, c.from) ELSE Tr(stdin, c.from, c.to)
=============================================================================
