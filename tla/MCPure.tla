------------------------------- MODULE MCPure --------------------------------
(***************************************************************************)
(* The pure functions for TLC.  A behaviour builds one input, a piece at a *)
(* time; the invariants compare what the functions return for it with what *)
(* they promise, over small ranges of their other parameters.              *)
(***************************************************************************)
EXTENDS TextTools

CONSTANTS MaxText, MaxRaw, MaxTree, MaxCandidates, MaxLines, MaxFields

VARIABLES kind, input

MCAlphabet == <<"nl", " ", "1", "2", "x">>
MCDigits   == [c \in {"1", "2"} |-> IF c = "1" THEN 1 ELSE 2]

Schema == INSTANCE JsonSchema WITH
    MaxURL <- 3, MaxText <- 2, MaxSelector <- 2, MaxValue <- 2, MaxActions <- 1,
    MaxQuery <- 2, MaxResults <- 2
Page == INSTANCE PageText WITH MaxLinks <- 2, MaxLinkText <- 2, InadequateText <- 12

-----------------------------------------------------------------------------
(* The inputs. *)

Str(text, length) == [text |-> text, length |-> length]
Num(halves)  == [num |-> halves]
Obj(fields)  == [fields |-> fields]
Arr(items)   == [items |-> items]

Actions == { Obj([type |-> Str("click", 5), selector |-> Str("a", 1)]),
             Obj([type |-> Str("click", 5), selector |-> Str("a", 1), value |-> Str("", 0)]),
             Obj([type |-> Str("press", 5), selector |-> Str("a", 1), value |-> Str("k", 1)]),
             Obj([type |-> Str("press", 5), selector |-> Str("a", 1)]),
             Obj([type |-> Str("press", 5), selector |-> Str("abc", 3)]),
             Obj([type |-> Str("drag", 4), selector |-> Str("a", 1)]),
             Obj([type |-> Num(2), selector |-> Str("a", 1)]),
             Obj([type |-> Str("click", 5), selector |-> Str("a", 1), delay |-> Num(2)]),
             Str("click", 5) }

Values == { [null |-> TRUE], [bool |-> TRUE], Str("", 0), Str("ab", 2), Str("abcd", 4),
            Str("viewport", 3), Str("duckduckgo", 2), Num(-2), Num(2), Num(3), Num(4), Num(6),
            Arr(<<>>), Obj([ab |-> Num(2)]) }
          \cup {Arr(<<a>>) : a \in Actions}
          \cup {Arr(<<a, a>>) : a \in {Obj([type |-> Str("click", 5), selector |-> Str("a", 1)])}}

Keys == {"url", "max_text_chars", "capture_screenshot", "screenshot_mode", "wait_text",
         "actions", "query", "max_results", "engine", "extra"}

RawLinks == [url : {"none", "forbidden", "a", "b"}, text : {1, 3}, snippet : {0, 3}]
Nodes == [noise : BOOLEAN]
Candidates == {[runes |-> r, signals |-> s, score |-> r + b + 80 * s,
                source |-> IF b = 40 THEN "article" ELSE "body"] :
               r \in {0, 5, 20}, s \in 0 .. 1, b \in {0, 40}}
LineKinds == {"text", "heading", "fence", "list", "separator"}

Init ==
    \/ kind \in {"text", "links", "candidates", "lines"} /\ input = <<>>
    \/ kind = "tree" /\ input = << [parent |-> 0, noise |-> TRUE] >>
    \/ kind = "arguments" /\ input = [key \in {} |-> Num(0)]

Grow(k, max, pieces) ==
    /\ kind = k /\ Len(input) < max
    /\ \E piece \in pieces : input' = Append(input, piece)
    /\ UNCHANGED kind

Type     == Grow("text", MaxText, ToSet(Alphabet))
Link     == Grow("links", MaxRaw, RawLinks)
Offer    == Grow("candidates", MaxCandidates, Candidates)
Line     == Grow("lines", MaxLines, [kind : LineKinds, runes : {0, 3}])
Nest     == kind = "tree" /\ Grow("tree", MaxTree, [parent : DOMAIN input, noise : BOOLEAN])
Put      ==
    /\ kind = "arguments" /\ Cardinality(DOMAIN input) < MaxFields
    /\ \E key \in Keys \ DOMAIN input, v \in Values :
          input' = [k \in DOMAIN input \cup {key} |-> IF k = key THEN v ELSE input[k]]
    /\ UNCHANGED kind

Next == Type \/ Link \/ Offer \/ Line \/ Nest \/ Put
Spec == Init /\ [][Next]_<<kind, input>>

-----------------------------------------------------------------------------
(* What is promised. *)

Ended(text) == JoinLines(SplitLines(text))   \* with the newline at the end
Counts == 0 .. 3
Limits == 1 .. 4
Patterns == { <<"1">>, <<"x", "1">> }

Filter(name, count) == [name |-> name, count |-> count, reverse |-> FALSE, numeric |-> FALSE,
                        delimiter |-> Blank, fields |-> <<2, count>>]
Filters == {c \in {Filter(name, count) : name \in {"head", "tail", "sort", "uniq", "cut"},
                                         count \in {-1, 0, 1, 3}} : Permitted(c)}

\* The functions head, tail and grep and the tools cat and grep say that they
\* truncated whenever a character or a match is missing (coreutils.go:1-6);
\* head, tail and grep say so only then, cat also when the file fills its limit
\* and only the final newline is the matter.  Nothing of the sort is said of
\* coreutils_run, which drops the flags of head and tail (command.go:176,185).
TextCutIsTold ==
    /\ \A n \in Counts :
          /\ HeadLines(input, n).cut <=> HeadLines(input, n).text # Ended(input)
          /\ TailLines(input, n).cut <=> TailLines(input, n).text # Ended(input)
    /\ \A view \in {"full", "head", "tail"}, n \in Counts, limit \in Limits :
          LET shown == Cat(input, view, n, limit)
              whole == shown.text \in {input, Ended(input)}
          IN  /\ ~whole => shown.cut
              /\ shown.cut /\ whole => Len(Ended(input)) = limit + 1
    /\ \A pattern \in Patterns, max \in 1 .. 3 :
          LET lines == SplitLines(input)
              hits  == {i \in DOMAIN lines : Has(lines[i], pattern)}
              shows(found) == \A i \in hits : \E k \in DOMAIN found.matches :
                                 found.matches[k] = [line |-> i, text |-> lines[i]]
          IN  /\ ~Grep(input, pattern, max).cut <=> shows(Grep(input, pattern, max))
              /\ \A limit \in Limits :
                    ~GrepFile(input, pattern, max, limit).cut => shows(GrepFile(input, pattern, max, limit))

\* The same for the links of a page and for the results of a search: there are
\* never more than the limit, they are ranked from one, and a list that is not
\* said to be truncated is that of the admitted links, each one of them (a
\* search lists the first of those with the same URL) with its whole text
\* (browser.go:386-405,643-686).
LinkCutIsTold ==
    LET admitted == SelectSeq(input, Page!Admitted)
        repeated(i) == \E j \in 1 .. i - 1 : admitted[j].url = admitted[i].url
        firsts == SelectSeq([i \in DOMAIN admitted |-> i], LAMBDA i : ~repeated(i))
        whole(k, link, length) == [url |-> link.url, text |-> length, rank |-> k]
        page   == Page!Links(input)
        search == Page!NormalizeSearchLinks(input)
    IN  /\ \A found \in {page, search} :
              /\ Len(found.links) <= 2
              /\ \A k \in DOMAIN found.links : found.links[k].rank = k /\ found.links[k].url \in {"a", "b"}
        /\ ~page.cut =>
              page.links = [k \in DOMAIN admitted |-> whole(k, admitted[k], admitted[k].text)]
        /\ ~search.cut =>
              search.links = [k \in DOMAIN firsts |->
                 LET link == admitted[firsts[k]] IN whole(k, link, link.text + link.snippet)]

TruncationIsTold ==
    /\ kind = "text" => TextCutIsTold
    /\ kind = "links" => LinkCutIsTold

\* The text utilities rearrange lines and lose none.  sort is a stable sort by
\* what it compares, unless numbers are mixed with other lines, when it only
\* permutes; unique leaves no repetition in a plain sort.  uniq gives the runs;
\* wc agrees with head and tail on what a line is; cutting every field, pasting
\* one text and translating there and back change nothing; the commands yield
\* whole lines, and head and tail divide a text between them (text.go, command.go).
LinesAreKept ==
    kind = "text" =>
      LET lines == SplitLines(input)
          out(r, n) == SplitLines(Sort(input, r, n, FALSE))
          value(line, n) == IF n THEN <<Value(line)>> ELSE line
          same(v, n, seq) == SelectSeq(seq, LAMBDA line : value(line, n) = v)
          runs == Uniq(input)
      IN
      /\ \A reverse, numeric \in BOOLEAN :
            LET sorted == out(reverse, numeric)
                regular == ~numeric \/ \A i \in DOMAIN lines : IsNumber(lines[i])
            IN  /\ \A i \in DOMAIN lines : Cardinality({j \in DOMAIN lines : lines[j] = lines[i]})
                                           = Cardinality({j \in DOMAIN sorted : sorted[j] = lines[i]})
                /\ Len(sorted) = Len(lines)
                /\ regular =>
                     /\ \A i, j \in DOMAIN sorted : i < j =>
                           ~Before(sorted[IF reverse THEN i ELSE j], sorted[IF reverse THEN j ELSE i], numeric)
                     /\ \A v \in {value(lines[i], numeric) : i \in DOMAIN lines} :
                           same(v, numeric, sorted)
                             = IF reverse THEN Reverse(same(v, numeric, lines)) ELSE same(v, numeric, lines)
      /\ LET plain == SplitLines(Sort(input, FALSE, FALSE, TRUE)) IN
         \A i, j \in DOMAIN plain : plain[i] = plain[j] => i = j
      /\ FlattenSeq([i \in DOMAIN runs |-> [k \in 1 .. runs[i].count |-> runs[i].line]]) = lines
      /\ \A i \in DOMAIN runs : i > 1 => runs[i].line # runs[i - 1].line
      /\ WordCount(input).lines = Len(lines)
      /\ Cut(input, Blank, [f \in 1 .. MaxText + 1 |-> f]) = Ended(input)
      /\ Paste(<<input>>, Blank) = Ended(input)
      /\ Cut(Paste(<<input, input>>, "x"), "x", <<1>>)
           = JoinLines([i \in DOMAIN lines |-> SplitOn(lines[i], "x")[1]])
      /\ \A c \in Filters : LET got == Run(c, input) IN got = Ended(got)
      /\ (\A i \in DOMAIN lines : Len(lines[i]) <= MaxLineLength) =>
           \A n \in 0 .. Len(lines) :
              Run(Filter("head", n), input) \o Run(Filter("tail", Len(lines) - n), input) = Ended(input)
      /\ Tr(Tr(input, <<"1", "2">>, <<"2", "1">>), <<"1", "2">>, <<"2", "1">>) = input
      /\ TrDelete(input, <<"1">>) = TrDelete(Tr(input, <<"2", "1", "1">>, <<"2", "x", "1">>), <<"1">>)

-----------------------------------------------------------------------------
Given(key) == key \in DOMAIN input
TextWithin(key, lo, hi) == Given(key) =>
    /\ Schema!Has(input[key], "text")
    /\ input[key].length >= lo /\ input[key].length <= hi
NumberWithin(key, lo, hi) == Given(key) => \E n \in lo .. hi : input[key] = Num(2 * n)
NameAmong(key, names) == Given(key) => Schema!Has(input[key], "text") /\ input[key].text \in names

\* What the handler of browse_url takes for granted of an action.
Usable(action) ==
    /\ Schema!Has(action, "fields")
    /\ {"type", "selector"} \subseteq DOMAIN action.fields
    /\ DOMAIN action.fields \subseteq {"type", "selector", "value"}
    /\ \A key \in DOMAIN action.fields : Schema!Has(action.fields[key], "text")
    /\ action.fields["selector"].length <= 2
    /\ action.fields["type"].text \in Schema!Pointing \cup Schema!Typing
    /\ "value" \in DOMAIN action.fields => action.fields["value"].length <= 2

\* Validation accepts exactly the arguments that are as the tool declares them,
\* so that the handler's unchecked conversions hold, the number it works with
\* is in range and every action it is handed is one it can look at; and null or
\* absent arguments are accepted only by a tool that requires none
\* (jsonschema.go:22-35,131-150, server.go:221-280).
ArgumentsAreAsDeclared ==
    kind = "arguments" =>
      LET browse == Schema!ValidateRaw(Schema!InputSchema, Obj(input))
          search == Schema!ValidateRaw(Schema!InputSchemaSearch, Obj(input))
      IN
      /\ browse <=>
           /\ Given("url") /\ DOMAIN input \cap {"query", "max_results", "engine", "extra"} = {}
           /\ TextWithin("url", 0, 3) /\ NumberWithin("max_text_chars", 1, 2)
           /\ Given("capture_screenshot") => input["capture_screenshot"] = [bool |-> TRUE]
           /\ NameAmong("screenshot_mode", {"viewport", "full_page"}) /\ TextWithin("wait_text", 0, 2)
           /\ Given("actions") =>
                 /\ Schema!Has(input["actions"], "items") /\ Len(input["actions"].items) <= 1
                 /\ \A i \in DOMAIN input["actions"].items : Usable(input["actions"].items[i])
      /\ search <=>
           /\ Given("query") /\ DOMAIN input \subseteq {"query", "max_results", "engine"}
           /\ TextWithin("query", 1, 2) /\ NumberWithin("max_results", 1, 2)
           /\ NameAmong("engine", {"duckduckgo"})
      /\ browse => Schema!MaxTextChars(input, 2) \in 1 .. 2
      /\ browse => LET actions == Schema!OptionalActions(input) IN
           Schema!ValidActions(actions) <=>
             \A i \in DOMAIN actions :
                (Schema!Has(actions[i].fields, "value") /\ actions[i].fields["value"].length > 0)
                  <=> actions[i].fields["type"].text \in {"set_value", "type", "press"}
      /\ \A raw \in {[null |-> TRUE], [absent |-> TRUE]} :
           ~Schema!ValidateRaw(Schema!InputSchema, raw) /\ Schema!ValidateRaw(Schema!Object([ab |-> Schema!Text(1)], {}), raw)

-----------------------------------------------------------------------------
RECURSIVE Tree(_), Ids(_)
Tree(i) ==
    LET below == SelectSeq([j \in DOMAIN input |-> j], LAMBDA j : input[j].parent = i) IN
    [id |-> i, noise |-> input[i].noise, children |-> [k \in DOMAIN below |-> Tree(below[k])]]
Ids(node) == <<node.id>> \o FlattenSeq([k \in DOMAIN node.children |-> Ids(node.children[k])])

NoiseAbove[i \in Nat] == i # 1 /\ (input[i].noise \/ NoiseAbove[input[i].parent])

\* Cleaning removes the noisy nodes with all that is below them and nothing
\* else, and keeps the order; the content is the first of the candidates none
\* is better than, the text of the page is used only when both strategies found
\* nothing, and preferring the DOM to readability never gives up more than a
\* fifth of the text; a page that goes on is never judged worse
\* (browser.go:1126-1147,1208-1240,1322-1335,1428-1506).
PageIsReduced ==
    /\ kind = "tree" =>
          Ids(Page!Clean(Tree(1))) = SelectSeq(Ids(Tree(1)), LAMBDA i : ~NoiseAbove[i])
    /\ kind = "candidates" =>
          LET best == Page!Best(input)
              text == {i \in DOMAIN input : input[i].runes > 0}
          IN  /\ best = {input[i] : i \in {j \in text : \A k \in text :
                           ~Page!Better(input[k], input[j]) /\ (k < j => input[k] # input[j] /\ Page!Better(input[j], input[k]))}}
              /\ \A readable \in Candidates :
                   LET method == Page!Extract(readable, input) IN
                   /\ method = "inner_text" <=> text = {} /\ (readable.runes = 0 \/ Page!Inadequate(readable))
                   /\ method = "rendered_dom_markdown" /\ ~Page!Inadequate(readable) =>
                         \A c \in best : 5 * c.runes >= 4 * readable.runes - 4
    /\ kind = "lines" =>
          LET judged(n) == Page!Quality(SubSeq(input, 1, n), 1, 0, 0) IN
          /\ \A n \in 1 .. Len(input) : judged(n).score >= judged(n - 1).score
          /\ judged(Len(input)).score <= judged(Len(input)).runes + 740
=============================================================================
