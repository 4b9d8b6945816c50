------------------------------ MODULE PageText -------------------------------
(***************************************************************************)
(* What webutils/browser.go makes of a rendered page: the list of links,   *)
(* the DOM cleaned of what is not content, the candidate that becomes the  *)
(* content, and the choice between it and what readability found.          *)
(*                                                                         *)
(* A text is its number of characters; a node of the DOM has an id, a flag *)
(* that says whether shouldRemoveRenderedDOMNode removes it, and children. *)
(* The Markdown converter and readability are external: a candidate comes  *)
(* with the quality that assessMarkdownQuality gives what they return.     *)
(***************************************************************************)
EXTENDS Integers, FiniteSets, SequencesExt

CONSTANTS MaxLinks, MaxLinkText, InadequateText

Least(a, b) == IF a <= b THEN a ELSE b

\* clampString: no limit means no cut.
ClampString(length, limit) ==
    [length |-> IF limit <= 0 THEN length ELSE Least(length, limit), cut |-> limit > 0 /\ length > limit]

\* A link is kept if it has a URL that the policy admits.
Admitted(link) == link.url \notin {"none", "forbidden"}

\* One item of rawLinks; the list is full before the item is looked at.
Add(list, link, text) ==
    CASE list.full -> list
      [] ~list.full /\ Len(list.links) >= MaxLinks -> [list EXCEPT !.full = TRUE, !.cut = TRUE]
      [] OTHER ->
         IF Admitted(link)
         THEN [list EXCEPT !.links = Append(@, [url |-> link.url, text |-> text.length,
                                                rank |-> Len(@) + 1]),
                           !.cut = @ \/ text.cut]
         ELSE list

AddLink(list, link) == Add(list, link, ClampString(link.text, MaxLinkText))

Links(raw) == FoldLeft(AddLink, [links |-> <<>>, cut |-> FALSE, full |-> FALSE], raw)

\* The title and the snippet are clamped apart and shown together.
ResultText(link) ==
    LET title == ClampString(link.text, MaxLinkText) snippet == ClampString(link.snippet, MaxLinkText)
    IN  [length |-> title.length + snippet.length, cut |-> title.cut \/ snippet.cut]

\* Search skips a URL it has listed already.
AddSearchLink(list, link) ==
    IF /\ ~list.full /\ Len(list.links) < MaxLinks
       /\ \E i \in DOMAIN list.links : list.links[i].url = link.url
    THEN list ELSE Add(list, link, ResultText(link))

NormalizeSearchLinks(raw) ==
    FoldLeft(AddSearchLink, [links |-> <<>>, cut |-> FALSE, full |-> FALSE], raw)

-----------------------------------------------------------------------------
RECURSIVE Clean(_)

\* The children that stay, if the child after a removed one is passed over.
StaySkipping(children) ==
    FoldLeft(LAMBDA s, c : IF s.skip THEN [s EXCEPT !.skip = FALSE]
                           ELSE IF c.noise THEN [s EXCEPT !.skip = TRUE]
                           ELSE [s EXCEPT !.kept = Append(@, c)],
             [kept |-> <<>>, skip |-> FALSE], children)

Stay(children) ==
    FoldLeft(LAMBDA s, c : IF c.noise THEN s ELSE [s EXCEPT !.kept = Append(@, c)],
             [kept |-> <<>>, skip |-> FALSE], children)

\* cleanRenderedDOMNode: the node itself stays, whatever it is.
Clean(node) ==
    LET kept == Stay(node.children).kept IN
    [node EXCEPT !.children = [i \in DOMAIN kept |-> Clean(kept[i])]]

-----------------------------------------------------------------------------
\* assessMarkdownQuality: the lines outside of code blocks, by what they are.
Quality(lines, links, images, bonus) ==
    LET fenced(i) == Cardinality({j \in 1 .. i - 1 : lines[j].kind = "fence"}) % 2 = 1
        number(kind) == Cardinality({i \in DOMAIN lines : lines[i].kind = kind /\ ~fenced(i)})
        runes   == FoldLeft(LAMBDA n, line : n + line.runes, 0, lines)
        headings == Least(number("heading"), 2)
        lists    == Least(number("list"), 4)
        tables   == Least(number("separator"), 1)
        blocks   == Least(number("fence"), 2)
        quotes   == Least(number("quote"), 2)
        pictures == Least(images, 2)
    IN  IF runes = 0 THEN [runes |-> 0, signals |-> 0, score |-> 0]
        ELSE [runes |-> runes,
              signals |-> headings + lists + tables + blocks + quotes + pictures,
              score |-> runes + bonus + 80 * headings + 40 * lists + 120 * tables + 120 * blocks
                          + 50 * quotes + 20 * pictures + 10 * Least(links, 5)]

Better(a, b) == a.score > b.score \/ (a.score = b.score /\ a.runes > b.runes)

\* extractRenderedDOMMarkdownResult: the first of the best candidates.
Best(candidates) ==
    FoldLeft(LAMBDA best, c : IF c.runes > 0 /\ (best = {} \/ \A b \in best : Better(c, b)) THEN {c} ELSE best,
             {}, candidates)

Inadequate(q) == q.runes > 0 /\ q.runes < InadequateText /\ q.signals = 0

PreferDOM(readable, dom) ==
    /\ readable.runes > 0 /\ dom.runes > 0 /\ dom.source # "article"
    /\ dom.runes >= (readable.runes * 4) \div 5
    /\ dom.signals >= readable.signals + 1 /\ dom.score >= readable.score + 50

\* extractContentFromHTML: which of the three texts is the content.
Extract(readable, candidates) ==
    LET found == Best(candidates) useful == readable.runes > 0 /\ ~Inadequate(readable) IN
    CASE useful /\ found # {} ->
            IF \A dom \in found : PreferDOM(readable, dom) THEN "rendered_dom_markdown" ELSE "readability_markdown"
      [] useful /\ found = {} -> "readability_markdown"
      [] ~useful /\ found # {} -> "rendered_dom_markdown"
      [] OTHER -> "inner_text"
=============================================================================
