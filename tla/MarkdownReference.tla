-------------------------- MODULE MarkdownReference --------------------------
(***************************************************************************)
(* What a source means, block by block, without tokens: the reference that *)
(* the lexer and the parser of lib/marked.js are checked against.  Blocks, *)
(* spans and nodes are those of MarkdownLexer and MarkdownParser.          *)
(***************************************************************************)
EXTENDS Naturals, Sequences, SequencesExt, FiniteSetsExt

Node(tag, body) == [tag |-> tag, body |-> body]
Said(x) == [tag |-> "text", id |-> x.id]
Opens(x) == x.kind = "tag" /\ x.name = "a"
Closes(x) == x.kind = "tag" /\ x.name = "/a"

\* A link is open at a place of a text: around it, or by a tag before it.
OpenAt(text, i, inside) ==
  LET tags == {j \in 1 .. i - 1 : Opens(text[j]) \/ Closes(text[j])}
  IN IF tags = {} THEN inside ELSE Opens(text[Max(tags)])

\* A link, unless it leads where sanitize does not let it.
LinkNode(href, body, e) == IF e.o.sanitize /\ href # "web" THEN <<>> ELSE <<Node("a", body)>>

Defined(x, e) == x.kind = "link" \/ x.key \in DOMAIN e.links
Target(x, e) == IF x.kind = "link" THEN x.href ELSE e.links[x.key]

\* A bare address becomes a link unless it is in one.
RECURSIVE Inlines(_, _, _)
Inlines(text, inside, e) ==
  FlattenSeq([i \in DOMAIN text |->
    LET x == text[i]
        within == OpenAt(text, i, inside)
        sub == Inlines(x.body, within, e)
        address == e.o.gfm /\ ~within
    IN CASE x.kind \in {"link", "reflink"} ->
              IF ~Defined(x, e) THEN sub
              ELSE IF x.image THEN <<[tag |-> "img", text |-> x.body]>>
              ELSE LinkNode(Target(x, e), Inlines(x.body, TRUE, e), e)
         [] x.kind \in {"strong", "em", "del"} ->
              IF x.kind = "del" /\ ~e.o.gfm THEN sub ELSE <<Node(x.kind, sub)>>
         [] x.kind = "autolink" \/ (x.kind = "url" /\ address) ->
              LinkNode(x.href, <<Said(x)>>, e)
         [] x.kind = "text" \/ (x.kind = "url" /\ ~address) -> <<Said(x)>>
         [] x.kind = "tag" ->
              <<[tag |-> IF e.o.sanitize THEN "escaped" ELSE "raw", name |-> x.name]>>
         [] x.kind = "code" -> <<[tag |-> "codespan", id |-> x.id]>>
         [] x.kind = "br" -> <<[tag |-> "br"]>>])

\* The lists that a list falls into: with smartLists one for each run of a bullet.
RECURSIVE Runs(_, _)
Runs(items, o) ==
  IF items = <<>> THEN <<>>
  ELSE LET others == {n \in DOMAIN items : items[n].bullet # items[1].bullet}
           n == IF o.smartLists /\ others # {} THEN Min(others) - 1 ELSE Len(items)
       IN <<SubSeq(items, 1, n)>> \o Runs(SubSeq(items, n + 1, Len(items)), o)

RECURSIVE HasBlank(_)
HasBlank(body) ==
  \E i \in DOMAIN body :
    \/ i < Len(body) /\ body[i].gap
    \/ body[i].kind = "list" /\
         \E j \in DOMAIN body[i].items :
           \/ j < Len(body[i].items) /\ body[i].items[j].gap
           \/ HasBlank(body[i].items[j].body)

\* An item is tight when no blank line is in it or between it and a neighbour.
TightItem(items, i) ==
  /\ ~HasBlank(items[i].body)
  /\ \A j \in {i - 1, i} : (j >= 1 /\ j < Len(items)) => ~items[j].gap

\* Where blocks stand: at the top level, in a quote, in a tight item.
AtTop == [top |-> TRUE, quoted |-> FALSE, tight |-> FALSE]
InItem(at, tight) == [at EXCEPT !.top = FALSE, !.tight = tight]
InQuote(at) == [at EXCEPT !.quoted = TRUE, !.tight = FALSE]

IsTable(b, at, e) == b.kind \in {"table", "nptable"} /\ at.top /\ e.o.gfm /\ e.o.tables
IsCode(b, e) == b.kind = "code" \/ (b.kind = "fences" /\ e.o.gfm)
IsDefinition(b, at) == b.kind = "def" /\ at.top /\ ~at.quoted

RECURSIVE Blocks(_, _, _)
Lists(b, at, e) ==
  LET runs == Runs(b.items, e.o)
      Li(items, i) ==
        Node("li", Blocks(items[i].body, InItem(at, TightItem(items, i)), e))
  IN [r \in DOMAIN runs |->
        Node(IF runs[r][1].bullet = "1." THEN "ol" ELSE "ul",
             [i \in DOMAIN runs[r] |-> Li(runs[r], i)])]

Cells(rows, e) ==
  [r \in DOMAIN rows |->
     Node("tr", [c \in DOMAIN rows[r] |->
                   Node(IF r = 1 THEN "th" ELSE "td", Inlines(rows[r][c], FALSE, e))])]

Blocks(body, at, e) ==
  FlattenSeq([i \in DOMAIN body |->
    LET b == body[i]
        text == Inlines(FlattenSeq(b.lines), FALSE, e)
        heading == <<[tag |-> "id", prefix |-> e.o.headerPrefix]>>
    IN CASE b.kind = "blockquote" -> <<Node("blockquote", Blocks(b.body, InQuote(at), e))>>
         [] b.kind = "list" -> Lists(b, at, e)
         [] b.kind = "hr" -> <<[tag |-> "hr"]>>
         [] b.kind \in {"heading", "lheading"} -> <<Node("h", text \o heading)>>
         [] IsCode(b, e) -> <<[tag |-> "code", id |-> b.id, escaped |-> b.id \in e.colored]>>
         [] IsTable(b, at, e) -> <<Node("table", Cells(b.rows, e))>>
         [] IsDefinition(b, at) -> <<>>
         [] b.kind = "html" ->
              IF e.o.sanitize THEN <<Node("p", text)>>
              ELSE IF b.pre THEN <<[tag |-> "pre", text |-> FlattenSeq(b.lines)]>> ELSE text
         [] OTHER -> IF at.tight THEN text ELSE <<Node("p", text)>>])

\* The address of each key that is defined, by the last definition of it.
Definitions(src) ==
  LET defs == SelectSeq(src, LAMBDA b : b.kind = "def")
      last(key) == Max({i \in DOMAIN defs : defs[i].key = key})
  IN [key \in {defs[i].key : i \in DOMAIN defs} |-> defs[last(key)].href]

\* The code in `colored` was given back by a highlighter.
Rendered(src, o, colored) ==
  Blocks(src, AtTop, [o |-> o, links |-> Definitions(src), colored |-> colored])
=============================================================================
