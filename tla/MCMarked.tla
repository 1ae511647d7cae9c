------------------------------- MODULE MCMarked -------------------------------
(***************************************************************************)
(* Instance of Marked for TLC, with the lexer and the parser of marked.js. *)
(* Every document is rendered twice, by two calls that overlap when they   *)
(* wait for a highlighter, and compared with what it means.                *)
(***************************************************************************)
EXTENDS Marked, MarkdownLexer, MarkdownParser, MarkdownReference, TLC

CONSTANTS c1, c2

MCCalls == {c1, c2}
IdPrefixes == {"", "user-"}
MCValues ==
  [gfm |-> BOOLEAN, tables |-> BOOLEAN, sanitize |-> BOOLEAN, smartLists |-> BOOLEAN,
   silent |-> BOOLEAN, highlight |-> Highlighters, headerPrefix |-> IdPrefixes]

Shipped ==
  [gfm |-> TRUE, tables |-> TRUE, sanitize |-> FALSE, smartLists |-> FALSE,
   silent |-> FALSE, highlight |-> "none", headerPrefix |-> ""]

-----------------------------------------------------------------------------
(* Spans and blocks; k numbers what they say, g tells whether a gap follows. *)
Word(k) == [kind |-> "text", id |-> k]
Address(k) == [kind |-> "url", id |-> k, href |-> "web"]
AutoLinked(k) == [kind |-> "autolink", id |-> k, href |-> "web"]
Spanned(kind, body) == [kind |-> kind, body |-> body]
LinkTo(body) == [kind |-> "link", image |-> FALSE, href |-> "web", body |-> body]
RefTo(key, body) == [kind |-> "reflink", image |-> FALSE, key |-> key, body |-> body]
Picture(x) == [x EXCEPT !.image = TRUE]
At(href, x) == [x EXCEPT !.href = href]
HtmlTag(name) == [kind |-> "tag", name |-> name]

Lined(kind, text, g) == [kind |-> kind, gap |-> g, lines |-> <<text>>]
Para(k, g) == Lined("para", <<Word(k)>>, g)
Indented(k, g) == [kind |-> "code", gap |-> g, id |-> k, lines |-> <<>>]
Fences(k, g) ==
  [kind |-> "fences", gap |-> g, id |-> k, lines |-> <<<<[kind |-> "code", id |-> k]>>>>]
Def(key, k, g) ==
  [kind |-> "def", gap |-> g, key |-> key, href |-> "web",
   lines |-> <<<<RefTo(key, <<Word(k)>>)>>>>]
Html(k, pre, g) ==
  [kind |-> "html", gap |-> g, pre |-> pre,
   lines |-> <<<<HtmlTag("div"), Word(k), HtmlTag("/div")>>>>]
TableOf(kind, k, g) ==
  [kind |-> kind, gap |-> g,
   rows |-> <<<<<<Word(k)>>, <<Address(k + 1)>>>>, <<<<Word(k + 2)>>, <<Word(k + 3)>>>>>>,
   lines |-> <<<<Word(k), Address(k + 1)>>, <<Word(k + 2), Word(k + 3)>>>>]
Quote(body, g) == [kind |-> "blockquote", gap |-> g, body |-> body]
List(items, g) == [kind |-> "list", gap |-> g, items |-> items]
Item(bullet, body, g) == [bullet |-> bullet, body |-> body, gap |-> g]

Leaves(k, g) ==
  {Para(k, g), Lined("heading", <<Word(k)>>, g), Lined("lheading", <<Word(k)>>, g),
   Lined("hr", <<>>, g), Fences(k, g), Def("key", k, g), Html(k, TRUE, g),
   Html(k, FALSE, g), TableOf("table", k, g), TableOf("nptable", k, g)}

\* What an item or a quote may hold.
Nested(k, n, g) == List([i \in 1 .. n |-> Item("*", <<Para(k + i, FALSE)>>, g)], FALSE)
Bodies(k) ==
  {<<b>> : b \in Leaves(k, FALSE)} \cup
  {<<Para(k, TRUE), Para(k + 1, FALSE)>>, <<Para(k, TRUE), Indented(k + 1, FALSE)>>,
   <<Para(k, FALSE), Nested(k, 1, FALSE)>>, <<Para(k, FALSE), Nested(k, 2, TRUE)>>,
   <<Fences(k, FALSE), Para(k + 1, FALSE)>>, <<Quote(<<Para(k, FALSE)>>, FALSE)>>,
   <<Quote(<<Def("key", k, TRUE), Nested(k, 2, FALSE)>>, FALSE)>>}

-----------------------------------------------------------------------------
(* Documents.  Those that wait for a highlighter are in Waiting. *)
PairsOfLeaves ==
  {<<a, b>> : a \in Leaves(10, TRUE) \cup {Indented(10, TRUE)},
              b \in Leaves(20, FALSE) \cup {Quote(<<Para(20, FALSE)>>, FALSE)}}

Quotes ==
  {<<Para(1, TRUE), Quote(body, TRUE), Lined("para", <<RefTo("key", <<Word(90)>>)>>, FALSE)>> :
     body \in Bodies(20)}

TwoItems ==
  {<<List(<<Item(bullets[1], x, g), Item(bullets[2], <<Para(20, FALSE)>>, FALSE)>>, TRUE),
     Para(90, FALSE)>> :
     bullets \in {<<"*", "*">>, <<"-", "1.">>}, g \in BOOLEAN, x \in Bodies(10)}
  \cup
  {<<List(<<Item("-", <<Para(10, FALSE)>>, g), Item("-", x, FALSE)>>, FALSE)>> :
     g \in BOOLEAN, x \in Bodies(20)}

\* An item is of one paragraph or of two.
ThreeItems ==
  {<<List([i \in 1 .. 3 |->
             Item(bullets[i],
                  IF i = long THEN <<Para(10 * i, TRUE), Para(10 * i + 1, FALSE)>>
                  ELSE <<Para(10 * i, FALSE)>>,
                  i \in gaps)], FALSE)>> :
     bullets \in {"*", "-"} \X {"*", "-", "1."} \X {"-", "1."}, long \in 1 .. 3,
     gaps \in SUBSET (1 .. 2)}

Inlines1 == <<LinkTo(<<Word(1), Address(2)>>), Address(3), RefTo("key", <<Word(4)>>)>>
Inlines2 == <<Spanned("strong", <<Spanned("em", <<Address(1)>>), Spanned("del", <<Word(2)>>)>>),
              [kind |-> "br"], [kind |-> "code", id |-> 3], AutoLinked(4)>>
Tagged == <<HtmlTag("a"), Address(1), HtmlTag("b"), Word(2), HtmlTag("/a"), Address(3)>>
Unclosed == <<HtmlTag("a"), Word(1)>>
LinkInLink == <<LinkTo(<<LinkTo(<<Word(1)>>), Address(2)>>)>>

\* Images by themselves, at the end of a link, and before an address in one.
Image(k) == Picture(LinkTo(<<Word(k)>>))
Images == <<Address(1), Picture(LinkTo(<<Address(2), Word(3)>>)), Address(4),
            LinkTo(<<Address(5), Image(6)>>), Address(7), Picture(RefTo("key", <<Address(8)>>))>>
ImageInLink == <<LinkTo(<<Image(1), Address(2)>>)>>
ImageInTags == <<HtmlTag("a"), Image(1), Address(2), HtmlTag("/a")>>

\* Addresses that sanitize refuses, for links, for themselves and for references.
Refusable ==
  <<At("script", LinkTo(<<Word(1), Address(2)>>)), At("garbled", Address(3)),
    At("script", AutoLinked(4)), At("garbled", Image(5)), RefTo("key", <<Word(6)>>), Address(7),
    LinkTo(<<At("garbled", Address(8)), At("garbled", AutoLinked(9))>>)>>
Redefined == <<Def("key", 10, FALSE), At("script", Def("key", 11, FALSE))>>
Texts ==
  {<<Lined("para", Inlines1, TRUE), Def("key", 9, FALSE)>>,
   <<Lined("heading", Inlines1, FALSE)>>, <<Lined("para", Inlines2, FALSE)>>,
   <<Quote(<<Lined("para", Inlines1, TRUE), Def("key", 9, FALSE)>>, FALSE)>>,
   <<List(<<Item("*", <<Lined("para", Inlines1, FALSE)>>, FALSE)>>, TRUE), Def("key", 9, FALSE)>>,
   <<Lined("para", Tagged, TRUE), Lined("para", <<Spanned("em", Tagged)>>, FALSE)>>,
   <<Lined("para", Unclosed, TRUE), Lined("para", <<Address(9)>>, FALSE)>>,
   <<Lined("para", Images, TRUE), Def("key", 9, FALSE)>>, <<Lined("para", Images, FALSE)>>,
   <<Lined("heading", Refusable, TRUE)>> \o Redefined, Redefined \o <<Lined("para", Refusable, FALSE)>>}
  \cup
  {<<Lined("para", text, FALSE)>> : text \in {LinkInLink, ImageInLink, ImageInTags}}

Waiting ==
  {<<Fences(1, TRUE), Para(2, TRUE), Fences(3, FALSE)>>,
   <<List(<<Item("*", <<Fences(1, FALSE)>>, FALSE)>>, TRUE), Lined("heading", <<Word(2)>>, FALSE)>>,
   <<Def("key", 1, FALSE)>>, <<>>}

Documents == PairsOfLeaves \cup Quotes \cup TwoItems \cup ThreeItems \cup Texts \cup Waiting

-----------------------------------------------------------------------------
\* Both calls, the second with other options.
Twice(doc, opt1, opt2, callback) ==
  [c \in MCCalls |-> [src |-> doc, opt |-> IF c = c1 THEN opt1 ELSE opt2, callback |-> callback]]

World(requests, initially, settings, results) ==
  [requests |-> requests, defaults |-> initially, settings |-> settings, results |-> results]

OtherLists == [smartLists |-> TRUE, headerPrefix |-> "user-"]

Rendering ==
  {World(Twice(doc, <<>>, OtherLists, FALSE), Shipped, {}, {}) :
     doc \in TwoItems \cup ThreeItems}
  \cup
  {World(Twice(doc, [headerPrefix |-> "user-"], [tables |-> FALSE, sanitize |-> s], FALSE),
         [Shipped EXCEPT !.highlight = "returns", !.gfm = g], {}, {}) :
     doc \in PairsOfLeaves \cup Quotes \cup Texts, g \in BOOLEAN, s \in BOOLEAN}

\* Highlighters that fail, that call back, or never do.
Overlapping ==
  {World(Twice(doc, [highlight |-> "calls back"], [highlight |-> h, headerPrefix |-> "user-"], TRUE),
         Shipped, {[headerPrefix |-> "user-"], [gfm |-> FALSE, sanitize |-> TRUE]}, results) :
     doc \in Waiting, h \in {"calls back", "returns"},
     results \in {{}, {"new"}, {"same", "new"}, {"error", "same"}}}

Refused ==
  {World(Twice(NoText, [silent |-> s], <<>>, callback), Shipped, {}, {}) :
     s \in BOOLEAN, callback \in BOOLEAN}

MCWorlds == Rendering \cup Overlapping \cup Refused

-----------------------------------------------------------------------------
\* No link, by brackets or by tags, is in a link, an image in one is the end of it, and
\* the tags that open and close a link are in the same text.
IsImage(x) == x.kind \in {"link", "reflink"} /\ x.image
IsLink(x) == x.kind \in {"link", "reflink"} /\ ~x.image
BeforeImage(text) == IF text # <<>> /\ IsImage(Last(text)) THEN Front(text) ELSE text

RECURSIVE PlainText(_, _)
PlainText(text, linked) ==
  /\ ~OpenAt(text, Len(text) + 1, FALSE)
  /\ \A i \in DOMAIN text :
       LET x == text[i]
           within == OpenAt(text, i, linked)
       IN /\ (IsLink(x) \/ IsImage(x) \/ Opens(x)) => ~within
          /\ Closes(x) => OpenAt(text, i, FALSE)
          /\ IsLink(x) => PlainText(BeforeImage(x.body), TRUE)
          /\ ("body" \in DOMAIN x /\ ~IsLink(x)) => PlainText(x.body, within)

RECURSIVE Plain(_)
Plain(body) ==
  \A i \in DOMAIN body :
    LET b == body[i]
    IN /\ "lines" \in DOMAIN b => \A j \in DOMAIN b.lines : PlainText(b.lines[j], FALSE)
       /\ "body" \in DOMAIN b => Plain(b.body)
       /\ b.kind = "list" => \A j \in DOMAIN b.items : Plain(b.items[j].body)

\* Numbers of what is said by spans and by nodes, in order.
RECURSIVE Spoken(_)
Spoken(text) ==
  FlattenSeq([i \in DOMAIN text |->
    (IF "id" \in DOMAIN text[i] THEN <<text[i].id>> ELSE <<>>) \o
    (IF "body" \in DOMAIN text[i] THEN Spoken(text[i].body) ELSE <<>>)])

\* The spans of all blocks but definitions.
RECURSIVE Written(_, _)
Written(body, defines) ==
  FlattenSeq([i \in DOMAIN body |->
    LET b == body[i]
    IN CASE b.kind = "blockquote" -> Written(b.body, FALSE)
         [] b.kind = "list" ->
              FlattenSeq([j \in DOMAIN b.items |-> Written(b.items[j].body, FALSE)])
         [] b.kind = "code" -> <<[kind |-> "code", id |-> b.id]>>
         [] b.kind = "def" /\ defines -> <<>>
         [] OTHER -> FlattenSeq(b.lines)])

\* What the links of a text say that sanitize refuses.
RECURSIVE RefusedIn(_, _)
RefusedIn(text, links) ==
  UNION {LET x == text[i]
             href == IF x.kind # "reflink" THEN x.href
                     ELSE IF x.key \in DOMAIN links THEN links[x.key] ELSE "web"
         IN CASE (IsLink(x) \/ x.kind \in {"url", "autolink"}) /\ href \in Unsafe ->
                   Range(Spoken(<<x>>))
              [] "body" \in DOMAIN x -> RefusedIn(x.body, links)
              [] OTHER -> {} : i \in DOMAIN text}

RECURSIVE Shown(_)
Shown(out) ==
  FlattenSeq([i \in DOMAIN out |->
    (IF "id" \in DOMAIN out[i] THEN <<out[i].id>> ELSE <<>>) \o
    (IF "body" \in DOMAIN out[i] THEN Shown(out[i].body) ELSE <<>>) \o
    (IF "text" \in DOMAIN out[i] THEN Spoken(out[i].text) ELSE <<>>)])

HasOutput(c) == answers[c] # <<>> /\ failed[c] = {} /\ Request(c).src # NoText

\* The code blocks that a highlighter changed: those given back, or all when it returns.
ColoredCode(c) ==
  IF given[c].highlight = "returns" THEN Nat ELSE {Tokens(c)[t].text : t \in colored[c]}

\* A text is rendered as what it means under the options of its call, whatever
\* the other calls and setOptions do meanwhile (Lexer.token, Parser.tok and
\* InlineLexer.output against the reference).
AsWritten ==
  \A c \in Calls : HasOutput(c) =>
    /\ answers[c][1].ok
    /\ Plain(Request(c).src) =>
         answers[c][1].out = Rendered(Request(c).src, given[c], ColoredCode(c))

\* Everything a text says is in the output once and in its order, other than the
\* definitions of links and, under sanitize, what is said by links that Renderer.link
\* refuses (Lexer.token, which puts text back and calls itself, and InlineLexer.output).
NothingLost ==
  \A c \in Calls : HasOutput(c) =>
    LET src == Request(c).src
        text == Written(src, TRUE)
        refused == IF given[c].sanitize THEN RefusedIn(text, Definitions(src)) ELSE {}
        Kept(said) == SelectSeq(said, LAMBDA id : id \notin refused)
    IN Kept(Shown(answers[c][1].out)) = Kept(Spoken(text))
=============================================================================
