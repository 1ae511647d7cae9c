---------------------------- MODULE MarkdownParser ----------------------------
(***************************************************************************)
(* The inline lexer, the parser and the renderer of lib/marked.js.         *)
(*                                                                         *)
(* A text is a sequence of spans, which is what the inline grammar cuts it *)
(* into; those of a link, an image or an emphasis are in its `body`.  Of   *)
(* an address it only says whether the renderer would refuse it: "web",    *)
(* "script" for the scheme javascript:, or "garbled" when it cannot be     *)
(* decoded.  The output is a sequence of nodes, as the HTML elements nest. *)
(*                                                                         *)
(* A parser p has the tokens that are left, the output so far, whether its *)
(* inline lexer is in a link, and whether nothing was thrown.  The one     *)
(* inline lexer serves the whole source.  In e are the links, which have   *)
(* the address of each key that is defined, the options of the parser,     *)
(* and those that the renderer has, which is shared.                       *)
(***************************************************************************)
EXTENDS Naturals, Sequences, SequencesExt, FiniteSets

Emit(p, node) == [p EXCEPT !.out = Append(@, node)]
Clear(p) == [p EXCEPT !.out = <<>>]

\* The output of sub, which began with none, becomes a node behind that of p.
Into(p, tag, sub) == [sub EXCEPT !.out = Append(p.out, [tag |-> tag, body |-> @])]

Text(x) == [tag |-> "text", id |-> x.id]

RECURSIVE Output(_, _, _)

\* Renderer.link: under sanitize, a link to such an address is nothing, its text included.
Unsafe == {"script", "garbled"}
Anchor(p, href, sub, e) ==
  IF e.renderer.sanitize /\ href \in Unsafe THEN [sub EXCEPT !.out = p.out]
  ELSE Into(p, "a", sub)

\* What is in the brackets of an image is not read; its address is not looked at.
OutputLink(p, x, href, e) ==
  IF x.image THEN Emit(p, [tag |-> "img", text |-> x.body])
  ELSE Anchor(p, href, Output(Clear(p), x.body, e), e)

\* Whether a link is open lasts until a link, an image or a tag changes it.
Link(p, x, href, e) ==
  [OutputLink([p EXCEPT !.inLink = TRUE], x, href, e) EXCEPT !.inLink = FALSE]

\* A reference without a definition is text in brackets, read like any other.
RefLink(p, x, e) ==
  IF x.key \in DOMAIN e.links THEN Link(p, x, e.links[x.key], e) ELSE Output(p, x.body, e)

\* An address that becomes a link, by itself.
AutoLink(p, x, e) == Anchor(p, x.href, Emit(Clear(p), Text(x)), e)
Url(p, x, e) == IF e.o.gfm /\ ~p.inLink THEN AutoLink(p, x, e) ELSE Emit(p, Text(x))

Tag(p, x, e) ==
  LET shown == Emit(p, [tag |-> IF e.o.sanitize THEN "escaped" ELSE "raw", name |-> x.name])
  IN [shown EXCEPT !.inLink = (@ \/ x.name = "a") /\ x.name # "/a"]

Span(p, x, e) ==
  CASE x.kind = "text" -> Emit(p, Text(x))
    [] x.kind = "url" -> Url(p, x, e)
    [] x.kind = "autolink" -> AutoLink(p, x, e)
    [] x.kind = "tag" -> Tag(p, x, e)
    [] x.kind = "link" -> Link(p, x, x.href, e)
    [] x.kind = "reflink" -> RefLink(p, x, e)
    [] x.kind \in {"strong", "em"} \/ (x.kind = "del" /\ e.o.gfm) ->
         Into(p, x.kind, Output(Clear(p), x.body, e))
    [] x.kind = "del" /\ ~e.o.gfm -> Output(p, x.body, e)
    [] x.kind = "code" -> Emit(p, [tag |-> "codespan", id |-> x.id])
    [] x.kind = "br" -> Emit(p, [tag |-> "br"])

Output(p, text, e) ==
  IF text = <<>> THEN p ELSE Output(Span(p, Head(text), e), Tail(text), e)

-----------------------------------------------------------------------------
\* The array is reversed and popped: the tokens come in their order.
NextToken(p) == [p EXCEPT !.tokens = Tail(@)]
Throw(p) == [p EXCEPT !.ok = FALSE]

Inline(p, tag, text, e) == Into(p, tag, Output(Clear(p), text, e))

\* The text tokens in a row, from the current one.
Lines(p) == {i \in DOMAIN p.tokens : \A j \in 1 .. i : p.tokens[j].type = "text"}
TextRun(p) == FlattenSeq([i \in Lines(p) |-> p.tokens[i].text])
AfterText(p) == [p EXCEPT !.tokens = SubSeq(@, Cardinality(Lines(p)) + 1, Len(@))]

\* A highlighter that calls back would find no callback here, and throw.
Code(p, t, e) ==
  IF e.renderer.highlight = "calls back" THEN Throw(p)
  ELSE Emit(p, [tag |-> "code", id |-> t.text,
                escaped |-> t.escaped \/ e.renderer.highlight = "returns"])

Row(p, cells, tag, e) ==
  Into(p, "tr", FoldLeft(LAMBDA q, c : Inline(q, tag, c, e), Clear(p), cells))

Table(p, t, e) ==
  Into(p, "table",
       FoldLeftDomain(LAMBDA q, i : Row(q, t.rows[i], IF i = 1 THEN "th" ELSE "td", e),
                      Clear(p), t.rows))

RECURSIVE Body(_, _, _, _)
Element(p, tag, end, tight, e) == Into(p, tag, Body(Clear(NextToken(p)), end, tight, e))

\* In a tight item text is no paragraph.
ParseText(p, tight, e) ==
  IF tight THEN Output(AfterText(p), TextRun(p), e)
  ELSE Inline(AfterText(p), "p", TextRun(p), e)

Tok(p, e) ==
  LET t == Head(p.tokens)
  IN CASE t.type = "space" -> NextToken(p)
       [] t.type = "hr" -> Emit(NextToken(p), [tag |-> "hr"])
       [] t.type = "heading" ->
            Into(p, "h", Emit(Output(Clear(NextToken(p)), t.text, e),
                              [tag |-> "id", prefix |-> e.renderer.headerPrefix]))
       [] t.type = "code" -> Code(NextToken(p), t, e)
       [] t.type = "table" -> Table(NextToken(p), t, e)
       [] t.type = "blockquote_start" -> Element(p, "blockquote", "blockquote_end", FALSE, e)
       [] t.type = "list_start" ->
            Element(p, IF t.ordered THEN "ol" ELSE "ul", "list_end", FALSE, e)
       [] t.type = "list_item_start" -> Element(p, "li", "list_item_end", TRUE, e)
       [] t.type = "loose_item_start" -> Element(p, "li", "list_item_end", FALSE, e)
       [] t.type = "html" ->
            IF t.pre THEN Emit(NextToken(p), [tag |-> "pre", text |-> t.text])
            ELSE Output(NextToken(p), t.text, e)
       [] t.type = "paragraph" -> Inline(NextToken(p), "p", t.text, e)
       [] t.type = "text" -> ParseText(p, FALSE, e)
       [] OTHER -> Emit(NextToken(p), [tag |-> "undefined"])

\* The tokens up to the end of an element; next() past the last one has no type.
Body(p, end, tight, e) ==
  IF p.tokens = <<>> THEN Throw(p)
  ELSE IF Head(p.tokens).type = end THEN NextToken(p)
  ELSE LET text == tight /\ Head(p.tokens).type = "text"
       IN Body(IF text THEN ParseText(p, TRUE, e) ELSE Tok(p, e), end, tight, e)

RECURSIVE ParseAll(_, _)
ParseAll(p, e) == IF p.tokens = <<>> THEN p ELSE ParseAll(Tok(p, e), e)

\* What parse returns, or the exception.
ParseTokens(lexed, o, renderer) ==
  LET p == ParseAll([tokens |-> lexed.tokens, out |-> <<>>, inLink |-> FALSE, ok |-> TRUE],
                    [links |-> lexed.links, o |-> o, renderer |-> renderer])
  IN [ok |-> p.ok, out |-> IF p.ok THEN p.out ELSE <<>>]
=============================================================================
