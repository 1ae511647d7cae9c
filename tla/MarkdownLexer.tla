---------------------------- MODULE MarkdownLexer ----------------------------
(***************************************************************************)
(* The block lexer of lib/marked.js: Lexer.prototype.token, which turns a  *)
(* source into a flat sequence of tokens.                                  *)
(*                                                                         *)
(* A source is a sequence of blocks, which is what the regular expressions *)
(* of the block grammar cut it into; `kind` names the rule that is meant   *)
(* for a block, and `lines` what its lines say when no such rule takes it. *)
(* `gap` tells whether a blank line follows; the gap after the last block  *)
(* of an item is that of the item.  The blocks of a quote or an item are   *)
(* in `body`, those of a list in `items`, each with its `bullet`.  The     *)
(* rows of a table are sequences of cells, the header first.               *)
(***************************************************************************)
EXTENDS Naturals, Sequences, SequencesExt, FiniteSetsExt

\* The order in which the rules are tried.
Rules == <<"code", "fences", "heading", "nptable", "lheading", "hr", "blockquote",
           "list", "html", "def", "table", "paragraph", "text">>

\* The rules whose expression matches a block: its own, if the options have it, and
\* the two that match any line.
Takes(b, o) ==
  {"paragraph", "text"} \cup
  CASE b.kind = "fences" -> IF o.gfm THEN {"fences"} ELSE {}
    [] b.kind \in {"table", "nptable"} -> IF o.gfm /\ o.tables THEN {b.kind} ELSE {}
    [] OTHER -> {b.kind}

\* The rules that are tried at all: tables and paragraphs at the top level, also of
\* a quote there, and definitions of links at the top level outside quotes.
Tried(top, bq) ==
  Range(Rules) \ ((IF top THEN {} ELSE {"nptable", "table", "paragraph"}) \cup
                  (IF top /\ ~bq THEN {} ELSE {"def"}))

Rule(b, top, bq, o) ==
  SelectSeq(Rules, LAMBDA r : r \in Takes(b, o) \cap Tried(top, bq))[1]

\* this.tokens and its property links, which all calls of token share; links has the
\* address of each key.
NoTokens == [tokens |-> <<>>, links |-> <<>>]
Push(lx, t) == [lx EXCEPT !.tokens = Append(@, t)]
Mark(type) == [type |-> type]

\* A line at a time, so that the lines of one block are several tokens; the blank
\* line after it is one too.
TextTokens(b) ==
  [i \in DOMAIN b.lines |-> [type |-> "text", text |-> b.lines[i]]] \o
  (IF b.gap THEN <<Mark("space")>> ELSE <<>>)

\* The rules before those of quotes and lists, in the order of the code.
EarlyTokens(rule, b) ==
  CASE rule \in {"code", "fences"} -> <<[type |-> "code", text |-> b.id, escaped |-> FALSE]>>
    [] rule \in {"heading", "lheading"} -> <<[type |-> "heading", text |-> b.lines[1]]>>
    [] rule = "nptable" -> <<[type |-> "table", rows |-> b.rows]>>
    [] rule = "hr" -> <<Mark("hr")>>

\* Those after them.
LateTokens(rule, b, o) ==
  CASE rule = "html" -> <<[type |-> IF o.sanitize THEN "paragraph" ELSE "html",
                           pre |-> b.pre, text |-> FlattenSeq(b.lines)]>>
    [] rule = "table" -> <<[type |-> "table", rows |-> b.rows]>>
    [] rule = "paragraph" -> <<[type |-> "paragraph", text |-> FlattenSeq(b.lines)]>>
    [] rule = "text" -> TextTokens(b)

-----------------------------------------------------------------------------
Ordered(bullet) == bullet = "1."

\* smartLists: an item with another bullet starts another list.
Continues(bullet, item) ==
  bullet = item.bullet \/ (Ordered(bullet) /\ Ordered(item.bullet))

\* How many items belong to the list that starts with the first of these.
Belonging(items, o) ==
  Min({n \in DOMAIN items :
         n = Len(items) \/ (o.smartLists /\ ~Continues(items[1].bullet, items[n + 1]))})

\* There is a blank line within the text of these blocks, other than at the end.
RECURSIVE BlankInside(_)
BlankInside(body) ==
  \/ \E i \in 1 .. Len(body) - 1 : body[i].gap
  \/ \E i \in DOMAIN body :
       /\ body[i].kind = "list"
       /\ LET items == body[i].items
          IN \/ \E j \in 1 .. Len(items) - 1 : items[j].gap
             \/ \E j \in DOMAIN items : BlankInside(items[j].body)

\* Whether item i of a list of n is loose: a blank line in it, before it, or, unless
\* it is the last, after it.
\* Mutant: what the previous item said is forgotten.
LooseAlone(items, i, n) == BlankInside(items[i].body) \/ (i < n /\ items[i].gap)
Loose(items, i, n) ==
  BlankInside(items[i].body) \/ (i > 1 /\ items[i - 1].gap) \/ (i < n /\ items[i].gap)

RECURSIVE Token(_, _, _, _, _)

\* A quote keeps the level it is on.
LexQuote(lx, b, top, o) ==
  Push(Token(Push(lx, Mark("blockquote_start")), b.body, top, TRUE, o),
       Mark("blockquote_end"))

\* The items of a list are never at the top level.
LexList(lx, b, bq, o) ==
  LET n == Belonging(b.items, o)
      Item(x, i) ==
        LET start == IF Loose(b.items, i, n) THEN "loose_item_start" ELSE "list_item_start"
        IN Push(Token(Push(x, Mark(start)), b.items[i].body, FALSE, bq, o),
                Mark("list_item_end"))
      begun == Push(lx, [type |-> "list_start", ordered |-> Ordered(b.items[1].bullet)])
  IN Push(FoldLeft(Item, begun, [i \in 1 .. n |-> i]), Mark("list_end"))

\* The last definition of a key counts.
Define(lx, b) == [lx EXCEPT !.links = (b.key :> b.href) @@ @]

Lexed(rule, lx, b, top, bq, o) ==
  CASE rule = "blockquote" -> LexQuote(lx, b, top, o)
    [] rule = "list" -> LexList(lx, b, bq, o)
    [] rule = "def" -> Define(lx, b)
    [] rule \in {"html", "table", "paragraph", "text"} ->
         [lx EXCEPT !.tokens = @ \o LateTokens(rule, b, o)]
    [] OTHER -> [lx EXCEPT !.tokens = @ \o EarlyTokens(rule, b)]

\* What a list leaves of its text goes back in front of the source.
\* Mutant: it is not put back.
NothingLeft(rule, b, o) == <<>>
PutBack(rule, b, o) ==
  IF rule = "list" /\ Belonging(b.items, o) < Len(b.items)
  THEN <<[b EXCEPT !.items = SubSeq(@, Belonging(@, o) + 1, Len(@))]>>
  ELSE <<>>

Token(lx, src, top, bq, o) ==
  IF src = <<>> THEN lx
  ELSE LET b == Head(src)
           rule == Rule(b, top, bq, o)
       IN Token(Lexed(rule, lx, b, top, bq, o), PutBack(rule, b, o) \o Tail(src), top, bq, o)

LexSource(src, o) == Token(NoTokens, src, TRUE, FALSE, o)
=============================================================================
