----------------------------- MODULE MarkedProofs -----------------------------
(* Proofs about Marked, and that it implements IsolatedCalls, for every set   *)
(* of calls, texts, options and worlds, and for every lexer and parser that   *)
(* return tokens and outputs.                                                 *)
EXTENDS Marked, FiniteSetTheorems, TLAPS

CONSTANT Outputs

USE MarkedAssumption

\* What is asked of the lexer and of the parser, whatever they compute.
LexReturns == \A s \in Sources : \A o : Complete(o) => Len(Lex(s, o).tokens) \in Nat
ParseReturns == \A lx, o, r : Parse(lx, o, r) \in Outputs

Answers == Outputs \cup {Error, Message}

\* A call that is not called has no tokens yet.
Untouched(c) ==
  /\ lexed[c] = NothingLexed /\ at[c] = 1
  /\ asked[c] = {} /\ failed[c] = {} /\ colored[c] = {}

\* Without a failure there is one answer when the count is down, and none before;
\* with failures there is one for each of them.
AnsweredSoFar(c) ==
  /\ answers[c] \in Seq(Answers)
  /\ failed[c] = {} => Len(answers[c]) = IF c \in called /\ pending[c] = 0 THEN 1 ELSE 0
  /\ failed[c] # {} => /\ Len(answers[c]) = Cardinality(failed[c])
                       /\ \A i \in 1 .. Len(answers[c]) : answers[c][i] = Error

\* The count of a call is the number of its tokens that are not settled.
CallInv(c) ==
  /\ CallOK(c) /\ Len(Tokens(c)) \in Nat
  /\ pending[c] = Cardinality(Unsettled(c))
  /\ AnsweredSoFar(c)
  /\ c \notin called => Untouched(c)

Functions ==
  /\ DOMAIN given = Calls /\ DOMAIN opt = Calls /\ DOMAIN lexed = Calls
  /\ DOMAIN at = Calls /\ DOMAIN pending = Calls /\ DOMAIN asked = Calls
  /\ DOMAIN failed = Calls /\ DOMAIN colored = Calls /\ DOMAIN answers = Calls

Globals ==
  /\ world \in Worlds /\ Functions
  /\ Complete(defaults) /\ Complete(rendering)
  /\ running \in Calls \cup {NoCall} /\ called \subseteq Calls

IInv == Globals /\ \A c \in Calls : CallInv(c)

-----------------------------------------------------------------------------
LEMMA NoTokensYet == Len(NothingLexed.tokens) = 0
  BY DEF NothingLexed

LEMMA MergeComplete ==
  ASSUME NEW o, Complete(o), NEW p, Fits(p)
  PROVE  Complete(Merge(o, p))
  BY DEF Complete, Fits, Merge

LEMMA HighlightComplete ==
  ASSUME NEW o, Complete(o), NEW h \in Highlighters
  PROVE  Complete([o EXCEPT !["highlight"] = h])
  <1>1. "highlight" \in OptionNames /\ Values["highlight"] = Highlighters
    OBVIOUS
  <1>. QED
    BY <1>1 DEF Complete, Fits

LEMMA UpTo ==
  ASSUME NEW n \in Nat
  PROVE  IsFiniteSet(1 .. n) /\ Cardinality(1 .. n) = n
  BY FS_Interval, SMTT(30)

LEMMA UnsettledFinite ==
  ASSUME NEW c, Len(Tokens(c)) \in Nat
  PROVE  /\ IsFiniteSet(Unsettled(c))
         /\ Cardinality(Unsettled(c)) \in 0 .. Len(Tokens(c))
  <1>1. /\ IsFiniteSet(1 .. Len(Tokens(c)))
        /\ Cardinality(1 .. Len(Tokens(c))) = Len(Tokens(c))
    BY UpTo
  <1>2. Unsettled(c) \in SUBSET (1 .. Len(Tokens(c)))
    BY DEF Unsettled
  <1>. QED
    BY <1>1, <1>2, FS_Subset, FS_CardinalityType

LEMMA FailedFinite ==
  ASSUME NEW c, CallOK(c), Len(Tokens(c)) \in Nat
  PROVE  IsFiniteSet(failed[c])
  <1>1. at[c] - 1 \in Nat
    BY DEF CallOK
  <1>2. IsFiniteSet(1 .. at[c] - 1)
    BY <1>1, UpTo
  <1>. QED
    BY <1>2, FS_Subset DEF CallOK

\* A step leaves the invariant of the calls alone that it does not touch.
LEMMA Framed ==
  ASSUME NEW c, CallInv(c), c \in called' <=> c \in called,
         given'[c] = given[c], opt'[c] = opt[c], lexed'[c] = lexed[c], at'[c] = at[c],
         pending'[c] = pending[c], asked'[c] = asked[c], failed'[c] = failed[c],
         colored'[c] = colored[c], answers'[c] = answers[c]
  PROVE  CallInv(c)'
  <1>1. Unsettled(c)' = Unsettled(c)
    BY DEF Unsettled, Tokens
  <1>2. CallOK(c)' /\ (Len(Tokens(c)) \in Nat)'
    BY DEF CallInv, CallOK, Tokens
  <1>3. AnsweredSoFar(c)'
    BY DEF CallInv, AnsweredSoFar
  <1>. QED
    BY <1>1, <1>2, <1>3 DEF CallInv, Untouched

-----------------------------------------------------------------------------
LEMMA AppendAnswer ==
  ASSUME NEW q \in Seq(Answers), NEW a \in Answers
  PROVE  /\ Append(q, a) \in Seq(Answers) /\ Len(Append(q, a)) = Len(q) + 1
         /\ Len(q) \in Nat /\ Append(q, a)[Len(q) + 1] = a
         /\ \A i \in 1 .. Len(q) : Append(q, a)[i] = q[i]
  OBVIOUS

LEMMA RequestOfCall ==
  ASSUME IInv, NEW c \in Calls
  PROVE  IsRequest(Request(c)) /\ Complete(OwnOptions(c))
  <1>1. IsRequest(Request(c))
    BY DEF IInv, Globals, Request
  <1>. QED
    BY <1>1, MergeComplete DEF IInv, Globals, OwnOptions, IsRequest

LEMMA InitIInv == Init => IInv
  <1>. SUFFICES ASSUME Init PROVE IInv
    OBVIOUS
  <1>1. Globals
    BY DEF Init, Globals, Functions
  <1>2. ASSUME NEW c \in Calls PROVE CallInv(c)
    <2>1. Untouched(c) /\ pending[c] = 0 /\ answers[c] = <<>> /\ c \notin called
      BY DEF Init, Untouched
    <2>2. Len(Tokens(c)) = 0
      BY <2>1, NoTokensYet DEF Tokens, Untouched
    <2>3. CallOK(c)
      <3>1. Complete(given[c]) /\ Complete(opt[c])
        BY DEF Init
      <3>. QED
        BY <2>1, <2>2, <3>1 DEF CallOK, Untouched
    <2>4. Unsettled(c) = {}
      BY <2>2 DEF Unsettled
    <2>5. AnsweredSoFar(c)
      BY <2>1 DEF AnsweredSoFar, Untouched
    <2>. QED
      BY <2>1, <2>2, <2>3, <2>4, <2>5, FS_EmptySet DEF CallInv
  <1>. QED
    BY <1>1, <1>2 DEF IInv

\* A call that is answered at once: it had no tokens and has none.
LEMMA AtOnceIInv ==
  ASSUME IInv, NEW c \in Calls, Called(c), NEW a \in Answers, Answer(c, a),
         opt' = [opt EXCEPT ![c] = OwnOptions(c)], Complete(rendering'),
         UNCHANGED <<world, defaults, running, lexed, at, pending, asked, failed, colored>>
  PROVE  IInv'
  <1>1. Complete(OwnOptions(c))
    BY RequestOfCall
  <1>2. Globals'
    BY DEF IInv, Globals, Functions, Called, Answer, Complete, Fits
  <1>3. ASSUME NEW d \in Calls, d # c PROVE CallInv(d)'
    BY <1>3, Framed DEF IInv, Called, Answer, Globals, Functions
  <1>4. CallInv(c)'
    <2>1. CallInv(c) /\ c \notin called /\ Untouched(c)
      BY DEF IInv, Called, CallInv
    <2>2. given'[c] = OwnOptions(c) /\ opt'[c] = OwnOptions(c) /\ c \in called'
      BY DEF IInv, Globals, Functions, Called
    <2>3. Len(Tokens(c)) = 0 /\ Unsettled(c) = {} /\ pending[c] = 0
      BY <2>1, NoTokensYet, FS_EmptySet DEF Tokens, Untouched, Unsettled, CallInv
    <2>4. answers[c] \in Seq(Answers) /\ Len(answers[c]) = 0 /\ failed[c] = {}
      BY <2>1 DEF CallInv, AnsweredSoFar, Untouched
    <2>5. answers'[c] = Append(answers[c], a)
      BY DEF IInv, Globals, Functions, Answer
    <2>6. AnsweredSoFar(c)'
      BY <2>2, <2>3, <2>4, <2>5, AppendAnswer DEF AnsweredSoFar
    <2>7. CallOK(c)'
      <3>1. Len(answers'[c]) \in Nat
        BY <2>4, <2>5, AppendAnswer
      <3>2. Complete(given'[c]) /\ Complete(opt'[c])
        BY <1>1, <2>2
      <3>. QED
        BY <2>1, <3>1, <3>2 DEF CallInv, CallOK, Tokens
    <2>8. Unsettled(c)' = {}
      BY <2>3 DEF Unsettled, Tokens
    <2>. QED
      BY <2>2, <2>3, <2>6, <2>7, <2>8, FS_EmptySet DEF CallInv, Tokens
  <1>. QED
    BY <1>2, <1>3, <1>4 DEF IInv

LEMMA TellAnswer ==
  ASSUME NEW r, NEW o, NEW a \in Answers
  PROVE  Told(r, o, a) \in Answers
  BY DEF Told, Answers

LEMMA WaitIInv ==
  ASSUME IInv, LexReturns, NEW c \in Calls, CallAndWait(c), UNCHANGED world
  PROVE  IInv'
  <1>. DEFINE L == Len(Source(c).tokens)
  <1>1. Complete(OwnOptions(c)) /\ IsRequest(Request(c))
    BY RequestOfCall
  <1>2. L \in Nat /\ L # 0
    <2>1. Request(c).src \in Sources
      BY <1>1 DEF IsRequest, CallAndWait
    <2>. QED
      BY <1>1, <2>1 DEF LexReturns, Source, CallAndWait, Waits
  <1>3. Complete(WithoutHighlight(OwnOptions(c)))
    BY <1>1, HighlightComplete DEF WithoutHighlight, Highlighters
  <1>4. Globals'
    BY DEF IInv, Globals, Functions, CallAndWait, Called, Complete, Fits
  <1>5. ASSUME NEW d \in Calls, d # c PROVE CallInv(d)'
    BY <1>5, Framed DEF IInv, CallAndWait, Called, Globals, Functions
  <1>6. CallInv(c)'
    <2>1. CallInv(c) /\ c \notin called /\ Untouched(c)
      BY DEF IInv, CallAndWait, Called, CallInv
    <2>2. /\ given'[c] = OwnOptions(c) /\ opt'[c] = WithoutHighlight(OwnOptions(c))
          /\ lexed'[c] = Source(c) /\ pending'[c] = L /\ c \in called'
          /\ UNCHANGED <<at, asked, failed, colored, answers>>
      BY DEF IInv, Globals, Functions, CallAndWait, Called
    <2>3. Len(Tokens(c))' = L
      BY <2>2 DEF Tokens
    <2>4. Unsettled(c)' = 1 .. L
      BY <1>2, <2>1, <2>2, <2>3 DEF Unsettled, Untouched
    <2>5. pending'[c] = Cardinality(Unsettled(c)')
      BY <1>2, <2>2, <2>4, UpTo
    <2>6. AnsweredSoFar(c)'
      BY <1>2, <2>1, <2>2 DEF CallInv, AnsweredSoFar, Untouched
    <2>7. CallOK(c)'
      BY <1>1, <1>2, <1>3, <2>1, <2>2, <2>3 DEF CallInv, CallOK, Untouched
    <2>. QED
      BY <1>2, <2>2, <2>3, <2>5, <2>6, <2>7 DEF CallInv
  <1>. QED
    BY <1>4, <1>5, <1>6 DEF IInv

LEMMA RestoreComplete ==
  ASSUME IInv, NEW c \in Calls, RestoreHighlight(c)
  PROVE  /\ DOMAIN opt' = Calls /\ Complete(opt'[c])
         /\ \A d \in Calls \ {c} : opt'[d] = opt[d]
  <1>1. given[c]["highlight"] \in Highlighters /\ Complete(opt[c])
    BY DEF IInv, CallInv, CallOK, Complete, Fits
  <1>2. opt'[c] = [opt[c] EXCEPT !["highlight"] = given[c]["highlight"]]
    BY DEF RestoreHighlight, IInv, Globals, Functions
  <1>3. Complete(opt'[c])
    BY <1>1, <1>2, HighlightComplete
  <1>. QED
    BY <1>3 DEF RestoreHighlight, IInv, Globals, Functions

\* One token is settled: the count goes down, and its last step gives the output.
LEMMA SettleIInv ==
  ASSUME IInv, ParseReturns, NEW c \in Calls, NEW t \in Unsettled(c), NEW tokens,
         t \notin failed[c], CountDown(c, tokens),
         UNCHANGED <<world, defaults, running, called, given, lexed, failed>>,
         DOMAIN at' = Calls, DOMAIN asked' = Calls, DOMAIN colored' = Calls,
         \A d \in Calls \ {c} :
           at'[d] = at[d] /\ asked'[d] = asked[d] /\ colored'[d] = colored[d],
         Unsettled(c)' = Unsettled(c) \ {t},
         at'[c] \in 1 .. Len(Tokens(c)) + 1,
         asked'[c] \subseteq 1 .. at'[c] - 1,
         failed[c] \subseteq (1 .. at'[c] - 1) \ asked'[c],
         colored'[c] \subseteq (1 .. at'[c] - 1) \ (asked'[c] \cup failed[c])
  PROVE  IInv'
  <1>1. CallInv(c) /\ CallOK(c) /\ AnsweredSoFar(c) /\ Len(Tokens(c)) \in Nat
    BY DEF IInv, CallInv
  <1>2. pending[c] \in Nat /\ pending[c] > 0 /\ pending[c] - 1 = Cardinality(Unsettled(c) \ {t})
    BY <1>1, UnsettledFinite, FS_RemoveElement, FS_EmptySet DEF CallInv
  <1>3. /\ pending'[c] = pending[c] - 1 /\ DOMAIN pending' = Calls
        /\ \A d \in Calls \ {c} : pending'[d] = pending[d]
    BY DEF CountDown, IInv, Globals, Functions
  <1>4. c \in called
    BY <1>1, NoTokensYet DEF CallInv, Untouched, Unsettled, Tokens
  <1>5. pending'[c] = 0 => failed[c] = {}
    <2>1. SUFFICES ASSUME pending'[c] = 0, NEW f \in failed[c] PROVE FALSE
      OBVIOUS
    <2>2. f \in Unsettled(c) \ {t}
      BY <1>1 DEF CallOK, Unsettled
    <2>3. IsFiniteSet(Unsettled(c) \ {t})
      BY <1>1, UnsettledFinite, FS_RemoveElement
    <2>. QED
      BY <1>2, <1>3, <2>1, <2>2, <2>3, FS_EmptySet
  <1>6. /\ DOMAIN opt' = Calls /\ Complete(opt'[c]) /\ Complete(rendering')
        /\ \A d \in Calls \ {c} : opt'[d] = opt[d]
    <2>1. CASE pending'[c] = 0
      BY <2>1, RestoreComplete DEF CountDown, Done
    <2>2. CASE pending'[c] # 0
      BY <1>1, <2>2 DEF CountDown, IInv, Globals, Functions, CallOK
    <2>. QED
      BY <2>1, <2>2
  <1>7. /\ DOMAIN answers' = Calls /\ \A d \in Calls \ {c} : answers'[d] = answers[d]
        /\ AnsweredSoFar(c)'
    <2>1. CASE pending'[c] = 0
      <3>1. PICK a \in Answers : Answer(c, a)
        BY <2>1 DEF CountDown, Done, ParseReturns, Answers
      <3>2. answers'[c] = Append(answers[c], a) /\ Len(answers[c]) = 0
        BY <1>1, <1>2, <1>5, <2>1, <3>1 DEF Answer, IInv, Globals, Functions, AnsweredSoFar
      <3>3. AnsweredSoFar(c)'
        BY <1>1, <1>4, <1>5, <2>1, <3>2, AppendAnswer DEF AnsweredSoFar
      <3>. QED
        BY <3>1, <3>3 DEF Answer, IInv, Globals, Functions
    <2>2. CASE pending'[c] # 0
      <3>1. UNCHANGED answers
        BY <2>2 DEF CountDown
      <3>. QED
        BY <1>1, <1>2, <1>4, <2>2, <3>1 DEF AnsweredSoFar, IInv, Globals, Functions
    <2>. QED
      BY <2>1, <2>2
  <1>8. Globals'
    BY <1>3, <1>6, <1>7 DEF IInv, Globals, Functions, Complete, Fits
  <1>9. ASSUME NEW d \in Calls, d # c PROVE CallInv(d)'
    BY <1>3, <1>6, <1>7, <1>9, Framed DEF IInv
  <1>10. CallInv(c)'
    <2>1. CallOK(c)'
      <3>1. Len(answers'[c]) \in Nat
        BY <1>7 DEF AnsweredSoFar
      <3>2. Tokens(c)' = Tokens(c) /\ Len(Tokens(c)') \in Nat
        BY <1>1 DEF Tokens
      <3>3. pending'[c] \in 0 .. Len(Tokens(c))
        <4>1. pending[c] \in 0 .. Len(Tokens(c))
          BY <1>1, Zenon DEF CallOK
        <4>. QED
          BY <1>1, <1>2, <1>3, <4>1
      <3>4. Complete(given'[c]) /\ Complete(opt'[c])
        BY <1>1, <1>6, Zenon DEF CallOK
      <3>5. /\ at'[c] \in 1 .. Len(Tokens(c)') + 1 /\ pending'[c] \in 0 .. Len(Tokens(c)')
            /\ failed'[c] = failed[c]
        BY <3>2, <3>3, Zenon
      <3>. QED
        BY <3>1, <3>4, <3>5, Zenon DEF CallOK
    <2>. QED
      BY <1>1, <1>2, <1>3, <1>4, <1>7, <2>1 DEF CallInv, Tokens
  <1>. QED
    BY <1>8, <1>9, <1>10 DEF IInv

-----------------------------------------------------------------------------
(* The loop and the highlighter. *)
LEMMA PassIInv ==
  ASSUME IInv, ParseReturns, NEW c \in Calls, PassToken(c), UNCHANGED world
  PROVE  IInv'
  <1>1. CallOK(c) /\ Len(Tokens(c)) \in Nat /\ at[c] <= Len(Tokens(c))
    BY DEF IInv, CallInv, PassToken, Advance
  <1>2. /\ at'[c] = at[c] + 1 /\ DOMAIN at' = Calls
        /\ \A d \in Calls \ {c} : at'[d] = at[d]
        /\ UNCHANGED <<asked, colored, failed, lexed>>
    BY DEF PassToken, Advance, IInv, Globals, Functions
  <1>3. at[c] \in Unsettled(c) /\ at[c] \notin failed[c]
    BY <1>1 DEF CallOK, Unsettled
  <1>4. Unsettled(c)' = Unsettled(c) \ {at[c]}
    BY <1>1, <1>2 DEF CallOK, Unsettled, Tokens
  <1>5. /\ at'[c] \in 1 .. Len(Tokens(c)) + 1
        /\ asked'[c] \subseteq 1 .. at'[c] - 1
        /\ failed[c] \subseteq (1 .. at'[c] - 1) \ asked'[c]
        /\ colored'[c] \subseteq (1 .. at'[c] - 1) \ (asked'[c] \cup failed[c])
    BY <1>1, <1>2 DEF CallOK
  <1>. QED
    BY <1>2, <1>3, <1>4, <1>5, SettleIInv DEF PassToken, Advance, IInv, Globals, Functions

LEMMA AskIInv ==
  ASSUME IInv, NEW c \in Calls, AskHighlighter(c), UNCHANGED world
  PROVE  IInv'
  <1>1. /\ CallInv(c) /\ CallOK(c) /\ Len(Tokens(c)) \in Nat
        /\ at[c] <= Len(Tokens(c)) /\ running = c
    BY DEF IInv, CallInv, AskHighlighter, Advance
  <1>2. /\ at'[c] = at[c] + 1 /\ asked'[c] = asked[c] \cup {at[c]}
        /\ UNCHANGED <<given, opt, lexed, pending, failed, colored, answers, called>>
    BY DEF AskHighlighter, Advance, IInv, Globals, Functions
  <1>3. Unsettled(c)' = Unsettled(c)
    BY <1>1, <1>2 DEF CallOK, Unsettled, Tokens
  <1>4. CallOK(c)'
    BY <1>1, <1>2 DEF CallOK, Tokens
  <1>5. c \in called
    BY <1>1, NoTokensYet DEF CallInv, Untouched, Tokens
  <1>6. CallInv(c)'
    BY <1>1, <1>2, <1>3, <1>4, <1>5 DEF CallInv, AnsweredSoFar, Tokens
  <1>7. ASSUME NEW d \in Calls, d # c PROVE CallInv(d)'
    BY <1>7, Framed DEF IInv, AskHighlighter, Advance, Globals, Functions
  <1>8. Globals'
    BY DEF IInv, Globals, Functions, AskHighlighter, Advance, Complete, Fits
  <1>. QED
    BY <1>6, <1>7, <1>8 DEF IInv

\* What every answer of a highlighter does.
LEMMA BackFacts ==
  ASSUME IInv, NEW c \in Calls, NEW t, NEW r, CallsBack(c, t, r)
  PROVE  /\ CallInv(c) /\ CallOK(c) /\ Len(Tokens(c)) \in Nat
         /\ t \in asked[c] /\ t \in Unsettled(c) /\ t \notin failed[c] /\ c \in called
         /\ asked'[c] = asked[c] \ {t} /\ DOMAIN asked' = Calls
         /\ \A d \in Calls \ {c} : asked'[d] = asked[d]
         /\ UNCHANGED <<defaults, running, called, given, lexed, at>>
  <1>1. CallInv(c) /\ CallOK(c) /\ Len(Tokens(c)) \in Nat /\ t \in asked[c]
    BY DEF IInv, CallInv, CallsBack
  <1>2. t \in 1 .. at[c] - 1 /\ t \notin failed[c] /\ at[c] \in 1 .. Len(Tokens(c)) + 1
    BY <1>1 DEF CallOK
  <1>3. t \in Unsettled(c)
    BY <1>1, <1>2 DEF Unsettled
  <1>4. c \in called
    BY <1>1 DEF CallInv, Untouched
  <1>. QED
    BY <1>1, <1>2, <1>3, <1>4 DEF IInv, Globals, Functions, CallsBack

LEMMA KeepsIInv ==
  ASSUME IInv, ParseReturns, NEW c \in Calls, NEW t, HighlightKeeps(c, t), UNCHANGED world
  PROVE  IInv'
  <1>. USE BackFacts DEF HighlightKeeps
  <1>1. Unsettled(c)' = Unsettled(c) \ {t}
    BY DEF Unsettled, CallOK, Tokens
  <1>2. /\ at'[c] \in 1 .. Len(Tokens(c)) + 1
        /\ asked'[c] \subseteq 1 .. at'[c] - 1
        /\ failed[c] \subseteq (1 .. at'[c] - 1) \ asked'[c]
        /\ colored'[c] \subseteq (1 .. at'[c] - 1) \ (asked'[c] \cup failed[c])
    BY DEF CallOK
  <1>. QED
    BY <1>1, <1>2, SettleIInv DEF IInv, Globals, Functions

LEMMA ReplacesIInv ==
  ASSUME IInv, ParseReturns, NEW c \in Calls, NEW t, HighlightReplaces(c, t), UNCHANGED world
  PROVE  IInv'
  <1>. USE BackFacts DEF HighlightReplaces
  <1>1. Unsettled(c)' = Unsettled(c) \ {t}
    BY DEF Unsettled, CallOK, Tokens
  <1>2. /\ colored'[c] = colored[c] \cup {t} /\ DOMAIN colored' = Calls
        /\ \A d \in Calls \ {c} : colored'[d] = colored[d]
    BY DEF IInv, Globals, Functions
  <1>3. /\ at'[c] \in 1 .. Len(Tokens(c)) + 1
        /\ asked'[c] \subseteq 1 .. at'[c] - 1
        /\ failed[c] \subseteq (1 .. at'[c] - 1) \ asked'[c]
        /\ colored'[c] \subseteq (1 .. at'[c] - 1) \ (asked'[c] \cup failed[c])
    BY <1>2 DEF CallOK
  <1>. QED
    BY <1>1, <1>2, <1>3, SettleIInv DEF IInv, Globals, Functions

LEMMA FailsIInv ==
  ASSUME IInv, NEW c \in Calls, NEW t, HighlightFails(c, t), UNCHANGED world
  PROVE  IInv'
  <1>. USE BackFacts DEF HighlightFails
  <1>1. /\ failed'[c] = failed[c] \cup {t} /\ DOMAIN failed' = Calls
        /\ answers'[c] = Append(answers[c], Error) /\ DOMAIN answers' = Calls
        /\ \A d \in Calls \ {c} : failed'[d] = failed[d] /\ answers'[d] = answers[d]
    BY DEF IInv, Globals, Functions, Answer
  <1>2. /\ DOMAIN opt' = Calls /\ Complete(opt'[c])
        /\ \A d \in Calls \ {c} : opt'[d] = opt[d]
    BY RestoreComplete
  <1>3. Unsettled(c)' = Unsettled(c)
    BY <1>1 DEF Unsettled, Tokens
  <1>4. Globals'
    BY <1>1, <1>2 DEF IInv, Globals, Functions, Complete, Fits
  <1>5. ASSUME NEW d \in Calls, d # c PROVE CallInv(d)'
    BY <1>1, <1>2, <1>5, Framed DEF IInv
  <1>6. AnsweredSoFar(c)'
    <2>1. Cardinality(failed[c] \cup {t}) = Cardinality(failed[c]) + 1
      BY FailedFinite, FS_AddElement
    <2>2. answers[c] \in Seq(Answers) /\ Error \in Answers
      BY DEF CallInv, AnsweredSoFar, Answers
    <2>3. Len(answers[c]) = Cardinality(failed[c])
      <3>1. pending[c] # 0
        BY UnsettledFinite, FS_EmptySet DEF CallInv
      <3>2. CASE failed[c] = {}
        BY <3>1, <3>2, FS_EmptySet DEF CallInv, AnsweredSoFar
      <3>3. CASE failed[c] # {}
        BY <3>3 DEF CallInv, AnsweredSoFar
      <3>. QED
        BY <3>2, <3>3
    <2>4. \A i \in 1 .. Len(answers[c]) : answers[c][i] = Error
      <3>1. CASE failed[c] = {}
        <4>1. Len(answers[c]) = 0
          BY <2>3, <3>1, FS_EmptySet
        <4>. QED
          BY <4>1
      <3>2. CASE failed[c] # {}
        BY <3>2 DEF CallInv, AnsweredSoFar
      <3>. QED
        BY <3>1, <3>2
    <2>5. /\ answers'[c] \in Seq(Answers) /\ Len(answers'[c]) = Len(answers[c]) + 1
          /\ \A i \in 1 .. Len(answers'[c]) : answers'[c][i] = Error
      BY <1>1, <2>2, <2>4, AppendAnswer
    <2>6. failed'[c] # {} /\ Len(answers'[c]) = Cardinality(failed'[c])
      BY <1>1, <2>1, <2>3, <2>5
    <2>. QED
      BY <2>5, <2>6 DEF AnsweredSoFar
  <1>7. CallOK(c)'
    <2>1. Len(answers'[c]) \in Nat
      BY <1>6 DEF AnsweredSoFar
    <2>. QED
      BY <1>1, <1>2, <2>1 DEF CallOK, Tokens
  <1>8. CallInv(c)'
    BY <1>3, <1>6, <1>7 DEF CallInv, Tokens
  <1>. QED
    BY <1>4, <1>5, <1>8 DEF IInv

-----------------------------------------------------------------------------
LEMMA CallIInv ==
  ASSUME IInv, LexReturns, ParseReturns, NEW c \in Calls, Call(c), UNCHANGED world
  PROVE  IInv'
  <1>1. CASE RefuseCall(c)
    <2>1. Told(Request(c), opt'[c], Error) \in Answers
      BY TellAnswer DEF Answers
    <2>. QED
      BY <1>1, <2>1, AtOnceIInv DEF RefuseCall, IInv, Globals, Complete, Fits
  <1>2. CASE CallAtOnce(c)
    <2>1. Told(Request(c), opt'[c], Parse(Source(c), opt'[c], rendering')) \in Answers
      BY TellAnswer DEF ParseReturns, Answers
    <2>2. Complete(rendering')
      BY <1>2, RequestOfCall DEF CallAtOnce, IInv, Globals, Functions
    <2>. QED
      BY <1>2, <2>1, <2>2, AtOnceIInv DEF CallAtOnce
  <1>3. CASE CallAndWait(c)
    BY <1>3, WaitIInv
  <1>. QED
    BY <1>1, <1>2, <1>3 DEF Call

LEMMA LeaveIInv ==
  ASSUME IInv, NEW c \in Calls, LeaveLoop(c), UNCHANGED world
  PROVE  IInv'
  <1>1. Globals'
    BY DEF IInv, Globals, Functions, LeaveLoop, inCall, Complete, Fits
  <1>2. \A d \in Calls : CallInv(d)'
    BY Framed DEF IInv, LeaveLoop, inCall
  <1>. QED
    BY <1>1, <1>2 DEF IInv

LEMMA SetOptionsIInv ==
  ASSUME IInv, NEW p \in world.settings, SetOptions(p), UNCHANGED world
  PROVE  IInv'
  <1>1. Fits(p) /\ Complete(Merge(defaults, p))
    BY MergeComplete DEF IInv, Globals
  <1>2. Globals'
    BY <1>1 DEF IInv, Globals, Functions, SetOptions, inCall, Complete, Fits
  <1>3. \A d \in Calls : CallInv(d)'
    BY Framed DEF IInv, SetOptions, inCall
  <1>. QED
    BY <1>2, <1>3 DEF IInv

LEMMA NextIInv ==
  ASSUME IInv, LexReturns, ParseReturns, [Next]_vars
  PROVE  IInv'
  <1>1. CASE UNCHANGED vars
    <2>1. Globals'
      BY <1>1 DEF IInv, Globals, Functions, vars, calling, inCall, Complete, Fits
    <2>2. \A d \in Calls : CallInv(d)'
      BY <1>1, Framed DEF IInv, vars, calling, inCall
    <2>. QED
      BY <2>1, <2>2 DEF IInv
  <1>2. ASSUME NEW c \in Calls, Call(c) \/ Loop(c), UNCHANGED world PROVE IInv'
    BY <1>2, CallIInv, PassIInv, AskIInv, LeaveIInv DEF Loop
  <1>3. ASSUME NEW c \in Calls, Highlighter(c), UNCHANGED world PROVE IInv'
    BY <1>3, FailsIInv, KeepsIInv, ReplacesIInv DEF Highlighter
  <1>4. ASSUME NEW p \in world.settings, SetOptions(p), UNCHANGED world PROVE IInv'
    BY <1>4, SetOptionsIInv
  <1>. QED
    BY <1>1, <1>2, <1>3, <1>4 DEF Next, Step

LEMMA InvariantHolds == LexReturns /\ ParseReturns /\ Spec => []IInv
  <1>. SUFFICES ASSUME LexReturns, ParseReturns PROVE Spec => []IInv
    OBVIOUS
  <1>1. Init => IInv
    BY InitIInv
  <1>2. IInv /\ [Next]_vars => IInv'
    BY NextIInv
  <1>. QED
    BY <1>1, <1>2, PTL DEF Spec

\* Options stay complete, and the tokens of every call where they belong (merge and
\* the loop of marked), whatever the lexer and the parser compute.
THEOREM TypeCorrect == LexReturns /\ ParseReturns /\ Spec => []TypeOK
  <1>1. IInv => TypeOK
    BY DEF IInv, Globals, CallInv, TypeOK
  <1>. QED
    BY <1>1, InvariantHolds, PTL

\* A call is answered once, or once for each highlighting that failed (done in marked).
THEOREM CallsAnsweredOnce == LexReturns /\ ParseReturns /\ Spec => []AnsweredOnce
  <1>1. IInv => AnsweredOnce
    BY DEF IInv, CallInv, AnsweredSoFar, AnsweredOnce
  <1>. QED
    BY <1>1, InvariantHolds, PTL

\* No output before the loop is through and every highlighter has answered (the
\* count of pending tokens in marked).
THEOREM NoEarlyOutput == LexReturns /\ ParseReturns /\ Spec => []NothingParsedEarly
  <1>1. IInv => NothingParsedEarly
    <2>1. SUFFICES ASSUME IInv, NEW c \in Calls, Len(answers[c]) > 0, failed[c] = {}
                   PROVE  Unsettled(c) = {}
      BY DEF NothingParsedEarly
    <2>2. Len(Tokens(c)) \in Nat /\ pending[c] = 0 /\ pending[c] = Cardinality(Unsettled(c))
      BY <2>1 DEF IInv, CallInv, AnsweredSoFar
    <2>. QED
      BY <2>2, UnsettledFinite, FS_EmptySet
  <1>. QED
    BY <1>1, InvariantHolds, PTL

-----------------------------------------------------------------------------
(* Marked implements IsolatedCalls. *)

\* The code blocks of a call: the only tokens that a highlighter is asked for.
Codes(c) == {i \in 1 .. Len(Tokens(c)) : Tokens(c)[i].type = "code"}

\* A call that waits has its own tokens and its own options, with highlight hidden
\* until a highlighter fails.
Own(c) ==
  c \in called /\ pending[c] # 0 =>
    /\ WaitsAlone(Request(c), given[c])
    /\ lexed[c] = Lex(Request(c).src, given[c])
    /\ failed[c] = {} => opt[c] = WithoutHighlight(given[c])
    /\ asked[c] \cup colored[c] \subseteq Codes(c)

Ownership == \A c \in Calls : Own(c)

\* A call that a step leaves alone keeps its own.
LEMMA OwnFramed ==
  ASSUME NEW c, Own(c), c \in called' <=> c \in called,
         given'[c] = given[c], opt'[c] = opt[c], lexed'[c] = lexed[c],
         pending'[c] = pending[c], asked'[c] = asked[c], failed'[c] = failed[c],
         colored'[c] = colored[c], UNCHANGED world
  PROVE  Own(c)'
  BY DEF Own, Codes, Tokens, Request

LEMMA InitOwnership == Init => Ownership
  BY DEF Init, Ownership, Own

\* What counts and who is who in a state of the invariant.
LEMMA CallFacts ==
  ASSUME IInv, NEW c \in Calls
  PROVE  /\ CallInv(c) /\ CallOK(c) /\ Len(Tokens(c)) \in Nat /\ pending[c] \in Nat
         /\ pending[c] = 0 <=> Unsettled(c) = {}
         /\ c \notin called => /\ pending[c] = 0 /\ answers[c] = <<>>
                               /\ asked[c] = {} /\ colored[c] = {} /\ failed[c] = {}
  <1>1. CallInv(c) /\ CallOK(c) /\ Len(Tokens(c)) \in Nat /\ AnsweredSoFar(c)
    BY DEF IInv, CallInv
  <1>2. pending[c] \in Nat /\ (pending[c] = 0 <=> Unsettled(c) = {})
    BY <1>1, UnsettledFinite, FS_EmptySet DEF CallInv
  <1>3. ASSUME c \notin called
        PROVE  /\ pending[c] = 0 /\ answers[c] = <<>>
               /\ asked[c] = {} /\ colored[c] = {} /\ failed[c] = {}
    <2>1. Untouched(c)
      BY <1>1, <1>3 DEF CallInv
    <2>2. Unsettled(c) = {}
      BY <2>1, NoTokensYet DEF Untouched, Unsettled, Tokens
    <2>3. answers[c] \in Seq(Answers) /\ Len(answers[c]) = 0
      BY <1>1, <1>3, <2>1 DEF AnsweredSoFar, Untouched
    <2>. QED
      BY <1>2, <2>1, <2>2, <2>3 DEF Untouched
  <1>. QED
    BY <1>1, <1>2, <1>3

\* The first output: all is settled, nothing failed, nothing was answered.
LEMMA WaitingFacts ==
  ASSUME IInv, NEW c \in Calls, pending[c] # 0
  PROVE  c \in called /\ (failed[c] = {} => answers[c] = <<>>)
  <1>1. c \in called
    BY CallFacts
  <1>2. answers[c] \in Seq(Answers) /\ (failed[c] = {} => Len(answers[c]) = 0)
    BY DEF IInv, CallInv, AnsweredSoFar
  <1>. QED
    BY <1>1, <1>2

LEMMA CallOwnership ==
  ASSUME IInv, Ownership, NEW c \in Calls, Call(c), UNCHANGED world
  PROVE  Ownership'
  <1>1. ASSUME NEW d \in Calls, d # c PROVE Own(d)'
    BY <1>1, OwnFramed
    DEF Ownership, Call, RefuseCall, CallAtOnce, CallAndWait, Called, IInv, Globals, Functions
  <1>2. Own(c)'
    <2>1. CASE RefuseCall(c) \/ CallAtOnce(c)
      BY <2>1, CallFacts DEF RefuseCall, CallAtOnce, Called, Own
    <2>2. CASE CallAndWait(c)
      <3>1. /\ given'[c] = OwnOptions(c) /\ opt'[c] = WithoutHighlight(OwnOptions(c))
            /\ lexed'[c] = Source(c)
        BY <2>2 DEF CallAndWait, Called, IInv, Globals, Functions
      <3>2. asked'[c] = {} /\ colored'[c] = {}
        BY <2>2, CallFacts DEF CallAndWait, Called
      <3>. QED
        BY <2>2, <3>1, <3>2 DEF Own, CallAndWait, Source, WaitsAlone, Request
    <2>. QED
      BY <2>1, <2>2 DEF Call
  <1>. QED
    BY <1>1, <1>2 DEF Ownership

\* A token that is settled: what is left is still the call's own.
LEMMA SettleOwnership ==
  ASSUME IInv, Ownership, NEW c \in Calls, pending[c] # 0, NEW tokens, CountDown(c, tokens),
         UNCHANGED <<world, called, given, lexed, failed>>,
         \A d \in Calls \ {c} : asked'[d] = asked[d] /\ colored'[d] = colored[d],
         asked'[c] \cup colored'[c] \subseteq Codes(c)
  PROVE  Ownership'
  <1>1. /\ \A d \in Calls \ {c} : pending'[d] = pending[d]
        /\ \A d \in Calls \ {c} : opt'[d] = opt[d]
        /\ pending'[c] # 0 => UNCHANGED opt
    BY RestoreComplete DEF CountDown, Done, IInv, Globals, Functions
  <1>2. ASSUME NEW d \in Calls, d # c PROVE Own(d)'
    BY <1>1, <1>2, OwnFramed DEF Ownership
  <1>3. Own(c)'
    <2>1. c \in called /\ Own(c)
      BY WaitingFacts DEF Ownership
    <2>. QED
      BY <1>1, <2>1 DEF Own, Codes, Tokens, Request
  <1>. QED
    BY <1>2, <1>3 DEF Ownership

LEMMA LoopOwnership ==
  ASSUME IInv, Ownership, NEW c \in Calls, Loop(c), UNCHANGED world
  PROVE  Ownership'
  <1>1. CASE LeaveLoop(c)
    BY <1>1, OwnFramed DEF LeaveLoop, inCall, Ownership
  <1>2. ASSUME Advance(c)
        PROVE  /\ at[c] \in 1 .. Len(Tokens(c)) /\ pending[c] # 0
               /\ asked[c] \cup colored[c] \subseteq Codes(c)
    <2>1. at[c] \in 1 .. Len(Tokens(c)) /\ at[c] \in Unsettled(c)
      BY <1>2, CallFacts DEF Advance, CallOK, Unsettled
    <2>2. pending[c] # 0 /\ c \in called
      BY <2>1, CallFacts, WaitingFacts
    <2>. QED
      BY <2>1, <2>2 DEF Ownership, Own
  <1>3. CASE PassToken(c)
    BY <1>2, <1>3, SettleOwnership DEF PassToken, Advance
  <1>4. CASE AskHighlighter(c)
    <2>1. /\ asked'[c] = asked[c] \cup {at[c]} /\ at[c] \in Codes(c)
          /\ \A d \in Calls \ {c} : asked'[d] = asked[d]
      BY <1>2, <1>4 DEF AskHighlighter, Advance, Codes, IInv, Globals, Functions
    <2>2. ASSUME NEW d \in Calls, d # c PROVE Own(d)'
      BY <1>4, <2>1, <2>2, OwnFramed DEF AskHighlighter, Advance, Ownership
    <2>3. Own(c)'
      BY <1>2, <1>4, <2>1 DEF AskHighlighter, Advance, Ownership, Own, Codes, Tokens, Request
    <2>. QED
      BY <2>2, <2>3 DEF Ownership
  <1>. QED
    BY <1>1, <1>3, <1>4 DEF Loop

\* A highlighter answers for a code block of a call that waits.
LEMMA BackOwn ==
  ASSUME IInv, Ownership, NEW c \in Calls, NEW t, NEW r, CallsBack(c, t, r)
  PROVE  pending[c] # 0 /\ t \in Codes(c) /\ asked[c] \cup colored[c] \subseteq Codes(c)
  <1>1. pending[c] # 0 /\ c \in called /\ t \in asked[c]
    BY BackFacts, CallFacts
  <1>. QED
    BY <1>1 DEF Ownership, Own

LEMMA HighlighterOwnership ==
  ASSUME IInv, Ownership, NEW c \in Calls, Highlighter(c), UNCHANGED world
  PROVE  Ownership'
  <1>1. PICK t \in asked[c] :
          HighlightFails(c, t) \/ HighlightKeeps(c, t) \/ HighlightReplaces(c, t)
    BY DEF Highlighter
  <1>2. CASE HighlightKeeps(c, t)
    BY <1>2, BackOwn, BackFacts, SettleOwnership DEF HighlightKeeps
  <1>3. CASE HighlightReplaces(c, t)
    <2>1. /\ colored'[c] = colored[c] \cup {t}
          /\ \A d \in Calls \ {c} : colored'[d] = colored[d]
      BY <1>3 DEF HighlightReplaces, IInv, Globals, Functions
    <2>. QED
      BY <1>3, <2>1, BackOwn, BackFacts, SettleOwnership DEF HighlightReplaces
  <1>4. CASE HighlightFails(c, t)
    <2>1. /\ asked'[c] = asked[c] \ {t} /\ \A d \in Calls \ {c} : asked'[d] = asked[d]
          /\ UNCHANGED <<called, given, lexed, pending, colored>>
      BY <1>4, BackFacts DEF HighlightFails
    <2>2. \A d \in Calls \ {c} : opt'[d] = opt[d] /\ failed'[d] = failed[d]
      BY <1>4, RestoreComplete DEF HighlightFails, IInv, Globals, Functions
    <2>3. failed'[c] # {}
      BY <1>4 DEF HighlightFails, IInv, Globals, Functions
    <2>4. ASSUME NEW d \in Calls, d # c PROVE Own(d)'
      BY <2>1, <2>2, <2>4, OwnFramed DEF Ownership
    <2>5. Own(c)'
      BY <2>1, <2>3 DEF Ownership, Own, Codes, Tokens, Request
    <2>. QED
      BY <2>4, <2>5 DEF Ownership
  <1>. QED
    BY <1>1, <1>2, <1>3, <1>4

LEMMA NextOwnership ==
  ASSUME IInv, Ownership, [Next]_vars
  PROVE  Ownership'
  <1>1. CASE UNCHANGED vars
    BY <1>1, OwnFramed DEF vars, calling, inCall, Ownership
  <1>2. ASSUME NEW p \in world.settings, SetOptions(p), UNCHANGED world PROVE Ownership'
    BY <1>2, OwnFramed DEF SetOptions, inCall, Ownership
  <1>. QED
    BY <1>1, <1>2, CallOwnership, LoopOwnership, HighlighterOwnership DEF Next, Step

-----------------------------------------------------------------------------
(* Every step of Marked is a step of IsolatedCalls, or none of it. *)
Finished == {c \in called : pending[c] = 0}
Visible == <<world, defaults, called, given, Finished, answers>>

\* The call is made under the defaults of the moment.
LEMMA Makes ==
  ASSUME NEW c \in Calls, Called(c), UNCHANGED <<world, defaults>>
  PROVE  Isolated!Make(c)
  BY DEF Called, OwnOptions, Request, Isolated!Make

LEMMA AtOnceRefines ==
  ASSUME IInv, NEW c \in Calls, RefuseCall(c) \/ CallAtOnce(c), UNCHANGED world
  PROVE  Isolated!MakeAndAnswer(c)
  <1>1. Called(c) /\ UNCHANGED <<world, defaults, pending>> /\ pending[c] = 0
    BY CallFacts DEF RefuseCall, CallAtOnce, Called
  <1>2. given'[c] = OwnOptions(c) /\ opt'[c] = OwnOptions(c)
    BY DEF RefuseCall, CallAtOnce, Called, IInv, Globals, Functions
  <1>3. Finished' = Finished \cup {c}
    BY <1>1 DEF Finished, Called
  <1>4. ~WaitsAlone(Request(c), given'[c])
    BY <1>2 DEF RefuseCall, CallAtOnce, WaitsAlone
  <1>5. \E a \in AnswersAlone(Request(c), given'[c]) : Answer(c, a)
    <2>1. CASE RefuseCall(c)
      BY <1>2, <2>1 DEF RefuseCall, AnswersAlone
    <2>2. CASE CallAtOnce(c)
      <3>1. rendering' = OwnOptions(c)
        BY <1>2, <2>2 DEF CallAtOnce
      <3>. QED
        BY <1>2, <2>2, <3>1 DEF CallAtOnce, AnswersAlone, Source
    <2>. QED
      BY <2>1, <2>2
  <1>. QED
    BY <1>1, <1>3, <1>4, <1>5, Makes
    DEF Isolated!MakeAndAnswer, Isolated!Gets, Answer, Request, Finished

LEMMA WaitRefines ==
  ASSUME IInv, NEW c \in Calls, CallAndWait(c), UNCHANGED world
  PROVE  Isolated!MakeAndWait(c)
  <1>1. given'[c] = OwnOptions(c)
    BY DEF CallAndWait, Called, IInv, Globals, Functions
  <1>2. WaitsAlone(Request(c), given'[c])
    BY <1>1 DEF CallAndWait, WaitsAlone
  <1>3. Finished' = Finished
    <2>1. /\ pending'[c] = Len(Source(c).tokens) /\ pending'[c] # 0
          /\ \A d \in Calls \ {c} : pending'[d] = pending[d]
      BY DEF CallAndWait, Waits, Source, IInv, Globals, Functions
    <2>2. called \subseteq Calls /\ c \notin called /\ called' = called \cup {c}
      BY DEF CallAndWait, Called, IInv, Globals
    <2>. QED
      BY <2>1, <2>2 DEF Finished
  <1>. QED
    BY <1>2, <1>3, Makes DEF CallAndWait, Isolated!MakeAndWait, Request, Finished

\* The last token gives the output of the call's own tokens under its own options.
LEMMA SettleRefines ==
  ASSUME IInv, Ownership, NEW c \in Calls, pending[c] # 0,
         pending'[c] = 0 => failed[c] = {},
         NEW tokens, tokens \subseteq Codes(c), CountDown(c, tokens),
         UNCHANGED <<world, defaults, called, given>>
  PROVE  Isolated!Output(c) \/ UNCHANGED Visible
  <1>1. /\ c \in called /\ called \subseteq Calls /\ Own(c)
        /\ (failed[c] = {} => answers[c] = <<>>)
    BY WaitingFacts DEF Ownership, IInv, Globals
  <1>2. \A d \in Calls \ {c} : pending'[d] = pending[d]
    BY DEF CountDown, IInv, Globals, Functions
  <1>3. CASE pending'[c] # 0
    <2>1. UNCHANGED answers
      BY <1>3 DEF CountDown
    <2>2. Finished' = Finished
      BY <1>1, <1>2, <1>3 DEF Finished
    <2>. QED
      BY <2>1, <2>2 DEF Visible
  <1>4. CASE pending'[c] = 0
    <2>1. /\ WaitsAlone(Request(c), given[c]) /\ lexed[c] = Lex(Request(c).src, given[c])
          /\ opt[c] = WithoutHighlight(given[c]) /\ answers[c] = <<>>
      BY <1>1, <1>4 DEF Own
    <2>2. Answer(c, Parse(Highlighted(lexed[c], tokens), opt[c], opt[c]))
      BY <1>4 DEF CountDown, Done
    <2>3. Parse(Highlighted(lexed[c], tokens), opt[c], opt[c]) \in AnswersAlone(Request(c), given[c])
      BY <2>1 DEF AnswersAlone, WaitsAlone, Codes, Tokens
    <2>4. Finished' = Finished \cup {c} /\ c \notin Finished
      BY <1>1, <1>2, <1>4 DEF Finished
    <2>. QED
      BY <1>1, <2>1, <2>2, <2>3, <2>4
      DEF Isolated!Output, Isolated!Gets, Answer, Request, Finished
  <1>. QED
    BY <1>3, <1>4

\* The count does not come to nothing when a highlighter failed.
LEMMA SettledWithoutFailure ==
  ASSUME IInv, IInv', NEW c \in Calls, UNCHANGED <<failed, called>>, c \in called,
         pending'[c] = 0
  PROVE  failed[c] = {}
  <1>1. Unsettled(c)' = {} /\ CallOK(c)' /\ (Len(Tokens(c)) \in Nat)'
    <2>1. (Len(Tokens(c)) \in Nat)' /\ CallOK(c)' /\ Cardinality(Unsettled(c)') = 0
      BY DEF IInv, CallInv
    <2>2. IsFiniteSet(Unsettled(c)')
      <3>1. IsFiniteSet((1 .. Len(Tokens(c)))')
        BY <2>1, UpTo
      <3>. QED
        BY <3>1, FS_Subset DEF Unsettled
    <2>. QED
      BY <2>1, <2>2, FS_EmptySet
  <1>2. failed'[c] \subseteq Unsettled(c)'
    BY <1>1 DEF CallOK, Unsettled
  <1>. QED
    BY <1>1, <1>2

LEMMA FailRefines ==
  ASSUME IInv, Ownership, NEW c \in Calls, NEW t, HighlightFails(c, t), UNCHANGED world
  PROVE  Isolated!Fail(c)
  <1>1. c \in called /\ pending[c] # 0 /\ UNCHANGED <<defaults, called, given, pending>>
    BY BackFacts, BackOwn DEF HighlightFails
  <1>2. c \in called \ Finished /\ UNCHANGED Finished
    BY <1>1 DEF Finished
  <1>. QED
    BY <1>1, <1>2 DEF HighlightFails, Answer, Isolated!Fail, Isolated!Gets, Finished

LEMMA HighlighterRefines ==
  ASSUME IInv, Ownership, IInv', NEW c \in Calls, Highlighter(c), UNCHANGED world
  PROVE  Isolated!Output(c) \/ Isolated!Fail(c) \/ UNCHANGED Visible
  <1>1. PICK t \in asked[c] :
          HighlightFails(c, t) \/ HighlightKeeps(c, t) \/ HighlightReplaces(c, t)
    BY DEF Highlighter
  <1>2. CASE HighlightKeeps(c, t)
    BY <1>2, BackFacts, BackOwn, SettleRefines, SettledWithoutFailure DEF HighlightKeeps
  <1>3. CASE HighlightReplaces(c, t)
    <2>1. colored'[c] \subseteq Codes(c)
      BY <1>3, BackOwn DEF HighlightReplaces, IInv, Globals, Functions
    <2>. QED
      BY <1>3, <2>1, BackFacts, BackOwn, SettleRefines, SettledWithoutFailure
      DEF HighlightReplaces
  <1>4. CASE HighlightFails(c, t)
    BY <1>4, FailRefines
  <1>. QED
    BY <1>1, <1>2, <1>3, <1>4

LEMMA LoopRefines ==
  ASSUME IInv, Ownership, IInv', NEW c \in Calls, Loop(c), UNCHANGED world
  PROVE  Isolated!Output(c) \/ UNCHANGED Visible
  <1>1. CASE LeaveLoop(c)
    BY <1>1 DEF LeaveLoop, inCall, Visible, Finished
  <1>2. CASE AskHighlighter(c)
    BY <1>2 DEF AskHighlighter, Advance, Visible, Finished
  <1>3. CASE PassToken(c)
    <2>1. at[c] \in Unsettled(c)
      BY <1>3, CallFacts DEF PassToken, Advance, CallOK, Unsettled
    <2>2. pending[c] # 0 /\ c \in called
      BY <2>1, CallFacts, WaitingFacts
    <2>3. colored[c] \subseteq Codes(c)
      BY <2>2 DEF Ownership, Own
    <2>. QED
      BY <1>3, <2>2, <2>3, SettleRefines, SettledWithoutFailure DEF PassToken, Advance
  <1>. QED
    BY <1>1, <1>2, <1>3 DEF Loop

LEMMA NextRefines ==
  ASSUME IInv, Ownership, IInv', [Next]_vars
  PROVE  [Isolated!Next]_Visible
  <1>1. CASE UNCHANGED vars
    BY <1>1 DEF vars, calling, inCall, Visible, Finished
  <1>2. ASSUME NEW c \in Calls, Call(c), UNCHANGED world PROVE Isolated!Next
    BY <1>2, AtOnceRefines, WaitRefines DEF Call, Isolated!Next
  <1>3. ASSUME NEW c \in Calls, Loop(c) \/ Highlighter(c), UNCHANGED world
        PROVE  Isolated!Next \/ UNCHANGED Visible
    BY <1>3, LoopRefines, HighlighterRefines DEF Isolated!Next
  <1>4. ASSUME NEW p \in world.settings, SetOptions(p), UNCHANGED world PROVE Isolated!Next
    <2>1. Isolated!SetOptions(p)
      BY <1>4 DEF SetOptions, Isolated!SetOptions, inCall
    <2>. QED
      BY <2>1 DEF Isolated!Next
  <1>. QED
    BY <1>1, <1>2, <1>3, <1>4 DEF Next, Step

\* Every call is answered as it would be on its own, under the defaults of the moment it
\* was made, for any lexer and parser (marked and the closures it leaves behind).
THEOREM Isolation == LexReturns /\ ParseReturns /\ Spec => CallsAreIsolated
  <1>. SUFFICES ASSUME LexReturns, ParseReturns PROVE Spec => CallsAreIsolated
    OBVIOUS
  <1>1. Init => Isolated!Init
    BY DEF Init, Isolated!Init
  <1>2. Init => IInv /\ Ownership
    BY InitIInv, InitOwnership
  <1>3. IInv /\ Ownership /\ [Next]_vars => IInv' /\ Ownership'
    BY NextIInv, NextOwnership
  <1>4. IInv /\ Ownership /\ IInv' /\ [Next]_vars => [Isolated!Next]_Isolated!vars
    BY NextRefines DEF Visible, Finished, Isolated!vars
  <1>. QED
    BY <1>1, <1>2, <1>3, <1>4, PTL DEF Spec, CallsAreIsolated, Isolated!Spec
-----------------------------------------------------------------------------
(* EveryCallAnswered without the fairness: no call is forgotten, and none     *)
(* goes on for ever.                                                          *)

\* A loop that is not on the stack is through its tokens.
Through == \A c \in Calls : c # running => at[c] > Len(Tokens(c))

\* Tokens to come to, answers to wait for, and the loop to leave.
StepsLeft(c) ==
  2 * (Len(Tokens(c)) + 1 - at[c]) + Cardinality(asked[c]) + (IF running = c THEN 1 ELSE 0)

\* What a call waits for, when it was not answered.
Remembered(c) ==
  /\ StepsLeft(c) \in 0 .. 2 * Len(Tokens(c)) + 1
  /\ StepsLeft(c) = 0 <=> c # running /\ asked[c] = {}
  /\ c \in called /\ answers[c] = <<>> => StepsLeft(c) # 0

Nearer(c) ==
  /\ Loop(c) \/ Highlighter(c) => StepsLeft(c)' < StepsLeft(c)
  /\ StepsLeft(c)' > StepsLeft(c) => Call(c)

LEMMA InitThrough == Init => Through
  BY NoTokensYet DEF Init, Through, Tokens

LEMMA NextThrough ==
  ASSUME IInv, Through, [Next]_vars
  PROVE  Through'
  <1>1. ASSUME NEW c \in Calls, RefuseCall(c) \/ CallAtOnce(c) PROVE Through'
    BY <1>1 DEF RefuseCall, CallAtOnce, Through, Tokens
  <1>2. ASSUME NEW c \in Calls, CallAndWait(c) PROVE Through'
    <2>1. running = NoCall /\ running' = c /\ at' = at
          /\ \A d \in Calls \ {c} : lexed'[d] = lexed[d]
      BY <1>2 DEF CallAndWait, Called, IInv, Globals, Functions
    <2>. QED
      BY <2>1 DEF Through, Tokens
  <1>3. ASSUME NEW c \in Calls, PassToken(c) \/ AskHighlighter(c) PROVE Through'
    <2>1. running = c /\ running' = c /\ lexed' = lexed
          /\ \A d \in Calls \ {c} : at'[d] = at[d]
      BY <1>3 DEF PassToken, AskHighlighter, Advance, IInv, Globals, Functions
    <2>. QED
      BY <2>1 DEF Through, Tokens
  <1>4. ASSUME NEW c \in Calls, LeaveLoop(c) PROVE Through'
    BY <1>4 DEF LeaveLoop, inCall, Through, Tokens
  <1>5. ASSUME NEW c \in Calls, Highlighter(c) PROVE Through'
    <2>1. UNCHANGED <<running, lexed, at>>
      BY <1>5 DEF Highlighter, HighlightFails, HighlightKeeps, HighlightReplaces, CallsBack
    <2>. QED
      BY <2>1 DEF Through, Tokens
  <1>6. ASSUME NEW p \in world.settings, SetOptions(p) PROVE Through'
    BY <1>6 DEF SetOptions, inCall, Through, Tokens
  <1>7. CASE UNCHANGED vars
    BY <1>7 DEF vars, calling, inCall, Through, Tokens
  <1>. QED
    BY <1>1, <1>2, <1>3, <1>4, <1>5, <1>6, <1>7 DEF Next, Step, Call, Loop

LEMMA AskedFinite ==
  ASSUME IInv, NEW c \in Calls
  PROVE  IsFiniteSet(asked[c]) /\ Cardinality(asked[c]) \in 0 .. at[c] - 1
         /\ at[c] \in 1 .. Len(Tokens(c)) + 1 /\ Len(Tokens(c)) \in Nat
  <1>1. /\ at[c] \in 1 .. Len(Tokens(c)) + 1 /\ Len(Tokens(c)) \in Nat
        /\ asked[c] \subseteq 1 .. at[c] - 1
    BY DEF IInv, CallInv, CallOK
  <1>2. at[c] - 1 \in Nat
    BY <1>1
  <1>3. IsFiniteSet(1 .. at[c] - 1) /\ Cardinality(1 .. at[c] - 1) = at[c] - 1
    BY <1>2, UpTo
  <1>. QED
    BY <1>1, <1>2, <1>3, FS_Subset, FS_CardinalityType

LEMMA StepsBounded ==
  ASSUME NEW n \in Nat, NEW a \in 1 .. n + 1, NEW k \in 0 .. a - 1, NEW e \in {0, 1}
  PROVE  2 * (n + 1 - a) + k + e \in 0 .. 2 * n + 1
  OBVIOUS

LEMMA OneTokenOn ==
  ASSUME NEW n \in Nat, NEW a \in Nat, NEW k \in Nat, NEW m \in {k, k + 1}
  PROVE  2 * (n + 1 - (a + 1)) + m + 1 < 2 * (n + 1 - a) + k + 1
  OBVIOUS

\* A call that was not answered has something that is not settled: its loop has to
\* come to it, or a highlighter has it.
LEMMA NothingForgotten ==
  ASSUME IInv, Through, NEW c \in Calls
  PROVE  Remembered(c)
  <1>1. /\ Cardinality(asked[c]) \in 0 .. at[c] - 1 /\ IsFiniteSet(asked[c])
        /\ at[c] \in 1 .. Len(Tokens(c)) + 1 /\ Len(Tokens(c)) \in Nat
    BY AskedFinite
  <1>2. Cardinality(asked[c]) = 0 <=> asked[c] = {}
    BY <1>1, FS_EmptySet
  <1>3. StepsLeft(c) \in 0 .. 2 * Len(Tokens(c)) + 1
    BY <1>1, StepsBounded DEF StepsLeft
  <1>4. StepsLeft(c) = 0 <=> c # running /\ asked[c] = {}
    <2>1. CASE running = c
      BY <1>1, <2>1 DEF StepsLeft
    <2>2. CASE running # c
      <3>1. at[c] = Len(Tokens(c)) + 1
        BY <1>1, <2>2 DEF Through
      <3>2. StepsLeft(c) = Cardinality(asked[c])
        BY <1>1, <2>2, <3>1 DEF StepsLeft
      <3>. QED
        BY <1>2, <2>2, <3>2
    <2>. QED
      BY <2>1, <2>2
  <1>5. ASSUME c \in called, answers[c] = <<>>, c # running PROVE asked[c] # {}
    <2>1. AnsweredSoFar(c) /\ CallOK(c) /\ IsFiniteSet(failed[c])
      BY CallFacts, FailedFinite DEF IInv, CallInv
    <2>2. failed[c] = {}
      BY <1>5, <2>1, FS_EmptySet DEF AnsweredSoFar
    <2>3. pending[c] # 0
      BY <1>5, <2>1, <2>2 DEF AnsweredSoFar
    <2>4. PICK t \in Unsettled(c) : TRUE
      BY <2>3, CallFacts
    <2>. QED
      BY <1>1, <1>5, <2>2, <2>4 DEF Unsettled, Through
  <1>. QED
    BY <1>3, <1>4, <1>5 DEF Remembered

LEMMA NextNearer ==
  ASSUME IInv, IInv', [Next]_vars, NEW c \in Calls
  PROVE  Nearer(c)
  <1>0. /\ Cardinality(asked[c]) \in Nat /\ IsFiniteSet(asked[c]) /\ StepsLeft(c) \in Int
        /\ at[c] \in Nat \ {0} /\ Len(Tokens(c)) \in Nat
    BY AskedFinite DEF StepsLeft
  \* The call's own steps.
  <1>1. ASSUME PassToken(c) PROVE StepsLeft(c)' < StepsLeft(c)
    <2>1. /\ running = c /\ running' = c /\ lexed' = lexed /\ asked' = asked
          /\ at'[c] = at[c] + 1
      BY <1>1 DEF PassToken, Advance, IInv, Globals, Functions
    <2>. QED
      BY <1>0, <2>1, OneTokenOn DEF StepsLeft, Tokens
  <1>2. ASSUME AskHighlighter(c) PROVE StepsLeft(c)' < StepsLeft(c)
    <2>1. /\ running = c /\ running' = c /\ lexed' = lexed
          /\ asked'[c] = asked[c] \cup {at[c]} /\ at'[c] = at[c] + 1
      BY <1>2 DEF AskHighlighter, Advance, IInv, Globals, Functions
    <2>2. at[c] \notin asked[c]
      BY DEF IInv, CallInv, CallOK
    <2>. DEFINE A == asked[c]
    <2>3. Cardinality(asked'[c]) = Cardinality(A) + 1
      <3>1. IsFiniteSet(A) /\ at[c] \notin A /\ asked'[c] = A \cup {at[c]}
        BY <1>0, <2>1, <2>2
      <3>. HIDE DEF A
      <3>. QED
        BY <3>1, FS_AddElement
    <2>. QED
      BY <1>0, <2>1, <2>3, OneTokenOn DEF StepsLeft, Tokens
  <1>3. ASSUME LeaveLoop(c) PROVE StepsLeft(c)' < StepsLeft(c)
    <2>1. running = c /\ running' # c /\ UNCHANGED <<lexed, asked, at>>
      BY <1>3 DEF LeaveLoop, inCall
    <2>. DEFINE m == 2 * (Len(Tokens(c)) + 1 - at[c])
                k == Cardinality(asked[c])
    <2>2. m \in Int /\ k \in Int
      BY <1>0
    <2>3. StepsLeft(c) = m + k + 1
      BY <2>1, Zenon DEF StepsLeft
    <2>4. StepsLeft(c)' = m + k + 0
      BY <2>1, Zenon DEF StepsLeft, Tokens
    <2>. HIDE DEF m, k
    <2>. QED
      BY <2>2, <2>3, <2>4
  <1>4. ASSUME Highlighter(c) PROVE StepsLeft(c)' < StepsLeft(c)
    <2>1. PICK t, r : CallsBack(c, t, r)
      BY <1>4 DEF Highlighter, HighlightFails, HighlightKeeps, HighlightReplaces
    <2>2. t \in asked[c] /\ asked'[c] = asked[c] \ {t} /\ UNCHANGED <<running, lexed, at>>
      BY <2>1, BackFacts
    <2>. DEFINE A == asked[c]
    <2>3. IsFiniteSet(A) /\ t \in A /\ asked'[c] = A \ {t} /\ Cardinality(A) \in Nat
      BY <1>0, <2>2
    <2>4. Cardinality(asked'[c]) = Cardinality(A) - 1
      <3>. HIDE DEF A
      <3>. QED
        BY <2>3, FS_RemoveElement
    <2>5. StepsLeft(c)' = StepsLeft(c) - 1
      <3>. DEFINE m == 2 * (Len(Tokens(c)) + 1 - at[c])
                  e == IF running = c THEN 1 ELSE 0
                  k == Cardinality(A)
      <3>1. m \in Int /\ e \in Int /\ k \in Int
        BY <1>0
      <3>2. StepsLeft(c) = m + k + e
        BY Zenon DEF StepsLeft
      <3>3. StepsLeft(c)' = m + (k - 1) + e
        <4>1. /\ Len(Tokens(c)') = Len(Tokens(c)) /\ at'[c] = at[c]
              /\ running' = running /\ Cardinality(asked'[c]) = k - 1
          BY <2>2, <2>4, Zenon DEF Tokens
        <4>. QED
          BY <4>1, Zenon DEF StepsLeft
      <3>. HIDE DEF m, e, k
      <3>. QED
        BY <3>1, <3>2, <3>3
    <2>. QED
      BY <1>0, <2>5
  \* Those of others.
  <1>5. ASSUME UNCHANGED <<lexed, asked, at, running>> PROVE StepsLeft(c)' = StepsLeft(c)
    BY <1>5 DEF StepsLeft, Tokens
  <1>6. ASSUME NEW d \in Calls, d # c, Call(d) \/ Loop(d) \/ Highlighter(d)
        PROVE  StepsLeft(c)' = StepsLeft(c)
    <2>1. asked'[c] = asked[c] /\ at'[c] = at[c] /\ lexed'[c] = lexed[c]
          /\ (running' = c <=> running = c)
      <3>1. CASE Call(d)
        BY <1>6, <3>1
        DEF Call, RefuseCall, CallAtOnce, CallAndWait, Called, IInv, Globals, Functions
      <3>2. CASE Loop(d)
        BY <1>6, <3>2
        DEF Loop, PassToken, AskHighlighter, LeaveLoop, Advance, inCall, IInv, Globals, Functions
      <3>3. CASE Highlighter(d)
        <4>1. PICK t, r : CallsBack(d, t, r)
          BY <3>3 DEF Highlighter, HighlightFails, HighlightKeeps, HighlightReplaces
        <4>. QED
          BY <1>6, <4>1, BackFacts
      <3>. QED
        BY <1>6, <3>1, <3>2, <3>3
    <2>. QED
      BY <2>1 DEF StepsLeft, Tokens
  <1>7. ASSUME NEW p \in world.settings, SetOptions(p) PROVE StepsLeft(c)' = StepsLeft(c)
    BY <1>5, <1>7 DEF SetOptions, inCall
  <1>8. ASSUME UNCHANGED vars PROVE StepsLeft(c)' = StepsLeft(c)
    BY <1>5, <1>8 DEF vars, calling, inCall
  <1>9. Loop(c) \/ Highlighter(c) => StepsLeft(c)' < StepsLeft(c)
    BY <1>1, <1>2, <1>3, <1>4 DEF Loop
  <1>10. Loop(c) \/ Highlighter(c) \/ Call(c) \/ StepsLeft(c)' = StepsLeft(c)
    BY <1>6, <1>7, <1>8 DEF Next, Step
  <1>11. StepsLeft(c)' \in Int
    <2>1. at'[c] \in Nat /\ Len(Tokens(c))' \in Nat /\ asked'[c] \subseteq 1 .. at'[c] - 1
      BY DEF IInv, CallInv, CallOK
    <2>2. at'[c] - 1 \in Nat
      BY DEF IInv, CallInv, CallOK
    <2>3. IsFiniteSet(asked'[c])
      BY <2>1, <2>2, UpTo, FS_Subset
    <2>4. Cardinality(asked'[c]) \in Nat
      BY <2>3, FS_CardinalityType
    <2>. QED
      BY <2>1, <2>4 DEF StepsLeft
  <1>. QED
    BY <1>0, <1>9, <1>10, <1>11 DEF Nearer

\* No call is forgotten: one that was not answered has its loop on the stack or a token
\* with a highlighter, and is at most 2n + 1 steps from its end when it has n tokens;
\* each step of its loop and each answer of a highlighter lessens them, and nothing
\* that other calls and setOptions do adds to them.
THEOREM NoCallForgotten ==
  LexReturns /\ ParseReturns /\ Spec =>
    [](\A c \in Calls : Remembered(c)) /\ [][\A c \in Calls : Nearer(c)]_vars
  <1>. SUFFICES ASSUME LexReturns, ParseReturns
                PROVE  Spec => [](\A c \in Calls : Remembered(c))
                               /\ [][\A c \in Calls : Nearer(c)]_vars
    OBVIOUS
  <1>1. Init => IInv /\ Through
    BY InitIInv, InitThrough
  <1>2. IInv /\ Through /\ [Next]_vars => IInv' /\ Through'
    BY NextIInv, NextThrough
  <1>3. IInv /\ Through => \A c \in Calls : Remembered(c)
    BY NothingForgotten
  <1>4. IInv /\ IInv' /\ [Next]_vars => [\A c \in Calls : Nearer(c)]_vars
    BY NextNearer
  <1>. QED
    BY <1>1, <1>2, <1>3, <1>4, PTL DEF Spec
=============================================================================
