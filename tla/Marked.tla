-------------------------------- MODULE Marked --------------------------------
(***************************************************************************)
(* The function marked of lib/marked.js, called with and without a         *)
(* callback.  With a callback and a highlighter that calls back, the code  *)
(* blocks of a source are highlighted first, each when its highlighter     *)
(* answers, and the last answer parses the tokens.  Calls overlap while    *)
(* they wait, share the renderer, and the defaults may change meanwhile.   *)
(*                                                                         *)
(* JavaScript runs to completion: while `running` is a call, only its loop *)
(* over the tokens goes on, with the highlighter that it has just called.  *)
(* How sources become tokens and tokens become output are parameters; see  *)
(* MarkdownLexer and MarkdownParser.                                       *)
(***************************************************************************)
EXTENDS Naturals, Sequences, FiniteSets

CONSTANTS Calls, NoCall,
          Sources, NoText,   \* texts, and something else than a text
          Values,            \* the values of each option
          Worlds,            \* the circumstances considered (below)
          Lex(_, _),         \* tokens and links of a source, under options
          Parse(_, _, _)     \* output of those, with options and the renderer's options

OptionNames == DOMAIN Values
Fits(p) == DOMAIN p \subseteq OptionNames /\ \A n \in DOMAIN p : p[n] \in Values[n]
Complete(o) == DOMAIN o = OptionNames /\ Fits(o)

\* How a highlighter is called, and what it calls back with.
Highlighters == {"none", "returns", "calls back"}
Results == {"error", "same", "new"}

\* A world has the calls that are made, the defaults at first, what setOptions is
\* called with, and how highlighters answer.
IsRequest(r) ==
  r.src \in Sources \cup {NoText} /\ Fits(r.opt) /\ r.callback \in BOOLEAN

ASSUME MarkedAssumption ==
  /\ NoCall \notin Calls /\ NoText \notin Sources
  /\ {"highlight", "silent"} \subseteq OptionNames
  /\ Values["highlight"] = Highlighters /\ Values["silent"] = BOOLEAN
  /\ \A w \in Worlds :
       /\ \A c \in Calls : IsRequest(w.requests[c])
       /\ Complete(w.defaults) /\ \A p \in w.settings : Fits(p)
       /\ w.results \subseteq Results

VARIABLES
  world,
  defaults,   \* marked.defaults
  rendering,  \* the options of the renderer, which all calls share
  running,    \* the call whose loop over the tokens is on the stack
  called,
  given,      \* the options of each call, as merged when it was made
  opt,        \* the same as they are now
  lexed,      \* its tokens and links
  at,         \* the token that its loop has come to
  pending,    \* its count of tokens
  asked,      \* the tokens its highlighter was asked for and has not answered
  failed,     \* those answered with an error (not in the code)
  colored,    \* those whose text was replaced
  answers     \* what it was answered, in order

inCall == <<opt, lexed, at, pending, asked, failed, colored>>
calling == <<defaults, rendering, running, called, given, inCall, answers>>
vars == <<world, calling>>

Request(c) == world.requests[c]
Tokens(c) == lexed[c].tokens
NothingLexed == [tokens |-> <<>>, links |-> <<>>]

Error == [ok |-> FALSE, out |-> <<>>]
Message == [ok |-> TRUE, out |-> <<[tag |-> "An error occured"]>>]

\* One call's part of the type invariant.
CallOK(c) ==
  /\ Complete(given[c]) /\ Complete(opt[c])
  /\ at[c] \in 1 .. Len(Tokens(c)) + 1
  /\ pending[c] \in 0 .. Len(Tokens(c))
  /\ asked[c] \subseteq 1 .. at[c] - 1
  /\ failed[c] \subseteq (1 .. at[c] - 1) \ asked[c]
  /\ colored[c] \subseteq (1 .. at[c] - 1) \ (asked[c] \cup failed[c])
  /\ Len(answers[c]) \in Nat

\* Type invariant: options are never partial, and tokens that are asked for, failed or
\* replaced are apart and behind the loop (merge and the loop of marked).
TypeOK ==
  /\ Complete(defaults) /\ Complete(rendering)
  /\ running \in Calls \cup {NoCall} /\ called \subseteq Calls
  /\ \A c \in Calls : CallOK(c)

Init ==
  /\ world \in Worlds
  /\ defaults = world.defaults /\ rendering = world.defaults
  /\ running = NoCall /\ called = {}
  /\ given = [c \in Calls |-> world.defaults] /\ opt = given
  /\ lexed = [c \in Calls |-> NothingLexed]
  /\ at = [c \in Calls |-> 1]
  /\ pending = [c \in Calls |-> 0]
  /\ asked = [c \in Calls |-> {}]
  /\ failed = [c \in Calls |-> {}]
  /\ colored = [c \in Calls |-> {}]
  /\ answers = [c \in Calls |-> <<>>]

-----------------------------------------------------------------------------
Merge(o, p) == [n \in OptionNames |-> IF n \in DOMAIN p THEN p[n] ELSE o[n]]

Highlighted(lx, tokens) ==
  [lx EXCEPT !.tokens = [i \in DOMAIN @ |-> IF i \in tokens
                                            THEN [@[i] EXCEPT !.escaped = TRUE] ELSE @[i]]]

Answer(c, a) == answers' = [answers EXCEPT ![c] = Append(@, a)]

\* What the callback gets, or the caller, who may have asked for silence.
Told(r, o, a) == IF ~a.ok /\ ~r.callback /\ o["silent"] THEN Message ELSE a

\* A call has options of its own, merged when it is made.
OwnOptions(c) == Merge(defaults, Request(c).opt)

Called(c) ==
  /\ running = NoCall /\ c \notin called
  /\ called' = called \cup {c}
  /\ given' = [given EXCEPT ![c] = OwnOptions(c)]

\* What is not a text cannot be lexed.
RefuseCall(c) ==
  /\ Called(c) /\ Request(c).src = NoText
  /\ opt' = [opt EXCEPT ![c] = OwnOptions(c)]
  /\ Answer(c, Told(Request(c), opt'[c], Error))
  /\ UNCHANGED <<defaults, rendering, running, lexed, at, pending, asked, failed, colored>>

Source(c) == Lex(Request(c).src, OwnOptions(c))

\* Whether there are highlighters to wait for, or tokens that will be counted.
\* Mutant: tokens are not looked at.
WaitsForNothing(r, o) == r.callback /\ o["highlight"] = "calls back"
Waits(r, o) ==
  r.callback /\ o["highlight"] = "calls back" /\ Len(Lex(r.src, o).tokens) # 0

\* The parser gives the renderer its options.
CallAtOnce(c) ==
  /\ Called(c) /\ Request(c).src # NoText /\ ~Waits(Request(c), OwnOptions(c))
  /\ opt' = [opt EXCEPT ![c] = OwnOptions(c)]
  /\ rendering' = opt'[c]
  /\ Answer(c, Told(Request(c), opt'[c], Parse(Source(c), opt'[c], rendering')))
  /\ UNCHANGED <<defaults, running, lexed, at, pending, asked, failed, colored>>

\* delete opt.highlight: the renderer is not to highlight again.
WithoutHighlight(o) == [o EXCEPT !["highlight"] = "none"]

CallAndWait(c) ==
  /\ Called(c) /\ Request(c).src # NoText /\ Waits(Request(c), OwnOptions(c))
  /\ opt' = [opt EXCEPT ![c] = WithoutHighlight(OwnOptions(c))]
  /\ lexed' = [lexed EXCEPT ![c] = Source(c)]
  /\ pending' = [pending EXCEPT ![c] = Len(Source(c).tokens)]
  /\ running' = c
  /\ UNCHANGED <<defaults, rendering, at, asked, failed, colored, answers>>

RestoreHighlight(c) == opt' = [opt EXCEPT ![c]["highlight"] = given[c]["highlight"]]

\* done().  The parser empties the tokens, which nothing looks at afterwards.
\* Mutant: the defaults are asked for, not the options of the call.
DoneWithDefaults(c, tokens) ==
  /\ Answer(c, Parse(Highlighted(lexed[c], tokens), WithoutHighlight(defaults),
                     WithoutHighlight(defaults)))
  /\ RestoreHighlight(c)
  /\ rendering' = opt'[c]
Done(c, tokens) ==
  /\ Answer(c, Parse(Highlighted(lexed[c], tokens), opt[c], opt[c]))
  /\ RestoreHighlight(c)
  /\ rendering' = opt'[c]

\* --pending || done().
\* Mutant: one token too early.
CountDownEarly(c, tokens) ==
  /\ pending' = [pending EXCEPT ![c] = @ - 1]
  /\ IF pending'[c] <= 1 THEN Done(c, tokens) ELSE UNCHANGED <<opt, rendering, answers>>
CountDown(c, tokens) ==
  /\ pending' = [pending EXCEPT ![c] = @ - 1]
  /\ IF pending'[c] = 0 THEN Done(c, tokens) ELSE UNCHANGED <<opt, rendering, answers>>

Advance(c) ==
  /\ running = c /\ at[c] <= Len(Tokens(c))
  /\ at' = [at EXCEPT ![c] = @ + 1]
  /\ UNCHANGED <<defaults, running, called, given, lexed, failed, colored>>

PassToken(c) ==
  /\ Advance(c) /\ Tokens(c)[at[c]].type # "code"
  /\ CountDown(c, colored[c])
  /\ UNCHANGED asked

AskHighlighter(c) ==
  /\ Advance(c) /\ Tokens(c)[at[c]].type = "code"
  /\ asked' = [asked EXCEPT ![c] = @ \cup {at[c]}]
  /\ UNCHANGED <<opt, rendering, pending, answers>>

LeaveLoop(c) ==
  /\ running = c /\ at[c] > Len(Tokens(c))
  /\ running' = NoCall
  /\ UNCHANGED <<defaults, rendering, called, given, inCall, answers>>

\* A highlighter calls back for a token, once: later, or when one is called.
CallsBack(c, t, result) ==
  /\ t \in asked[c] /\ result \in world.results
  /\ running # NoCall => at[running] > 1 /\ Tokens(running)[at[running] - 1].type = "code"
  /\ asked' = [asked EXCEPT ![c] = @ \ {t}]
  /\ UNCHANGED <<defaults, running, called, given, lexed, at>>

\* done(err) calls back, and the other tokens go on.
\* Mutant: the token is counted.
HighlightFailsCounted(c, t) ==
  /\ CallsBack(c, t, "error")
  /\ failed' = [failed EXCEPT ![c] = @ \cup {t}]
  /\ pending' = [pending EXCEPT ![c] = @ - 1]
  /\ Answer(c, Error) /\ RestoreHighlight(c)
  /\ UNCHANGED <<rendering, colored>>
HighlightFails(c, t) ==
  /\ CallsBack(c, t, "error")
  /\ failed' = [failed EXCEPT ![c] = @ \cup {t}]
  /\ Answer(c, Error) /\ RestoreHighlight(c)
  /\ UNCHANGED <<rendering, pending, colored>>

HighlightKeeps(c, t) ==
  /\ CallsBack(c, t, "same")
  /\ CountDown(c, colored[c])
  /\ UNCHANGED <<failed, colored>>

HighlightReplaces(c, t) ==
  /\ CallsBack(c, t, "new")
  /\ colored' = [colored EXCEPT ![c] = @ \cup {t}]
  /\ CountDown(c, colored'[c])
  /\ UNCHANGED failed

\* Mutant: they become the defaults.
ReplaceOptions(p) ==
  /\ running = NoCall
  /\ defaults' = p
  /\ UNCHANGED <<rendering, running, called, given, inCall, answers>>
SetOptions(p) ==
  /\ running = NoCall
  /\ defaults' = Merge(defaults, p)
  /\ UNCHANGED <<rendering, running, called, given, inCall, answers>>

Call(c) == RefuseCall(c) \/ CallAtOnce(c) \/ CallAndWait(c)
Loop(c) == PassToken(c) \/ AskHighlighter(c) \/ LeaveLoop(c)
Highlighter(c) ==
  \E t \in asked[c] :
    HighlightFails(c, t) \/ HighlightKeeps(c, t) \/ HighlightReplaces(c, t)

Step ==
  \/ \E c \in Calls : Call(c) \/ Loop(c) \/ Highlighter(c)
  \/ \E p \in world.settings : SetOptions(p)

Next == Step /\ UNCHANGED world

Spec == Init /\ [][Next]_vars

\* A loop that was begun comes to its tokens and ends; a highlighter that answers at
\* all answers in the end.
Fairness(c) ==
  /\ WF_at(Advance(c)) /\ WF_running(LeaveLoop(c))
  /\ WF_asked(\E t \in asked[c], result \in world.results : CallsBack(c, t, result))

FairSpec == Spec /\ \A c \in Calls : Fairness(c)

-----------------------------------------------------------------------------
\* What the loop of a call has not reached, its highlighter has not given back, or
\* was given back with an error.
Unsettled(c) ==
  {t \in 1 .. Len(Tokens(c)) : t >= at[c] \/ t \in asked[c] \cup failed[c]}

\* A call is answered once, or, when highlighting fails, once for each failure and
\* never with an output (the countdown of marked).
AnsweredOnce ==
  \A c \in Calls :
    /\ failed[c] = {} => Len(answers[c]) <= 1
    /\ failed[c] # {} =>
         /\ Len(answers[c]) = Cardinality(failed[c])
         /\ \A i \in 1 .. Len(answers[c]) : answers[c][i] = Error

\* A call is answered with an output only when its loop is through its tokens and
\* every code block was given back.
NothingParsedEarly ==
  \A c \in Calls : (Len(answers[c]) > 0 /\ failed[c] = {}) => Unsettled(c) = {}

\* Every call is answered, if its highlighter answers (marked with a callback).
EveryCallAnswered ==
  world.results # {} => \A c \in Calls : c \in called ~> answers[c] # <<>>

\* Whether a request waits, and what it is answered with, when no other call and no
\* setOptions comes between: code blocks are as some of them were given back.
WaitsAlone(r, o) == r.src # NoText /\ Waits(r, o)
AnswersAlone(r, o) ==
  IF r.src = NoText THEN {Told(r, o, Error)}
  ELSE LET lx == Lex(r.src, o)
           quiet == WithoutHighlight(o)
           codes == {i \in 1 .. Len(lx.tokens) : lx.tokens[i].type = "code"}
       IN IF Waits(r, o) THEN {Parse(Highlighted(lx, tokens), quiet, quiet) : tokens \in SUBSET codes}
          ELSE {Told(r, o, Parse(lx, o, o))}

\* Calls that overlap, share the renderer and outlive a setOptions answer as each would
\* on its own (the options that marked merges, hides highlight from and restores).
Isolated == INSTANCE IsolatedCalls WITH
  Waiting <- WaitsAlone, Alone <- AnswersAlone, Failure <- Error,
  finished <- {c \in called : pending[c] = 0}
CallsAreIsolated == Isolated!Spec
=============================================================================
