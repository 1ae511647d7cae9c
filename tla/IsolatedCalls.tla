----------------------------- MODULE IsolatedCalls -----------------------------
(***************************************************************************)
(* What a caller of marked relies on: a call is answered as if it were the *)
(* only one, under the defaults of the moment when it was made.  One that  *)
(* does not wait is answered within the call.  One that waits gets its     *)
(* output once, or nothing but errors.  Marked implements this.            *)
(***************************************************************************)
EXTENDS Sequences

CONSTANTS Calls,
          Merge(_, _),    \* options, with others over them
          Waiting(_, _),  \* whether a request waits, under options
          Alone(_, _),    \* what it may be answered with when it is the only one
          Failure         \* what it is told when its highlighter fails

VARIABLES
  world,     \* the requests and what setOptions is called with
  defaults,
  called,
  given,     \* the options that each call was made with
  finished,  \* calls that are answered for good
  answers

vars == <<world, defaults, called, given, finished, answers>>

Init ==
  /\ given = [c \in Calls |-> defaults]
  /\ answers = [c \in Calls |-> <<>>]
  /\ called = {} /\ finished = {}

Gets(c, a) == answers' = [answers EXCEPT ![c] = Append(@, a)]

Make(c) ==
  /\ c \notin called
  /\ called' = called \cup {c}
  /\ given' = [given EXCEPT ![c] = Merge(defaults, world.requests[c].opt)]
  /\ UNCHANGED <<world, defaults>>

MakeAndWait(c) ==
  /\ Make(c) /\ Waiting(world.requests[c], given'[c])
  /\ UNCHANGED <<finished, answers>>

MakeAndAnswer(c) ==
  /\ Make(c) /\ ~Waiting(world.requests[c], given'[c])
  /\ \E a \in Alone(world.requests[c], given'[c]) : Gets(c, a)
  /\ finished' = finished \cup {c}

Output(c) ==
  /\ c \in called \ finished /\ answers[c] = <<>>
  /\ \E a \in Alone(world.requests[c], given[c]) : Gets(c, a)
  /\ finished' = finished \cup {c}
  /\ UNCHANGED <<world, defaults, called, given>>

Fail(c) ==
  /\ c \in called \ finished
  /\ Gets(c, Failure)
  /\ UNCHANGED <<world, defaults, called, given, finished>>

SetOptions(p) ==
  /\ defaults' = Merge(defaults, p)
  /\ UNCHANGED <<world, called, given, finished, answers>>

Next ==
  \/ \E c \in Calls : MakeAndWait(c) \/ MakeAndAnswer(c) \/ Output(c) \/ Fail(c)
  \/ \E p \in world.settings : SetOptions(p)

Spec == Init /\ [][Next]_vars
=============================================================================
