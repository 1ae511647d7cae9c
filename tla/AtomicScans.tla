----------------------------- MODULE AtomicScans -----------------------------
(***************************************************************************)
(* What the repository relies on when it has its bitstreams scanned: a     *)
(* session is about one item and scans each of its bitstreams at most      *)
(* once; one scan is one step, whose verdict is clamd's on that very       *)
(* bitstream or says that there is none; only bitstreams found infected    *)
(* lose their policies; and verdicts are stored as they were reached, all  *)
(* those of a transaction or none.  VirusScan implements this as long as   *)
(* no two sessions use the read buffer of a JVM at the same time.          *)
(***************************************************************************)
CONSTANTS Bitstreams, Items, ItemOf, Infected, Oversize, FailFast, None,
          Workers,  \* sessions whose verdicts are stored when they end
          Checkers  \* scripts, which store those of many sessions at once

Scanners == Workers \cup Checkers

VARIABLES
  archived, accessible, result,
  session,    \* "none", or where the item was when the session began
  unscanned,  \* what a session has still to scan
  pend, hide  \* verdicts and policy removals to be stored together

vars == <<archived, accessible, result, session, unscanned, pend, hide>>

Contents(x) == {b \in Bitstreams : ItemOf[b] = x}
Nothing == [b \in Bitstreams |-> None]

\* A file above clamd's limit is not searched, and passes for clean.
Sick == Infected \ Oversize
Verdicts(b) == {"FILE NOT FOUND", "ERROR", IF b \in Sick THEN "VIRUS" ELSE "CLEAN"}

Init ==
  /\ archived \in SUBSET Items
  /\ accessible = {b \in Bitstreams : ItemOf[b] \in archived}
  /\ result = Nothing
  /\ session = [s \in Scanners |-> "none"]
  /\ unscanned = [s \in Scanners |-> {}]
  /\ pend = [s \in Scanners |-> Nothing]
  /\ hide = [s \in Scanners |-> {}]

Install(x) ==
  /\ x \notin archived
  /\ archived' = archived \cup {x}
  /\ accessible' = accessible \cup Contents(x)
  /\ UNCHANGED <<result, session, unscanned, pend, hide>>

Begin(s, bs, x) ==
  /\ session[s] = "none"
  /\ session' = [session EXCEPT ![s] = IF x \in archived THEN "archive" ELSE "workflow"]
  /\ unscanned' = [unscanned EXCEPT ![s] = bs]
  /\ UNCHANGED <<archived, accessible, result, pend, hide>>

\* The session will end with b, whatever else there is.
StopAfter(s, b) ==
  /\ b \in unscanned[s]
  /\ unscanned' = [unscanned EXCEPT ![s] = {b}]
  /\ UNCHANGED <<archived, accessible, result, session, pend, hide>>

\* A session ends with an error, and if need be with the first virus.
Ends(v) == v = "ERROR" \/ (FailFast /\ v = "VIRUS")

Scan(s, b, v) ==
  /\ b \in unscanned[s]
  /\ Ends(v) => unscanned[s] = {b}
  /\ unscanned' = [unscanned EXCEPT ![s] = @ \ {b}]
  /\ UNCHANGED <<archived, result, session>>

Noted(s, b, v) == [pend EXCEPT ![s][b] = v]
Removed(s, b, v) == IF v = "VIRUS" /\ session[s] = "archive" THEN {b} ELSE {}

\* A consumer hides what it found at once, unless that fails.
ScanAndHide(w, b, v) ==
  /\ Scan(w, b, v) /\ UNCHANGED hide
  /\ \/ accessible' = accessible \ Removed(w, b, v) /\ pend' = Noted(w, b, v)
     \/ accessible' = accessible /\ pend' \in {pend, Noted(w, b, v)}

\* A script hides it together with storing the verdict.
ScanOnly(c, b, v) ==
  /\ Scan(c, b, v) /\ UNCHANGED accessible
  /\ pend' = Noted(c, b, v)
  /\ hide' = [hide EXCEPT ![c] = @ \cup Removed(c, b, v)]

Stored(s) == [b \in Bitstreams |-> IF pend[s][b] # None THEN pend[s][b] ELSE result[b]]

\* The open transactions of S end, and their sessions with them.
Close(S) ==
  /\ session' = [s \in Scanners |-> IF s \in S THEN "none" ELSE session[s]]
  /\ unscanned' = [s \in Scanners |-> IF s \in S THEN {} ELSE unscanned[s]]
  /\ pend' = [s \in Scanners |-> IF s \in S THEN Nothing ELSE pend[s]]
  /\ hide' = [s \in Scanners |-> IF s \in S THEN {} ELSE hide[s]]
  /\ UNCHANGED archived

Lose(S) == Close(S) /\ UNCHANGED <<accessible, result>>

EndConsumer(w) ==
  /\ session[w] # "none" /\ unscanned[w] = {} /\ Close({w})
  /\ result' = Stored(w) /\ UNCHANGED accessible

EndScript(c) ==
  /\ unscanned[c] = {}
  /\ session' = [session EXCEPT ![c] = "none"]
  /\ UNCHANGED <<archived, accessible, result, unscanned, pend, hide>>

Commit(c) ==
  /\ session[c] = "none" /\ Close({c})
  /\ result' = Stored(c) /\ accessible' = accessible \ hide[c]

Next ==
  \/ \E x \in Items : Install(x)
  \/ \E w \in Workers, x \in archived : Begin(w, Contents(x), x)
  \/ \E c \in Checkers, b \in Bitstreams : Begin(c, {b}, ItemOf[b])
  \/ \E s \in Scanners, b \in Bitstreams : StopAfter(s, b)
  \/ \E w \in Workers, b \in Bitstreams : \E v \in Verdicts(b) : ScanAndHide(w, b, v)
  \/ \E c \in Checkers, b \in Bitstreams : \E v \in Verdicts(b) : ScanOnly(c, b, v)
  \/ \E w \in Workers : EndConsumer(w)
  \/ \E c \in Checkers : EndScript(c) \/ Commit(c)
  \/ \E S \in {Workers} \cup {{s} : s \in Scanners} : Lose(S)

Spec == Init /\ [][Next]_vars
=============================================================================
