------------------------------ MODULE VirusScan ------------------------------
(***************************************************************************)
(* Virus scanning with clamd: org.dspace.ctask.general.ClamScan, run by    *)
(* the asynchronous consumers of the web application (a pool of threads    *)
(* that scan each newly archived item) and by the check-bitstreams script  *)
(* (a JVM of its own that scans one bitstream after the other).            *)
(*                                                                         *)
(* ClamScan keeps its read buffer in a static field, so every scanner of a *)
(* JVM shares it: bitstream contents go out of it to clamd and the answer  *)
(* comes back into it.  One session (a socket) serves all bitstreams of an *)
(* item.  The verdict and the removal of the policies are stored in one    *)
(* transaction by the script and in two by a consumer.                     *)
(***************************************************************************)
EXTENDS Naturals, Sequences, FiniteSets

CONSTANTS Bitstreams, Items,
          ItemOf,    \* the item each bitstream belongs to
          Infected,  \* bitstreams clamd has a signature for
          Oversize,  \* bitstreams above clamd's stream size limit
          Workers,   \* threads of the consumer pool
          Checkers,  \* running check-bitstreams scripts
          FailFast,  \* clamav.cfg scan.failfast
          FaultSets, \* the combinations of faults considered (below)
          None

Scanners == Workers \cup Checkers

\* The pool threads run in the web application, each script in its own JVM.
Jvms == {"webapp"} \cup Checkers
Jvm(s) == IF s \in Workers THEN "webapp" ELSE s

Answers == {"OK", "FOUND", "ERROR"}
Results == {"CLEAN", "VIRUS", "FILE NOT FOUND", "ERROR"}

\* clamd cannot be reached, a file is missing, an answer is lost; the consumer's
\* or the script's commit fails, or that of the policy removal; a JVM goes down.
Faults == {"clamd", "file", "answer", "commit", "policies"} \cup Jvms

ASSUME ScanAssumption ==
  /\ ItemOf \in [Bitstreams -> Items]
  /\ Infected \subseteq Bitstreams /\ Oversize \subseteq Bitstreams
  /\ Workers \cap Checkers = {} /\ "webapp" \notin Checkers
  /\ None \notin Bitstreams \cup Answers \cup Results
  /\ Bitstreams \cap Answers = {}
  /\ FailFast \in BOOLEAN
  /\ FaultSets \subseteq SUBSET Faults

VARIABLES
  faults,      \* what can go wrong
  archived,    \* items with a handle; the others are in the workflow
  accessible,  \* bitstreams with read policies for the public
  result,      \* bitstream.virus.lastScanResult
  queue,       \* items the consumer pool still has to take
  pc, todo, cur,
  inWorkflow,  \* the handle read when the session was opened was null
  buffer,      \* ClamScan.buffer, per JVM
  wire,        \* answers of clamd on their way to a scanner's socket
  verdict,
  pend, hide   \* verdicts and policy removals in a scanner's open transaction

store == <<archived, accessible, result, queue>>
scan == <<pc, todo, cur, inWorkflow, buffer, wire, verdict>>
scanning == <<store, scan, pend, hide>>
vars == <<faults, scanning>>

Contents(x) == {b \in Bitstreams : ItemOf[b] = x}
Nothing == [b \in Bitstreams |-> None]

TypeOK ==
  /\ archived \subseteq Items /\ accessible \subseteq Bitstreams /\ queue \subseteq Items
  /\ result \in [Bitstreams -> Results \cup {None}]
  /\ pc \in [Scanners -> {"idle", "next", "read", "sent", "decode", "post", "done"}]
  /\ todo \in [Scanners -> SUBSET Bitstreams]
  /\ cur \in [Scanners -> Bitstreams \cup {None}]
  /\ inWorkflow \in [Scanners -> BOOLEAN]
  /\ buffer \in [Jvms -> Bitstreams \cup Answers \cup {None}]
  /\ wire \in [Scanners -> {<<>>} \cup {<<a>> : a \in Answers}]
  /\ verdict \in [Scanners -> Results \cup {None}]
  /\ pend \in [Scanners -> [Bitstreams -> Results \cup {None}]]
  /\ hide \in [Scanners -> SUBSET Bitstreams]

Init ==
  /\ faults \in FaultSets
  /\ archived \in SUBSET Items
  /\ accessible = {b \in Bitstreams : ItemOf[b] \in archived}
  /\ result = Nothing /\ queue = {}
  /\ pc = [s \in Scanners |-> "idle"]
  /\ todo = [s \in Scanners |-> {}]
  /\ cur = [s \in Scanners |-> None]
  /\ inWorkflow = [s \in Scanners |-> FALSE]
  /\ buffer = [j \in Jvms |-> None]
  /\ wire = [s \in Scanners |-> <<>>]
  /\ verdict = [s \in Scanners |-> None]
  /\ pend = [s \in Scanners |-> Nothing]
  /\ hide = [s \in Scanners |-> {}]

-----------------------------------------------------------------------------
(* Who scans what.                                                          *)

\* InstallItem archives an item, gives its bitstreams the default policies of
\* the collection and raises an Install event.  An import without indexing uses
\* a dispatcher that does not tell the consumer pool.
Install(x) ==
  /\ x \notin archived
  /\ archived' = archived \cup {x}
  /\ accessible' = accessible \cup Contents(x)
  /\ queue' \in {queue, queue \cup {x}}
  /\ UNCHANGED <<result, scan, pend, hide>>

\* perform: a new session, for all bitstreams of the item or for the one given.
Open(s, bs, x) ==
  /\ pc[s] = "idle"
  /\ pc' = [pc EXCEPT ![s] = IF bs = {} THEN "done" ELSE "next"]
  /\ todo' = [todo EXCEPT ![s] = bs]
  /\ inWorkflow' = [inWorkflow EXCEPT ![s] = x \notin archived]
  /\ UNCHANGED <<archived, accessible, result, cur, buffer, wire, verdict, pend, hide>>

TakeItem(w, x) ==
  /\ x \in queue /\ queue' = queue \ {x}
  /\ Open(w, Contents(x), x)

\* Mutant: only bitstreams without a result are scanned.
TakeNewBitstream(c, b) ==
  result[b] = None /\ Open(c, {b}, ItemOf[b]) /\ UNCHANGED queue
TakeBitstream(c, b) == Open(c, {b}, ItemOf[b]) /\ UNCHANGED queue

\* clamd cannot be reached: perform returns, and nothing is recorded.  The
\* script can only try again later, the consumer does not.
ConnectFails(w, x) ==
  /\ pc[w] = "idle" /\ x \in queue /\ "clamd" \in faults
  /\ queue' = queue \ {x}
  /\ UNCHANGED <<archived, accessible, result, scan, pend, hide>>

-----------------------------------------------------------------------------
(* scan: contents to clamd and the answer back, through the buffer.         *)

ReadChunk(s, b) ==
  /\ pc[s] = "next" /\ b \in todo[s]
  /\ cur' = [cur EXCEPT ![s] = b]
  /\ todo' = [todo EXCEPT ![s] = @ \ {b}]
  /\ buffer' = [buffer EXCEPT ![Jvm(s)] = b]
  /\ pc' = [pc EXCEPT ![s] = "read"]
  /\ UNCHANGED <<store, inWorkflow, wire, verdict, pend, hide>>

\* The file is not in the asset store.
FileNotFound(s, b) ==
  /\ pc[s] = "next" /\ b \in todo[s] /\ "file" \in faults
  /\ cur' = [cur EXCEPT ![s] = b]
  /\ todo' = [todo EXCEPT ![s] = @ \ {b}]
  /\ verdict' = [verdict EXCEPT ![s] = "FILE NOT FOUND"]
  /\ pc' = [pc EXCEPT ![s] = "post"]
  /\ UNCHANGED <<store, inWorkflow, buffer, wire, pend, hide>>

\* clamd judges what it was sent.
Reply(chunk) ==
  IF chunk \in Oversize THEN "ERROR" ELSE IF chunk \in Infected THEN "FOUND" ELSE "OK"

Send(s) ==
  /\ pc[s] = "read"
  /\ wire' = [wire EXCEPT ![s] = Append(@, Reply(buffer[Jvm(s)]))]
  /\ pc' = [pc EXCEPT ![s] = "sent"]
  /\ UNCHANGED <<store, todo, cur, inWorkflow, buffer, verdict, pend, hide>>

Receive(s) ==
  /\ pc[s] = "sent"
  /\ buffer' = [buffer EXCEPT ![Jvm(s)] = Head(wire[s])]
  /\ wire' = [wire EXCEPT ![s] = Tail(@)]
  /\ pc' = [pc EXCEPT ![s] = "decode"]
  /\ UNCHANGED <<store, todo, cur, inWorkflow, verdict, pend, hide>>

\* The bitstreams of the session still to do: none after an error, for the
\* answer may still come.
\* Mutant: the session goes on after an error.
LeftAll(s, v) == todo[s]
Left(s, v) ==
  IF v = "ERROR" \/ (FailFast /\ v = "VIRUS") THEN {} ELSE todo[s]

Judge(s, v) ==
  /\ verdict' = [verdict EXCEPT ![s] = v]
  /\ todo' = [todo EXCEPT ![s] = Left(s, v)]
  /\ pc' = [pc EXCEPT ![s] = "post"]
  /\ UNCHANGED <<store, cur, inWorkflow, buffer, wire, pend, hide>>

\* The socket fails or times out before the answer is read.
NoAnswer(s) == pc[s] \in {"read", "sent"} /\ "answer" \in faults /\ Judge(s, "ERROR")

\* Anything that does not contain FOUND counts as success.
Decode(s) ==
  /\ pc[s] = "decode"
  /\ Judge(s, IF buffer[Jvm(s)] = "FOUND" THEN "VIRUS" ELSE "CLEAN")

-----------------------------------------------------------------------------
(* postScanOperations and the transactions around it.                       *)

\* RemoveAllPolicies applies to infected bitstreams that were not in the
\* workflow when the session was opened.
\* Mutant: the test on the workflow is the wrong way round.
HidesInWorkflow(s) == verdict[s] = "VIRUS" /\ inWorkflow[s]
Hides(s) == verdict[s] = "VIRUS" /\ ~inWorkflow[s]

Hidden(s) == IF Hides(s) THEN {cur[s]} ELSE {}

AfterPost(s) == pc' = [pc EXCEPT ![s] = IF todo[s] = {} THEN "done" ELSE "next"]
Note(s) == pend' = [pend EXCEPT ![s][cur[s]] = verdict[s]]

\* A consumer's scan removes the policies in a transaction of its own; the
\* verdict waits in the consumer's.
PostConsumer(w) ==
  /\ pc[w] = "post"
  /\ accessible' = accessible \ Hidden(w)
  /\ Note(w) /\ AfterPost(w)
  /\ UNCHANGED <<archived, result, queue, todo, cur, inWorkflow, buffer, wire, verdict, hide>>

\* That transaction fails, before or after the verdict was handed over.
PostConsumerFails(w) ==
  /\ pc[w] = "post" /\ "policies" \in faults
  /\ Note(w) \/ UNCHANGED pend
  /\ AfterPost(w)
  /\ UNCHANGED <<store, todo, cur, inWorkflow, buffer, wire, verdict, hide>>

\* The script's scan leaves both in the script's transaction.
PostChecker(c) ==
  /\ pc[c] = "post"
  /\ hide' = [hide EXCEPT ![c] = @ \cup Hidden(c)]
  /\ Note(c) /\ AfterPost(c)
  /\ UNCHANGED <<store, todo, cur, inWorkflow, buffer, wire, verdict>>

\* The end of perform; the verdicts of an open transaction are stored or lost.
Stored(s) == [b \in Bitstreams |-> IF pend[s][b] # None THEN pend[s][b] ELSE result[b]]

EndTransaction(S) ==
  /\ pend' = [s \in Scanners |-> IF s \in S THEN Nothing ELSE pend[s]]
  /\ hide' = [s \in Scanners |-> IF s \in S THEN {} ELSE hide[s]]

\* The locals of perform go with it.
Leave(S) ==
  /\ pc' = [s \in Scanners |-> IF s \in S THEN "idle" ELSE pc[s]]
  /\ todo' = [s \in Scanners |-> IF s \in S THEN {} ELSE todo[s]]
  /\ cur' = [s \in Scanners |-> IF s \in S THEN None ELSE cur[s]]
  /\ inWorkflow' = [s \in Scanners |-> s \notin S /\ inWorkflow[s]]
  /\ wire' = [s \in Scanners |-> IF s \in S THEN <<>> ELSE wire[s]]
  /\ verdict' = [s \in Scanners |-> IF s \in S THEN None ELSE verdict[s]]

Close(s) ==
  /\ pc[s] = "done" /\ Leave({s})
  /\ UNCHANGED <<archived, queue, buffer>>

FinishConsumer(w) ==
  /\ Close(w)
  /\ result' = Stored(w) \/ ("commit" \in faults /\ UNCHANGED result)
  /\ EndTransaction({w})
  /\ UNCHANGED accessible

FinishChecker(c) == Close(c) /\ UNCHANGED <<accessible, result, pend, hide>>

\* The script commits once per batch, and at its end.
CommitChecker(c) ==
  /\ pc[c] = "idle" /\ pend[c] # Nothing
  /\ \/ result' = Stored(c) /\ accessible' = accessible \ hide[c]
     \/ "commit" \in faults /\ UNCHANGED <<result, accessible>>
  /\ EndTransaction({c})
  /\ UNCHANGED <<archived, queue, scan>>

\* A JVM goes down; the pool does not wait for its queue on shutdown.
Crash(j) ==
  /\ j \in faults
  /\ Leave({s \in Scanners : Jvm(s) = j})
  /\ EndTransaction({s \in Scanners : Jvm(s) = j})
  /\ queue' = IF j = "webapp" THEN {} ELSE queue
  /\ buffer' = [buffer EXCEPT ![j] = None]
  /\ UNCHANGED <<archived, accessible, result>>

ScanStep(s) ==
  \/ \E b \in Bitstreams : ReadChunk(s, b) \/ FileNotFound(s, b)
  \/ Send(s) \/ Receive(s) \/ NoAnswer(s) \/ Decode(s)

Consumer(w) ==
  \/ \E x \in Items : TakeItem(w, x) \/ ConnectFails(w, x)
  \/ ScanStep(w)
  \/ PostConsumer(w) \/ PostConsumerFails(w) \/ FinishConsumer(w)

Script(c) ==
  \/ ScanStep(c) \/ PostChecker(c) \/ FinishChecker(c)

Step ==
  \/ \E x \in Items : Install(x)
  \/ \E w \in Workers : Consumer(w)
  \/ \E c \in Checkers : \/ \E b \in Bitstreams : TakeBitstream(c, b)
                         \/ Script(c) \/ CommitChecker(c)
  \/ \E j \in Jvms : Crash(j)

Next == Step /\ UNCHANGED faults

Spec == Init /\ [][Next]_vars

\* A thread that scans goes on.  The script comes round to every bitstream and
\* commits its batch: BitstreamChecker shows that repeated runs do.
FairSpec ==
  /\ Spec
  /\ \A w \in Workers : WF_scanning(Consumer(w))
  /\ \A c \in Checkers :
       /\ WF_scanning(Script(c)) /\ SF_scanning(CommitChecker(c))
       /\ \A b \in Bitstreams : SF_scanning(TakeBitstream(c, b))

-----------------------------------------------------------------------------
\* Seen from outside a scan is one step, the one that records its verdict.
Unscanned(s) ==
  todo[s] \cup (IF pc[s] \in {"read", "sent", "decode", "post"} THEN {cur[s]} ELSE {})

Session(s) ==
  IF pc[s] = "idle" THEN "none" ELSE IF inWorkflow[s] THEN "workflow" ELSE "archive"

Atomic == INSTANCE AtomicScans WITH
            session <- [s \in Scanners |-> Session(s)],
            unscanned <- [s \in Scanners |-> Unscanned(s)]

\* Scanners that do not share a JVM implement AtomicScans: ClamScan may take the
\* answer it reads for the answer to what it sent, for each verdict is clamd's on
\* that bitstream, no answer is left over for the next, and what a transaction
\* stores was found in it.
ScansAreAtomic == Atomic!Spec

\* A stored verdict is what clamd says of that very bitstream ("a ScanResult
\* representing the server response"): never the answer to another bitstream.
VerdictSound ==
  \A b \in Bitstreams : /\ result[b] = "CLEAN" => b \notin Infected
                        /\ result[b] = "VIRUS" => b \in Infected

\* Removing policies cannot be undone, so it never happens to a clean file.
OnlyInfectedHidden ==
  \A b \in Bitstreams : ItemOf[b] \in archived /\ b \notin accessible => b \in Infected

\* When VIRUS is recorded for a bitstream of an archived item, the public can no
\* longer read it.
Flags(b) == result'[b] = "VIRUS" /\ result[b] # "VIRUS" /\ ItemOf[b] \in archived

\* A consumer keeps to this wherever it is cut off, for it removes the policies
\* before it records the verdict; unless that removal fails.
FlaggedIsHidden ==
  [][\A w \in Workers, b \in Bitstreams :
       (pc[w] = "done" /\ pc'[w] = "idle" /\ "policies" \notin faults /\ Flags(b))
          => b \notin accessible']_result

\* Every infected bitstream of an archived item ends up unreadable, even when the
\* consumer pool lost it, as long as the script keeps being run with clamd up.
EventuallyHidden ==
  \A b \in Infected :
     (faults \subseteq {"clamd", "webapp"} /\ ItemOf[b] \in archived) ~> (b \notin accessible)

\* Claimed: "Scan bitstreams for viruses and makes them inaccessible if they are
\* infected" (launcher.xml:415).
ScanHidesVirus == [][\A b \in Bitstreams : Flags(b) => b \notin accessible']_result
=============================================================================
