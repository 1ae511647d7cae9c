--------------------------- MODULE BitstreamChecker ---------------------------
(***************************************************************************)
(* The check-bitstreams script of com.atmire.scripts.bitstreamchecker: it  *)
(* takes bitstreams in batches, those scanned longest ago first, scans     *)
(* each of them and commits per batch, until one of its limits is reached  *)
(* or it meets a bitstream that was scanned after it started.              *)
(*                                                                         *)
(* Only the order of the scan dates matters to it, and whether a date is   *)
(* absent, from before or from after its start; so the dates are kept as   *)
(* a sequence of bitstreams, oldest date first, and two sets.  `saved` is  *)
(* what the database holds, the rest is what the script's transaction      *)
(* sees.  How one bitstream is scanned is the subject of VirusScan.        *)
(***************************************************************************)
EXTENDS Naturals, Sequences, SequencesExt, FiniteSets

CONSTANTS Bitstreams,
          Limit,         \* bitstreamCheckerCommitPerBitstreamAmount
          Unlimited,     \* the count when -c is absent
          Worlds,        \* the circumstances considered (below)
          MaxIterations  \* where the iterations stop being counted (bound)

CommandLines ==
  [loop : BOOLEAN, duration : BOOLEAN, count : Nat \cup {Unlimited},
   ids : SUBSET Bitstreams]

\* The command lines in use, the bitstreams that a consumer of the web application
\* scans, once, and what can go wrong.
Circumstances ==
  [options : SUBSET CommandLines, arrivals : SUBSET Bitstreams,
   faults : SUBSET {"clamd", "abort"}]

ASSUME CheckerAssumption ==
  /\ IsFiniteSet(Bitstreams) /\ Limit \in Nat \ {0} /\ Unlimited \notin Nat
  /\ Worlds \subseteq Circumstances
  /\ MaxIterations \in Nat \ {0}
  /\ \A w \in Worlds : \A o \in w.options : o.count # Unlimited => o.count < MaxIterations

VARIABLES
  world,
  pc, run,
  batch,      \* what the innermost iterator still has to return
  cur,        \* the bitstream chosen for scanning, in a sequence
  lastScan,   \* lastScanDate: not read or absent, before or after startDate
  iteration,
  late,       \* stopDate has passed
  order,      \* the bitstreams by scan date, oldest first
  never,      \* those without a scan date
  fresh,      \* those with a date after startDate
  saved,      \* order, never and fresh as the database has them
  arriving,   \* arrivals the consumer has not scanned yet
  due, swept  \* the oldest at the start, and what this run scanned (not in the code)

dates == <<order, never, fresh>>
checking == <<pc, run, batch, cur, lastScan, iteration, late, dates, saved, arriving, due, swept>>
vars == <<world, checking>>

Options == world.options
Faults == world.faults

Orders == SetToSeqs(Bitstreams)
View == [order |-> order, never |-> never, fresh |-> fresh]

\* An absent date sorts as the oldest, and a new one as the latest.
NullsFirst(d) ==
  \A i, j \in DOMAIN d.order : i < j /\ d.order[j] \in d.never => d.order[i] \in d.never

DatesOK(d) ==
  /\ d.order \in Orders /\ NullsFirst(d)
  /\ d.never \subseteq Bitstreams /\ d.fresh \subseteq Bitstreams \ d.never

TypeOK ==
  /\ world \in Worlds
  /\ pc \in {"idle", "loop", "chosen", "ended"}
  /\ run \in Options
  /\ batch \in Seq(Bitstreams) /\ Len(batch) <= Cardinality(Bitstreams)
  /\ cur \in {<<>>} \cup {<<b>> : b \in Bitstreams}
  /\ lastScan \in {"null", "before", "after"}
  /\ iteration \in 0 .. MaxIterations /\ late \in BOOLEAN
  /\ DatesOK(View) /\ DatesOK(saved)
  /\ arriving \subseteq world.arrivals
  /\ due \subseteq Bitstreams /\ swept \subseteq Bitstreams

Init ==
  /\ world \in Worlds
  /\ pc = "idle" /\ run \in Options
  /\ batch = <<>> /\ cur = <<>> /\ lastScan = "null"
  /\ iteration = 0 /\ late = FALSE
  /\ never \in SUBSET Bitstreams /\ fresh = {}
  /\ order \in Orders /\ NullsFirst(View)
  /\ saved = View
  /\ arriving = world.arrivals /\ due = {} /\ swept = {}

-----------------------------------------------------------------------------
\* findByVirusScanDate: at most queryLimit bitstreams, in order of scan date.
\* Mutants: the latest come first; one too few.
LatestFirst == Reverse(order)
ByScanDate == order
OneTooFew(s) == SubSeq(s, 1, IF Len(s) < Limit THEN Len(s) ELSE Limit - 1)
FirstOf(s) == SubSeq(s, 1, IF Len(s) < Limit THEN Len(s) ELSE Limit)

\* getBitstreamIterator: the ids of -b or -i, in any order, or the first batch.
Iterators(o) == IF o.ids # {} THEN SetToSeqs(o.ids) ELSE {FirstOf(ByScanDate)}

\* A new date replaces the old one.
\* Mutant: the old one is not cleared.
AlsoDated(s, b) == Append(s, b)
PlaceOf(s, b) == CHOOSE i \in DOMAIN s : s[i] = b
Dated(s, b) == Append(RemoveAt(s, PlaceOf(s, b)), b)
Scanned(d, b) ==
  [order |-> Dated(d.order, b), never |-> d.never \ {b}, fresh |-> d.fresh \cup {b}]

Becomes(d) == order' = d.order /\ never' = d.never /\ fresh' = d.fresh

\* The limits of IteratorScript.stillActive.
WithinLimits == ~late /\ (run.count # Unlimited => iteration >= run.count)

\* BitstreamChecker.stillActive: once a scan date was read, a run that does not
\* loop goes by that date alone.
\* Mutant: it goes by the limits alone.
ActiveByLimits(last) == WithinLimits
StillActive(last) ==
  IF ~run.loop /\ last # "null" THEN last = "before" ELSE WithinLimits

Age(b) == IF b \in never THEN "null" ELSE IF b \in fresh THEN "after" ELSE "before"

Start(o) ==
  /\ pc = "idle" /\ run' = o
  /\ batch' \in Iterators(o)
  /\ cur' = <<>> /\ lastScan' = "null" /\ iteration' = 0 /\ late' = FALSE
  /\ fresh' = {} /\ saved' = [saved EXCEPT !.fresh = {}]
  /\ due' = {b \in Bitstreams : \E i \in 1 .. Limit : i \in DOMAIN order /\ order[i] = b}
  /\ swept' = {}
  /\ pc' = "loop"
  /\ UNCHANGED <<order, never, arriving>>

\* The iterator commits and queries anew as it hands out the last bitstream of a
\* batch, that is before that bitstream is scanned.
TakeNext ==
  /\ pc = "loop" /\ batch # <<>> /\ StillActive(lastScan)
  /\ lastScan' = Age(Head(batch))
  /\ IF StillActive(lastScan')
     THEN cur' = <<Head(batch)>> /\ pc' = "chosen"
     ELSE UNCHANGED <<cur, pc>>
  /\ IF Len(batch) = 1 /\ run.ids = {}
     THEN batch' = FirstOf(ByScanDate) /\ saved' = View
     ELSE batch' = Tail(batch) /\ UNCHANGED saved
  /\ UNCHANGED <<run, iteration, late, dates, arriving, due, swept>>

Iterated ==
  /\ pc = "chosen"
  /\ iteration' = IF iteration < MaxIterations THEN iteration + 1 ELSE iteration
  /\ cur' = <<>> /\ pc' = "loop"
  /\ UNCHANGED <<run, batch, lastScan, late, saved, arriving, due>>

ScanBitstream ==
  /\ Iterated
  /\ Becomes(Scanned(View, cur[1]))
  /\ swept' = swept \cup {cur[1]}

\* clamd cannot be reached: the bitstream keeps its scan date.
ConnectFails ==
  /\ Iterated /\ "clamd" \in Faults
  /\ UNCHANGED <<dates, swept>>

\* -L: the iterator is exhausted, get a new one.
LoopAgain ==
  /\ pc = "loop" /\ batch = <<>> /\ run.loop /\ StillActive(lastScan)
  /\ batch' \in Iterators(run)
  /\ UNCHANGED <<pc, run, cur, lastScan, iteration, late, dates, saved, arriving, due, swept>>

Complete ==
  /\ pc = "loop"
  /\ ~StillActive(lastScan) \/ (batch = <<>> /\ ~run.loop)
  /\ saved' = View
  /\ batch' = <<>> /\ pc' = "ended"
  /\ UNCHANGED <<run, cur, lastScan, iteration, late, dates, arriving, due, swept>>

Exit ==
  /\ pc = "ended" /\ pc' = "idle"
  /\ UNCHANGED <<run, batch, cur, lastScan, iteration, late, dates, saved, arriving, due, swept>>

\* An exception, or the JVM goes down: the open transaction is rolled back.
Abort ==
  /\ pc \in {"loop", "chosen"} /\ "abort" \in Faults
  /\ Becomes(saved)
  /\ batch' = <<>> /\ cur' = <<>> /\ pc' = "idle"
  /\ UNCHANGED <<run, lastScan, iteration, late, saved, arriving, due, swept>>

\* A duration is longer than the first scan takes.
DeadlinePasses ==
  /\ pc \in {"loop", "chosen"} /\ run.duration /\ ~late /\ iteration > 0
  /\ late' = TRUE
  /\ UNCHANGED <<pc, run, batch, cur, lastScan, iteration, dates, saved, arriving, due, swept>>

\* The consumer scans and commits; it waits for a row the script holds.
ConsumerScans(b) ==
  /\ b \in arriving /\ (b \in fresh => b \in saved.fresh)
  /\ Becomes(Scanned(View, b)) /\ saved' = Scanned(saved, b)
  /\ arriving' = arriving \ {b}
  /\ UNCHANGED <<pc, run, batch, cur, lastScan, iteration, late, due, swept>>

Script == TakeNext \/ ScanBitstream \/ LoopAgain \/ Complete \/ Exit

Cron == \E o \in Options : Start(o)

Step ==
  \/ Cron \/ Script \/ ConnectFails \/ Abort \/ DeadlinePasses
  \/ \E b \in Bitstreams : ConsumerScans(b)

Next == Step /\ UNCHANGED world

Spec == Init /\ [][Next]_vars

\* One thread that goes on, started again and again by cron, while time passes.
FairSpec ==
  /\ Spec
  /\ WF_checking(Script \/ ConnectFails) /\ WF_checking(Cron) /\ WF_checking(DeadlinePasses)

-----------------------------------------------------------------------------
NoLimits == ~run.loop /\ ~run.duration /\ run.count = Unlimited

\* A run without limits that ends by itself has scanned the batch of bitstreams
\* that had waited longest when it started, or those it was asked for; unless a
\* consumer scanned one of the batch meanwhile, or clamd was down.
OldestBatchSwept ==
  (world.arrivals = {} /\ "clamd" \notin Faults /\ pc = "ended" /\ NoLimits) =>
     IF run.ids = {} THEN due \subseteq fresh ELSE run.ids \subseteq fresh

\* A run that does not loop scans no bitstream twice, although the last of a
\* batch is also the first of the next.
NothingScannedTwice == (pc = "chosen" /\ ~run.loop) => cur[1] \notin swept

\* Every bitstream is scanned again and again, when cron runs the script on all
\* bitstreams, clamd is up and no run is aborted; whatever the consumer scans.
ScannedAgain ==
  (Faults = {} /\ \A o \in Options : o.count = Unlimited /\ o.ids = {})
     => \A b \in Bitstreams : []<>(cur = <<b>>)

\* A run that has a duration or does not loop comes to its end, with clamd up.
RunEnds ==
  ("clamd" \notin Faults /\ pc # "idle" /\ (~run.loop \/ run.duration)) ~> (pc = "idle")

\* Claimed: with no -c and no -d the script is "unlimited" (IteratorScript.java:97,99).
EverythingSwept ==
  (pc = "ended" /\ NoLimits /\ run.ids = {}) => fresh = Bitstreams

\* Claimed: "Max duration this script may run" (IteratorScript.java:97).
EndsByDeadline == late ~> (pc = "idle")
=============================================================================
