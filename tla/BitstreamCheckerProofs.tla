------------------------ MODULE BitstreamCheckerProofs ------------------------
(* Proofs about BitstreamChecker for every finite set of bitstreams, all     *)
(* limits and any circumstances.                                             *)
EXTENDS BitstreamChecker, FiniteSetTheorems, SequenceTheorems, TLAPS

\* A bitstream dated after the start of the run is not one without a date, in
\* the transaction as in the database.
Dates(d) ==
  /\ d = [order |-> d.order, never |-> d.never, fresh |-> d.fresh]
  /\ d.never \cap d.fresh = {}

\* What the run scanned is dated after its start, until the run is rolled back.
IInv ==
  /\ Dates(View) /\ Dates(saved)
  /\ pc \in {"loop", "chosen", "ended"} => swept \subseteq fresh
  /\ NothingScannedTwice

LEMMA ScannedDates ==
  ASSUME NEW d, NEW b, Dates(d)
  PROVE  Dates(Scanned(d, b)) /\ Scanned(d, b).fresh = d.fresh \cup {b}
  BY DEF Dates, Scanned

LEMMA ViewFields == View.never = never /\ View.fresh = fresh
  BY DEF View

\* What the script takes up, when it does not loop, was not scanned after the start.
LEMMA TakenIsOld ==
  ASSUME NEW b, ~run.loop, StillActive(Age(b)), never \cap fresh = {}
  PROVE  b \notin fresh
  BY DEF StillActive, Age

LEMMA InitIInv == Init => IInv
  BY DEF Init, IInv, Dates, View, NothingScannedTwice

LEMMA NextIInv == IInv /\ [Next]_vars => IInv'
  <1>. SUFFICES ASSUME IInv, [Next]_vars PROVE IInv'
    OBVIOUS
  <1>. USE ViewFields DEF NothingScannedTwice
  <1>v. ASSUME UNCHANGED dates PROVE View' = View /\ never' = never /\ fresh' = fresh
    BY <1>v DEF dates, View
  <1>0. CASE UNCHANGED vars
    BY <1>0, <1>v DEF vars, checking, IInv
  <1>1. ASSUME NEW o \in Options, Start(o) PROVE IInv'
    <2>1. /\ pc' = "loop" /\ swept' = {} /\ fresh' = {} /\ never' = never
          /\ saved' = [saved EXCEPT !.fresh = {}]
      BY <1>1 DEF Start
    <2>2. Dates(View')
      BY <2>1 DEF Dates, View
    <2>3. Dates(saved')
      BY <2>1 DEF IInv, Dates
    <2>. QED
      BY <2>1, <2>2, <2>3 DEF IInv, Dates
  <1>2. CASE TakeNext
    <2>1. /\ pc = "loop" /\ run' = run /\ swept' = swept /\ View' = View /\ fresh' = fresh
          /\ never' = never /\ saved' \in {saved, View}
      BY <1>2, <1>v DEF TakeNext
    <2>2. \/ pc' = pc
          \/ pc' = "chosen" /\ cur' = <<Head(batch)>> /\ StillActive(Age(Head(batch)))
      BY <1>2 DEF TakeNext
    <2>3. (pc' = "chosen" /\ ~run.loop) => cur'[1] \notin fresh
      <3>1. never \cap fresh = {}
        BY DEF IInv, Dates
      <3>. QED
        BY <2>1, <2>2, <3>1, TakenIsOld
    <2>4. pc' \in {"loop", "chosen"} /\ swept' \subseteq fresh'
      BY <2>1, <2>2 DEF IInv
    <2>5. Dates(View') /\ Dates(saved')
      BY <2>1 DEF IInv
    <2>. QED
      BY <2>1, <2>3, <2>4, <2>5 DEF IInv, Dates
  <1>3. CASE ScanBitstream
    <2>1. /\ pc = "chosen" /\ pc' = "loop" /\ swept' = swept \cup {cur[1]} /\ saved' = saved
          /\ View' = Scanned(View, cur[1]) /\ fresh' = fresh \cup {cur[1]}
      BY <1>3 DEF ScanBitstream, Iterated, Becomes, Scanned, View
    <2>2. Dates(View')
      BY <2>1, ScannedDates DEF IInv
    <2>. QED
      BY <2>1, <2>2 DEF IInv
  <1>4. CASE ConnectFails
    BY <1>4, <1>v DEF ConnectFails, Iterated, IInv
  <1>5. CASE LoopAgain \/ Exit \/ DeadlinePasses
    <2>1. View' = View /\ fresh' = fresh /\ saved' = saved /\ swept' = swept /\ run' = run
      BY <1>5, <1>v DEF LoopAgain, Exit, DeadlinePasses
    <2>2. (pc' = pc /\ cur' = cur) \/ (pc = "ended" /\ pc' = "idle")
      BY <1>5 DEF LoopAgain, Exit, DeadlinePasses
    <2>. QED
      BY <2>1, <2>2 DEF IInv
  <1>6. CASE Complete
    BY <1>6, <1>v DEF Complete, IInv
  <1>7. CASE Abort
    <2>1. pc' = "idle" /\ saved' = saved /\ Becomes(saved)
      BY <1>7 DEF Abort
    <2>2. View' = saved
      BY <2>1 DEF Becomes, View, IInv, Dates
    <2>. QED
      BY <2>1, <2>2 DEF IInv
  <1>8. ASSUME NEW b \in Bitstreams, ConsumerScans(b) PROVE IInv'
    <2>1. /\ pc' = pc /\ run' = run /\ cur' = cur /\ swept' = swept
          /\ View' = Scanned(View, b) /\ saved' = Scanned(saved, b)
          /\ fresh' = fresh \cup {b}
      BY <1>8 DEF ConsumerScans, Becomes, Scanned, View
    <2>2. Dates(View') /\ Dates(saved')
      BY <2>1, ScannedDates DEF IInv
    <2>. QED
      BY <2>1, <2>2 DEF IInv
  <1>. QED
    BY <1>0, <1>1, <1>2, <1>3, <1>4, <1>5, <1>6, <1>7, <1>8 DEF Next, Step, Cron, Script

\* A run that does not loop scans no bitstream twice, although the next batch is
\* queried before the last bitstream of this one was dated, consumers date
\* bitstreams meanwhile, and clamd may fail on any of them.
THEOREM ScannedOnce == Spec => []NothingScannedTwice
  <1>1. IInv => NothingScannedTwice
    BY DEF IInv
  <1>. QED
    BY <1>1, InitIInv, NextIInv, PTL DEF Spec

-----------------------------------------------------------------------------
(* TypeOK.  The bitstreams by date stay a permutation of all bitstreams.     *)

USE CheckerAssumption

\* How many bitstreams there are.
Count == Cardinality(Bitstreams)

LEMMA CountIsNat == Count \in Nat
  BY FS_CardinalityType DEF Count

LEMMA OrderShape ==
  ASSUME NEW s \in Orders
  PROVE  /\ s \in Seq(Bitstreams) /\ Len(s) = Count /\ DOMAIN s = 1 .. Count
         /\ \A i \in 1 .. Count : s[i] \in Bitstreams
         /\ \A i, j \in 1 .. Count : s[i] = s[j] => i = j
         /\ \A b \in Bitstreams : \E i \in 1 .. Count : s[i] = b
  <1>1. s \in [1 .. Count -> Bitstreams] /\ \A i, j \in 1 .. Count : i # j => s[i] # s[j]
    BY DEF Orders, SetToSeqs, Count
  <1>2. s \in Injection(1 .. Count, Bitstreams)
    BY <1>1 DEF Injection, IsInjective
  <1>3. IsFiniteSet(1 .. Count) /\ Cardinality(1 .. Count) = Count
    BY FS_Interval, CountIsNat, SMTT(30)
  <1>4. s \in Surjection(1 .. Count, Bitstreams)
    BY <1>2, <1>3, FS_Injection DEF Count
  <1>5. \A b \in Bitstreams : \E i \in 1 .. Count : s[i] = b
    BY <1>4 DEF Surjection
  <1>6. s \in Seq(Bitstreams) /\ Len(s) = Count
    BY <1>1, CountIsNat
  <1>. QED
    BY <1>1, <1>5, <1>6

\* A new date moves a bitstream to the end and the later ones one place forward.
LEMMA DatedShape ==
  ASSUME NEW s \in Orders, NEW b \in Bitstreams
  PROVE  /\ PlaceOf(s, b) \in 1 .. Count /\ s[PlaceOf(s, b)] = b
         /\ Dated(s, b) \in Seq(Bitstreams) /\ Len(Dated(s, b)) = Count
         /\ \A i \in 1 .. Count :
              Dated(s, b)[i] = IF i = Count THEN b
                               ELSE IF i < PlaceOf(s, b) THEN s[i] ELSE s[i + 1]
  <1>. DEFINE p == PlaceOf(s, b)
              before == SubSeq(s, 1, p - 1)
              after == SubSeq(s, p + 1, Len(s))
  <1>1. /\ s \in Seq(Bitstreams) /\ Len(s) = Count /\ DOMAIN s = 1 .. Count
        /\ \E i \in 1 .. Count : s[i] = b
    BY OrderShape
  <1>2. p \in 1 .. Count /\ s[p] = b
    BY <1>1 DEF PlaceOf
  <1>3. Count \in Nat
    BY CountIsNat
  <1>. HIDE DEF p
  <1>4. /\ before \in Seq(Bitstreams) /\ Len(before) = p - 1
        /\ \A i \in 1 .. p - 1 : before[i] = s[i]
    BY <1>1, <1>2, <1>3
  <1>5. /\ after \in Seq(Bitstreams) /\ Len(after) = Count - p
        /\ \A i \in 1 .. Count - p : after[i] = s[p + i]
    BY <1>1, <1>2, <1>3
  <1>. HIDE DEF before, after
  <1>6. /\ before \o after \in Seq(Bitstreams) /\ Len(before \o after) = Count - 1
        /\ \A i \in 1 .. Count - 1 :
             (before \o after)[i] = IF i < p THEN s[i] ELSE s[i + 1]
    <2>1. /\ before \o after \in Seq(Bitstreams)
          /\ Len(before \o after) = Len(before) + Len(after)
          /\ \A i \in 1 .. Len(before) + Len(after) : (before \o after)[i] =
               IF i <= Len(before) THEN before[i] ELSE after[i - Len(before)]
      BY <1>4, <1>5, ConcatProperties
    <2>2. Len(before) + Len(after) = Count - 1
      BY <1>2, <1>3, <1>4, <1>5
    <2>3. ASSUME NEW i \in 1 .. Count - 1, i < p PROVE (before \o after)[i] = s[i]
      <3>1. i \in 1 .. p - 1
        BY <1>2, <1>3, <2>3
      <3>. QED
        BY <1>2, <1>3, <1>4, <2>1, <2>2, <3>1
    <2>4. ASSUME NEW i \in 1 .. Count - 1, ~(i < p) PROVE (before \o after)[i] = s[i + 1]
      <3>1. i - (p - 1) \in 1 .. Count - p /\ p + (i - (p - 1)) = i + 1 /\ ~(i <= p - 1)
        BY <1>2, <1>3, <2>4
      <3>. QED
        BY <1>2, <1>3, <1>4, <1>5, <2>1, <2>2, <3>1
    <2>. QED
      BY <2>1, <2>2, <2>3, <2>4
  <1>7. Dated(s, b) = Append(before \o after, b)
    BY DEF Dated, RemoveAt, p, before, after
  <1>. QED
    BY <1>2, <1>3, <1>6, <1>7 DEF p

LEMMA DatedOrder ==
  ASSUME NEW s \in Orders, NEW b \in Bitstreams
  PROVE  Dated(s, b) \in Orders
  <1>. DEFINE p == PlaceOf(s, b)
              t == Dated(s, b)
              From(i) == IF i < p THEN i ELSE i + 1
  <1>1. /\ p \in 1 .. Count /\ s[p] = b /\ t \in Seq(Bitstreams) /\ Len(t) = Count
        /\ \A i \in 1 .. Count : t[i] = IF i = Count THEN b
                                       ELSE IF i < p THEN s[i] ELSE s[i + 1]
    BY DatedShape
  <1>2. \A i, j \in 1 .. Count : s[i] = s[j] => i = j
    BY OrderShape
  <1>3. Count \in Nat
    BY CountIsNat
  <1>. HIDE DEF p, t
  <1>4. ASSUME NEW i \in 1 .. Count, NEW j \in 1 .. Count, i < j PROVE t[i] # t[j]
    <2>1. i # Count /\ From(i) \in 1 .. Count /\ From(i) # p
      BY <1>1, <1>3, <1>4
    <2>2. t[i] = s[From(i)]
      BY <1>1, <2>1
    <2>3. CASE j = Count
      BY <1>1, <1>2, <2>1, <2>2, <2>3
    <2>4. CASE j # Count
      <3>1. From(j) \in 1 .. Count /\ From(i) # From(j) /\ t[j] = s[From(j)]
        BY <1>1, <1>3, <1>4, <2>4
      <3>. QED
        BY <1>2, <2>1, <2>2, <3>1
    <2>. QED
      BY <2>3, <2>4
  <1>5. \A i, j \in 1 .. Count : i # j => i < j \/ j < i
    BY <1>3
  <1>6. t \in [1 .. Count -> Bitstreams] /\ \A i, j \in 1 .. Count : i # j => t[i] # t[j]
    BY <1>1, <1>3, <1>4, <1>5
  <1>. QED
    BY <1>6 DEF Orders, SetToSeqs, Count, t

\* No bitstream is sorted behind one with a date when it has none, after a scan too.
LEMMA ScannedOK ==
  ASSUME NEW d, DatesOK(d), NEW b \in Bitstreams
  PROVE  DatesOK(Scanned(d, b))
  <1>. DEFINE s == d.order
              p == PlaceOf(s, b)
              t == Dated(s, b)
              From(i) == IF i < p THEN i ELSE i + 1
  <1>1. s \in Orders /\ DOMAIN s = 1 .. Count /\ Count \in Nat
    BY OrderShape, CountIsNat DEF DatesOK
  <1>2. t \in Orders /\ DOMAIN t = 1 .. Count
    BY <1>1, DatedOrder, OrderShape
  <1>3. /\ p \in 1 .. Count /\ s[p] = b
        /\ \A i \in 1 .. Count : t[i] = IF i = Count THEN b
                                       ELSE IF i < p THEN s[i] ELSE s[i + 1]
    BY <1>1, DatedShape
  <1>4. \A i, j \in 1 .. Count : i < j /\ s[j] \in d.never => s[i] \in d.never
    BY <1>1 DEF DatesOK, NullsFirst
  <1>5. \A i, j \in 1 .. Count : s[i] = s[j] => i = j
    BY <1>1, OrderShape
  <1>. HIDE DEF s, p, t
  <1>6. ASSUME NEW i \in 1 .. Count, NEW j \in 1 .. Count, i < j, t[j] \in d.never \ {b}
        PROVE  t[i] \in d.never \ {b}
    <2>1. j # Count /\ From(j) \in 1 .. Count /\ t[j] = s[From(j)]
      BY <1>1, <1>3, <1>6
    <2>2. /\ i # Count /\ From(i) \in 1 .. Count /\ From(i) # p /\ From(i) < From(j)
          /\ t[i] = s[From(i)]
      BY <1>1, <1>3, <1>6, <2>1
    <2>. QED
      BY <1>3, <1>4, <1>5, <1>6, <2>1, <2>2
  <1>7. Scanned(d, b).order = t /\ Scanned(d, b).never = d.never \ {b}
        /\ Scanned(d, b).fresh = d.fresh \cup {b}
    BY DEF Scanned, s, t
  <1>. QED
    BY <1>2, <1>6, <1>7 DEF DatesOK, NullsFirst

LEMMA FirstOfShape ==
  ASSUME NEW s \in Orders
  PROVE  /\ FirstOf(s) \in Seq(Bitstreams) /\ Len(FirstOf(s)) <= Count
         /\ \A i \in 1 .. Len(FirstOf(s)) : i \in 1 .. Count /\ FirstOf(s)[i] = s[i]
         /\ \A i \in 1 .. Count : i <= Limit => i \in 1 .. Len(FirstOf(s))
  <1>1. /\ s \in Seq(Bitstreams) /\ Len(s) = Count /\ Count \in Nat
        /\ \A i \in 1 .. Count : s[i] \in Bitstreams
    BY OrderShape, CountIsNat
  <1>. DEFINE n == IF Len(s) < Limit THEN Len(s) ELSE Limit
  <1>2. n \in Nat /\ n <= Count /\ \A i \in 1 .. Count : i <= Limit => i <= n
    BY <1>1
  <1>3. /\ SubSeq(s, 1, n) \in Seq(Bitstreams) /\ Len(SubSeq(s, 1, n)) = n
        /\ \A i \in 1 .. n : SubSeq(s, 1, n)[i] = s[i]
    <2>. HIDE DEF n
    <2>. QED
      BY <1>1, <1>2
  <1>. QED
    BY <1>1, <1>2, <1>3 DEF FirstOf

\* The ids of -b or -i, in any order: each of them once.
LEMMA IdsShape ==
  ASSUME NEW ids \in SUBSET Bitstreams, NEW q \in SetToSeqs(ids)
  PROVE  /\ q \in Seq(Bitstreams) /\ Len(q) <= Count
         /\ \A i, j \in 1 .. Len(q) : q[i] = q[j] => i = j
         /\ Range(q) = ids
  <1>. DEFINE n == Cardinality(ids)
  <1>1. IsFiniteSet(ids) /\ n <= Count /\ n \in Nat /\ Count \in Nat
    BY FS_Subset, FS_CardinalityType, CountIsNat DEF Count
  <1>2. q \in [1 .. n -> ids] /\ \A i, j \in 1 .. n : i # j => q[i] # q[j]
    BY DEF SetToSeqs
  <1>3. q \in Injection(1 .. n, ids)
    BY <1>2 DEF Injection, IsInjective
  <1>4. IsFiniteSet(1 .. n) /\ Cardinality(1 .. n) = n
    BY <1>1, FS_Interval, SMTT(30)
  <1>5. q \in Surjection(1 .. n, ids)
    BY <1>1, <1>3, <1>4, FS_Injection
  <1>6. q \in Seq(Bitstreams) /\ Len(q) = n /\ DOMAIN q = 1 .. n
    <2>1. q \in [1 .. n -> Bitstreams]
      BY <1>2
    <2>. QED
      BY <1>1, <2>1
  <1>7. Range(q) = ids
    BY <1>2, <1>5, <1>6 DEF Range, Surjection
  <1>. QED
    BY <1>1, <1>2, <1>6, <1>7

LEMMA IteratorShape ==
  ASSUME NEW o, o \in CommandLines, order \in Orders, NEW q \in Iterators(o)
  PROVE  q \in Seq(Bitstreams) /\ Len(q) <= Count
  <1>1. CASE o.ids # {}
    BY <1>1, IdsShape DEF Iterators, CommandLines
  <1>2. CASE o.ids = {}
    BY <1>2, FirstOfShape DEF Iterators, ByScanDate
  <1>. QED
    BY <1>1, <1>2

LEMMA TailShape ==
  ASSUME NEW q \in Seq(Bitstreams), q # <<>>
  PROVE  /\ Tail(q) \in Seq(Bitstreams) /\ Len(Tail(q)) = Len(q) - 1 /\ Len(q) \in Nat \ {0}
         /\ Head(q) = q[1] /\ Head(q) \in Bitstreams
         /\ \A i \in 1 .. Len(q) - 1 : Tail(q)[i] = q[i + 1]
  OBVIOUS

LEMMA OptionsType == world \in Worlds => Options \subseteq CommandLines
  BY DEF Options, Circumstances

\* The bitstream chosen is there until it was scanned.
TypeInv ==
  /\ TypeOK
  /\ pc = "chosen" => cur # <<>>

LEMMA InitTypeInv == Init => TypeInv
  <1>. SUFFICES ASSUME Init PROVE TypeInv
    OBVIOUS
  <1>1. /\ world \in Worlds /\ pc = "idle" /\ run \in Options
        /\ batch = <<>> /\ cur = <<>> /\ lastScan = "null" /\ iteration = 0 /\ late = FALSE
        /\ never \subseteq Bitstreams /\ fresh = {} /\ order \in Orders /\ NullsFirst(View)
        /\ saved = View /\ arriving = world.arrivals /\ due = {} /\ swept = {}
    BY DEF Init
  <1>2. DatesOK(View)
    BY <1>1 DEF DatesOK, View
  <1>3. batch \in Seq(Bitstreams) /\ Len(batch) <= Cardinality(Bitstreams)
    BY <1>1, CountIsNat DEF Count
  <1>4. iteration \in 0 .. MaxIterations
    BY <1>1
  <1>. QED
    BY <1>1, <1>2, <1>3, <1>4 DEF TypeInv, TypeOK

LEMMA NextTypeInv == IInv /\ TypeInv /\ [Next]_vars => TypeInv'
  <1>. SUFFICES ASSUME IInv, TypeInv, [Next]_vars PROVE TypeInv'
    OBVIOUS
  <1>. USE DEF TypeInv
  <1>t. /\ world \in Worlds /\ pc \in {"idle", "loop", "chosen", "ended"}
        /\ run \in Options /\ batch \in Seq(Bitstreams) /\ Len(batch) <= Count
        /\ cur \in {<<>>} \cup {<<b>> : b \in Bitstreams}
        /\ lastScan \in {"null", "before", "after"}
        /\ iteration \in 0 .. MaxIterations /\ late \in BOOLEAN
        /\ DatesOK(View) /\ DatesOK(saved) /\ order \in Orders
        /\ arriving \subseteq world.arrivals
        /\ due \subseteq Bitstreams /\ swept \subseteq Bitstreams
    BY DEF TypeOK, Count, DatesOK, View
  <1>c. ASSUME pc = "chosen" PROVE cur[1] \in Bitstreams
    BY <1>c, <1>t
  <1>o. run \in CommandLines
    BY <1>t, OptionsType
  <1>v. ASSUME UNCHANGED dates PROVE View' = View
    BY <1>v DEF dates, View
  <1>0. CASE UNCHANGED vars
    BY <1>0, <1>v DEF vars, checking, TypeOK, dates, Options
  <1>. SUFFICES ASSUME Step, world' = world PROVE TypeInv'
    BY <1>0 DEF Next
  <1>w. Options' = Options
    BY DEF Options
  <1>1. ASSUME NEW o \in Options, Start(o) PROVE TypeInv'
    <2>1. /\ pc' = "loop" /\ run' = o /\ batch' \in Iterators(o) /\ cur' = <<>>
          /\ lastScan' = "null" /\ iteration' = 0 /\ late' = FALSE /\ fresh' = {}
          /\ saved' = [saved EXCEPT !.fresh = {}] /\ swept' = {} /\ order' = order
          /\ never' = never /\ arriving' = arriving /\ due' \subseteq Bitstreams
      BY <1>1 DEF Start
    <2>2. batch' \in Seq(Bitstreams) /\ Len(batch') <= Count
      BY <1>1, <1>t, <2>1, OptionsType, IteratorShape
    <2>3. DatesOK(View')
      BY <1>t, <2>1 DEF DatesOK, NullsFirst, View
    <2>4. saved'.order = saved.order /\ saved'.never = saved.never /\ saved'.fresh = {}
      BY <2>1 DEF IInv, Dates
    <2>5. DatesOK(saved')
      BY <1>t, <2>4 DEF DatesOK, NullsFirst
    <2>6. iteration' \in 0 .. MaxIterations
      BY <2>1
    <2>. QED
      BY <1>1, <1>t, <1>w, <2>1, <2>2, <2>3, <2>5, <2>6 DEF TypeOK, Count
  <1>2. CASE TakeNext
    <2>1. /\ pc = "loop" /\ batch # <<>> /\ lastScan' = Age(Head(batch))
          /\ \/ pc' = "chosen" /\ cur' = <<Head(batch)>>
             \/ pc' = pc /\ cur' = cur
          /\ \/ batch' = FirstOf(order) /\ saved' = View
             \/ batch' = Tail(batch) /\ saved' = saved
          /\ run' = run /\ iteration' = iteration /\ late' = late
          /\ arriving' = arriving /\ due' = due /\ swept' = swept
      BY <1>2 DEF TakeNext, ByScanDate
    <2>2. View' = View
      BY <1>2, <1>v DEF TakeNext
    <2>3. Head(batch) \in Bitstreams
      BY <1>t, <2>1, TailShape
    <2>4. batch' \in Seq(Bitstreams) /\ Len(batch') <= Count
      <3>1. CASE batch' = FirstOf(order)
        BY <1>t, <3>1, FirstOfShape
      <3>2. CASE batch' = Tail(batch)
        BY <1>t, <2>1, <3>2, TailShape, CountIsNat
      <3>. QED
        BY <2>1, <3>1, <3>2
    <2>5. lastScan' \in {"null", "before", "after"}
      BY <2>1 DEF Age
    <2>6. cur' \in {<<>>} \cup {<<b>> : b \in Bitstreams} /\ (pc' = "chosen" => cur' # <<>>)
      BY <1>t, <2>1, <2>3
    <2>7. DatesOK(View') /\ DatesOK(saved')
      BY <1>t, <2>1, <2>2
    <2>. QED
      BY <1>t, <1>w, <2>1, <2>4, <2>5, <2>6, <2>7 DEF TypeOK, Count
  <1>3. ASSUME Iterated,
               \/ Becomes(Scanned(View, cur[1])) /\ swept' = swept \cup {cur[1]}
               \/ UNCHANGED <<dates, swept>>
        PROVE TypeInv'
    <2>1. /\ pc = "chosen" /\ pc' = "loop" /\ cur' = <<>>
          /\ iteration' = IF iteration < MaxIterations THEN iteration + 1 ELSE iteration
          /\ run' = run /\ batch' = batch /\ lastScan' = lastScan /\ late' = late
          /\ saved' = saved /\ arriving' = arriving /\ due' = due
      BY <1>3 DEF Iterated
    <2>2. iteration' \in 0 .. MaxIterations
      BY <1>t, <2>1
    <2>3. DatesOK(View') /\ swept' \subseteq Bitstreams
      <3>1. CASE UNCHANGED <<dates, swept>>
        BY <1>t, <1>v, <3>1
      <3>2. CASE Becomes(Scanned(View, cur[1])) /\ swept' = swept \cup {cur[1]}
        <4>1. View' = Scanned(View, cur[1])
          BY <3>2 DEF Becomes, Scanned, View
        <4>. QED
          BY <1>c, <1>t, <2>1, <3>2, <4>1, ScannedOK
      <3>. QED
        BY <1>3, <3>1, <3>2
    <2>. QED
      BY <1>t, <1>w, <2>1, <2>2, <2>3 DEF TypeOK, Count
  <1>4. CASE LoopAgain
    <2>1. /\ batch' \in Iterators(run) /\ pc' = pc /\ run' = run /\ cur' = cur
          /\ lastScan' = lastScan /\ iteration' = iteration /\ late' = late
          /\ UNCHANGED dates /\ saved' = saved /\ arriving' = arriving
          /\ due' = due /\ swept' = swept
      BY <1>4 DEF LoopAgain
    <2>2. batch' \in Seq(Bitstreams) /\ Len(batch') <= Count
      BY <1>o, <1>t, <2>1, IteratorShape
    <2>. QED
      BY <1>t, <1>v, <1>w, <2>1, <2>2 DEF TypeOK, Count
  <1>5. CASE Complete
    <2>1. /\ pc' = "ended" /\ batch' = <<>> /\ saved' = View /\ run' = run /\ cur' = cur
          /\ lastScan' = lastScan /\ iteration' = iteration /\ late' = late
          /\ UNCHANGED dates /\ arriving' = arriving /\ due' = due /\ swept' = swept
      BY <1>5 DEF Complete
    <2>2. batch' \in Seq(Bitstreams) /\ Len(batch') <= Count
      BY <2>1, CountIsNat
    <2>. QED
      BY <1>t, <1>v, <1>w, <2>1, <2>2 DEF TypeOK, Count
  <1>6. CASE Exit
    BY <1>6, <1>t, <1>v, <1>w DEF Exit, TypeOK, Count
  <1>7. CASE Abort
    <2>1. /\ pc' = "idle" /\ batch' = <<>> /\ cur' = <<>> /\ saved' = saved /\ Becomes(saved)
          /\ run' = run /\ lastScan' = lastScan /\ iteration' = iteration /\ late' = late
          /\ arriving' = arriving /\ due' = due /\ swept' = swept
      BY <1>7 DEF Abort
    <2>2. View' = saved
      BY <2>1 DEF Becomes, View, IInv, Dates
    <2>3. batch' \in Seq(Bitstreams) /\ Len(batch') <= Count
      BY <2>1, CountIsNat
    <2>. QED
      BY <1>t, <1>w, <2>1, <2>2, <2>3 DEF TypeOK, Count
  <1>8. CASE DeadlinePasses
    BY <1>8, <1>t, <1>v, <1>w DEF DeadlinePasses, TypeOK, Count
  <1>9. ASSUME NEW b \in Bitstreams, ConsumerScans(b) PROVE TypeInv'
    <2>1. /\ pc' = pc /\ run' = run /\ batch' = batch /\ cur' = cur /\ lastScan' = lastScan
          /\ iteration' = iteration /\ late' = late /\ arriving' = arriving \ {b}
          /\ View' = Scanned(View, b) /\ saved' = Scanned(saved, b)
          /\ due' = due /\ swept' = swept
      BY <1>9 DEF ConsumerScans, Becomes, Scanned, View
    <2>2. DatesOK(View') /\ DatesOK(saved')
      BY <1>t, <2>1, ScannedOK
    <2>. QED
      BY <1>t, <1>w, <2>1, <2>2 DEF TypeOK, Count
  <1>. QED
    BY <1>1, <1>2, <1>3, <1>4, <1>5, <1>6, <1>7, <1>8, <1>9
       DEF Step, Cron, Script, ScanBitstream, ConnectFails

\* The dates of all bitstreams are kept, in the transaction and the database alike:
\* each keeps its place in one order, those without a date come first.
THEOREM CheckerTypeCorrect == Spec => []TypeOK
  <1>1. TypeInv => TypeOK
    BY DEF TypeInv
  <1>. QED
    BY <1>1, InitIInv, NextIInv, InitTypeInv, NextTypeInv, PTL DEF Spec

-----------------------------------------------------------------------------
(* OldestBatchSwept.  A run without limits takes every bitstream it started  *)
(* for up before it can meet one that was scanned after its start.           *)

Quiet == world.arrivals = {} /\ "clamd" \notin Faults /\ NoLimits

\* What the run is for, and the bitstream it scans now.
Target == IF run.ids = {} THEN due ELSE run.ids
Chosen == IF pc = "chosen" THEN {cur[1]} ELSE {}

\* Each bitstream the iterator still has to return is there once, not scanned yet.
Distinct(q) == \A i, j \in 1 .. Len(q) : q[i] = q[j] => i = j

Ahead ==
  /\ Target \subseteq fresh \cup Chosen \cup Range(batch)
  /\ Distinct(batch) /\ Range(batch) \cap (fresh \cup Chosen) = {}
  /\ lastScan # "after"

\* Until the run has chosen or scanned all it is for, those that are left are ahead.
Sweeping ==
  Quiet =>
    /\ ~late
    /\ pc \in {"loop", "chosen"} => Ahead \/ Target \subseteq fresh \cup Chosen
    /\ pc = "ended" => Target \subseteq fresh

LEMMA RangeOfBatch ==
  ASSUME NEW q \in Seq(Bitstreams)
  PROVE  /\ \A i \in 1 .. Len(q) : q[i] \in Range(q)
         /\ \A x \in Range(q) : \E i \in 1 .. Len(q) : q[i] = x
  <1>1. DOMAIN q = 1 .. Len(q)
    OBVIOUS
  <1>2. \A i \in 1 .. Len(q) : q[i] \in Range(q)
    BY <1>1 DEF Range
  <1>3. \A x \in Range(q) : \E i \in DOMAIN q : q[i] = x
    BY DEF Range
  <1>. QED
    BY <1>1, <1>2, <1>3

LEMMA TailDistinct ==
  ASSUME NEW q \in Seq(Bitstreams), q # <<>>, Distinct(q)
  PROVE  /\ Distinct(Tail(q)) /\ Head(q) \notin Range(Tail(q)) /\ Head(q) \in Range(q)
         /\ Range(q) = {Head(q)} \cup Range(Tail(q))
  <1>. DEFINE t == Tail(q)
              n == Len(q)
  <1>1. /\ t \in Seq(Bitstreams) /\ Len(t) = n - 1 /\ n \in Nat \ {0} /\ Head(q) = q[1]
        /\ \A i \in 1 .. n - 1 : t[i] = q[i + 1]
    BY TailShape
  <1>2. \A i, j \in 1 .. n : q[i] = q[j] => i = j
    BY DEF Distinct
  <1>3. /\ \A i \in 1 .. n : q[i] \in Range(q)
        /\ \A x \in Range(q) : \E i \in 1 .. n : q[i] = x
    BY RangeOfBatch
  <1>4. /\ \A i \in 1 .. n - 1 : t[i] \in Range(t)
        /\ \A x \in Range(t) : \E i \in 1 .. n - 1 : t[i] = x
    <2>1. /\ \A i \in 1 .. Len(t) : t[i] \in Range(t)
          /\ \A x \in Range(t) : \E i \in 1 .. Len(t) : t[i] = x
      BY <1>1, RangeOfBatch
    <2>. HIDE DEF t, n
    <2>. QED
      BY <1>1, <2>1
  <1>. HIDE DEF t, n
  <1>5. \A i, j \in 1 .. n - 1 : t[i] = t[j] => i = j
    BY <1>1, <1>2
  <1>6. Head(q) \notin Range(t)
    BY <1>1, <1>2, <1>4
  <1>7. Range(t) \subseteq Range(q) /\ Head(q) \in Range(q)
    BY <1>1, <1>3, <1>4
  <1>8. ASSUME NEW x \in Range(q), x # Head(q) PROVE x \in Range(t)
    <2>1. PICK i \in 1 .. n : q[i] = x
      BY <1>3
    <2>2. i - 1 \in 1 .. n - 1 /\ t[i - 1] = q[i]
      BY <1>1, <1>8, <2>1
    <2>. QED
      BY <1>4, <2>1, <2>2
  <1>9. Distinct(t)
    BY <1>1, <1>5 DEF Distinct
  <1>. QED
    BY <1>6, <1>7, <1>8, <1>9 DEF t

\* The first batch holds the bitstreams due, each once; so do the ids.
LEMMA BatchAtStart ==
  ASSUME NEW o \in CommandLines, order \in Orders, NEW q \in Iterators(o),
         NEW D, D = {b \in Bitstreams : \E i \in 1 .. Limit : i \in DOMAIN order /\ order[i] = b}
  PROVE  Distinct(q) /\ Range(q) = IF o.ids = {} THEN D ELSE o.ids
  <1>1. CASE o.ids # {}
    BY <1>1, IdsShape DEF Iterators, CommandLines, Distinct
  <1>2. CASE o.ids = {}
    <2>1. q = FirstOf(order)
      BY <1>2 DEF Iterators, ByScanDate
    <2>2. /\ q \in Seq(Bitstreams) /\ Len(q) \in Nat
          /\ \A i \in 1 .. Len(q) : i \in 1 .. Count /\ q[i] = order[i]
          /\ \A i \in 1 .. Count : i <= Limit => i \in 1 .. Len(q)
      BY <2>1, FirstOfShape
    <2>3. /\ DOMAIN order = 1 .. Count /\ Count \in Nat
          /\ \A i \in 1 .. Count : order[i] \in Bitstreams
          /\ \A i, j \in 1 .. Count : order[i] = order[j] => i = j
      BY OrderShape, CountIsNat
    <2>4. Distinct(q)
      BY <2>2, <2>3 DEF Distinct
    <2>5. Len(q) <= Limit
      BY <2>1, <2>3, OrderShape DEF FirstOf
    <2>6. ASSUME NEW x \in Range(q) PROVE x \in D
      <3>1. PICK i \in 1 .. Len(q) : q[i] = x
        BY <2>2, RangeOfBatch
      <3>2. i \in 1 .. Limit /\ i \in DOMAIN order /\ order[i] = x /\ x \in Bitstreams
        BY <2>2, <2>3, <2>5, <3>1
      <3>. QED
        BY <3>2
    <2>7. ASSUME NEW x \in D PROVE x \in Range(q)
      <3>1. PICK i \in 1 .. Limit : i \in DOMAIN order /\ order[i] = x
        OBVIOUS
      <3>2. i \in 1 .. Len(q) /\ q[i] = x
        BY <2>2, <2>3, <3>1
      <3>. QED
        BY <2>2, <3>2, RangeOfBatch
    <2>. QED
      BY <1>2, <2>4, <2>6, <2>7
  <1>. QED
    BY <1>1, <1>2

LEMMA InitSweeping == Init => Sweeping
  BY DEF Init, Sweeping

LEMMA NextSweeping == TypeInv /\ Sweeping /\ [Next]_vars => Sweeping'
  <1>. SUFFICES ASSUME TypeInv, Sweeping, [Next]_vars, Quiet' PROVE Sweeping'
    BY DEF Sweeping
  <1>t. /\ world \in Worlds /\ pc \in {"idle", "loop", "chosen", "ended"}
        /\ run \in CommandLines /\ batch \in Seq(Bitstreams) /\ order \in Orders
        /\ never \cap fresh = {} /\ arriving \subseteq world.arrivals
    BY OptionsType DEF TypeInv, TypeOK, DatesOK, View
  <1>w. world' = world
    BY DEF Next, vars
  <1>q. ASSUME run' = run
        PROVE  /\ Quiet /\ ~late /\ world.arrivals = {} /\ "clamd" \notin Faults
               /\ ~run.loop /\ ~run.duration
               /\ pc \in {"loop", "chosen"} => Ahead \/ Target \subseteq fresh \cup Chosen
               /\ pc = "ended" => Target \subseteq fresh
    BY <1>q, <1>w DEF Quiet, Sweeping, NoLimits, Faults
  <1>s. ASSUME run' = run, NEW last PROVE StillActive(last) <=> last \in {"null", "before"}
    BY <1>q, <1>s DEF StillActive, WithinLimits, Quiet, NoLimits
  <1>0. CASE UNCHANGED vars
    <2>1. UNCHANGED <<pc, run, batch, cur, lastScan, late, fresh, due>>
      BY <1>0 DEF vars, checking, dates
    <2>. QED
      BY <1>q, <2>1 DEF Sweeping, Ahead, Target, Chosen
  <1>. SUFFICES ASSUME Step PROVE Sweeping'
    BY <1>0 DEF Next
  <1>1. ASSUME NEW o \in Options, Start(o) PROVE Sweeping'
    <2>1. /\ pc' = "loop" /\ run' = o /\ batch' \in Iterators(o) /\ lastScan' = "null"
          /\ late' = FALSE /\ fresh' = {}
          /\ due' = {b \in Bitstreams : \E i \in 1 .. Limit : i \in DOMAIN order /\ order[i] = b}
      BY <1>1 DEF Start
    <2>2. o \in CommandLines
      BY <1>1, <1>t, OptionsType
    <2>3. Distinct(batch') /\ Range(batch') = Target'
      BY <1>t, <2>1, <2>2, BatchAtStart DEF Target
    <2>4. Ahead'
      BY <2>1, <2>3 DEF Ahead, Chosen
    <2>. QED
      BY <2>1, <2>4 DEF Sweeping
  <1>2. CASE TakeNext
    <2>1. /\ pc = "loop" /\ batch # <<>> /\ lastScan' = Age(Head(batch)) /\ run' = run
          /\ late' = late /\ fresh' = fresh /\ due' = due
          /\ IF StillActive(lastScan') THEN cur' = <<Head(batch)>> /\ pc' = "chosen"
             ELSE cur' = cur /\ pc' = pc
          /\ (Len(batch) = 1 /\ run.ids = {}) \/ batch' = Tail(batch)
      BY <1>2 DEF TakeNext, dates
    <2>2. Target' = Target /\ Chosen = {} /\ pc' \in {"loop", "chosen"}
      BY <2>1 DEF Target, Chosen
    <2>3. CASE Target \subseteq fresh \cup Chosen
      BY <1>q, <2>1, <2>2, <2>3 DEF Sweeping
    <2>4. CASE Ahead
      <3>1. /\ Target \subseteq fresh \cup Range(batch) /\ Distinct(batch)
            /\ Range(batch) \cap fresh = {}
        BY <2>2, <2>4 DEF Ahead
      <3>2. /\ Distinct(Tail(batch)) /\ Head(batch) \notin Range(Tail(batch))
            /\ Head(batch) \in Range(batch)
            /\ Range(batch) = {Head(batch)} \cup Range(Tail(batch))
        BY <1>t, <2>1, <3>1, TailDistinct
      <3>3. lastScan' \in {"null", "before"}
        BY <2>1, <3>1, <3>2 DEF Age
      <3>4. pc' = "chosen" /\ Chosen' = {Head(batch)}
        BY <1>s, <2>1, <3>3 DEF Chosen
      <3>5. CASE batch' = Tail(batch)
        <4>1. Ahead'
          BY <2>1, <2>2, <3>1, <3>2, <3>3, <3>4, <3>5 DEF Ahead
        <4>. QED
          BY <1>q, <2>1, <2>2, <3>4, <4>1 DEF Sweeping
      <3>6. CASE Len(batch) = 1
        <4>1. Range(batch) = {Head(batch)}
          <5>1. Len(Tail(batch)) = 0 /\ Tail(batch) \in Seq(Bitstreams)
            BY <1>t, <2>1, <3>6, TailShape
          <5>2. Tail(batch) = <<>>
            BY <5>1, EmptySeq
          <5>3. Range(Tail(batch)) = {}
            BY <5>2 DEF Range
          <5>. QED
            BY <3>2, <5>3
        <4>2. Target' \subseteq fresh' \cup Chosen'
          BY <2>1, <2>2, <3>1, <3>4, <4>1
        <4>. QED
          BY <1>q, <2>1, <3>4, <4>2 DEF Sweeping
      <3>. QED
        BY <2>1, <3>5, <3>6
    <2>. QED
      BY <1>q, <2>1, <2>3, <2>4
  <1>3. CASE ScanBitstream
    <2>1. /\ pc = "chosen" /\ pc' = "loop" /\ run' = run /\ batch' = batch
          /\ lastScan' = lastScan /\ late' = late /\ due' = due
          /\ fresh' = fresh \cup {cur[1]}
      BY <1>3 DEF ScanBitstream, Iterated, Becomes, Scanned, View
    <2>2. Target' = Target /\ fresh' \cup Chosen' = fresh \cup Chosen
      BY <2>1 DEF Target, Chosen
    <2>3. Ahead => Ahead'
      BY <2>1, <2>2 DEF Ahead
    <2>. QED
      BY <1>q, <2>1, <2>2, <2>3 DEF Sweeping
  <1>4. CASE ConnectFails
    BY <1>4, <1>q DEF ConnectFails, Iterated
  <1>5. CASE LoopAgain \/ DeadlinePasses
    BY <1>5, <1>q DEF LoopAgain, DeadlinePasses
  <1>6. CASE Complete
    <2>1. /\ pc = "loop" /\ pc' = "ended" /\ run' = run /\ late' = late /\ fresh' = fresh
          /\ due' = due /\ (~StillActive(lastScan) \/ batch = <<>>)
      BY <1>6 DEF Complete, dates
    <2>2. Target' = Target /\ Chosen = {}
      BY <2>1 DEF Target, Chosen
    <2>3. CASE Ahead
      <3>1. lastScan \in {"null", "before"}
        BY <2>3 DEF Ahead, TypeInv, TypeOK
      <3>2. batch = <<>>
        BY <1>s, <2>1, <3>1
      <3>3. Range(batch) = {}
        BY <3>2 DEF Range
      <3>. QED
        BY <1>q, <2>1, <2>2, <2>3, <3>3 DEF Ahead, Sweeping
    <2>. QED
      BY <1>q, <2>1, <2>2, <2>3 DEF Sweeping
  <1>7. CASE Exit \/ Abort
    BY <1>7, <1>q DEF Exit, Abort, Sweeping
  <1>8. ASSUME NEW b \in Bitstreams, ConsumerScans(b) PROVE Sweeping'
    <2>1. b \in world.arrivals /\ run' = run
      BY <1>8, <1>t DEF ConsumerScans
    <2>. QED
      BY <1>q, <2>1
  <1>. QED
    BY <1>1, <1>2, <1>3, <1>4, <1>5, <1>6, <1>7, <1>8 DEF Step, Cron, Script

\* A run without limits that ends by itself has scanned the batch that had waited
\* longest when it started, or all it was asked for, although it stops at the first
\* date after its start and queries the next batch before the last one is scanned.
THEOREM OldestBatchScanned == Spec => []OldestBatchSwept
  <1>1. Sweeping => OldestBatchSwept
    BY DEF Sweeping, OldestBatchSwept, Quiet, Target
  <1>. QED
    BY <1>1, InitIInv, NextIInv, InitTypeInv, NextTypeInv, InitSweeping, NextSweeping,
       PTL DEF Spec
-----------------------------------------------------------------------------
(* RunEnds without the fairness: how far a run is from its end.  A run that  *)
(* does not loop scans each bitstream once at most; a looping one, once its  *)
(* time is up, finishes the bitstream it is at.                              *)

Stage ==
  CASE pc = "idle" -> 0
    [] pc = "ended" -> 1
    [] pc = "loop" -> IF ~run.loop /\ StillActive(lastScan) THEN 3 ELSE 2
    [] pc = "chosen" -> IF run.loop THEN 3 ELSE 2

StepsLeft ==
  IF pc \in {"loop", "chosen"} /\ ~run.loop
  THEN 3 * Cardinality(Bitstreams \ swept) + Stage ELSE Stage

\* Only the next run and a scan that finds clamd down take it further from its end.
Nearer ==
  (~run.loop \/ late) =>
    /\ Script => StepsLeft' < StepsLeft
    /\ StepsLeft' > StepsLeft => Cron \/ ConnectFails

LEMMA StageType == ASSUME TypeInv PROVE Stage \in 0 .. 3
  BY DEF Stage, TypeInv, TypeOK

LEMMA UnsweptType ==
  ASSUME NEW S
  PROVE  Cardinality(Bitstreams \ S) \in 0 .. Count
  BY FS_Subset, FS_CardinalityType DEF Count

LEMMA StepsLeftType ==
  ASSUME TypeInv
  PROVE  StepsLeft \in 0 .. 3 * Count + 3 /\ (StepsLeft = 0 <=> pc = "idle")
  <1>1. Cardinality(Bitstreams \ swept) \in 0 .. Count /\ Count \in Nat /\ Stage \in 0 .. 3
    BY UnsweptType, CountIsNat, StageType
  <1>2. pc \in {"idle", "loop", "chosen", "ended"}
    BY DEF TypeInv, TypeOK
  <1>3. Stage = 0 <=> pc = "idle"
    BY <1>2 DEF Stage
  <1>. QED
    BY <1>1, <1>2, <1>3 DEF StepsLeft

LEMMA ScriptNearer ==
  ASSUME IInv, TypeInv, TypeInv', Script, ~run.loop \/ late
  PROVE  StepsLeft' < StepsLeft
  <1>0. /\ Cardinality(Bitstreams \ swept) \in Nat /\ Cardinality(Bitstreams \ swept') \in Nat
        /\ Stage \in 0 .. 3 /\ Stage' \in 0 .. 3
    <2>1. Stage' \in 0 .. 3
      BY DEF Stage, TypeInv, TypeOK
    <2>. QED
      BY <2>1, UnsweptType, CountIsNat, StageType
  <1>a. ASSUME late PROVE ~StillActive(lastScan) \/ ~run.loop
    BY <1>a DEF StillActive, WithinLimits
  <1>1. CASE TakeNext
    <2>1. /\ pc = "loop" /\ StillActive(lastScan) /\ run' = run /\ swept' = swept
          /\ late' = late /\ iteration' = iteration
          /\ pc' = "chosen" \/ (pc' = "loop" /\ ~StillActive(lastScan'))
      BY <1>1 DEF TakeNext
    <2>2. StillActive(lastScan') <=> StillActive(lastScan)'
      BY <2>1 DEF StillActive, WithinLimits
    <2>3. ~run.loop
      BY <1>a, <2>1
    <2>4. Stage = 3 /\ Stage' = 2
      BY <2>1, <2>2, <2>3 DEF Stage
    <2>. QED
      BY <1>0, <2>1, <2>3, <2>4 DEF StepsLeft
  <1>2. CASE ScanBitstream
    <2>1. /\ pc = "chosen" /\ pc' = "loop" /\ run' = run /\ late' = late
          /\ swept' = swept \cup {cur[1]}
      BY <1>2 DEF ScanBitstream, Iterated
    <2>2. CASE run.loop
      BY <2>1, <2>2 DEF StepsLeft, Stage
    <2>3. CASE ~run.loop
      <3>1. cur[1] \in Bitstreams \ swept
        BY <2>1, <2>3 DEF TypeInv, TypeOK, IInv, NothingScannedTwice
      <3>2. Bitstreams \ swept' = (Bitstreams \ swept) \ {cur[1]} /\ IsFiniteSet(Bitstreams \ swept)
        BY <2>1, FS_Subset
      <3>3. Cardinality(Bitstreams \ swept') = Cardinality(Bitstreams \ swept) - 1
        <4>. DEFINE U == Bitstreams \ swept
        <4>1. IsFiniteSet(U) /\ cur[1] \in U
          BY <3>1, <3>2
        <4>. HIDE DEF U
        <4>2. Cardinality(U \ {cur[1]}) = Cardinality(U) - 1
          BY <4>1, FS_RemoveElement
        <4>. QED
          BY <3>2, <4>2 DEF U
      <3>4. Stage = 2
        BY <2>1, <2>3 DEF Stage
      <3>5. /\ StepsLeft = 3 * Cardinality(Bitstreams \ swept) + 2
            /\ StepsLeft' = 3 * Cardinality(Bitstreams \ swept') + Stage'
        BY <2>1, <2>3, <3>4 DEF StepsLeft
      <3>. QED
        BY <1>0, <3>3, <3>5
    <2>. QED
      BY <2>2, <2>3
  <1>3. CASE LoopAgain
    BY <1>3, <1>a DEF LoopAgain
  <1>4. CASE Complete
    <2>1. pc = "loop" /\ pc' = "ended"
      BY <1>4 DEF Complete
    <2>2. Stage \in 2 .. 3 /\ Stage' = 1
      BY <2>1 DEF Stage
    <2>. QED
      BY <1>0, <2>1, <2>2 DEF StepsLeft
  <1>5. CASE Exit
    BY <1>5 DEF Exit, StepsLeft, Stage
  <1>. QED
    BY <1>1, <1>2, <1>3, <1>4, <1>5 DEF Script

\* The rest of the circumstances take a run no further from its end.
LEMMA OthersNearer ==
  ASSUME TypeInv, TypeInv', ~run.loop \/ late,
         Abort \/ DeadlinePasses \/ (\E b \in Bitstreams : ConsumerScans(b)) \/ UNCHANGED vars
  PROVE  ~(StepsLeft' > StepsLeft)
  <1>0. /\ Cardinality(Bitstreams \ swept) \in Nat /\ StepsLeft \in Nat
        /\ Stage \in 0 .. 3 /\ Stage' \in 0 .. 3
    <2>1. Stage' \in 0 .. 3
      BY DEF Stage, TypeInv, TypeOK
    <2>. QED
      BY <2>1, UnsweptType, CountIsNat, StageType, StepsLeftType
  <1>1. CASE Abort
    <2>1. StepsLeft' = 0
      BY <1>1 DEF Abort, StepsLeft, Stage
    <2>. QED
      BY <1>0, <2>1
  <1>2. CASE DeadlinePasses
    <2>1. /\ pc' = pc /\ run' = run /\ swept' = swept /\ lastScan' = lastScan
          /\ iteration' = iteration /\ late' = TRUE
      BY <1>2 DEF DeadlinePasses
    <2>2. StillActive(lastScan)' => StillActive(lastScan)
      BY <2>1 DEF StillActive, WithinLimits
    <2>3. Stage' <= Stage
      <3>1. CASE pc = "loop"
        BY <1>0, <2>1, <2>2, <3>1 DEF Stage
      <3>2. CASE pc = "chosen"
        <4>1. Stage' = Stage
          BY <2>1, <3>2 DEF Stage
        <4>. QED
          BY <1>0, <4>1
      <3>. QED
        BY <1>2, <3>1, <3>2 DEF DeadlinePasses
    <2>4. CASE run.loop
      BY <1>0, <2>1, <2>3, <2>4 DEF StepsLeft
    <2>5. CASE ~run.loop
      <3>1. /\ StepsLeft = 3 * Cardinality(Bitstreams \ swept) + Stage
            /\ StepsLeft' = 3 * Cardinality(Bitstreams \ swept) + Stage'
        BY <1>2, <2>1, <2>5 DEF DeadlinePasses, StepsLeft
      <3>. QED
        BY <1>0, <2>3, <3>1
    <2>. QED
      BY <2>4, <2>5
  <1>3. CASE (\E b \in Bitstreams : ConsumerScans(b)) \/ UNCHANGED vars
    <2>1. UNCHANGED <<pc, run, swept, lastScan, iteration, late>>
      BY <1>3 DEF ConsumerScans, vars, checking
    <2>2. StillActive(lastScan)' <=> StillActive(lastScan)
      BY <2>1 DEF StillActive, WithinLimits
    <2>3. Stage' = Stage
      BY <2>1, <2>2 DEF Stage
    <2>. QED
      BY <1>0, <2>1, <2>3 DEF StepsLeft
  <1>. QED
    BY <1>1, <1>2, <1>3

\* A run over n bitstreams that does not loop takes at most 3n + 3 steps, and one
\* step more for each scan that finds clamd down: it scans no bitstream twice, and
\* whatever its limits, aborts or consumers do, its own steps bring it to its end.
\* A looping run is at most three steps from its end once its duration is over.
THEOREM SweepsAreBounded ==
  Spec => /\ [](StepsLeft \in 0 .. 3 * Count + 3 /\ (StepsLeft = 0 <=> pc = "idle"))
          /\ [][Nearer]_vars
  <1>1. TypeInv => StepsLeft \in 0 .. 3 * Count + 3 /\ (StepsLeft = 0 <=> pc = "idle")
    BY StepsLeftType
  <1>2. IInv /\ TypeInv /\ TypeInv' /\ [Next]_vars => [Nearer]_vars
    <2>. SUFFICES ASSUME IInv, TypeInv, TypeInv', Next, ~run.loop \/ late
                  PROVE  /\ Script => StepsLeft' < StepsLeft
                         /\ StepsLeft' > StepsLeft => Cron \/ ConnectFails
      BY DEF Nearer
    <2>1. Script => StepsLeft' < StepsLeft
      BY ScriptNearer
    <2>2. StepsLeft \in Int /\ StepsLeft' \in Int
      <3>1. Stage' \in 0 .. 3
        BY DEF Stage, TypeInv, TypeOK
      <3>2. StepsLeft' \in Int
        BY <3>1, UnsweptType, CountIsNat DEF StepsLeft
      <3>. QED
        BY <3>2, StepsLeftType, CountIsNat
    <2>3. Step /\ ~Script /\ ~Cron /\ ~ConnectFails => ~(StepsLeft' > StepsLeft)
      BY OthersNearer DEF Step
    <2>. QED
      BY <2>1, <2>2, <2>3 DEF Next
  <1>. QED
    BY <1>1, <1>2, InitIInv, NextIInv, InitTypeInv, NextTypeInv, PTL DEF Spec
=============================================================================
