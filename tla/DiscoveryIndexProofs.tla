------------------------- MODULE DiscoveryIndexProofs -------------------------
(* Proofs about DiscoveryIndex for every set of items, any number of threads    *)
(* and any queue, page and commit sizes.                                        *)
EXTENDS DiscoveryIndex, FiniteSetTheorems, TLAPS

USE IndexAssumption, SentinelAssumption

\* Nothing is dated later than the clock.
Clock ==
  /\ \A i \in Items : db[i].modified <= now /\ db[i].committed <= now
  /\ \A i \in Items : written[i] # NoDoc => written[i].stamp <= now
  /\ \A i \in Items : visible[i] # NoDoc => visible[i].stamp <= now
  /\ since <= now /\ (upTo # Idle => upTo <= now)

\* Threads that are not started have no task, and between updates none has.
Pool ==
  /\ \A w \in Workers : w > started => task[w] = Idle
  /\ pc \in {"idle", "start", "commit"} => queue = <<>> /\ \A w \in Workers : task[w] = Idle
  /\ pc \in {"await", "commit"} => todo = {}

\* What a thread read of an item is still so, unless the item was changed meanwhile.
Hand(w) ==
  LET t == task[w] IN
  task[w] # Idle =>
    /\ t.step = "remove" => db[t.item].status = "gone"
    /\ t.step \in {"delete", "write"} => t.row.status = "in"
    /\ t.step = "write" => t.stamp <= now
    /\ t.step \in {"check", "delete", "write"} /\ t.item \notin raced => t.row = db[t.item]
    /\ t.step = "write" /\ t.item \notin raced => t.stamp >= db[t.item].modified

\* A document that is not older than the last change has the content of its item.
Right(docs, i) ==
  docs[i] # NoDoc /\ docs[i].stamp >= db[i].modified => docs[i].modified = db[i].modified
Fresh(docs, i) ==
  docs[i] # NoDoc /\ docs[i].stamp >= db[i].modified /\ docs[i].modified = db[i].modified

Counts(i) == failures = 0 /\ i \notin raced /\ db[i].status = "in"
Busy(i) == \E w \in DOMAIN task : task[w] # Idle /\ task[w].item = i
Writing(i) == \E w \in DOMAIN task : task[w] # Idle /\ task[w].item = i /\ task[w].step = "write"

\* A fresh document that Solr shows is only missing while it is rewritten.
Kept(i) ==
  Counts(i) /\ world.command = "nightly" /\ Fresh(visible, i) => Fresh(written, i) \/ Writing(i)

\* While an update runs, an item that did not change since is ahead, in hand or done.
Ahead(i) == pc = "start" \/ i \in todo \/ \E n \in DOMAIN queue : queue[n] = i
Owed(i) ==
  Counts(i) /\ pc \in {"start", "fold", "await", "commit"} /\ db[i].committed <= since
    => Ahead(i) \/ Busy(i) \/ Fresh(written, i)

\* After an update, such an item is in hand or in the index, for good and for all.
Settled(i) ==
  Counts(i) /\ pc = "idle" /\ upTo # Idle /\ db[i].committed <= upTo
    => Busy(i) \/ (Fresh(written, i) /\ Fresh(visible, i))

Item(i) ==
  /\ i \notin raced => Right(written, i) /\ Right(visible, i)
  /\ Kept(i) /\ Owed(i) /\ Settled(i)

IInv ==
  /\ world \in World /\ TypeOK /\ Clock /\ Pool
  /\ \A w \in DOMAIN task : Hand(w)
  /\ \A i \in Items : Item(i)

-----------------------------------------------------------------------------
LEMMA InitIInv == Init => IInv
  <1>. SUFFICES ASSUME Init PROVE IInv
    OBVIOUS
  <1>1. world \in World
    BY DEF Init
  <1>2. TypeOK
    BY <1>1 DEF Init, TypeOK, World, Rows, RowOf, Times
  <1>3. Clock /\ Pool
    BY DEF Init, Clock, Pool, RowOf, Times
  <1>4. \A w \in DOMAIN task : Hand(w)
    BY DEF Init, Hand
  <1>5. \A i \in Items : Item(i)
    BY DEF Init, Item, Right, Fresh, Kept, Owed, Settled
  <1>. QED
    BY <1>1, <1>2, <1>3, <1>4, <1>5 DEF IInv

-----------------------------------------------------------------------------
(* Types *)
LEMMA TasksTyped ==
  ASSUME NEW i \in Items, NEW step \in {"find", "remove"}
  PROVE  TaskOf(i, step) \in Tasks
  BY DEF TaskOf, Tasks, Rows, Blank, RowOf, Times, Statuses

LEMMA TaskTyped ==
  ASSUME TypeOK, NEW w \in Workers \cup {Web}, task[w] # Idle
  PROVE  /\ task[w] \in Tasks /\ task[w].item \in Items /\ task[w].row \in Rows
         /\ task[w].stamp \in Times
  BY DEF TypeOK, Tasks

LEMMA ChangeTyped ==
  ASSUME TypeOK, NEW i \in Items, Change(i)
  PROVE  TypeOK'
  <1>. USE DEF TypeOK, Change, index, fold
  <1>1. now' \in Times
    BY DEF Times
  <1>2. db' \in [Items -> Rows]
    <2>1. PICK status \in Statuses, date \in Dates(i) :
            db' = [db EXCEPT ![i] = RowOf(status, date, now')]
      BY DEF Statuses
    <2>2. date \in Times
      <3>1. db[i].modified \in Nat /\ now \in Nat /\ now < MaxChanges
        BY DEF Rows, Times
      <3>. QED
        BY <3>1 DEF Dates, Times
    <2>3. RowOf(status, date, now') \in Rows
      BY <1>1, <2>2 DEF RowOf, Rows
    <2>. QED
      BY <2>1, <2>3
  <1>3. task' \in [Workers \cup {Web} -> Tasks \cup {Idle}]
    BY TasksTyped
  <1>. QED
    BY <1>1, <1>2, <1>3

LEMMA FailuresTyped ==
  ASSUME TypeOK, NEW what, Works \/ Fails(what)
  PROVE  failures' \in 0 .. MaxFailures
  BY DEF TypeOK, Works, Fails

LEMMA MovesTyped ==
  ASSUME TypeOK, NEW w \in Workers \cup {Web}, task[w] # Idle,
         \/ Done(w)
         \/ \E step \in {"check", "delete", "write"}, row \in Rows :
              task' = [task EXCEPT ![w].step = step, ![w].row = row]
         \/ \E step \in {"check", "delete", "write"}, stamp \in Times :
              task' = [task EXCEPT ![w].step = step, ![w].stamp = stamp]
         \/ \E step \in {"check", "delete", "write"} : GoTo(w, step)
  PROVE  task' \in [Workers \cup {Web} -> Tasks \cup {Idle}]
  <1>1. task \in [Workers \cup {Web} -> Tasks \cup {Idle}] /\ task[w] \in Tasks
    BY DEF TypeOK
  <1>2. CASE Done(w)
    BY <1>1, <1>2 DEF Done
  <1>3. CASE \E step \in {"check", "delete", "write"}, row \in Rows :
               task' = [task EXCEPT ![w].step = step, ![w].row = row]
    BY <1>1, <1>3 DEF Tasks
  <1>4. CASE \E step \in {"check", "delete", "write"}, stamp \in Times :
               task' = [task EXCEPT ![w].step = step, ![w].stamp = stamp]
    BY <1>1, <1>4 DEF Tasks
  <1>5. CASE \E step \in {"check", "delete", "write"} : GoTo(w, step)
    BY <1>1, <1>5 DEF Tasks, GoTo
  <1>. QED
    BY <1>2, <1>3, <1>4, <1>5

LEMMA WithoutTyped ==
  ASSUME TypeOK, NEW i \in Items
  PROVE  Without(i) \in [Items -> Docs \cup {NoDoc}]
  BY DEF TypeOK, Without

LEMMA IndexContentTyped ==
  ASSUME TypeOK, NEW w \in Workers \cup {Web}, IndexContent(w)
  PROVE  TypeOK'
  <1>. USE DEF repository, index, fold
  <1>1. CASE Find(w)
    <2>1. task[w] # Idle /\ db[task[w].item] \in Rows
      BY <1>1 DEF Find, Doing, TypeOK, Tasks
    <2>2. task' \in [Workers \cup {Web} -> Tasks \cup {Idle}]
      BY <1>1, <2>1, MovesTyped DEF Find
    <2>. QED
      BY <1>1, <2>2 DEF TypeOK, Find, Works
  <1>2. CASE Check(w)
    <2>1. task[w] # Idle /\ task[w].item \in Items
      BY <1>2, TaskTyped DEF Check, Doing
    <2>2. task' \in [Workers \cup {Web} -> Tasks \cup {Idle}]
      BY <1>2, <2>1, MovesTyped DEF Check
    <2>3. written' \in [Items -> Docs \cup {NoDoc}]
      BY <1>2, <2>1, WithoutTyped DEF Check, TypeOK
    <2>4. failures' \in 0 .. MaxFailures
      BY <1>2, FailuresTyped DEF Check
    <2>. QED
      BY <1>2, <2>2, <2>3, <2>4 DEF TypeOK, Check
  <1>3. CASE Delete(w)
    <2>1. task[w] # Idle /\ task[w].item \in Items /\ now \in Times
      BY <1>3, TaskTyped DEF Delete, Doing, TypeOK
    <2>2. task' \in [Workers \cup {Web} -> Tasks \cup {Idle}]
      BY <1>3, <2>1, MovesTyped DEF Delete
    <2>3. written' \in [Items -> Docs \cup {NoDoc}]
      BY <1>3, <2>1, WithoutTyped DEF Delete, TypeOK
    <2>4. failures' \in 0 .. MaxFailures
      BY <1>3, FailuresTyped DEF Delete
    <2>. QED
      BY <1>3, <2>2, <2>3, <2>4 DEF TypeOK, Delete
  <1>4. CASE Write(w)
    <2>1. task[w] # Idle /\ task[w].item \in Items /\ task[w].row \in Rows
          /\ task[w].stamp \in Times
      BY <1>4, TaskTyped DEF Write, Doing
    <2>2. task' \in [Workers \cup {Web} -> Tasks \cup {Idle}]
      BY <1>4, <2>1, MovesTyped DEF Write
    <2>3. written' \in [Items -> Docs \cup {NoDoc}] /\ visible' \in [Items -> Docs \cup {NoDoc}]
      <3>1. [modified |-> task[w].row.modified, stamp |-> task[w].stamp] \in Docs
        BY <2>1 DEF Docs, Rows
      <3>. QED
        BY <1>4, <3>1 DEF Write, TypeOK
    <2>4. failures' \in 0 .. MaxFailures
      BY <1>4, FailuresTyped DEF Write
    <2>. QED
      BY <1>4, <2>2, <2>3, <2>4 DEF TypeOK, Write
  <1>. QED
    BY <1>1, <1>2, <1>3, <1>4 DEF IndexContent

LEMMA RemoveTyped ==
  ASSUME TypeOK, Remove
  PROVE  TypeOK'
  <1>. USE DEF repository, index, fold
  <1>1. task[Web] # Idle /\ task[Web].item \in Items
    BY TaskTyped DEF Remove, Doing
  <1>2. task' \in [Workers \cup {Web} -> Tasks \cup {Idle}]
    BY <1>1, MovesTyped DEF Remove
  <1>3. written' \in [Items -> Docs \cup {NoDoc}] /\ visible' \in [Items -> Docs \cup {NoDoc}]
    BY <1>1, WithoutTyped DEF Remove, TypeOK
  <1>4. failures' \in 0 .. MaxFailures
    BY FailuresTyped DEF Remove
  <1>. QED
    BY <1>2, <1>3, <1>4 DEF TypeOK, Remove

LEMMA CleanIndexTyped ==
  ASSUME TypeOK, CleanIndex
  PROVE  TypeOK'
  <1>1. written' \in [Items -> Docs \cup {NoDoc}] /\ pc' \in {"idle", "start"}
    <2>1. CASE UNCHANGED written
      BY <2>1 DEF CleanIndex, TypeOK
    <2>2. CASE written' = [i \in Items |-> NoDoc]
      BY <2>2 DEF CleanIndex, TypeOK
    <2>3. CASE \E page \in Pages :
                 written' = [i \in Items |->
                               IF i \in page /\ db[i].status = "gone" THEN NoDoc ELSE written[i]]
      BY <2>3 DEF CleanIndex, TypeOK
    <2>. QED
      BY <2>1, <2>2, <2>3 DEF CleanIndex
  <1>2. failures' \in 0 .. MaxFailures
    BY FailuresTyped DEF CleanIndex
  <1>. QED
    BY <1>1, <1>2 DEF TypeOK, CleanIndex, repository

LEMMA SubmitTyped ==
  ASSUME TypeOK, NEW i \in Items, Submit(i)
  PROVE  TypeOK'
  <1>. USE DEF Submit, repository, index
  <1>1. /\ queue' \in Seq(Items) /\ Len(queue') <= Threads /\ started' \in 0 .. Procs
        /\ task' \in [Workers \cup {Web} -> Tasks \cup {Idle}]
    <2>1. CASE started < Procs
      <3>1. started + 1 \in Workers /\ started' = started + 1 /\ queue' = queue
        BY <2>1 DEF TypeOK, Workers
      <3>2. task' = [task EXCEPT ![started + 1] = TaskOf(i, "find")]
        BY <2>1, <3>1
      <3>3. TaskOf(i, "find") \in Tasks
        BY TasksTyped
      <3>. QED
        BY <3>1, <3>2, <3>3 DEF TypeOK, Workers
    <2>2. CASE ~(started < Procs)
      <3>1. queue \in Seq(Items) /\ Len(queue) < Threads /\ queue' = Append(queue, i)
        BY <2>2 DEF TypeOK, Room
      <3>2. started' = started /\ task' = task
        BY <2>2
      <3>. QED
        BY <3>1, <3>2 DEF TypeOK
    <2>. QED
      BY <2>1, <2>2
  <1>2. count' \in 0 .. CommitEvery - 1
    <2>1. count \in Nat /\ count' = (count + 1) % CommitEvery
      BY DEF TypeOK
    <2>. QED
      BY <2>1
  <1>3. todo' \subseteq Items /\ pc' \in {"fold", "stuck"} /\ failures' \in 0 .. MaxFailures
    BY FailuresTyped DEF TypeOK
  <1>. QED
    BY <1>1, <1>2, <1>3 DEF TypeOK

LEMMA TakeTyped ==
  ASSUME TypeOK, NEW w \in Workers, Take(w)
  PROVE  TypeOK'
  <1>1. Head(queue) \in Items /\ Tail(queue) \in Seq(Items) /\ Len(Tail(queue)) <= Threads
    BY DEF TypeOK, Take
  <1>2. task' \in [Workers \cup {Web} -> Tasks \cup {Idle}]
    BY <1>1, TasksTyped DEF TypeOK, Take
  <1>. QED
    BY <1>1, <1>2 DEF TypeOK, Take, repository, index

LEMMA NextTyped ==
  ASSUME TypeOK, Next
  PROVE  TypeOK'
  <1>1. CASE AutoCommit
    BY <1>1 DEF AutoCommit, TypeOK, repository, fold
  <1>2. CASE UpdateIndex
    BY <1>2 DEF UpdateIndex, TypeOK, repository, index
  <1>3. CASE Shutdown \/ AwaitTermination
    BY <1>3 DEF Shutdown, AwaitTermination, TypeOK, repository, index
  <1>4. CASE Commit
    BY <1>4, FailuresTyped DEF Commit, TypeOK, repository
  <1>. QED
    BY <1>1, <1>2, <1>3, <1>4, ChangeTyped, IndexContentTyped, RemoveTyped, CleanIndexTyped,
       SubmitTyped, TakeTyped DEF Next, Step, Main

-----------------------------------------------------------------------------
(* The rest of the invariant, action by action *)
Rest == Clock /\ Pool /\ (\A w \in DOMAIN task : Hand(w)) /\ \A i \in Items : Item(i)

\* The threads, and numbers that are compared.
LEMMA Typed ==
  ASSUME IInv
  PROVE  /\ DOMAIN task = Workers \cup {Web} /\ Web \notin Workers
         /\ now \in Nat /\ since \in Nat /\ (upTo # Idle => upTo \in Nat)
         /\ \A i \in Items : /\ db[i] \in Rows /\ db[i].modified \in Nat
                             /\ db[i].committed \in Nat
                             /\ written[i] # NoDoc => written[i].stamp \in Nat
                             /\ visible[i] # NoDoc => visible[i].stamp \in Nat
         /\ \A w \in DOMAIN task :
              task[w] # Idle => /\ task[w] \in Tasks /\ task[w].item \in Items
                                /\ task[w].row.modified \in Nat /\ task[w].stamp \in Nat
  <1>1. TypeOK
    BY DEF IInv
  <1>2. DOMAIN task = Workers \cup {Web} /\ Web \notin Workers
    BY <1>1 DEF TypeOK, Workers
  <1>3. now \in Nat /\ since \in Nat /\ (upTo # Idle => upTo \in Nat)
    BY <1>1 DEF TypeOK, Times
  <1>4. ASSUME NEW i \in Items
        PROVE  /\ db[i] \in Rows /\ db[i].modified \in Nat /\ db[i].committed \in Nat
               /\ written[i] # NoDoc => written[i].stamp \in Nat
               /\ visible[i] # NoDoc => visible[i].stamp \in Nat
    BY <1>1 DEF TypeOK, Rows, Docs, Times
  <1>5. ASSUME NEW w \in DOMAIN task, task[w] # Idle
        PROVE  /\ task[w] \in Tasks /\ task[w].item \in Items
               /\ task[w].row.modified \in Nat /\ task[w].stamp \in Nat
    BY <1>1, <1>2, <1>5, TaskTyped DEF Rows, Times
  <1>. QED
    BY <1>2, <1>3, <1>4, <1>5

LEMMA TaskIs ==
  ASSUME NEW i \in Items, NEW step \in {"find", "remove"}
  PROVE  TaskOf(i, step) # Idle /\ TaskOf(i, step).item = i /\ TaskOf(i, step).step = step
  <1>1. TaskOf(i, step) \in Tasks
    BY TasksTyped
  <1>. QED
    BY <1>1 DEF TaskOf

LEMMA ChangeRest ==
  ASSUME IInv, NEW c \in Items, Change(c), UNCHANGED world
  PROVE  Rest'
  <1>. USE Typed DEF index, fold
  <1>0. PICK status \in Statuses, date \in Dates(c) :
          /\ db' = [db EXCEPT ![c] = RowOf(status, date, now')]
          /\ task' = IF world.dispatcher = "noindex" THEN task
                     ELSE [task EXCEPT ![Web] =
                             TaskOf(c, IF status = "gone" THEN "remove" ELSE "find")]
          /\ raced' = IF Overtaken(c, date) THEN raced \cup {c} ELSE raced \ {c}
    BY DEF Change, Statuses
  <1>1. /\ now' = now + 1 /\ task[Web] = Idle /\ db[c].status # "gone"
        /\ DOMAIN task' = DOMAIN task
        /\ UNCHANGED <<written, visible, pc, todo, queue, started, since, upTo, failures>>
    BY DEF Change
  <1>2. /\ db'[c].modified = date /\ db'[c].committed = now + 1 /\ db'[c].status = status
        /\ \A i \in Items : i # c => db'[i] = db[i]
    <2>1. db'[c] = RowOf(status, date, now + 1) /\ \A i \in Items : i # c => db'[i] = db[i]
      BY <1>0, <1>1 DEF IInv, TypeOK
    <2>. QED
      BY <2>1 DEF RowOf
  <1>3. \A i \in Items : i # c => (i \in raced' <=> i \in raced)
    BY <1>0
  <1>4. \A w \in DOMAIN task : w # Web => task'[w] = task[w]
    BY DEF Change
  <1>5. \/ task'[Web] = Idle
        \/ task'[Web] # Idle /\ task'[Web].item = c /\ task'[Web].step = "find"
        \/ task'[Web] # Idle /\ task'[Web].item = c /\ task'[Web].step = "remove"
             /\ db'[c].status = "gone"
    BY <1>0, <1>1, <1>2, TaskIs DEF IInv, TypeOK
  <1>6. Clock'
    <2>1. db'[c].modified <= now + 1
      BY <1>2, <1>1 DEF Dates
    <2>. QED
      BY <1>1, <1>2, <2>1 DEF Clock, IInv
  <1>7. Pool'
    BY <1>1, <1>4 DEF Pool, IInv
  <1>8. ASSUME NEW w \in DOMAIN task PROVE Hand(w)'
    <2>1. CASE w = Web
      BY <1>5, <2>1 DEF Hand
    <2>2. CASE w # Web /\ task[w] # Idle /\ task[w].item = c
      <3>1. Hand(w) /\ task'[w] = task[w]
        BY <1>4, <2>2 DEF IInv
      <3>2. task[w].step # "remove"
        BY <1>1, <2>2, <3>1 DEF Hand
      <3>3. task[w].step # "find" => c \in raced'
        BY <1>0, <2>2 DEF Overtaken, Held
      <3>. QED
        BY <1>1, <2>2, <3>1, <3>2, <3>3 DEF Hand
    <2>3. CASE w # Web /\ (task[w] # Idle => task[w].item # c)
      BY <1>1, <1>2, <1>3, <1>4, <2>3 DEF Hand, IInv
    <2>. QED
      BY <2>1, <2>2, <2>3
  <1>9. ASSUME NEW i \in Items PROVE Item(i)'
    <2>1. Item(i) /\ Clock
      BY DEF IInv
    <2>2. CASE i = c
      <3>1. db'[i].modified \in Nat
        BY <1>2, <2>2 DEF Dates
      <3>2. i \notin raced' =>
              /\ written[i] # NoDoc => ~(written[i].stamp >= db'[i].modified)
              /\ visible[i] # NoDoc => ~(visible[i].stamp >= db'[i].modified)
        BY <1>0, <1>2, <2>2 DEF Overtaken
      <3>3. i \notin raced' =>
              ~Fresh(visible, i)' /\ Right(written, i)' /\ Right(visible, i)'
        BY <1>1, <3>1, <3>2 DEF Fresh, Right
      <3>4. ~(db'[i].committed <= since') /\ (upTo' # Idle => ~(db'[i].committed <= upTo'))
        BY <1>1, <1>2, <2>1, <2>2 DEF Clock
      <3>. QED
        BY <3>3, <3>4 DEF Item, Kept, Owed, Settled, Counts
    <2>3. CASE i # c
      <3>1. Counts(i)' <=> Counts(i)
        BY <1>1, <1>2, <1>3, <2>3 DEF Counts
      <3>2. /\ Fresh(written, i)' <=> Fresh(written, i)
            /\ Fresh(visible, i)' <=> Fresh(visible, i)
            /\ Right(written, i)' <=> Right(written, i)
            /\ Right(visible, i)' <=> Right(visible, i)
        BY <1>1, <1>2, <2>3 DEF Fresh, Right
      <3>3. (Busy(i) => Busy(i)') /\ (Writing(i) => Writing(i)')
        BY <1>1, <1>4 DEF Busy, Writing
      <3>4. (Ahead(i)' <=> Ahead(i)) /\ (i \in raced' <=> i \in raced) /\ db'[i] = db[i]
        BY <1>1, <1>2, <1>3, <2>3 DEF Ahead
      <3>. QED
        BY <1>1, <2>1, <3>1, <3>2, <3>3, <3>4 DEF Item, Kept, Owed, Settled
    <2>. QED
      BY <2>2, <2>3
  <1>. QED
    BY <1>1, <1>6, <1>7, <1>8, <1>9 DEF Rest

\* An item whose documents and thread stay as they are.
LEMMA SameItem ==
  ASSUME NEW i \in Items, Item(i), failures' = 0 => failures = 0,
         UNCHANGED <<world, repository, fold, written[i], visible[i]>>,
         Busy(i) => Busy(i)', Writing(i) => Writing(i)'
  PROVE  Item(i)'
  <1>1. UNCHANGED <<world, db, raced, pc, todo, queue, since, upTo>>
    BY DEF repository, fold
  <1>2. /\ Fresh(written, i)' <=> Fresh(written, i)
        /\ Fresh(visible, i)' <=> Fresh(visible, i)
        /\ Right(written, i)' <=> Right(written, i)
        /\ Right(visible, i)' <=> Right(visible, i)
    BY <1>1 DEF Fresh, Right
  <1>3. (Counts(i)' => Counts(i)) /\ (Ahead(i)' <=> Ahead(i))
    BY <1>1 DEF Counts, Ahead
  <1>. QED
    BY <1>1, <1>2, <1>3 DEF Item, Kept, Owed, Settled

\* The other threads and the pool, when one thread goes on or is done.
LEMMA OthersGoOn ==
  ASSUME IInv, NEW w \in Workers \cup {Web}, task[w] # Idle, UNCHANGED <<world, repository, fold>>,
         DOMAIN task' = DOMAIN task, \A v \in DOMAIN task : v # w => task'[v] = task[v]
  PROVE  /\ Pool'
         /\ \A v \in DOMAIN task : v # w => Hand(v)'
         /\ \A i \in Items : i # task[w].item => /\ Busy(i) => Busy(i)'
                                                 /\ Writing(i) => Writing(i)'
         /\ task[w].step # "write" => \A i \in Items : Writing(i) => Writing(i)'
         /\ task'[w] # Idle /\ task'[w].item = task[w].item => \A i \in Items : Busy(i) => Busy(i)'
  <1>1. UNCHANGED <<db, now, raced, pc, todo, queue, started>>
    BY DEF repository, fold
  <1>2. Pool'
    <2>1. Pool /\ DOMAIN task = Workers \cup {Web} /\ Web \notin Workers
      BY Typed DEF IInv
    <2>2. w \in Workers => w <= started /\ pc \notin {"idle", "start", "commit"}
      BY <2>1 DEF Pool, IInv, TypeOK, Workers
    <2>. QED
      BY <1>1, <2>1, <2>2 DEF Pool, IInv, TypeOK, Workers
  <1>3. \A v \in DOMAIN task : v # w => Hand(v)'
    BY <1>1 DEF Hand, IInv
  <1>. QED
    BY <1>2, <1>3 DEF Busy, Writing

LEMMA FindRest ==
  ASSUME IInv, NEW w \in Workers \cup {Web}, Find(w), UNCHANGED world
  PROVE  Rest'
  <1>. USE Typed
  <1>. DEFINE t == task[w]
  <1>1. /\ t # Idle /\ t.step = "find" /\ t.item \in Items /\ w \in DOMAIN task
        /\ t \in Tasks /\ db[t.item] \in Rows
        /\ UNCHANGED <<repository, index, fold, failures>>
        /\ DOMAIN task' = DOMAIN task /\ \A v \in DOMAIN task : v # w => task'[v] = task[v]
    BY DEF Find, Doing, Works, Done
  <1>2. \/ db[t.item].status = "gone" /\ task'[w] = Idle
        \/ /\ task'[w] # Idle /\ task'[w].item = t.item /\ task'[w].step = "check"
           /\ task'[w].row = db[t.item]
    <2>1. CASE db[t.item].status = "gone"
      BY <1>1, <2>1 DEF Find, Done
    <2>2. CASE db[t.item].status # "gone"
      <3>1. task'[w] = [t EXCEPT !.step = "check", !.row = db[t.item]]
        BY <1>1, <2>2 DEF Find
      <3>2. task'[w] \in Tasks
        BY <1>1, <3>1 DEF Tasks
      <3>. QED
        BY <1>1, <3>1, <3>2 DEF Tasks
    <2>. QED
      BY <2>1, <2>2
  <1>3. Clock'
    BY <1>1 DEF Clock, IInv, repository, index, fold
  <1>4. Hand(w)'
    BY <1>1, <1>2 DEF Hand, repository
  <1>5. ASSUME NEW i \in Items PROVE Item(i)'
    <2>1. Item(i) /\ UNCHANGED <<written[i], visible[i]>> /\ (Writing(i) => Writing(i)')
      BY <1>1, OthersGoOn DEF IInv, index
    <2>2. CASE Busy(i) => Busy(i)'
      BY <1>1, <2>1, <2>2, SameItem
    <2>3. CASE ~(Busy(i) => Busy(i)')
      <3>1. i = t.item /\ db[i].status = "gone"
        BY <1>1, <1>2, <2>3, OthersGoOn
      <3>2. ~Counts(i)'
        BY <1>1, <3>1 DEF Counts, repository
      <3>. QED
        BY <1>1, <2>1, <3>2 DEF Item, Kept, Owed, Settled, Right, repository, index
    <2>. QED
      BY <2>2, <2>3
  <1>. QED
    BY <1>1, <1>3, <1>4, <1>5, OthersGoOn DEF Rest

\* Without a document there is nothing to be wrong about.
LEMMA WithoutRight ==
  ASSUME TypeOK, NEW i \in Items, NEW j \in Items, written' = Without(j)
  PROVE  /\ written'[j] = NoDoc /\ (i # j => written'[i] = written[i])
         /\ i = j => Right(written, i)'
  BY DEF TypeOK, Without, Right

LEMMA CheckRest ==
  ASSUME IInv, NEW w \in Workers \cup {Web}, Check(w), UNCHANGED world
  PROVE  Rest'
  <1>. USE Typed
  <1>. DEFINE t == task[w]
  <1>1. /\ t # Idle /\ t.step = "check" /\ t.item \in Items /\ w \in DOMAIN task
        /\ t \in Tasks /\ UNCHANGED <<repository, visible, fold>>
        /\ DOMAIN task' = DOMAIN task /\ \A v \in DOMAIN task : v # w => task'[v] = task[v]
    BY DEF Check, Doing, Done, GoTo
  <1>2. \/ /\ failures' = failures /\ t.row.status = "new" /\ task'[w] = Idle
           /\ written' = Without(t.item)
        \/ /\ failures' = failures /\ t.row.status = "in" /\ written' = written
           /\ task'[w] # Idle /\ task'[w].item = t.item /\ task'[w].step = "delete"
           /\ task'[w].row = t.row
        \/ /\ failures' = failures /\ t.row.status = "in" /\ written' = written
           /\ task'[w] = Idle /\ ~RequiresIndexing(t.item, t.row) /\ ~Forced(w)
        \/ failures' # 0 /\ task'[w] = Idle /\ written' = written
    <2>1. /\ Done(w) => task'[w] = Idle
          /\ GoTo(w, "delete") =>
               /\ task'[w] # Idle /\ task'[w].item = t.item /\ task'[w].step = "delete"
               /\ task'[w].row = t.row
      <3>1. Done(w) => task'[w] = Idle
        BY <1>1 DEF Done
      <3>2. GoTo(w, "delete") => task'[w] = [t EXCEPT !.step = "delete"]
        BY <1>1 DEF GoTo
      <3>3. [t EXCEPT !.step = "delete"] \in Tasks
        BY <1>1 DEF Tasks
      <3>. QED
        BY <1>1, <3>1, <3>2, <3>3 DEF Tasks
    <2>2. Fails("solr") => failures' # 0
      BY DEF Fails, IInv, TypeOK
    <2>. QED
      BY <2>1, <2>2 DEF Check, Works
  <1>3. UNCHANGED <<db, raced, now, visible, since, upTo, pc>>
    BY <1>1 DEF repository, fold
  <1>4. \A i \in Items : i # t.item => written'[i] = written[i]
    BY <1>1, <1>2, WithoutRight DEF IInv
  <1>5. Clock'
    <2>1. \A i \in Items : written'[i] = NoDoc \/ written'[i] = written[i]
      BY <1>1, <1>2, <1>4, WithoutRight DEF IInv
    <2>. QED
      BY <1>3, <2>1 DEF Clock, IInv
  <1>6. Hand(w)'
    BY <1>1, <1>2, <1>3 DEF Hand, IInv
  <1>7. failures' = 0 => failures = 0
    BY <1>2
  <1>8. ASSUME NEW i \in Items PROVE Item(i)'
    <2>1. Item(i) /\ (Writing(i) => Writing(i)')
      BY <1>1, OthersGoOn DEF IInv
    <2>2. CASE i # t.item
      BY <1>1, <1>3, <1>4, <1>7, <2>1, <2>2, OthersGoOn, SameItem
    <2>3. CASE i = t.item /\ task'[w] # Idle
      <3>1. written' = written /\ task'[w].item = t.item
        BY <1>2, <2>3
      <3>. QED
        BY <1>1, <1>3, <1>7, <2>1, <2>3, <3>1, OthersGoOn, SameItem
    <2>4. CASE i = t.item /\ t.row.status = "new" /\ written' = Without(t.item)
      <3>1. i \notin raced => t.row = db[i]
        BY <1>1, <2>4 DEF Hand, IInv
      <3>2. ~Counts(i)'
        BY <1>3, <2>4, <3>1 DEF Counts
      <3>3. i \notin raced' => Right(written, i)' /\ Right(visible, i)'
        BY <1>1, <1>3, <2>1, <2>4, WithoutRight DEF Item, Right, IInv
      <3>. QED
        BY <3>2, <3>3 DEF Item, Kept, Owed, Settled
    <2>5. CASE i = t.item /\ ~RequiresIndexing(t.item, t.row) /\ ~Forced(w) /\ written' = written
      <3>1. world.command = "nightly"
        BY <2>5 DEF Forced
      <3>2. i \notin raced => t.row = db[i] /\ Fresh(visible, i)
        BY <1>1, <2>1, <2>5 DEF RequiresIndexing, Hand, IInv, Item, Right, Fresh
      <3>3. Counts(i) => Fresh(written, i) \/ Writing(i)
        BY <2>1, <3>1, <3>2 DEF Item, Kept, Counts
      <3>4. Writing(i) => Busy(i)' /\ Writing(i)'
        BY <1>1, <2>1 DEF Writing, Busy
      <3>5. /\ Fresh(written, i)' <=> Fresh(written, i)
            /\ Fresh(visible, i)' <=> Fresh(visible, i)
            /\ Right(written, i)' <=> Right(written, i)
            /\ Right(visible, i)' <=> Right(visible, i)
        BY <1>3, <2>5 DEF Fresh, Right
      <3>6. Counts(i)' => Counts(i) /\ i \notin raced
        BY <1>3, <1>7 DEF Counts
      <3>. QED
        BY <1>3, <2>1, <3>2, <3>3, <3>4, <3>5, <3>6 DEF Item, Kept, Owed, Settled
    <2>6. CASE failures' # 0 /\ written' = written
      <3>1. ~Counts(i)'
        BY <2>6 DEF Counts
      <3>. QED
        BY <1>3, <2>1, <2>6, <3>1 DEF Item, Kept, Owed, Settled, Right
    <2>. QED
      BY <1>2, <2>2, <2>3, <2>4, <2>5, <2>6
  <1>. QED
    BY <1>1, <1>5, <1>6, <1>8, OthersGoOn DEF Rest

LEMMA DeleteRest ==
  ASSUME IInv, NEW w \in Workers \cup {Web}, Delete(w), UNCHANGED world
  PROVE  Rest'
  <1>. USE Typed
  <1>. DEFINE t == task[w]
  <1>1. /\ t # Idle /\ t.step = "delete" /\ t.item \in Items /\ w \in DOMAIN task
        /\ t \in Tasks /\ UNCHANGED <<repository, visible, fold>>
        /\ DOMAIN task' = DOMAIN task /\ \A v \in DOMAIN task : v # w => task'[v] = task[v]
    BY DEF Delete, Doing, Done
  <1>2. /\ \/ failures' = failures /\ written' = Without(t.item) /\ task'[w] # Idle
           \/ failures' # 0 /\ written' = written
        /\ \/ task'[w] = Idle
           \/ /\ task'[w] # Idle /\ task'[w].item = t.item /\ task'[w].step = "write"
              /\ task'[w].row = t.row /\ task'[w].stamp = now
    <2>1. [t EXCEPT !.step = "write", !.stamp = now] \in Tasks
      BY <1>1 DEF Tasks, IInv, TypeOK
    <2>2. Done(w) => task'[w] = Idle
      BY <1>1 DEF Done
    <2>3. task' = [task EXCEPT ![w].step = "write", ![w].stamp = now]
            => /\ task'[w] # Idle /\ task'[w].item = t.item /\ task'[w].step = "write"
               /\ task'[w].row = t.row /\ task'[w].stamp = now
      <3>1. SUFFICES ASSUME task' = [task EXCEPT ![w].step = "write", ![w].stamp = now]
                     PROVE  /\ task'[w] # Idle /\ task'[w].item = t.item
                            /\ task'[w].step = "write"
                            /\ task'[w].row = t.row /\ task'[w].stamp = now
        OBVIOUS
      <3>2. task'[w] = [t EXCEPT !.step = "write", !.stamp = now]
        BY <1>1, <3>1
      <3>. QED
        BY <1>1, <2>1, <3>2 DEF Tasks
    <2>4. Fails("solr") => failures' # 0
      BY DEF Fails, IInv, TypeOK
    <2>. QED
      BY <2>2, <2>3, <2>4 DEF Delete, Works
  <1>3. UNCHANGED <<db, raced, now, visible, since, upTo, pc>>
    BY <1>1 DEF repository, fold
  <1>4. \A i \in Items : i # t.item => written'[i] = written[i]
    BY <1>1, <1>2, WithoutRight DEF IInv
  <1>5. Clock'
    <2>1. \A i \in Items : written'[i] = NoDoc \/ written'[i] = written[i]
      BY <1>1, <1>2, <1>4, WithoutRight DEF IInv
    <2>. QED
      BY <1>3, <2>1 DEF Clock, IInv
  <1>6. Hand(w)'
    <2>1. t.item \notin raced => t.row = db[t.item]
      BY <1>1 DEF Hand, IInv
    <2>2. t.row.status = "in" /\ db[t.item].modified <= now
      BY <1>1 DEF Hand, IInv, Clock
    <2>. QED
      BY <1>1, <1>2, <1>3, <2>1, <2>2 DEF Hand
  <1>7. failures' = 0 => failures = 0
    BY <1>2
  <1>8. ASSUME NEW i \in Items PROVE Item(i)'
    <2>1. Item(i) /\ (Writing(i) => Writing(i)')
      BY <1>1, OthersGoOn DEF IInv
    <2>2. CASE i # t.item
      BY <1>1, <1>3, <1>4, <1>7, <2>1, <2>2, OthersGoOn, SameItem
    <2>3. CASE i = t.item /\ written' = Without(t.item) /\ task'[w] # Idle
      <3>1. Busy(i)' /\ Writing(i)'
        BY <1>1, <1>2, <2>3 DEF Busy, Writing
      <3>2. i \notin raced' => Right(written, i)' /\ Right(visible, i)'
        BY <1>1, <1>3, <2>1, <2>3, WithoutRight DEF Item, Right, IInv
      <3>. QED
        BY <3>1, <3>2 DEF Item, Kept, Owed, Settled
    <2>4. CASE failures' # 0 /\ written' = written
      <3>1. ~Counts(i)'
        BY <2>4 DEF Counts
      <3>. QED
        BY <1>3, <2>1, <2>4, <3>1 DEF Item, Kept, Owed, Settled, Right
    <2>. QED
      BY <1>2, <2>2, <2>3, <2>4
  <1>. QED
    BY <1>1, <1>5, <1>6, <1>8, OthersGoOn DEF Rest

\* An item whose document stays, when Solr may commit.
LEMMA CommittedItem ==
  ASSUME NEW i \in Items, Item(i), failures' = 0 => failures = 0,
         UNCHANGED <<world, repository, fold, written[i]>>,
         visible'[i] \in {visible[i], written[i]},
         Busy(i) => Busy(i)', Writing(i) => Writing(i)'
  PROVE  Item(i)'
  <1>1. CASE visible'[i] = visible[i]
    BY <1>1, SameItem
  <1>2. CASE visible'[i] = written[i]
    <2>1. UNCHANGED <<world, db, raced, pc, todo, queue, since, upTo>>
      BY DEF repository, fold
    <2>2. /\ Fresh(written, i)' <=> Fresh(written, i)
          /\ Fresh(visible, i)' <=> Fresh(written, i)
          /\ Right(written, i)' <=> Right(written, i)
          /\ Right(visible, i)' <=> Right(written, i)
      BY <1>2, <2>1 DEF Fresh, Right
    <2>3. (Counts(i)' => Counts(i)) /\ (Ahead(i)' <=> Ahead(i))
      BY <2>1 DEF Counts, Ahead
    <2>. QED
      BY <2>1, <2>2, <2>3 DEF Item, Kept, Owed, Settled
  <1>. QED
    BY <1>1, <1>2

LEMMA WriteRest ==
  ASSUME IInv, NEW w \in Workers \cup {Web}, Write(w), UNCHANGED world
  PROVE  Rest'
  <1>. USE Typed
  <1>. DEFINE t == task[w]
  <1>0. PICK doc : doc = [modified |-> t.row.modified, stamp |-> t.stamp]
    OBVIOUS
  <1>1. /\ t # Idle /\ t.step = "write" /\ t.item \in Items /\ w \in DOMAIN task
        /\ t \in Tasks /\ UNCHANGED <<repository, fold>> /\ task'[w] = Idle
        /\ DOMAIN task' = DOMAIN task /\ \A v \in DOMAIN task : v # w => task'[v] = task[v]
    BY DEF Write, Doing, Done
  <1>2. \/ /\ failures' = failures /\ written' = [written EXCEPT ![t.item] = doc]
           /\ visible' = written' \/ (w # Web /\ visible' = visible)
        \/ failures' # 0 /\ written' = written /\ visible' = visible
    BY <1>0 DEF Write, Works, Fails, index, IInv, TypeOK
  <1>3. UNCHANGED <<db, raced, now, since, upTo, pc>>
    BY <1>1 DEF repository, fold
  <1>4. doc \in Docs /\ doc # NoDoc
    BY <1>0, <1>1, TaskTyped DEF IInv, Docs, Rows
  <1>5. /\ DOMAIN written = Items /\ Clock
        /\ \A i \in Items : i # t.item => written'[i] = written[i]
        /\ \A i \in Items : visible'[i] \in {visible[i], written'[i]}
    BY <1>2 DEF IInv, TypeOK
  <1>6. /\ t.stamp <= now /\ t.row.status = "in"
        /\ t.item \notin raced => t.row = db[t.item] /\ t.stamp >= db[t.item].modified
    BY <1>1 DEF IInv, Hand
  <1>7. Clock'
    <2>1. \A i \in Items : written'[i] # NoDoc => written'[i].stamp <= now
      BY <1>0, <1>1, <1>2, <1>5, <1>6 DEF Clock
    <2>. QED
      BY <1>3, <1>5, <2>1 DEF Clock
  <1>8. Hand(w)' /\ (failures' = 0 => failures = 0)
    BY <1>1, <1>2 DEF Hand
  <1>9. ASSUME NEW i \in Items PROVE Item(i)'
    <2>1. Item(i) /\ (i # t.item => (Busy(i) => Busy(i)') /\ (Writing(i) => Writing(i)'))
      BY <1>1, OthersGoOn DEF IInv
    <2>2. CASE i # t.item
      BY <1>1, <1>5, <1>8, <2>1, <2>2, CommittedItem
    <2>3. CASE failures' # 0 /\ written' = written /\ visible' = visible
      <3>1. ~Counts(i)'
        BY <2>3 DEF Counts
      <3>. QED
        BY <1>3, <2>1, <2>3, <3>1 DEF Item, Kept, Owed, Settled, Right
    <2>4. CASE /\ i = t.item /\ failures' = failures
               /\ written'[i] = doc
               /\ visible' = written' \/ (w # Web /\ visible' = visible)
      <3>1. i \notin raced' => Fresh(written, i)' /\ Right(written, i)'
        <4>1. doc.modified = t.row.modified /\ doc.stamp = t.stamp
          BY <1>0
        <4>2. i \notin raced => doc.modified = db[i].modified /\ doc.stamp >= db[i].modified
          BY <1>6, <2>4, <4>1
        <4>3. i \notin raced => /\ written'[i] # NoDoc
                                /\ written'[i].modified = db[i].modified
                                /\ written'[i].stamp >= db[i].modified
          BY <1>4, <2>4, <4>2
        <4>. QED
          BY <1>3, <4>3 DEF Fresh, Right
      <3>2. i \notin raced' => Right(visible, i)'
        BY <1>3, <2>1, <2>4, <3>1 DEF Item, Right
      <3>3. pc' = "idle" => visible' = written'
        <4>1. pc = "idle" => w = Web
          BY <1>1 DEF IInv, Pool
        <4>. QED
          BY <1>3, <2>4, <4>1
      <3>4. pc' = "idle" /\ i \notin raced' => Fresh(visible, i)'
        BY <3>1, <3>3 DEF Fresh
      <3>5. Counts(i)' => i \notin raced'
        BY DEF Counts
      <3>. QED
        BY <3>1, <3>2, <3>4, <3>5 DEF Item, Kept, Owed, Settled
    <2>. QED
      BY <1>2, <1>5, <2>2, <2>3, <2>4
  <1>. QED
    BY <1>1, <1>7, <1>8, <1>9, OthersGoOn DEF Rest

LEMMA RemoveRest ==
  ASSUME IInv, Remove, UNCHANGED world
  PROVE  Rest'
  <1>. USE Typed
  <1>. DEFINE t == task[Web]
  <1>1. /\ t # Idle /\ t.step = "remove" /\ t.item \in Items /\ Web \in DOMAIN task
        /\ UNCHANGED <<repository, fold>> /\ task'[Web] = Idle
        /\ DOMAIN task' = DOMAIN task /\ \A v \in DOMAIN task : v # Web => task'[v] = task[v]
    BY DEF Remove, Doing, Done
  <1>2. \/ failures' = failures /\ written' = Without(t.item) /\ visible' = written'
        \/ failures' # 0 /\ written' = written /\ visible' = visible
    BY DEF Remove, Works, Fails, index, IInv, TypeOK
  <1>3. UNCHANGED <<db, raced, now, since, upTo, pc>>
    BY <1>1 DEF repository, fold
  <1>4. /\ \A i \in Items : i # t.item => written'[i] = written[i]
        /\ \A i \in Items : visible'[i] \in {visible[i], written'[i]}
    BY <1>1, <1>2, WithoutRight DEF IInv
  <1>5. Clock'
    <2>1. \A i \in Items : written'[i] = NoDoc \/ written'[i] = written[i]
      BY <1>1, <1>2, <1>4, WithoutRight DEF IInv
    <2>. QED
      BY <1>3, <1>4, <2>1 DEF Clock, IInv
  <1>6. Hand(Web)' /\ (failures' = 0 => failures = 0)
    BY <1>1, <1>2 DEF Hand
  <1>7. ASSUME NEW i \in Items PROVE Item(i)'
    <2>1. Item(i) /\ (i # t.item => (Busy(i) => Busy(i)') /\ (Writing(i) => Writing(i)'))
      BY <1>1, OthersGoOn DEF IInv
    <2>2. CASE i # t.item
      BY <1>1, <1>4, <1>6, <2>1, <2>2, CommittedItem
    <2>3. CASE i = t.item
      <3>1. ~Counts(i)'
        BY <1>1, <1>3, <2>3 DEF Counts, Hand, IInv
      <3>2. i \notin raced' => Right(written, i)' /\ Right(visible, i)'
        BY <1>1, <1>2, <1>3, <2>1, <2>3, WithoutRight DEF Item, Right, IInv
      <3>. QED
        BY <3>1, <3>2 DEF Item, Kept, Owed, Settled
    <2>. QED
      BY <2>2, <2>3
  <1>. QED
    BY <1>1, <1>5, <1>6, <1>7, OthersGoOn DEF Rest

\* The same threads have the same in hand, and the same items.
LEMMA SameHands ==
  ASSUME IInv, UNCHANGED <<repository, task>>
  PROVE  /\ \A w \in DOMAIN task' : Hand(w)'
         /\ \A i \in Items : (Busy(i)' <=> Busy(i)) /\ (Writing(i)' <=> Writing(i))
  <1>1. \A w \in DOMAIN task' : Hand(w)'
    BY DEF IInv, Hand, repository
  <1>. QED
    BY <1>1 DEF Busy, Writing

LEMMA AutoCommitRest ==
  ASSUME IInv, AutoCommit, UNCHANGED world
  PROVE  Rest'
  <1>1. /\ UNCHANGED <<repository, written, fold, task, failures>> /\ visible' = written
    BY DEF AutoCommit
  <1>2. Clock' /\ Pool'
    BY <1>1 DEF IInv, Clock, Pool, repository, fold
  <1>3. \A i \in Items : Item(i)'
    BY <1>1, SameHands, CommittedItem DEF IInv
  <1>. QED
    BY <1>1, <1>2, <1>3, SameHands DEF Rest

LEMMA CleanIndexRest ==
  ASSUME IInv, CleanIndex, UNCHANGED world
  PROVE  Rest'
  <1>. USE Typed
  <1>1. /\ pc = "idle" /\ UNCHANGED <<repository, visible, todo, queue, started, count, since, upTo, task>>
        /\ \/ pc' = "start" /\ failures' = failures
           \/ pc' = pc /\ written' = written /\ failures' # 0
    BY DEF CleanIndex, Works, Fails, IInv, TypeOK
  <1>2. \A i \in Items : \/ written'[i] = written[i]
                         \/ /\ written'[i] = NoDoc
                            /\ world.command # "nightly" \/ db[i].status = "gone"
    BY DEF CleanIndex, IInv, TypeOK
  <1>3. UNCHANGED <<db, now, raced>>
    BY <1>1 DEF repository
  <1>4. Clock' /\ Pool'
    BY <1>1, <1>2, <1>3 DEF IInv, Clock, Pool
  <1>5. ASSUME NEW i \in Items PROVE Item(i)'
    <2>1. Item(i) /\ (Writing(i)' <=> Writing(i))
      BY <1>1, SameHands DEF IInv
    <2>2. i \notin raced' => Right(written, i)' /\ Right(visible, i)'
      BY <1>1, <1>2, <1>3, <2>1 DEF Item, Right
    <2>3. CASE failures' # 0
      BY <2>2, <2>3 DEF Item, Kept, Owed, Settled, Counts
    <2>4. CASE pc' = "start" /\ failures' = failures
      <3>1. Owed(i)' /\ Settled(i)'
        BY <2>4 DEF Owed, Settled, Ahead
      <3>2. Fresh(visible, i)' <=> Fresh(visible, i)
        BY <1>1, <1>3 DEF Fresh
      <3>3. Counts(i)' => Counts(i) /\ db[i].status # "gone"
        BY <1>3, <2>4 DEF Counts
      <3>4. Kept(i)'
        <4>1. SUFFICES ASSUME Counts(i)', world.command = "nightly", Fresh(visible, i)'
                       PROVE  Fresh(written, i)' \/ Writing(i)'
          BY DEF Kept
        <4>2. Fresh(written, i) \/ Writing(i)
          BY <2>1, <3>2, <3>3, <4>1 DEF Item, Kept
        <4>3. written'[i] = written[i]
          BY <1>2, <3>3, <4>1
        <4>. QED
          BY <1>3, <2>1, <4>2, <4>3 DEF Fresh
      <3>. QED
        BY <2>2, <3>1, <3>4 DEF Item
    <2>. QED
      BY <1>1, <2>3, <2>4
  <1>. QED
    BY <1>1, <1>4, <1>5, SameHands DEF Rest

LEMMA UpdateIndexRest ==
  ASSUME IInv, UpdateIndex, UNCHANGED world
  PROVE  Rest'
  <1>. USE Typed
  <1>1. /\ pc = "start" /\ pc' = "fold" /\ started' = 0 /\ since' = now
        /\ todo' = {i \in Items : db[i].status = "in"}
        /\ UNCHANGED <<repository, index, queue, upTo, task, failures>>
    BY DEF UpdateIndex
  <1>2. UNCHANGED <<db, now, raced, written, visible>>
    BY <1>1 DEF repository, index
  <1>3. Clock'
    BY <1>1, <1>2 DEF IInv, Clock
  <1>4. Pool'
    BY <1>1 DEF IInv, Pool, Workers
  <1>5. ASSUME NEW i \in Items PROVE Item(i)'
    <2>1. Item(i) /\ (Writing(i)' <=> Writing(i))
      BY <1>1, SameHands DEF IInv
    <2>2. Owed(i)' /\ Settled(i)'
      BY <1>1, <1>2 DEF Owed, Settled, Ahead, Counts
    <2>3. /\ Fresh(written, i)' <=> Fresh(written, i)
          /\ Fresh(visible, i)' <=> Fresh(visible, i)
          /\ Right(written, i)' <=> Right(written, i)
          /\ Right(visible, i)' <=> Right(visible, i)
          /\ Counts(i)' <=> Counts(i)
      BY <1>1, <1>2 DEF Fresh, Right, Counts
    <2>. QED
      BY <1>2, <2>1, <2>2, <2>3 DEF Item, Kept
  <1>. QED
    BY <1>1, <1>3, <1>4, <1>5, SameHands DEF Rest

LEMMA SubmitRest ==
  ASSUME IInv, NEW s \in Items, Submit(s), UNCHANGED world
  PROVE  Rest'
  <1>. USE Typed
  <1>1. /\ pc = "fold" /\ UNCHANGED <<repository, index, since, upTo>>
        /\ \/ todo' = todo \ {s} /\ pc' = pc /\ failures' = failures
           \/ pc' = "stuck" /\ todo' = {} /\ failures' # 0
    BY DEF Submit, Works, Fails, IInv, TypeOK
  <1>2. UNCHANGED <<db, now, raced, written, visible>>
    BY <1>1 DEF repository, index
  <1>3. \/ /\ started < Procs /\ started' = started + 1 /\ queue' = queue
           /\ started + 1 \in Workers /\ task[started + 1] = Idle
           /\ task' = [task EXCEPT ![started + 1] = TaskOf(s, "find")]
        \/ started' = started /\ queue' = Append(queue, s) /\ task' = task
    <2>1. started < Procs => started + 1 \in Workers /\ task[started + 1] = Idle
      BY DEF IInv, TypeOK, Pool, Workers
    <2>2. CASE started < Procs
      <3>1. started' = started + 1 /\ queue' = queue
        BY <2>2 DEF Submit
      <3>2. task' = [task EXCEPT ![started + 1] = TaskOf(s, "find")]
        BY <2>2, <3>1 DEF Submit
      <3>. QED
        BY <2>1, <2>2, <3>1, <3>2
    <2>3. CASE ~(started < Procs)
      BY <2>3 DEF Submit
    <2>. QED
      BY <2>2, <2>3
  <1>4. Clock'
    BY <1>1, <1>2 DEF IInv, Clock
  <1>5. DOMAIN task' = DOMAIN task
    BY <1>3
  <1>6. \A w \in DOMAIN task : \/ task'[w] = task[w]
                               \/ /\ task[w] = Idle /\ task'[w] = TaskOf(s, "find")
                                  /\ w = started' /\ started' = started + 1
    BY <1>3
  <1>7. Pool'
    <2>1. \A w \in Workers : w > started' => task'[w] = Idle
      BY <1>3, <1>6 DEF IInv, Pool, TypeOK, Workers
    <2>. QED
      BY <1>1, <2>1 DEF Pool
  <1>8. ASSUME NEW w \in DOMAIN task PROVE Hand(w)'
    BY <1>2, <1>6, TaskIs DEF Hand, IInv
  <1>9. ASSUME NEW i \in Items PROVE Item(i)'
    <2>1. Item(i) /\ (Busy(i) => Busy(i)') /\ (Writing(i) => Writing(i)')
      BY <1>5, <1>6 DEF IInv, Busy, Writing
    <2>2. /\ Fresh(written, i)' <=> Fresh(written, i)
          /\ Fresh(visible, i)' <=> Fresh(visible, i)
          /\ Right(written, i)' <=> Right(written, i)
          /\ Right(visible, i)' <=> Right(visible, i)
          /\ Counts(i)' => Counts(i) /\ todo' = todo \ {s}
      BY <1>1, <1>2 DEF Fresh, Right, Counts
    <2>3. Busy(s)' \/ queue' = Append(queue, s)
      BY <1>3, <1>5, TaskIs DEF Busy
    <2>4. queue \in Seq(Items)
      BY DEF IInv, TypeOK
    <2>5. queue' \in {queue, Append(queue, s)}
      BY <1>3
    <2>6. (\E n \in DOMAIN queue : queue[n] = i) => \E n \in DOMAIN queue' : queue'[n] = i
      <3>1. SUFFICES ASSUME NEW n \in DOMAIN queue, queue[n] = i
                     PROVE  \E m \in DOMAIN queue' : queue'[m] = i
        OBVIOUS
      <3>2. n \in DOMAIN Append(queue, s) /\ Append(queue, s)[n] = i
        BY <2>4, <3>1
      <3>. QED
        BY <2>5, <3>1, <3>2
    <2>7. queue' = Append(queue, s) => \E n \in DOMAIN queue' : queue'[n] = s
      <3>1. SUFFICES ASSUME queue' = Append(queue, s)
                     PROVE  \E n \in DOMAIN queue' : queue'[n] = s
        OBVIOUS
      <3>2. Len(queue) + 1 \in DOMAIN queue' /\ queue'[Len(queue) + 1] = s
        BY <2>4, <3>1
      <3>. QED
        BY <3>2
    <2>8. Counts(i)' /\ Ahead(i) => Ahead(i)' \/ Busy(i)'
      BY <1>1, <2>2, <2>3, <2>6, <2>7 DEF Ahead
    <2>9. Owed(i)' /\ Settled(i)'
      BY <1>1, <1>2, <2>1, <2>2, <2>8 DEF Owed, Settled, Item
    <2>. QED
      BY <1>2, <2>1, <2>2, <2>9 DEF Item, Kept
  <1>. QED
    BY <1>4, <1>5, <1>7, <1>8, <1>9 DEF Rest

LEMMA TakeRest ==
  ASSUME IInv, NEW w \in Workers, Take(w), UNCHANGED world
  PROVE  Rest'
  <1>. USE Typed
  <1>1. /\ task[w] = Idle /\ w <= started /\ queue # <<>> /\ queue \in Seq(Items)
        /\ Head(queue) \in Items /\ queue' = Tail(queue) /\ DOMAIN task' = DOMAIN task
        /\ task'[w] = TaskOf(Head(queue), "find")
        /\ \A v \in DOMAIN task : v # w => task'[v] = task[v]
        /\ UNCHANGED <<repository, index, pc, todo, started, count, since, upTo, failures>>
    BY DEF Take, IInv, TypeOK
  <1>2. UNCHANGED <<db, now, raced, written, visible>>
    BY <1>1 DEF repository, index
  <1>3. Clock'
    BY <1>1, <1>2 DEF IInv, Clock
  <1>4. Pool'
    <2>1. pc \notin {"idle", "start", "commit"}
      BY <1>1 DEF IInv, Pool
    <2>2. \A v \in Workers : v > started => task'[v] = Idle
      <3>1. SUFFICES ASSUME NEW v \in Workers, v > started PROVE task'[v] = Idle
        OBVIOUS
      <3>2. v # w
        BY <1>1, <3>1 DEF Workers, IInv, TypeOK
      <3>3. task'[v] = task[v]
        BY <1>1, <3>2
      <3>. QED
        BY <3>1, <3>3 DEF IInv, Pool
    <2>. QED
      BY <1>1, <2>1, <2>2 DEF IInv, Pool
  <1>5. ASSUME NEW v \in DOMAIN task PROVE Hand(v)'
    BY <1>1, <1>2, TaskIs DEF Hand, IInv
  <1>6. ASSUME NEW i \in Items PROVE Item(i)'
    <2>1. Item(i) /\ (Busy(i) => Busy(i)') /\ (Writing(i) => Writing(i)')
      BY <1>1 DEF IInv, Busy, Writing
    <2>2. /\ Fresh(written, i)' <=> Fresh(written, i)
          /\ Fresh(visible, i)' <=> Fresh(visible, i)
          /\ Right(written, i)' <=> Right(written, i)
          /\ Right(visible, i)' <=> Right(visible, i)
          /\ Counts(i)' <=> Counts(i)
      BY <1>1, <1>2 DEF Fresh, Right, Counts
    <2>3. i = Head(queue) => Busy(i)'
      BY <1>1, TaskIs DEF Busy
    <2>4. (\E n \in DOMAIN queue : queue[n] = i)
            => i = Head(queue) \/ \E n \in DOMAIN queue' : queue'[n] = i
      <3>1. SUFFICES ASSUME NEW n \in DOMAIN queue, queue[n] = i, i # Head(queue)
                     PROVE  \E m \in DOMAIN queue' : queue'[m] = i
        OBVIOUS
      <3>2. n - 1 \in DOMAIN queue' /\ queue'[n - 1] = i
        BY <1>1, <3>1
      <3>. QED
        BY <3>2
    <2>5. Ahead(i) => Ahead(i)' \/ Busy(i)'
      BY <1>1, <2>3, <2>4 DEF Ahead
    <2>. QED
      BY <1>1, <1>2, <2>1, <2>2, <2>5 DEF Item, Kept, Owed, Settled
  <1>. QED
    BY <1>1, <1>3, <1>4, <1>5, <1>6 DEF Rest

LEMMA ShutdownRest ==
  ASSUME IInv, Shutdown \/ AwaitTermination, UNCHANGED world
  PROVE  Rest'
  <1>1. /\ UNCHANGED <<repository, index, todo, queue, started, count, since, upTo, task, failures>>
        /\ \/ pc = "fold" /\ pc' = "await" /\ todo = {}
           \/ pc = "await" /\ pc' = "commit" /\ Terminated
    BY DEF Shutdown, AwaitTermination
  <1>2. UNCHANGED <<db, now, raced, written, visible>>
    BY <1>1 DEF repository, index
  <1>3. Clock'
    BY <1>1, <1>2 DEF IInv, Clock
  <1>4. Pool'
    BY <1>1 DEF IInv, Pool, Terminated
  <1>5. ASSUME NEW i \in Items PROVE Item(i)'
    <2>1. Item(i) /\ (Busy(i)' <=> Busy(i)) /\ (Writing(i)' <=> Writing(i))
      BY <1>1, SameHands DEF IInv
    <2>2. /\ Fresh(written, i)' <=> Fresh(written, i)
          /\ Fresh(visible, i)' <=> Fresh(visible, i)
          /\ Right(written, i)' <=> Right(written, i)
          /\ Right(visible, i)' <=> Right(visible, i)
          /\ Counts(i)' <=> Counts(i)
      BY <1>1, <1>2 DEF Fresh, Right, Counts
    <2>3. Ahead(i) => Ahead(i)'
      BY <1>1 DEF Ahead
    <2>. QED
      BY <1>1, <1>2, <2>1, <2>2, <2>3 DEF Item, Kept, Owed, Settled
  <1>. QED
    BY <1>1, <1>3, <1>4, <1>5, SameHands DEF Rest

LEMMA CommitRest ==
  ASSUME IInv, Commit, UNCHANGED world
  PROVE  Rest'
  <1>. USE Typed
  <1>1. /\ pc = "commit" /\ pc' = "idle"
        /\ UNCHANGED <<repository, written, todo, queue, started, count, since, task>>
        /\ \/ visible' = written /\ upTo' = since /\ failures' = failures
           \/ visible' = visible /\ upTo' = upTo /\ failures' # 0
    BY DEF Commit, Works, Fails, IInv, TypeOK
  <1>2. UNCHANGED <<db, now, raced>>
    BY <1>1 DEF repository
  <1>3. Clock'
    BY <1>1, <1>2 DEF IInv, Clock
  <1>4. Pool'
    BY <1>1 DEF IInv, Pool
  <1>5. ASSUME NEW i \in Items PROVE Item(i)'
    <2>1. Item(i) /\ (Busy(i)' <=> Busy(i))
      BY <1>1, SameHands DEF IInv
    <2>2. i \notin raced' => Right(written, i)' /\ Right(visible, i)'
      BY <1>1, <1>2, <2>1 DEF Item, Right
    <2>3. ~Ahead(i)
      BY <1>1 DEF Ahead, IInv, Pool
    <2>4. CASE failures' # 0
      BY <2>2, <2>4 DEF Item, Kept, Owed, Settled, Counts
    <2>5. CASE visible' = written /\ upTo' = since /\ failures' = failures
      <3>1. /\ Fresh(written, i)' <=> Fresh(written, i)
            /\ Fresh(visible, i)' <=> Fresh(written, i)
            /\ Counts(i)' <=> Counts(i)
        BY <1>1, <1>2, <2>5 DEF Fresh, Counts
      <3>2. Kept(i)' /\ Owed(i)'
        BY <1>1, <3>1 DEF Kept, Owed
      <3>3. Settled(i)'
        BY <1>1, <1>2, <2>1, <2>3, <2>5, <3>1 DEF Item, Owed, Settled
      <3>. QED
        BY <2>2, <3>2, <3>3 DEF Item
    <2>. QED
      BY <1>1, <2>4, <2>5
  <1>. QED
    BY <1>1, <1>3, <1>4, <1>5, SameHands DEF Rest

LEMMA NextRest ==
  ASSUME IInv, Next
  PROVE  Rest'
  BY ChangeRest, FindRest, CheckRest, DeleteRest, WriteRest, TakeRest, RemoveRest,
     AutoCommitRest, CleanIndexRest, UpdateIndexRest, SubmitRest, ShutdownRest, CommitRest
     DEF Next, Step, Main, IndexContent

LEMMA InvariantHolds == Spec => []IInv
  <1>1. Init => IInv
    BY InitIInv
  <1>2. IInv /\ [Next]_vars => IInv'
    <2>1. SUFFICES ASSUME IInv, [Next]_vars PROVE IInv'
      OBVIOUS
    <2>2. CASE Next
      <3>1. TypeOK' /\ Rest' /\ world' = world
        BY <2>1, <2>2, NextTyped, NextRest DEF IInv, Next
      <3>. QED
        BY <2>1, <3>1 DEF IInv, Rest
    <2>3. CASE UNCHANGED vars
      <3>1. UNCHANGED <<world, db, now, raced, written, visible, pc, todo, queue, started, count,
                        since, upTo, task, failures>>
        BY <2>3 DEF vars, repository, index, fold
      <3>2. TypeOK' /\ Clock' /\ Pool' /\ world' \in World
        BY <2>1, <3>1 DEF IInv, TypeOK, Clock, Pool
      <3>3. \A w \in DOMAIN task' : Hand(w)'
        BY <2>1, <3>1 DEF IInv, Hand
      <3>4. \A i \in Items : Item(i)'
        BY <2>1, <3>1
           DEF IInv, Item, Right, Fresh, Kept, Owed, Settled, Counts, Ahead, Busy, Writing
      <3>. QED
        BY <3>2, <3>3, <3>4 DEF IInv
    <2>. QED
      BY <2>1, <2>2, <2>3
  <1>. QED
    BY <1>1, <1>2, PTL DEF Spec

-----------------------------------------------------------------------------
\* Queues, documents and what threads hold are what they should be, in particular the
\* queue is within its bound and no more threads are started than there are processors.
THEOREM IndexTypeCorrect == Spec => []TypeOK
  BY InvariantHolds, PTL DEF IInv

\* When nothing fails, an item that did not change since the last update began is found
\* with its content, whichever threads wrote and committed, however they met with the
\* cleaning, with other changes and with the consumer (indexContent and ItemFold).
THEOREM IndexUpToDate == Spec => []UpToDate
  <1>1. IInv => UpToDate
    <2>1. SUFFICES ASSUME IInv, NEW i \in Items, failures = 0, i \notin raced, Covered(i)
                   PROVE  InIndex(i)
      BY DEF UpToDate
    <2>2. ~Busy(i)
      BY <2>1 DEF Covered, Held, Busy
    <2>3. Fresh(visible, i)
      BY <2>1, <2>2 DEF IInv, Item, Settled, Counts, Covered
    <2>. QED
      BY <2>3 DEF InIndex, Fresh
  <1>. QED
    BY <1>1, InvariantHolds, PTL
-----------------------------------------------------------------------------
(* EventuallyIndexed, the part of it that updates end, without the fairness: the *)
(* main thread never waits for a pool that has nothing to do, and every step of   *)
(* the threads brings the update nearer to its end.                               *)

\* Items are queued when all threads are started, and taken from `todo` in the fold.
Orderly ==
  /\ queue # <<>> => started = Procs
  /\ pc # "fold" => todo = {}

\* The main thread waits for room in the queue, or for the pool to terminate.
Waits ==
  \/ pc = "fold" /\ todo # {} /\ started = Procs /\ ~Room
  \/ pc = "await" /\ ~Terminated
AtWork == \E w \in Workers : task[w] # Idle \/ (w <= started /\ queue # <<>>)

\* What is left to do: four steps at most for what a thread has in hand, one more
\* for what is queued, and another for what the main thread still has.
ToGo(step) ==
  CASE step = "find" -> 4
    [] step = "check" -> 3
    [] step = "delete" -> 2
    [] OTHER -> 1
Load == {wk \in Workers \X (1 .. 4) : task[wk[1]] # Idle /\ wk[2] <= ToGo(task[wk[1]].step)}

Stage ==
  CASE pc = "start" -> 6 * Cardinality(Items) + 4
    [] pc = "fold" -> 3
    [] pc = "await" -> 2
    [] pc = "commit" -> 1
    [] OTHER -> 0
Remaining == Cardinality(todo)
Queued == Len(queue)
InHand == Cardinality(Load)
StepsLeft == Stage + 6 * Remaining + 5 * Queued + InHand

Threaded == \E w \in Workers : IndexContent(w) \/ Take(w)

Nearer ==
  /\ Main \/ Threaded => StepsLeft' < StepsLeft
  /\ StepsLeft' > StepsLeft => CleanIndex

LEMMA NextOrderly ==
  ASSUME IInv, Orderly, [Next]_vars
  PROVE  Orderly'
  <1>t. started \in 0 .. Procs /\ queue \in Seq(Items)
    BY DEF IInv, TypeOK
  <1>1. CASE UNCHANGED fold
    BY <1>1 DEF fold, Orderly
  <1>2. CASE CleanIndex \/ Shutdown \/ AwaitTermination \/ Commit
    BY <1>2 DEF CleanIndex, Shutdown, AwaitTermination, Commit, Orderly
  <1>3. CASE UpdateIndex
    BY <1>3 DEF UpdateIndex, Orderly, IInv, Pool
  <1>4. ASSUME NEW i \in Items, Submit(i) PROVE Orderly'
    <2>1. CASE started < Procs
      <3>1. queue = <<>> /\ queue' = queue
        BY <1>4, <2>1 DEF Submit, Orderly
      <3>. QED
        BY <1>4, <3>1 DEF Submit, Orderly
    <2>2. CASE ~(started < Procs)
      <3>1. started' = started /\ started = Procs
        BY <1>4, <1>t, <2>2 DEF Submit
      <3>. QED
        BY <1>4, <3>1 DEF Submit, Orderly
    <2>. QED
      BY <2>1, <2>2
  <1>5. ASSUME NEW w \in Workers, Take(w) PROVE Orderly'
    BY <1>5 DEF Take, Orderly
  <1>6. CASE UNCHANGED vars
    BY <1>1, <1>6 DEF vars
  <1>. QED
    BY <1>1, <1>2, <1>3, <1>4, <1>5, <1>6
       DEF Next, Step, Main, Change, IndexContent, Find, Check, Delete, Write, Remove, AutoCommit

LEMMA NobodyWaitsInVain == IInv /\ Orderly /\ Waits => AtWork
  <1>. SUFFICES ASSUME IInv, Orderly, Waits PROVE AtWork
    OBVIOUS
  <1>t. queue \in Seq(Items) /\ Procs \in Nat \ {0} /\ Threads \in Nat \ {0}
    BY DEF IInv, TypeOK
  <1>1. queue # <<>> => AtWork
    BY <1>t DEF Orderly, AtWork, Workers
  <1>2. ~Room => queue # <<>>
    BY <1>t DEF Room
  <1>. QED
    BY <1>1, <1>2 DEF Waits, Terminated, AtWork

LEMMA Sums ==
  ASSUME NEW s \in Nat, NEW r \in Nat, NEW q \in Nat, NEW h \in Nat
  PROVE  s + 6 * r + 5 * q + h \in Nat
  OBVIOUS

\* Submitting an item, to a new thread or to the queue, and going on with one or taking one.
LEMMA Lessens ==
  ASSUME NEW s \in Nat, NEW r \in Nat, NEW q \in Nat, NEW h \in Nat,
         NEW s1 \in Nat, NEW r1 \in Nat, NEW q1 \in Nat, NEW h1 \in Nat,
         s1 <= s,
         \/ r1 < r /\ q1 = q /\ h1 <= h + 4
         \/ r1 < r /\ q1 = q + 1 /\ h1 = h
         \/ r1 = r /\ q1 = q /\ h1 < h
         \/ r1 = r /\ q = q1 + 1 /\ h1 <= h + 4
  PROVE  s1 + 6 * r1 + 5 * q1 + h1 < s + 6 * r + 5 * q + h
  OBVIOUS

LEMMA LoadFinite ==
  /\ IsFiniteSet(Load) /\ IsFiniteSet(Load')
  /\ InHand \in Nat /\ InHand' \in Nat
  <1>1. IsFiniteSet(Workers) /\ IsFiniteSet(1 .. 4)
    <2>1. 1 \in Int /\ 4 \in Int /\ Procs \in Int
      OBVIOUS
    <2>. QED
      BY <2>1, FS_Interval, Zenon DEF Workers
  <1>2. IsFiniteSet(Workers \X (1 .. 4))
    BY <1>1, FS_Product
  <1>3. Load \subseteq Workers \X (1 .. 4) /\ Load' \subseteq Workers \X (1 .. 4)
    BY DEF Load
  <1>4. IsFiniteSet(Load) /\ IsFiniteSet(Load')
    BY <1>2, <1>3, FS_Subset
  <1>. QED
    BY <1>4, FS_CardinalityType DEF InHand

LEMMA Counted ==
  ASSUME IInv
  PROVE  /\ IsFiniteSet(todo) /\ Remaining \in Nat /\ Queued \in Nat /\ InHand \in Nat
         /\ Stage \in Nat /\ StepsLeft \in Nat /\ Cardinality(Items) \in Nat
         /\ Remaining <= Cardinality(Items)
  <1>1. IsFiniteSet(todo) /\ Remaining \in Nat /\ Cardinality(Items) \in Nat
        /\ Remaining <= Cardinality(Items)
    BY FS_Subset, FS_CardinalityType DEF Remaining, IInv, TypeOK
  <1>2. Queued \in Nat
    BY DEF Queued, IInv, TypeOK
  <1>3. Stage \in Nat
    BY <1>1 DEF Stage
  <1>. QED
    BY <1>1, <1>2, <1>3, LoadFinite DEF StepsLeft

\* A thread that goes on has less in hand.
LEMMA LessInHand ==
  ASSUME NEW w \in Workers, task[w] # Idle,
         \A v \in Workers : v # w => task'[v] = task[v],
         task'[w] = Idle \/ ToGo(task'[w].step) < ToGo(task[w].step)
  PROVE  InHand' < InHand
  <1>. DEFINE n == ToGo(task[w].step)
  <1>1. n \in 1 .. 4 /\ ToGo(task'[w].step) \in 1 .. 4
    BY DEF ToGo
  <1>2. <<w, n>> \in Load
    BY <1>1 DEF Load
  <1>3. <<w, n>> \notin Load'
    BY <1>1 DEF Load
  <1>4. ASSUME NEW v \in Workers, NEW k \in 1 .. 4, <<v, k>> \in Load' PROVE <<v, k>> \in Load
    <2>1. CASE v = w
      BY <1>1, <1>4, <2>1 DEF Load
    <2>2. CASE v # w
      BY <1>4, <2>2 DEF Load
    <2>. QED
      BY <2>1, <2>2
  <1>5. Load' \subseteq Load
    BY <1>4 DEF Load
  <1>. DEFINE A == Load
              B == Load'
  <1>6. IsFiniteSet(A) /\ B \in SUBSET A /\ A # B
    BY <1>2, <1>3, <1>5, LoadFinite
  <1>7. Cardinality(B) <= Cardinality(A) /\ Cardinality(A) # Cardinality(B)
    <2>. HIDE DEF A, B
    <2>. QED
      BY <1>6, FS_Subset
  <1>. QED
    BY <1>7, LoadFinite DEF InHand

LEMMA OneMore ==
  ASSUME NEW S, IsFiniteSet(S), NEW a
  PROVE  /\ IsFiniteSet(S \cup {a}) /\ Cardinality(S \cup {a}) \in Nat
         /\ Cardinality(S \cup {a}) <= Cardinality(S) + 1
  <1>. DEFINE T == S \cup {a}
              n == Cardinality(S)
              k == Cardinality(T)
  <1>1. IsFiniteSet(T) /\ k = IF a \in S THEN n ELSE n + 1
    BY FS_AddElement, Zenon
  <1>2. n \in Nat
    BY FS_CardinalityType
  <1>3. IsFiniteSet(T) /\ k \in Nat /\ k <= n + 1
    <2>. HIDE DEF T, n, k
    <2>. QED
      BY <1>1, <1>2
  <1>. QED
    BY <1>3, Zenon

\* One that is given an item has four steps.
LEMMA FourMore ==
  ASSUME NEW S, IsFiniteSet(S), NEW a, NEW b, NEW c, NEW d
  PROVE  /\ IsFiniteSet(S \cup {a, b, c, d}) /\ Cardinality(S \cup {a, b, c, d}) \in Nat
         /\ Cardinality(S \cup {a, b, c, d}) <= Cardinality(S) + 4
  <1>. DEFINE S1 == S \cup {a}
              S2 == S1 \cup {b}
              S3 == S2 \cup {c}
              S4 == S3 \cup {d}
              n == Cardinality(S)
              n1 == Cardinality(S1)
              n2 == Cardinality(S2)
              n3 == Cardinality(S3)
              n4 == Cardinality(S4)
  <1>0. n \in Nat
    BY FS_CardinalityType
  <1>1. IsFiniteSet(S1) /\ n1 \in Nat /\ n1 <= n + 1
    BY OneMore, Zenon
  <1>2. IsFiniteSet(S2) /\ n2 \in Nat /\ n2 <= n1 + 1
    BY <1>1, OneMore, Zenon
  <1>3. IsFiniteSet(S3) /\ n3 \in Nat /\ n3 <= n2 + 1
    BY <1>2, OneMore, Zenon
  <1>4. IsFiniteSet(S4) /\ n4 \in Nat /\ n4 <= n3 + 1
    BY <1>3, OneMore, Zenon
  <1>5. S4 = S \cup {a, b, c, d}
    OBVIOUS
  <1>6. n4 <= n + 4
    <2>. HIDE DEF n, n1, n2, n3, n4
    <2>. QED
      BY <1>0, <1>1, <1>2, <1>3, <1>4
  <1>. HIDE DEF S4
  <1>. QED
    BY <1>4, <1>5, <1>6

LEMMA FourInHand ==
  ASSUME NEW w \in Workers, task[w] = Idle,
         \A v \in Workers : v # w => task'[v] = task[v]
  PROVE  InHand' <= InHand + 4
  <1>. DEFINE A == Load \cup {<<w, 1>>, <<w, 2>>, <<w, 3>>, <<w, 4>>}
              B == Load'
  <1>1. ASSUME NEW v \in Workers, NEW k \in 1 .. 4, <<v, k>> \in Load' PROVE <<v, k>> \in A
    <2>1. CASE v = w
      BY <2>1
    <2>2. CASE v # w
      BY <1>1, <2>2 DEF Load
    <2>. QED
      BY <2>1, <2>2
  <1>2. B \in SUBSET A
    BY <1>1 DEF Load
  <1>3. IsFiniteSet(A) /\ Cardinality(A) <= InHand + 4 /\ Cardinality(A) \in Nat
    BY LoadFinite, FourMore, FS_CardinalityType DEF InHand
  <1>4. Cardinality(B) <= Cardinality(A)
    <2>. HIDE DEF A, B
    <2>. QED
      BY <1>2, <1>3, FS_Subset
  <1>5. InHand' = Cardinality(B)
    BY DEF InHand
  <1>. HIDE DEF A, B
  <1>. QED
    BY <1>3, <1>4, <1>5, LoadFinite

LEMMA OneLessToDo ==
  ASSUME IInv, NEW i \in todo, todo' = todo \ {i} \/ todo' = {}
  PROVE  Remaining' \in Nat /\ Remaining' < Remaining
  <1>. DEFINE A == todo'
              k == Cardinality(A)
              n == Cardinality(todo)
  <1>1. IsFiniteSet(todo) /\ n \in Nat
    BY Counted DEF Remaining
  <1>2. IsFiniteSet(A) /\ k \in Nat
    BY <1>1, FS_Subset, FS_CardinalityType
  <1>3. A \in SUBSET todo /\ A # todo
    OBVIOUS
  <1>4. k <= n /\ k # n
    <2>. HIDE DEF A
    <2>. QED
      BY <1>1, <1>3, FS_Subset
  <1>5. k < n
    <2>. HIDE DEF k, n
    <2>. QED
      BY <1>1, <1>2, <1>4
  <1>. QED
    BY <1>2, <1>5, Zenon DEF Remaining

LEMMA SubmitNearer ==
  ASSUME IInv, NEW i \in Items, Submit(i)
  PROVE  StepsLeft' < StepsLeft
  <1>1. /\ Remaining' \in Nat /\ Remaining' < Remaining
        /\ Remaining \in Nat /\ Queued \in Nat /\ InHand \in Nat /\ InHand' \in Nat
    BY OneLessToDo, Counted, LoadFinite DEF Submit
  <1>2. Stage \in Nat /\ Stage' \in Nat /\ Stage' <= Stage
    BY DEF Submit, Stage
  <1>3. CASE started < Procs
    <2>1. /\ started + 1 \in Workers /\ task[started + 1] = Idle /\ queue' = queue
          /\ \A v \in Workers : v # started + 1 => task'[v] = task[v]
      BY <1>3 DEF Submit, IInv, TypeOK, Pool, Workers
    <2>2. InHand' <= InHand + 4 /\ Queued' = Queued /\ Queued' \in Nat
      BY <1>1, <2>1, FourInHand DEF Queued
    <2>. QED
      BY <1>1, <1>2, <2>2, Lessens, Zenon DEF StepsLeft
  <1>4. CASE ~(started < Procs)
    <2>1. queue' = Append(queue, i) /\ task' = task /\ queue \in Seq(Items)
      BY <1>4 DEF Submit, IInv, TypeOK
    <2>2. Queued' = Queued + 1 /\ Queued' \in Nat
      BY <1>1, <2>1 DEF Queued
    <2>3. InHand' = InHand
      BY <2>1 DEF InHand, Load
    <2>. QED
      BY <1>1, <1>2, <2>2, <2>3, Lessens, Zenon DEF StepsLeft
  <1>. QED
    BY <1>3, <1>4

LEMMA MainNearer ==
  ASSUME IInv, IInv', Main
  PROVE  StepsLeft' < StepsLeft
  <1>1. /\ Remaining \in Nat /\ Queued \in Nat /\ InHand \in Nat /\ Cardinality(Items) \in Nat
    BY Counted
  <1>2. CASE UpdateIndex
    <2>1. Stage = 6 * Cardinality(Items) + 4 /\ Stage' = 3
      BY <1>2 DEF UpdateIndex, Stage
    <2>2. Remaining' \in Nat /\ Remaining' <= Cardinality(Items)
      BY FS_Subset, FS_CardinalityType DEF Remaining, IInv, TypeOK
    <2>3. Queued' = Queued /\ InHand' = InHand
      BY <1>2 DEF UpdateIndex, Queued, InHand, Load
    <2>. QED
      BY <1>1, <2>1, <2>2, <2>3 DEF StepsLeft
  <1>3. CASE Shutdown \/ AwaitTermination \/ Commit
    <2>1. Stage \in 1 .. 3 /\ Stage' = Stage - 1
      BY <1>3 DEF Shutdown, AwaitTermination, Commit, Stage
    <2>2. Remaining' = Remaining /\ Queued' = Queued /\ InHand' = InHand
      BY <1>3 DEF Shutdown, AwaitTermination, Commit, Remaining, Queued, InHand, Load
    <2>. QED
      BY <1>1, <2>1, <2>2 DEF StepsLeft
  <1>. QED
    BY <1>2, <1>3, SubmitNearer DEF Main

LEMMA ThreadsNearer ==
  ASSUME IInv, NEW w \in Workers, IndexContent(w) \/ Take(w)
  PROVE  StepsLeft' < StepsLeft
  <1>1. /\ Remaining \in Nat /\ Queued \in Nat /\ InHand \in Nat /\ Stage \in Nat
        /\ InHand' \in Nat /\ w \in DOMAIN task /\ Workers \subseteq DOMAIN task
    BY Counted, LoadFinite, Typed
  <1>2. CASE IndexContent(w)
    <2>1. UNCHANGED fold /\ task[w] # Idle
          /\ \A v \in Workers : v # w => task'[v] = task[v]
      BY <1>1, <1>2 DEF IndexContent, Find, Check, Delete, Write, Doing, Done, GoTo
    <2>2. task'[w] = Idle \/ ToGo(task'[w].step) < ToGo(task[w].step)
      <3>0. task[w] \in Tasks
        BY <1>1, <2>1, Typed
      <3>1. CASE Find(w)
        <4>1. task[w].step = "find" /\ (task'[w] = Idle \/ task'[w].step = "check")
          BY <1>1, <3>0, <3>1 DEF Find, Doing, Done, Tasks
        <4>. QED
          BY <4>1 DEF ToGo
      <3>2. CASE Check(w)
        <4>1. task[w].step = "check" /\ (task'[w] = Idle \/ task'[w].step = "delete")
          BY <1>1, <3>0, <3>2 DEF Check, Doing, Done, GoTo, Tasks
        <4>. QED
          BY <4>1 DEF ToGo
      <3>3. CASE Delete(w)
        <4>1. task[w].step = "delete" /\ (task'[w] = Idle \/ task'[w].step = "write")
          BY <1>1, <3>0, <3>3 DEF Delete, Doing, Done, Tasks
        <4>. QED
          BY <4>1 DEF ToGo
      <3>4. CASE Write(w)
        BY <1>1, <3>4 DEF Write, Done
      <3>. QED
        BY <1>2, <3>1, <3>2, <3>3, <3>4 DEF IndexContent
    <2>3. InHand' < InHand
      BY <2>1, <2>2, LessInHand
    <2>4. /\ Stage' = Stage /\ Stage' <= Stage /\ Stage' \in Nat
          /\ Remaining' = Remaining /\ Remaining' \in Nat
          /\ Queued' = Queued /\ Queued' \in Nat
      <3>1. Stage' = Stage /\ Remaining' = Remaining /\ Queued' = Queued
        BY <2>1 DEF fold, Stage, Remaining, Queued
      <3>. QED
        BY <1>1, <3>1
    <2>. QED
      BY <1>1, <2>3, <2>4, Lessens, Zenon DEF StepsLeft
  <1>3. CASE Take(w)
    <2>1. /\ task[w] = Idle /\ queue # <<>> /\ queue' = Tail(queue) /\ queue \in Seq(Items)
          /\ \A v \in Workers : v # w => task'[v] = task[v]
      BY <1>1, <1>3 DEF Take, IInv, TypeOK
    <2>2. Queued' \in Nat /\ Queued = Queued' + 1 /\ InHand' <= InHand + 4
      BY <2>1, FourInHand DEF Queued
    <2>3. /\ Stage' = Stage /\ Stage' <= Stage /\ Stage' \in Nat
          /\ Remaining' = Remaining /\ Remaining' \in Nat
      <3>1. Stage' = Stage /\ Remaining' = Remaining
        BY <1>3 DEF Take, Stage, Remaining
      <3>. QED
        BY <1>1, <3>1
    <2>. QED
      BY <1>1, <2>2, <2>3, Lessens, Zenon DEF StepsLeft
  <1>. QED
    BY <1>2, <1>3

\* What the repository, its consumer and Solr do is no work of the update's.
LEMMA OthersApart ==
  ASSUME IInv,
         \/ \E i \in Items : Change(i)
         \/ IndexContent(Web) \/ Remove \/ AutoCommit \/ UNCHANGED vars
  PROVE  StepsLeft' = StepsLeft
  <1>1. Workers \subseteq DOMAIN task /\ Web \in DOMAIN task /\ Web \notin Workers
    BY Typed
  <1>2. UNCHANGED fold /\ \A v \in Workers : task'[v] = task[v]
    <2>1. CASE \E i \in Items : Change(i)
      BY <1>1, <2>1 DEF Change
    <2>2. CASE IndexContent(Web)
      BY <1>1, <2>2 DEF IndexContent, Find, Check, Delete, Write, Done, GoTo
    <2>3. CASE Remove \/ AutoCommit \/ UNCHANGED vars
      BY <1>1, <2>3 DEF Remove, AutoCommit, Done, vars
    <2>. QED
      BY <2>1, <2>2, <2>3
  <1>3. Load' = Load
    BY <1>2 DEF Load
  <1>. QED
    BY <1>2, <1>3 DEF fold, StepsLeft, Stage, Remaining, Queued, InHand

LEMMA NextNearer ==
  ASSUME IInv, IInv', [Next]_vars
  PROVE  Nearer
  <1>1. Main \/ Threaded => StepsLeft' < StepsLeft
    BY MainNearer, ThreadsNearer DEF Threaded
  <1>2. StepsLeft \in Nat /\ StepsLeft' \in Nat
    <2>1. Remaining' \in Nat /\ Queued' \in Nat
      BY FS_Subset, FS_CardinalityType DEF Remaining, Queued, IInv, TypeOK
    <2>2. Stage' \in Nat
      BY Counted DEF Stage
    <2>. QED
      BY <2>1, <2>2, Counted, LoadFinite, Sums, Zenon DEF StepsLeft
  <1>3. CleanIndex \/ Main \/ Threaded \/ StepsLeft' = StepsLeft
    BY OthersApart DEF Next, Step, Threaded
  <1>. QED
    BY <1>1, <1>2, <1>3 DEF Nearer

LEMMA NothingLeftBetween ==
  ASSUME IInv, Orderly
  PROVE  /\ StepsLeft \in Nat
         /\ pc = "idle" => StepsLeft = 0
         /\ pc = "start" => StepsLeft = 6 * Cardinality(Items) + 4
  <1>1. StepsLeft \in Nat /\ Stage \in Nat
    BY Counted
  <1>2. ASSUME pc \in {"idle", "start"}
        PROVE  Remaining = 0 /\ Queued = 0 /\ InHand = 0
    <2>1. todo = {} /\ queue = <<>> /\ \A w \in Workers : task[w] = Idle
      BY <1>2 DEF Orderly, IInv, Pool
    <2>2. Load = {}
      BY <2>1 DEF Load
    <2>. QED
      BY <2>1, <2>2, FS_EmptySet DEF Remaining, Queued, InHand
  <1>3. /\ pc = "idle" => Stage = 0
        /\ pc = "start" => Stage = 6 * Cardinality(Items) + 4
    BY DEF Stage
  <1>. QED
    BY <1>1, <1>2, <1>3 DEF StepsLeft

\* An update of n items ends, or is stuck behind a failed commit, after at most 6n + 4
\* steps of the main thread and its pool: each lessens what is left to do, and nothing
\* that the repository, its consumer or Solr does adds to it.  While the main thread
\* waits, for a full queue or for the pool, a thread has an item or can take one.
THEOREM UpdatesAreBounded ==
  Spec => /\ [](Waits => AtWork)
          /\ [](/\ StepsLeft \in Nat /\ (pc = "idle" => StepsLeft = 0)
                /\ pc = "start" => StepsLeft = 6 * Cardinality(Items) + 4)
          /\ [][Nearer]_vars
  <1>1. Init => Orderly
    BY DEF Init, Orderly
  <1>2. IInv /\ Orderly /\ [Next]_vars => Orderly'
    BY NextOrderly
  <1>3. IInv /\ Orderly => (Waits => AtWork)
    BY NobodyWaitsInVain
  <1>4. IInv /\ Orderly => /\ StepsLeft \in Nat /\ (pc = "idle" => StepsLeft = 0)
                           /\ pc = "start" => StepsLeft = 6 * Cardinality(Items) + 4
    BY NothingLeftBetween
  <1>5. IInv /\ IInv' /\ [Next]_vars => [Nearer]_vars
    BY NextNearer
  <1>. QED
    BY <1>1, <1>2, <1>3, <1>4, <1>5, InvariantHolds, PTL DEF Spec
=============================================================================
