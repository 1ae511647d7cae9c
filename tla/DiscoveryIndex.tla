---------------------------- MODULE DiscoveryIndex ----------------------------
(***************************************************************************)
(* The discovery index (SolrServiceImpl): an update that is started every  *)
(* night folds all items over a pool of threads (ItemFold), each of which  *)
(* looks whether the index is behind and, if so, deletes and rewrites the  *)
(* document of its item, while the repository changes items and its event  *)
(* consumer writes their documents too.                                    *)
(*                                                                         *)
(* The content of an item is told by the date of its last change, on a     *)
(* clock that moves with every commit of a change; the date is set before  *)
(* the commit.  A document has the content that was read for it and the    *)
(* moment at which its writing began.                                      *)
(***************************************************************************)
EXTENDS Naturals, Sequences, FiniteSets, FiniteSetsExt

CONSTANTS Items,
          Procs,        \* threads of the pool, one per processor
          Threads,      \* discovery.index-threads, which bounds the queue
          CommitEvery,  \* items between two commits of the main thread (100)
          PageSize,     \* documents in an answer of Solr, unless told (10)
          MaxChanges,   \* bound on the changes, and on the clock
          MaxFailures,  \* bound on the failures
          NoDoc, Idle, Web,
          Worlds        \* the circumstances considered (below)

\* The items at first (status), the options of index-discovery, the dispatcher of the
\* repository's events, whether items change during an update, and what may fail:
\* Solr, or a commit of the fold.
Statuses == {"new", "in", "gone"}
World ==
  [status : [Items -> Statuses], command : {"nightly", "force", "rebuild"}, dispatcher : {"default", "noindex"},
   during : BOOLEAN, faults : SUBSET {"solr", "commit"}]

ASSUME IndexAssumption ==
  /\ Procs \in Nat \ {0} /\ Threads \in Nat \ {0} /\ CommitEvery \in Nat \ {0}
  /\ PageSize \in Nat /\ MaxChanges \in Nat /\ MaxFailures \in Nat
  /\ IsFiniteSet(Items) /\ Worlds \subseteq World /\ Web \notin 1 .. Procs

VARIABLES
  world,
  db, now,                 \* the items, and the clock
  written, visible,        \* the documents, and those of Solr's last commit
  pc, todo, queue, started, count,  \* the main thread and its pool
  task,                    \* what each thread is doing
  since, upTo,             \* start of the update, and of the last that ended
  failures, raced          \* failures so far; items whose last change was
                           \* overtaken (below)

repository == <<db, now, raced>>
index == <<written, visible>>
fold == <<pc, todo, queue, started, count, since, upTo>>
vars == <<world, repository, index, fold, task, failures>>

Workers == 1 .. Procs
Times == 0 .. MaxChanges
\* When a row was committed is not in the database; Covered is about it.
Rows == [status : Statuses, modified : Times, committed : Times]
Docs == [modified : Times, stamp : Times]
Tasks == [item : Items, step : {"find", "check", "delete", "write", "remove"}, row : Rows,
          stamp : Times]
RowOf(status, modified, committed) ==
  [status |-> status, modified |-> modified, committed |-> committed]
Blank == RowOf("new", 0, 0)

ASSUME SentinelAssumption == NoDoc \notin Docs /\ Idle \notin Tasks

TypeOK ==
  /\ db \in [Items -> Rows] /\ now \in Times
  /\ written \in [Items -> Docs \cup {NoDoc}] /\ visible \in [Items -> Docs \cup {NoDoc}]
  /\ pc \in {"idle", "start", "fold", "await", "commit", "stuck"}
  /\ todo \subseteq Items /\ queue \in Seq(Items) /\ Len(queue) <= Threads
  /\ started \in 0 .. Procs /\ count \in 0 .. CommitEvery - 1
  /\ task \in [Workers \cup {Web} -> Tasks \cup {Idle}]
  /\ since \in Times /\ upTo \in Times \cup {Idle}
  /\ failures \in 0 .. MaxFailures /\ raced \subseteq Items

Init ==
  /\ world \in Worlds
  /\ db = [i \in Items |-> RowOf(world.status[i], 0, 0)] /\ now = 0
  /\ written = [i \in Items |-> NoDoc] /\ visible = written
  /\ pc = "idle" /\ todo = {} /\ queue = <<>> /\ started = 0 /\ count = 0
  /\ task = [w \in Workers \cup {Web} |-> Idle]
  /\ since = 0 /\ upTo = Idle
  /\ failures = 0 /\ raced = {}

Fails(what) == what \in world.faults /\ failures < MaxFailures /\ failures' = failures + 1
Works == UNCHANGED failures

TaskOf(i, step) == [item |-> i, step |-> step, row |-> Blank, stamp |-> 0]
Held(i) == {w \in DOMAIN task : task[w] # Idle /\ task[w].item = i}

-----------------------------------------------------------------------------
(* The repository *)
\* When a change that is committed now may be dated: later than the one before it,
\* and, in worlds where nothing changes during an update, than the last update.
Dates(i) == {t \in db[i].modified + 1 .. now + 1 : world.during \/ t > since}

\* Before the change is there, a thread has read the old row, or a document has a date
\* that is not older.
Overtaken(i, date) ==
  \/ \E w \in Held(i) : task[w].step # "find"
  \/ written[i] # NoDoc /\ written[i].stamp >= date
  \/ visible[i] # NoDoc /\ visible[i].stamp >= date

\* A web request that edits, archives or deletes an item commits.  Its events go to
\* the discovery consumer, of one request at a time, unless the dispatcher is noindex.
Change(i) ==
  /\ now < MaxChanges /\ now' = now + 1
  /\ pc = "idle" \/ world.during
  /\ task[Web] = Idle
  /\ \E status \in IF db[i].status = "new" THEN {"new", "in", "gone"}
                   ELSE IF db[i].status = "in" THEN {"in", "gone"} ELSE {}, date \in Dates(i) :
       /\ db' = [db EXCEPT ![i] = RowOf(status, date, now')]
       /\ task' = IF world.dispatcher = "noindex" THEN task
                  ELSE [task EXCEPT ![Web] =
                          TaskOf(i, IF status = "gone" THEN "remove" ELSE "find")]
       /\ raced' = IF Overtaken(i, date) THEN raced \cup {i} ELSE raced \ {i}
  /\ UNCHANGED <<index, fold, failures>>

-----------------------------------------------------------------------------
(* indexContent, by a thread of the pool (ItemIdPayload.run) or for the consumer *)
Doing(w, step) == task[w] # Idle /\ task[w].step = step
Done(w) == task' = [task EXCEPT ![w] = Idle]
GoTo(w, step) == task' = [task EXCEPT ![w].step = step]

\* An item that is gone makes the payload end with an exception.
Find(w) ==
  /\ Doing(w, "find")
  /\ LET row == db[task[w].item]
     IN IF row.status = "gone" THEN Done(w)
        ELSE task' = [task EXCEPT ![w].step = "check", ![w].row = row]
  /\ Works /\ UNCHANGED <<repository, index, fold>>

\* Mutant: an item that is not in the index needs no indexing.
OnlyWhenOlder(i, row) == visible[i] # NoDoc /\ visible[i].stamp < row.modified
RequiresIndexing(i, row) == visible[i] = NoDoc \/ visible[i].stamp < row.modified

\* The consumer forces the indexing.
Forced(w) == w = Web \/ world.command # "nightly"

Without(i) == [written EXCEPT ![i] = NoDoc]

Check(w) ==
  /\ Doing(w, "check")
  /\ LET t == task[w]
     IN \/ /\ Works /\ t.row.status = "new"
           /\ Done(w) /\ written' = Without(t.item)
        \/ /\ Works /\ t.row.status = "in"
           /\ IF RequiresIndexing(t.item, t.row) \/ Forced(w) THEN GoTo(w, "delete")
              ELSE Done(w)
           /\ UNCHANGED written
        \/ Fails("solr") /\ Done(w) /\ UNCHANGED written
  /\ UNCHANGED <<repository, visible, fold>>

\* The new document is stamped before its content is added, after the row was read.
Delete(w) ==
  /\ Doing(w, "delete")
  /\ LET on == [task EXCEPT ![w].step = "write", ![w].stamp = now]
     IN \/ Works /\ written' = Without(task[w].item) /\ task' = on
        \/ Fails("solr") /\ UNCHANGED written /\ (task' = on \/ Done(w))
  /\ UNCHANGED <<repository, visible, fold>>

\* A document with full text is committed as it is written, others wait; the
\* consumer commits at its end.
Write(w) ==
  /\ Doing(w, "write") /\ Done(w)
  /\ \/ /\ Works
        /\ written' = [written EXCEPT ![task[w].item] =
                         [modified |-> task[w].row.modified, stamp |-> task[w].stamp]]
        /\ visible' = written' \/ (w # Web /\ UNCHANGED visible)
     \/ Fails("solr") /\ UNCHANGED index
  /\ UNCHANGED <<repository, fold>>

\* The consumer removes the document of an item that was deleted.
Remove ==
  /\ Doing(Web, "remove") /\ Done(Web)
  /\ \/ Works /\ written' = Without(task[Web].item) /\ visible' = written'
     \/ Fails("solr") /\ UNCHANGED index
  /\ UNCHANGED <<repository, fold>>

\* Solr commits by itself (solrconfig.xml).
AutoCommit ==
  /\ visible # written /\ visible' = written
  /\ UNCHANGED <<repository, written, fold, task, failures>>

-----------------------------------------------------------------------------
(* cleanIndex, updateIndex and ItemFold.execute, by the main thread *)
\* Only the first page of the documents is looked at, in an order of Solr's.
Pages == LET docs == {i \in Items : visible[i] # NoDoc}
         IN IF Cardinality(docs) <= PageSize THEN {docs} ELSE kSubset(PageSize, docs)

\* When Solr fails, the command ends.
CleanIndex ==
  /\ pc = "idle"
  /\ \/ /\ Works /\ pc' = "start"
        /\ \/ world.command = "rebuild" /\ UNCHANGED written
           \/ world.command = "force" /\ written' = [i \in Items |-> NoDoc]
           \/ /\ world.command = "nightly"
              /\ \E page \in Pages :
                   written' = [i \in Items |->
                                 IF i \in page /\ db[i].status = "gone" THEN NoDoc
                                 ELSE written[i]]
     \/ Fails("solr") /\ UNCHANGED <<pc, written>>
  /\ UNCHANGED <<repository, visible, todo, queue, started, count, since, upTo, task>>

\* The query of the items that are archived or withdrawn.
UpdateIndex ==
  /\ pc = "start" /\ pc' = "fold"
  /\ todo' = {i \in Items : db[i].status = "in"}
  /\ started' = 0 /\ count' = 0 /\ since' = now
  /\ UNCHANGED <<repository, index, queue, upTo, task, failures>>

\* Mutant: the queue has no bound.
AnyRoom == TRUE
Room == Len(queue) < Threads

\* The pool starts a thread for the item while it may, else the item is queued, and
\* the main thread waits while the queue is full.  After every so many items it
\* commits its contexts; if that throws, nobody shuts the pool down, and its threads
\* keep the process, and the lock of the nightly job, for ever.
Submit(i) ==
  /\ pc = "fold" /\ i \in todo
  /\ IF started < Procs
     THEN /\ started' = started + 1
          /\ task' = [task EXCEPT ![started'] = TaskOf(i, "find")]
          /\ UNCHANGED queue
     ELSE /\ Room
          /\ queue' = Append(queue, i)
          /\ UNCHANGED <<started, task>>
  /\ \/ Works /\ todo' = todo \ {i} /\ UNCHANGED pc
     \/ /\ (count + 1) % CommitEvery = 0 /\ Fails("commit")
        /\ pc' = "stuck" /\ todo' = {}
  /\ count' = (count + 1) % CommitEvery
  /\ UNCHANGED <<repository, index, since, upTo>>

Take(w) ==
  /\ task[w] = Idle /\ w <= started /\ queue # <<>>
  /\ task' = [task EXCEPT ![w] = TaskOf(Head(queue), "find")]
  /\ queue' = Tail(queue)
  /\ UNCHANGED <<repository, index, pc, todo, started, count, since, upTo, failures>>

Shutdown ==
  /\ pc = "fold" /\ todo = {} /\ pc' = "await"
  /\ UNCHANGED <<repository, index, todo, queue, started, count, since, upTo, task, failures>>

\* The pool has terminated: nothing is queued and no thread at work.
\* Mutant: it is enough that nothing is queued.
NothingQueued == queue = <<>>
Terminated == queue = <<>> /\ \A w \in Workers : task[w] = Idle

AwaitTermination ==
  /\ pc = "await" /\ Terminated /\ pc' = "commit"
  /\ UNCHANGED <<repository, index, todo, queue, started, count, since, upTo, task, failures>>

\* The last commit; updateIndex only logs its failure.
Commit ==
  /\ pc = "commit" /\ pc' = "idle"
  /\ \/ Works /\ visible' = written /\ upTo' = since
     \/ Fails("solr") /\ UNCHANGED <<visible, upTo>>
  /\ UNCHANGED <<repository, written, todo, queue, started, count, since, task>>

-----------------------------------------------------------------------------
IndexContent(w) == Find(w) \/ Check(w) \/ Delete(w) \/ Write(w)
Main == UpdateIndex \/ (\E i \in Items : Submit(i)) \/ Shutdown \/ AwaitTermination \/ Commit

Step ==
  \/ \E i \in Items : Change(i)
  \/ \E w \in Workers \cup {Web} : IndexContent(w)
  \/ \E w \in Workers : Take(w)
  \/ Remove \/ AutoCommit \/ CleanIndex \/ Main

Next == Step /\ UNCHANGED world
Spec == Init /\ [][Next]_vars

unfixed == <<repository, index, fold, task, failures>>

\* The job is started every night and its threads run, as do the web application and
\* Solr's commits.
FairSpec ==
  /\ Spec
  /\ WF_unfixed(CleanIndex) /\ WF_unfixed(Main) /\ WF_unfixed(AutoCommit)
  /\ WF_unfixed(IndexContent(Web) \/ Remove)
  /\ \A w \in Workers : WF_unfixed(IndexContent(w) \/ Take(w))

-----------------------------------------------------------------------------
InIndex(i) == visible[i] # NoDoc /\ visible[i].modified = db[i].modified

\* What an update that has ended answers for: items that were there when it began.
Covered(i) ==
  /\ pc = "idle" /\ upTo # Idle /\ db[i].status = "in" /\ db[i].committed <= upTo
  /\ Held(i) = {}

\* When nothing fails, an item that did not change since the last update began is
\* found with its content, whichever thread wrote it last, unless its last change was
\* overtaken by a thread that had its row or by a document (ItemFold, requiresIndexing).
UpToDate == \A i \in Items : failures = 0 /\ i \notin raced /\ Covered(i) => InIndex(i)

\* When items do not change during updates, and no commit of the fold fails, then
\* updates keep ending, whatever the queue holds, and in the end each leaves every
\* item with its content in the index, also after failures of Solr at any step, unless
\* its last change was overtaken; and no deleted item, when its consumer did not fail.
Calm == ~world.during /\ "commit" \notin world.faults
Quiet == pc = "idle" /\ \A w \in DOMAIN task : task[w] = Idle
Current(i) ==
  /\ db[i].status = "in" /\ i \notin raced => InIndex(i)
  /\ db[i].status = "gone" /\ world.dispatcher = "default" /\ world.faults = {}
       => visible[i] = NoDoc
EventuallyIndexed == Calm => []<>Quiet /\ <>[](Quiet => \A i \in Items : Current(i))

\* "If the handle ... has a lastModified timestamp that is newer than the document in
\* the index then it is updated" (SolrServiceImpl.java:190-192): when nothing fails,
\* what was there when the last update began is found with its content.
NoneLeftBehind == \A i \in Items : failures = 0 /\ Covered(i) => InIndex(i)
=============================================================================
