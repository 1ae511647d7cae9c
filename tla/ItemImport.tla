------------------------------ MODULE ItemImport ------------------------------
(***************************************************************************)
(* The batch importer of org.dspace.app.itemimport.ItemImport, run from    *)
(* the command line: one JVM per run, one database transaction context, a  *)
(* source directory with one sub-directory per item, and a mapfile with a  *)
(* line "<directory> <handle or id>" per imported item.                    *)
(*                                                                         *)
(* The database is `disk`; `work` is what the open transaction sees.  A    *)
(* commit copies work to disk, a rollback or a crash copies disk to work.  *)
(* Under --transactional the context is com.atmire's TransactionalContext, *)
(* which only counts commit, complete and abort until realComplete or      *)
(* realAbort.  The mapfile has a buffered part (`mapBuf`, the PrintWriter) *)
(* and a part that a crash does not lose (`mapFile`).                      *)
(***************************************************************************)
EXTENDS Naturals, FiniteSets

CONSTANTS Dirs,         \* item directories below the source directory
          NoCollection, \* directories whose "collections" file resolves to nothing
          Ids,          \* database ids an item can get, in sequence (bound)
          None,         \* the null of the code
          Worlds,       \* the circumstances considered (below)
          MaxRuns       \* runs of the importer (bound)

Adds == {"add", "add-bte"}

CommandLines ==
  [cmd : Adds \cup {"replace", "delete"}, test : BOOLEAN, resume : BOOLEAN,
   workflow : BOOLEAN, large : BOOLEAN, transactional : BOOLEAN, perItem : BOOLEAN]

\* How a mapfile line or a handle file names an item: by handle, or, for an
\* item sent to the workflow, by its database id.
Refs == [kind : {"handle", "id"}, no : Ids]
Handle(i) == [kind |-> "handle", no |-> i]
IdRef(i) == [kind |-> "id", no |-> i]

Items == [id : Ids, dir : Dirs, handle : Refs \cup {None},
          place : {"archive", "workflow"}, ok : BOOLEAN]

Mishaps == {"build", "commit", "crash", "discard"}

ASSUME ImportAssumption ==
  /\ Ids \subseteq Nat
  /\ None \notin Refs /\ None \notin Ids /\ None \notin Dirs
  /\ NoCollection \subseteq Dirs
  /\ Worlds \subseteq [options : SUBSET CommandLines, faults : SUBSET Mishaps]
  /\ MaxRuns \in Nat

VARIABLES
  world,      \* the command lines the operator uses and the mishaps that occur
  pc,         \* where the importer is; "off" when no run is active
  run,        \* the command line of the current or last run
  batch,      \* the directories (or mapfile entries) this run set out to process
  todo,       \* those of batch still ahead
  cur, new,   \* directory and id of the item addItem is working on
  work, disk, \* the database, as the transaction sees it and as committed
  used,       \* ids handed out by the database sequence, which never goes back
  mapFile, mapBuf, mapExists,
  handleFile, \* first line of each directory's "handle" file
  valid,      \* does the metadata in the directory satisfy the compliance rules
  aborted,    \* TransactionalContext.wasAbortInvoked
  outcome,    \* how the last run ended
  runs,
  history     \* every item that was ever committed (not in the code)

db == <<work, disk, used, history>>
files == <<mapFile, mapBuf, mapExists, handleFile>>
job == <<world, run, batch, runs>>
vars == <<pc, todo, cur, new, valid, aborted, outcome, db, files, job>>

Options == world.options
Faults == world.faults

NoLines == [d \in Dirs |-> None]

\* Reading the mapfile back keeps the last line of each directory.
Merge(old, more) == [d \in Dirs |-> IF more[d] # None THEN more[d] ELSE old[d]]

Recorded(lines) == {d \in Dirs : lines[d] # None}

\* The item a mapfile line or handle file names, if the database has it.
Named(ref, items) ==
  {x \in items : IF ref.kind = "id" THEN x.id = ref.no ELSE x.handle = ref}

TypeOK ==
  /\ world \in Worlds
  /\ pc \in {"off", "loop", "built", "commit", "flush", "failed", "completing", "closing"}
  /\ run \in CommandLines
  /\ batch \subseteq Dirs /\ todo \subseteq Dirs
  /\ cur \in Dirs \cup {None} /\ new \in Ids \cup {None}
  /\ work \subseteq Items /\ disk \subseteq Items /\ history \subseteq Items
  /\ used \subseteq Ids
  /\ mapFile \in [Dirs -> Refs \cup {None}] /\ mapBuf \in [Dirs -> Refs \cup {None}]
  /\ mapExists \in BOOLEAN
  /\ handleFile \in [Dirs -> Refs \cup {None}]
  /\ valid \in [Dirs -> BOOLEAN]
  /\ aborted \in BOOLEAN
  /\ outcome \in {"none", "ok", "failed", "crashed"}
  /\ runs \in 0 .. MaxRuns

Init ==
  /\ world \in Worlds
  /\ pc = "off" /\ outcome = "none" /\ aborted = FALSE /\ runs = 0
  /\ run \in Options /\ batch = {} /\ todo = {}
  /\ cur = None /\ new = None
  /\ work = {} /\ disk = {} /\ used = {} /\ history = {}
  /\ mapFile = NoLines /\ mapBuf = NoLines /\ mapExists = FALSE
  /\ handleFile = NoLines
  /\ valid \in [Dirs -> BOOLEAN]

-----------------------------------------------------------------------------
(* main: parse the command line, open the mapfile, list the directories.    *)

\* addItems writes a mapfile, and skips what an earlier run recorded there,
\* unless this is a test run.
WritesMap(o) == o.cmd \in Adds /\ ~o.test
\* Mutant: a resumed run does not look at the mapfile.
SkipNothing(o) == {}
SkipItems(o) == IF WritesMap(o) /\ o.resume THEN Recorded(mapFile) ELSE {}

\* A directory without a usable "collections" file is passed over.
Pending(o) ==
  IF o.cmd \in Adds
  THEN Dirs \ (SkipItems(o) \cup (IF o.perItem THEN NoCollection ELSE {}))
  ELSE Recorded(mapFile)

\* The checks main makes before it touches anything; reading a mapfile that is
\* not there is an exception with nothing to undo.
Accepted(o) ==
  /\ o.resume => o.cmd \in Adds
  /\ (o.cmd = "add" /\ ~o.resume) => ~mapExists
  /\ (o.cmd \notin Adds \/ (o.resume /\ ~o.test)) => mapExists

\* A mapfile is opened for appending only when resuming.
\* Mutant: it is always truncated.
OpenedAfresh(o) == NoLines
Opened(o) == IF o.resume THEN mapFile ELSE NoLines

Start(o) ==
  /\ pc = "off" /\ runs < MaxRuns /\ Accepted(o)
  /\ run' = o /\ runs' = runs + 1
  /\ batch' = Pending(o) /\ todo' = Pending(o)
  /\ pc' = "loop" /\ outcome' = "none" /\ aborted' = FALSE
  /\ mapBuf' = NoLines
  /\ IF WritesMap(o)
     THEN /\ mapExists' = TRUE
          /\ mapFile' = Opened(o)
     ELSE UNCHANGED <<mapExists, mapFile>>
  /\ UNCHANGED <<world, cur, new, valid, handleFile, db>>

-----------------------------------------------------------------------------
(* addItem, deleteItem.                                                     *)

\* Item.delete happens when the last collection lets go of the item; an item
\* in the workflow is in no collection, so the loop over getCollections()
\* leaves it alone.
\* Mutant: the deletion is lost.
WithoutNothing(items, gone) == items
Without(items, gone) == items \ {x \in gone : x.place = "archive"}

\* Where the new item ends up.  A collection without reviewers archives what
\* the workflow is handed at once.
Places == IF run.workflow THEN {"workflow", "archive"} ELSE {"archive"}

\* The handle the new item gets: none while in the workflow, the one its handle
\* file names if the importer installs it, else a fresh one.  BTE writes its
\* directories anew, without a handle file.
HandleFile(d, hf) == IF run.workflow \/ run.cmd = "add-bte" THEN None ELSE hf[d]
\* Mutant: the handle file is not looked at.
FreshHandle(d, i, p, hf) == IF p = "workflow" THEN None ELSE Handle(i)
HandleFor(d, i, p, hf) ==
  IF p = "workflow" THEN None
  ELSE IF HandleFile(d, hf) # None THEN HandleFile(d, hf) ELSE Handle(i)

NewItem(d, i, p, hf) ==
  [id |-> i, dir |-> d, handle |-> HandleFor(d, i, p, hf), place |-> p, ok |-> valid[d]]

\* The database sequence moves on with every item, kept or not.
FreshIds == {i \in Ids \ used : \A j \in Ids \ used : i <= j}

\* Handles are unique, so installing an item under one that is taken fails.
HandleTaken(d, items, hf) ==
  ~run.test /\ HandleFile(d, hf) \in {x.handle : x \in items} \ {None}

\* WorkspaceItem.create up to the last collections[i].addItem, on top of the
\* database `items`.
Build(d, items, hf) ==
  /\ ~HandleTaken(d, items, hf)
  /\ cur' = d /\ pc' = "built"
  /\ IF run.test
     THEN new' = None /\ work' = items /\ UNCHANGED used
     ELSE \E i \in FreshIds, p \in Places :
            /\ new' = i /\ used' = used \cup {i}
            /\ work' = items \cup {NewItem(d, i, p, hf)}

AddItem(d) ==
  /\ pc = "loop" /\ run.cmd \in Adds /\ d \in todo
  /\ Build(d, work, handleFile)
  /\ UNCHANGED <<todo, valid, aborted, outcome, disk, history, files, job>>

\* Mutant: the failing directory is passed over and the run goes on.
AddItemSkips(d) ==
  /\ pc = "loop" /\ run.cmd \in Adds /\ d \in todo
  /\ "build" \in Faults \/ HandleTaken(d, work, handleFile)
  /\ todo' = todo \ {d}
  /\ UNCHANGED <<pc, cur, new, valid, aborted, outcome, db, files, job>>

\* An exception on the way: unreadable metadata, a missing bitstream, a handle
\* that is taken.  What was built of the item is left to the rollback.
AddItemFails(d) ==
  /\ pc = "loop" /\ run.cmd \in Adds /\ d \in todo
  /\ "build" \in Faults \/ HandleTaken(d, work, handleFile)
  /\ pc' = "failed"
  /\ UNCHANGED <<todo, cur, new, valid, aborted, outcome, db, files, job>>

\* validateItem: a test run has no item, which the rules reject.
Compliant == run.large \/ (~run.test /\ \A x \in work : x.id = new => x.ok)

\* The line is printed before the commit.  With no flush per item the writer's
\* buffer fills up in the middle of a transactional import and goes to disk.
\* Mutant: the item was let go of before its line is made.
ClearedLine == IdRef(None)
Line == IF run.workflow THEN IdRef(new)
        ELSE (CHOOSE x \in work : x.id = new).handle

PrintLine ==
  /\ pc = "built" /\ Compliant
  /\ IF ~WritesMap(run)
     THEN UNCHANGED <<mapFile, mapBuf>>
     ELSE \/ /\ mapBuf' = [mapBuf EXCEPT ![cur] = Line]
             /\ UNCHANGED mapFile
          \/ /\ run.transactional
             /\ mapFile' = Merge(mapFile, mapBuf)
             /\ mapBuf' = [NoLines EXCEPT ![cur] = Line]
  /\ pc' = "commit"
  /\ UNCHANGED <<todo, cur, new, valid, aborted, outcome, db, mapExists, handleFile, job>>

\* Context.commit, or TransactionalContext.commit which does nothing yet.
\* Mutants: a transactional commit goes through; a plain one does not.
CommitAtOnce(items) == disk' = items /\ history' = history \cup disk'
CommitLater(items) == disk' = disk /\ history' = history
Commit(items) ==
  /\ disk' = IF run.transactional THEN disk ELSE items
  /\ history' = history \cup disk'

CommitItem ==
  /\ pc = "commit" /\ Commit(work)
  /\ pc' = "flush"
  /\ UNCHANGED <<todo, cur, new, valid, aborted, outcome, work, used, files, job>>

CommitFails ==
  /\ pc = "commit" /\ ~run.transactional /\ "commit" \in Faults
  /\ pc' = "failed"
  /\ UNCHANGED <<todo, cur, new, valid, aborted, outcome, db, files, job>>

\* Mutant: the loop stays at the same directory.
StillAll == todo
Rest == todo \ {cur}

\* After the commit, unless transactional: flush the line; on to the next one.
FlushLine ==
  /\ pc = "flush"
  /\ IF WritesMap(run) /\ ~run.transactional
     THEN mapFile' = Merge(mapFile, mapBuf) /\ mapBuf' = NoLines
     ELSE UNCHANGED <<mapFile, mapBuf>>
  /\ todo' = Rest
  /\ cur' = None /\ new' = None
  /\ pc' = "loop"
  /\ UNCHANGED <<valid, aborted, outcome, db, mapExists, handleFile, job>>

\* catch (MetadataImportException): delete the new item, COMMIT, rethrow.  The
\* commit also makes permanent what the transaction did before, in a replace
\* the deletion of the old item.
RejectItem ==
  /\ pc = "built" /\ ~Compliant
  /\ work' = IF run.test THEN work
             ELSE Without(work, {x \in work : x.id = new})
  /\ \/ Commit(work')
     \/ "commit" \in Faults /\ UNCHANGED <<disk, history>>
  /\ pc' = "failed"
  /\ UNCHANGED <<todo, cur, new, valid, aborted, outcome, used, files, job>>

-----------------------------------------------------------------------------
(* replaceItems and deleteItems.                                            *)

\* The old handle is appended to the directory's handle file, in a test run
\* too; processHandleFile reads the first line only.
WriteHandle(d) ==
  IF handleFile[d] # None THEN handleFile
  ELSE [handleFile EXCEPT ![d] = mapFile[d]]

\* deleteItem of what the mapfile entry of directory d names.
AfterDelete(d) == IF run.test THEN work ELSE Without(work, Named(mapFile[d], work))

ReplaceItem(d) ==
  /\ pc = "loop" /\ run.cmd = "replace" /\ d \in todo
  /\ handleFile' = WriteHandle(d)
  /\ ~run.perItem
  /\ run.test \/ Named(mapFile[d], work) # {}
  /\ Build(d, AfterDelete(d), handleFile')
  /\ UNCHANGED <<todo, valid, aborted, outcome, disk, history, mapFile, mapBuf, mapExists, job>>

\* The old item is gone (null), no collection was given on the command line
\* (null again), or the import directory is unreadable.
ReplaceFails(d) ==
  /\ pc = "loop" /\ run.cmd = "replace" /\ d \in todo
  /\ \/ "build" \in Faults
     \/ run.perItem
     \/ ~run.test /\ Named(mapFile[d], work) = {}
     \/ HandleTaken(d, AfterDelete(d), WriteHandle(d))
  /\ handleFile' = WriteHandle(d)
  /\ pc' = "failed"
  /\ UNCHANGED <<todo, cur, new, valid, aborted, outcome, db, mapFile, mapBuf, mapExists, job>>

\* A handle that no longer resolves is reported and passed over.
DeleteEntry(d) ==
  /\ pc = "loop" /\ run.cmd = "delete" /\ d \in todo
  /\ run.test \/ mapFile[d].kind = "handle" \/ Named(mapFile[d], work) # {}
  /\ work' = AfterDelete(d)
  /\ todo' = todo \ {d}
  /\ UNCHANGED <<pc, cur, new, valid, aborted, outcome, disk, used, history, files, job>>

\* An id that no longer resolves is a null item.
DeleteFails(d) ==
  /\ pc = "loop" /\ run.cmd = "delete" /\ d \in todo
  /\ ~run.test /\ mapFile[d].kind = "id" /\ Named(mapFile[d], work) = {}
  /\ pc' = "failed"
  /\ UNCHANGED <<todo, cur, new, valid, aborted, outcome, db, files, job>>

-----------------------------------------------------------------------------
(* The end of a run.                                                        *)

\* addItems' finally block: the buffer goes to disk whatever happened.
CloseMap == IF WritesMap(run)
            THEN mapFile' = Merge(mapFile, mapBuf) /\ mapBuf' = NoLines
            ELSE UNCHANGED <<mapFile, mapBuf>>

Finish ==
  /\ pc = "loop" /\ todo = {}
  /\ CloseMap
  /\ pc' = "completing"
  /\ UNCHANGED <<todo, cur, new, valid, aborted, outcome, db, mapExists, handleFile, job>>

\* c.complete()
Complete ==
  /\ pc = "completing" /\ Commit(work)
  /\ pc' = IF run.transactional THEN "closing" ELSE "off"
  /\ outcome' = IF run.transactional THEN outcome ELSE "ok"
  /\ UNCHANGED <<todo, cur, new, valid, aborted, work, used, files, job>>

CompleteFails ==
  /\ pc = "completing" /\ ~run.transactional /\ "commit" \in Faults
  /\ pc' = "failed"
  /\ UNCHANGED <<todo, cur, new, valid, aborted, outcome, db, files, job>>

\* An exception passes addItems' finally block and reaches main's c.abort().
Abort ==
  /\ pc = "failed"
  /\ CloseMap
  /\ IF run.transactional
     THEN aborted' = TRUE /\ pc' = "closing" /\ UNCHANGED <<outcome, work>>
     ELSE outcome' = "failed" /\ pc' = "off" /\ work' = disk /\ UNCHANGED aborted
  /\ cur' = None /\ new' = None /\ todo' = {}
  /\ UNCHANGED <<valid, disk, used, history, mapExists, handleFile, job>>

\* main's last block: realAbort when abort was invoked, else realComplete.
RealComplete ==
  /\ pc = "closing" /\ ~aborted
  /\ disk' = work /\ history' = history \cup work
  /\ pc' = "off" /\ outcome' = "ok"
  /\ UNCHANGED <<todo, cur, new, valid, aborted, work, used, files, job>>

RealAbort ==
  /\ pc = "closing"
  /\ aborted \/ "commit" \in Faults
  /\ work' = disk
  /\ pc' = "off" /\ outcome' = "failed"
  /\ UNCHANGED <<todo, cur, new, valid, aborted, disk, used, history, files, job>>

Crash ==
  /\ pc # "off" /\ "crash" \in Faults
  /\ pc' = "off" /\ outcome' = "crashed"
  /\ work' = disk /\ mapBuf' = NoLines
  /\ cur' = None /\ new' = None /\ todo' = {}
  /\ UNCHANGED <<valid, aborted, disk, used, history,
                 mapFile, mapExists, handleFile, job>>

-----------------------------------------------------------------------------
(* Between runs: the operator follows the advice main prints about an       *)
(* existing mapfile, or edits a directory; a reviewer approves an item,     *)
(* which the workflow then installs.                                        *)

DiscardMapfile ==
  /\ pc = "off" /\ mapExists /\ "discard" \in Faults
  /\ mapExists' = FALSE /\ mapFile' = NoLines
  /\ UNCHANGED <<pc, todo, cur, new, valid, aborted, outcome, db, mapBuf, handleFile, job>>

EditMetadata(d) ==
  /\ pc = "off"
  /\ valid' = [valid EXCEPT ![d] = ~@]
  /\ UNCHANGED <<pc, todo, cur, new, aborted, outcome, db, files, job>>

Approve(x) ==
  /\ pc = "off" /\ x.place = "workflow"
  /\ disk' = (disk \ {x}) \cup {[x EXCEPT !.place = "archive", !.handle = Handle(x.id)]}
  /\ work' = disk' /\ history' = history \cup disk'
  /\ UNCHANGED <<pc, todo, cur, new, valid, aborted, outcome, used, files, job>>

Importer ==
  \/ \E d \in Dirs : \/ AddItem(d) \/ AddItemFails(d)
                     \/ ReplaceItem(d) \/ ReplaceFails(d)
                     \/ DeleteEntry(d) \/ DeleteFails(d)
  \/ PrintLine \/ CommitItem \/ CommitFails \/ FlushLine \/ RejectItem
  \/ Finish \/ Complete \/ CompleteFails \/ Abort \/ RealComplete \/ RealAbort

Environment ==
  \/ \E o \in Options : Start(o)
  \/ Crash
  \/ DiscardMapfile
  \/ \E d \in Dirs : EditMetadata(d)
  \/ \E x \in disk : Approve(x)

Next == Importer \/ Environment

Spec == Init /\ [][Next]_vars

\* The importer is one thread that runs until it exits.
FairSpec == Spec /\ WF_vars(Importer)

-----------------------------------------------------------------------------
(* What the importer promises, and under which circumstances.  The claims   *)
(* that the code breaks are stated last.                                    *)

\* Items are committed one by one, and a commit does what it says.
CommitsForReal == "commit" \notin Faults /\ \A o \in Options : ~o.transactional

\* Items go to the archive, not to the workflow.
Archiving == \A o \in Options : ~o.workflow

\* A line of the mapfile names an item that was really committed from that
\* directory: --resume and --delete work from these lines.
RecordedWasCommitted ==
  CommitsForReal =>
     \A d \in Recorded(mapFile) : \E x \in Named(mapFile[d], history) : x.dir = d

\* When an import, resumed or not, ends with exit status 0, every directory
\* that has a collection was committed as an item, by this run or an earlier
\* one.  A resumed run passes over what the mapfile lists, so a line for an
\* item that was rolled back loses that item without a word.
AllImported ==
  (outcome = "ok" /\ WritesMap(run)) =>
     \A d \in Dirs \ (IF run.perItem THEN NoCollection ELSE {}) :
        \E x \in history : x.dir = d
SuccessMeansImported == CommitsForReal => AllImported

\* Without a crash no directory is in the database twice, however often the
\* import was interrupted and resumed, and whatever was replaced.  (A BTE import
\* that does not resume forgets the mapfile there was.)
OneEach == \A x, y \in disk : x.dir = y.dir => x = y
OneItemPerDirectory ==
  (/\ Archiving /\ Faults \cap {"crash", "discard"} = {}
   /\ \A o \in Options : o.cmd = "add-bte" => o.resume) => OneEach

\* Only items whose metadata satisfies the compliance rules are kept, unless
\* the operator waived them.
NoInvalidItemStored ==
  (Archiving /\ \A o \in Options : ~o.large) => \A x \in disk : x.ok

\* An import never forgets what earlier imports recorded in the mapfile.
ImportKeepsRecord ==
  [][(mapExists' /\ run'.cmd # "add-bte") => Recorded(mapFile) \subseteq Recorded(mapFile')]_mapFile

\* At every commit of a replace run, each handle that named an item still
\* names one: the old item or its replacement.
Handles(items) == {x.handle : x \in items} \ {None}
HandlesKept == run.cmd = "replace" => Handles(disk) \subseteq Handles(disk')

\* So it is when nothing is validated or sent to the workflow, and when no BTE
\* import passed over a handle file that an earlier replace left.
ReplaceKeepsHandles ==
  [][(Archiving /\ \A o \in Options : o.cmd # "add-bte" /\ (o.cmd = "replace" => o.large))
        => HandlesKept]_disk

\* A transactional run changes the database in one step, in which it succeeds
\* and every directory of the run got its new item, or every entry of the
\* mapfile lost its archived item.
TransactionStep ==
  (run.transactional /\ pc # "off") =>
    /\ outcome' = "ok"
    /\ \A d \in batch :
         IF run.cmd = "delete"
         THEN \A x \in Named(mapFile[d], disk') : x.place # "archive"
         ELSE \E x \in disk' \ disk : x.dir = d

AllOrNothing == [][TransactionStep]_disk

\* After a delete run that succeeds no item of the mapfile is left.
DeleteRemovesAll ==
  (Archiving /\ outcome = "ok" /\ run.cmd = "delete" /\ ~run.test) =>
     \A d \in batch : mapFile[d] # None => Named(mapFile[d], disk) = {}

\* A run that was started ends.
RunEnds == (pc # "off") ~> (pc = "off")

\* Claimed: "it is safe to do a delete as any error results in an aborted
\* transaction without harming the original item" (ItemImport.java:784-785).
ReplaceHarmsNothing == [][HandlesKept]_disk

\* Claimed: "use --resume if attempting to resume an aborted import"
\* (ItemImport.java:384).
ResumeCompletes == AllImported
=============================================================================
