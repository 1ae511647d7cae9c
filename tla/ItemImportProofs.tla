--------------------------- MODULE ItemImportProofs ---------------------------
(* Proofs about ItemImport for every set of directories and ids, all command *)
(* lines and mishaps.                                                       *)
EXTENDS ItemImport, FiniteSetTheorems, TLAPS

USE ImportAssumption DEF Options, Faults

\* The next id of the sequence was not used before.
LEMMA FreshIsUnused == FreshIds \subseteq Ids \ used
  BY DEF FreshIds

\* A run starts from the mapfile as it is or from an empty one, and merging
\* two mapfiles gives a mapfile.
LEMMA MergeType ==
  ASSUME NEW old \in [Dirs -> Refs \cup {None}], NEW more \in [Dirs -> Refs \cup {None}]
  PROVE  Merge(old, more) \in [Dirs -> Refs \cup {None}]
  BY DEF Merge

LEMMA NoLinesType == NoLines \in [Dirs -> Refs \cup {None}]
  BY DEF NoLines

\* The record of a new item is an item.
LEMMA NewItemType ==
  ASSUME TypeOK, NEW d \in Dirs, NEW i \in Ids, NEW p \in Places,
         NEW hf \in [Dirs -> Refs \cup {None}]
  PROVE  NewItem(d, i, p, hf) \in Items
  <1>1. p \in {"archive", "workflow"}
    BY DEF Places
  <1>2. Handle(i) \in Refs
    BY DEF Handle, Refs
  <1>3. HandleFor(d, i, p, hf) \in Refs \cup {None}
    BY <1>2 DEF HandleFor, HandleFile
  <1>4. valid[d] \in BOOLEAN
    BY DEF TypeOK
  <1>. QED
    BY <1>1, <1>3, <1>4 DEF NewItem, Items

-----------------------------------------------------------------------------
\* What is true between the steps of addItem: the item it works on is in the
\* transaction under the fresh id `new`, built from `cur`, and has a handle
\* unless the workflow got it.  Ids are used before an item carries them.
Building ==
  /\ pc \in {"built", "commit", "flush"} => cur \in Dirs
  /\ (pc \in {"built", "commit"} /\ ~run.test) =>
       /\ new \in Ids
       /\ \E x \in work : x.id = new
       /\ \A x \in work : x.id = new => x.dir = cur /\ (run.workflow \/ x.handle # None)
  /\ \A x \in work \cup history : x.id \in used
  /\ disk \subseteq history
  /\ pc = "off" => work = disk
  /\ run \in Options

IInv == TypeOK /\ Building

\* Building an item on top of part of the database.
LEMMA BuildStep ==
  ASSUME IInv, NEW d \in Dirs, NEW items \in SUBSET work,
         NEW hf \in [Dirs -> Refs \cup {None}], Build(d, items, hf)
  PROVE  /\ work' \subseteq Items /\ used' \subseteq Ids /\ used \subseteq used'
         /\ cur' \in Dirs /\ new' \in Ids \cup {None} /\ pc' = "built"
         /\ \A x \in work' : x.id \in used'
         /\ ~run.test =>
              /\ new' \in Ids
              /\ \E x \in work' : x.id = new'
              /\ \A x \in work' : x.id = new' =>
                    x.dir = cur' /\ (run.workflow \/ x.handle # None)
  <1>1. items \subseteq Items /\ used \subseteq Ids /\ \A x \in items : x.id \in used
    BY DEF IInv, TypeOK, Building
  <1>2. CASE run.test
    <2>1. cur' = d /\ pc' = "built" /\ new' = None /\ work' = items /\ used' = used
      BY <1>2 DEF Build
    <2>. QED
      BY <1>1, <1>2, <2>1
  <1>3. CASE ~run.test
    <2>1. PICK i \in Ids \ used, p \in Places :
            /\ new' = i /\ used' = used \cup {i}
            /\ work' = items \cup {NewItem(d, i, p, hf)}
      BY <1>3, FreshIsUnused DEF Build
    <2>2. NewItem(d, i, p, hf) \in Items
      BY NewItemType DEF IInv
    <2>3. /\ NewItem(d, i, p, hf).id = i /\ NewItem(d, i, p, hf).dir = d
          /\ NewItem(d, i, p, hf).handle = HandleFor(d, i, p, hf)
      BY DEF NewItem
    <2>4. run.workflow \/ HandleFor(d, i, p, hf) # None
      <3>1. Handle(i) # None
        BY DEF Handle, Refs
      <3>. QED
        BY <3>1 DEF HandleFor, Places
    <2>. QED
      BY <1>1, <2>1, <2>2, <2>3, <2>4 DEF Build
  <1>. QED
    BY <1>2, <1>3

\* The line printed for the item just built.
LEMMA LineType ==
  ASSUME IInv, pc = "built", WritesMap(run)
  PROVE  Line \in Refs
  <1>1. PICK x \in work : x.id = new
    BY DEF IInv, Building, WritesMap
  <1>2. /\ (CHOOSE y \in work : y.id = new) \in work
        /\ (CHOOSE y \in work : y.id = new).id = new
    BY <1>1
  <1>3. ~run.workflow => (CHOOSE y \in work : y.id = new).handle # None
    BY <1>2 DEF IInv, Building, WritesMap
  <1>. QED
    BY <1>2, <1>3 DEF Line, IdRef, Refs, IInv, Building, TypeOK, Items, WritesMap
-----------------------------------------------------------------------------
LEMMA CommandLineType ==
  ASSUME NEW o \in CommandLines
  PROVE  /\ o.cmd \in Adds \cup {"replace", "delete"}
         /\ o.test \in BOOLEAN /\ o.resume \in BOOLEAN /\ o.workflow \in BOOLEAN
         /\ o.large \in BOOLEAN /\ o.transactional \in BOOLEAN /\ o.perItem \in BOOLEAN
  BY DEF CommandLines

LEMMA HandleFileType ==
  ASSUME IInv, NEW d \in Dirs
  PROVE  WriteHandle(d) \in [Dirs -> Refs \cup {None}]
  BY DEF WriteHandle, IInv, TypeOK

LEMMA AfterDeleteSubset == ASSUME NEW d \in Dirs PROVE AfterDelete(d) \subseteq work
  BY DEF AfterDelete, Without

\* The initial states satisfy the invariant.
LEMMA InitIInv == Init => IInv
  <1>. SUFFICES ASSUME Init PROVE IInv
    OBVIOUS
  <1>1. run \in CommandLines /\ runs \in 0 .. MaxRuns
    BY DEF Init
  <1>2. TypeOK
    BY <1>1, NoLinesType DEF Init, TypeOK
  <1>3. Building
    BY DEF Init, Building
  <1>. QED
    BY <1>2, <1>3 DEF IInv

\* The circumstances do not change.
LEMMA SameWorld == [Next]_vars => world' = world
  BY DEF Next, Importer, Environment, vars, db, files, job, AddItem, AddItemFails, ReplaceItem,
     ReplaceFails, DeleteEntry, DeleteFails, PrintLine, CommitItem, CommitFails, FlushLine,
     RejectItem, Finish, Complete, CompleteFails, Abort, RealComplete, RealAbort, Start, Crash,
     DiscardMapfile, EditMetadata, Approve

\* Every step keeps it.
LEMMA NextIInv == IInv /\ [Next]_vars => IInv'
  <1>. SUFFICES ASSUME IInv, [Next]_vars PROVE IInv'
    OBVIOUS
  <1>. USE DEF IInv
  <1>0. CASE UNCHANGED vars
    BY <1>0 DEF vars, db, files, job, TypeOK, Building
  <1>1. ASSUME NEW d \in Dirs, AddItem(d) PROVE IInv'
    <2>1. Build(d, work, handleFile)
      BY <1>1 DEF AddItem
    <2>2. handleFile \in [Dirs -> Refs \cup {None}]
      BY DEF TypeOK
    <2>. QED
      BY <1>1, <2>1, <2>2, BuildStep DEF AddItem, TypeOK, Building, files, job
  <1>2. ASSUME NEW d \in Dirs, AddItemFails(d) PROVE IInv'
    BY <1>2 DEF AddItemFails, TypeOK, Building, db, files, job
  <1>3. ASSUME NEW d \in Dirs, ReplaceItem(d) PROVE IInv'
    <2>1. Build(d, AfterDelete(d), WriteHandle(d)) /\ handleFile' = WriteHandle(d)
      BY <1>3 DEF ReplaceItem
    <2>2. WriteHandle(d) \in [Dirs -> Refs \cup {None}] /\ AfterDelete(d) \in SUBSET work
      BY HandleFileType, AfterDeleteSubset
    <2>. QED
      BY <1>3, <2>1, <2>2, BuildStep DEF ReplaceItem, TypeOK, Building, job
  <1>4. ASSUME NEW d \in Dirs, ReplaceFails(d) PROVE IInv'
    BY <1>4, HandleFileType DEF ReplaceFails, TypeOK, Building, db, job
  <1>5. ASSUME NEW d \in Dirs, DeleteEntry(d) PROVE IInv'
    BY <1>5, AfterDeleteSubset DEF DeleteEntry, TypeOK, Building, files, job
  <1>6. ASSUME NEW d \in Dirs, DeleteFails(d) PROVE IInv'
    BY <1>6 DEF DeleteFails, TypeOK, Building, db, files, job
  <1>7. CASE PrintLine
    <2>1. WritesMap(run) => Line \in Refs /\ cur \in Dirs
      BY <1>7, LineType DEF PrintLine, Building
    <2>2. mapFile' \in [Dirs -> Refs \cup {None}] /\ mapBuf' \in [Dirs -> Refs \cup {None}]
      BY <1>7, <2>1, MergeType, NoLinesType DEF PrintLine, TypeOK
    <2>. QED
      BY <1>7, <2>2 DEF PrintLine, TypeOK, Building, db, job
  <1>8. CASE CommitItem
    BY <1>8 DEF CommitItem, Commit, TypeOK, Building, files, job
  <1>9. CASE CommitFails
    BY <1>9 DEF CommitFails, TypeOK, Building, db, files, job
  <1>10. CASE FlushLine
    <2>1. mapFile' \in [Dirs -> Refs \cup {None}] /\ mapBuf' \in [Dirs -> Refs \cup {None}]
      BY <1>10, MergeType, NoLinesType DEF FlushLine, TypeOK
    <2>. QED
      BY <1>10, <2>1 DEF FlushLine, Rest, TypeOK, Building, db, job
  <1>11. CASE RejectItem
    <2>1. work' \subseteq work
      BY <1>11 DEF RejectItem, Without
    <2>2. disk' \subseteq work \cup disk /\ history' \subseteq history \cup work
          /\ disk' \subseteq history' /\ history \subseteq history'
      BY <1>11, <2>1 DEF RejectItem, Commit, Building
    <2>. QED
      BY <1>11, <2>1, <2>2 DEF RejectItem, TypeOK, Building, files, job
  <1>12. CASE Finish \/ Abort
    <2>1. mapFile' \in [Dirs -> Refs \cup {None}] /\ mapBuf' \in [Dirs -> Refs \cup {None}]
      BY <1>12, MergeType, NoLinesType DEF Finish, Abort, CloseMap, TypeOK
    <2>. QED
      BY <1>12, <2>1 DEF Finish, Abort, TypeOK, Building, db, job
  <1>13. CASE Complete
    BY <1>13 DEF Complete, Commit, TypeOK, Building, files, job
  <1>14. CASE CompleteFails
    BY <1>14 DEF CompleteFails, TypeOK, Building, db, files, job
  <1>15. CASE RealComplete \/ RealAbort
    BY <1>15 DEF RealComplete, RealAbort, TypeOK, Building, files, job
  <1>16. ASSUME NEW o \in Options, Start(o) PROVE IInv'
    <2>1. mapFile' \in [Dirs -> Refs \cup {None}] /\ mapBuf' \in [Dirs -> Refs \cup {None}]
      BY <1>16, NoLinesType DEF Start, Opened, TypeOK
    <2>2. Pending(o) \subseteq Dirs
      BY DEF Pending, Recorded
    <2>3. o \in CommandLines /\ runs' \in 0 .. MaxRuns
      BY <1>16 DEF Start, TypeOK
    <2>. QED
      BY <1>16, <2>1, <2>2, <2>3 DEF Start, TypeOK, Building, db
  <1>17. CASE Crash
    BY <1>17, NoLinesType DEF Crash, TypeOK, Building, job
  <1>18. CASE DiscardMapfile
    BY <1>18, NoLinesType DEF DiscardMapfile, TypeOK, Building, db, job
  <1>19. ASSUME NEW d \in Dirs, EditMetadata(d) PROVE IInv'
    BY <1>19 DEF EditMetadata, TypeOK, Building, db, files, job
  <1>20. ASSUME NEW x \in disk, Approve(x) PROVE IInv'
    <2>. DEFINE y == [x EXCEPT !.place = "archive", !.handle = Handle(x.id)]
    <2>1. x \in Items /\ x.id \in used
      BY DEF TypeOK, Building
    <2>2. y \in Items /\ y.id = x.id
      BY <2>1 DEF Items, Refs, Handle
    <2>3. disk' = (disk \ {x}) \cup {y} /\ work' = disk' /\ history' = history \cup disk'
      BY <1>20 DEF Approve
    <2>. QED
      BY <1>20, <2>1, <2>2, <2>3 DEF Approve, TypeOK, Building, files, job
  <1>. QED
    BY <1>0, <1>1, <1>2, <1>3, <1>4, <1>5, <1>6, <1>7, <1>8, <1>9, <1>10, <1>11, <1>12,
       <1>13, <1>14, <1>15, <1>16, <1>17, <1>18, <1>19, <1>20
       DEF Next, Importer, Environment

\* The state of the importer, the database and its files always has the
\* shape the code gives it, and while addItem works on an item the
\* transaction holds that item.
THEOREM TypeCorrect == Spec => []TypeOK
  <1>1. IInv => TypeOK
    BY DEF IInv
  <1>. QED
    BY <1>1, InitIInv, NextIInv, PTL DEF Spec

-----------------------------------------------------------------------------
(* RecordedWasCommitted, when each item is committed on its own and no      *)
(* commit fails.  The line of an item is printed before its commit, so the  *)
(* invariant follows a line from the buffer, where the item is only in the  *)
(* transaction, to the file, where it was committed.  A line of a replaced  *)
(* item can name a database id as its handle; then the id came from the     *)
(* directory's handle file, whose line was once one of the mapfile.         *)

Backed(lines, items) ==
  \A d \in Recorded(lines) : \E x \in Named(lines[d], items) : x.dir = d

Provenance ==
  /\ Backed(mapFile, history)
  /\ Backed(handleFile, history)
  /\ \A x \in work \cup history :
       (x.handle # None /\ x.handle.kind = "id") =>
          \E y \in history : y.id = x.handle.no /\ y.dir = x.dir
  /\ (pc \notin {"commit", "flush"} \/ ~WritesMap(run)) => mapBuf = NoLines
  /\ pc = "commit" => Backed(mapBuf, work \cup history)
  /\ pc = "flush" => Backed(mapBuf, history)

LEMMA BackedMonotone ==
  ASSUME NEW lines, NEW items, NEW more, items \subseteq more, Backed(lines, items)
  PROVE  Backed(lines, more)
  BY DEF Backed, Named

LEMMA BackedMerge ==
  ASSUME NEW old, NEW more, NEW items, Backed(old, items), Backed(more, items)
  PROVE  Backed(Merge(old, more), items)
  BY DEF Backed, Merge, Recorded

LEMMA BackedNoLines == ASSUME NEW items PROVE Backed(NoLines, items)
  BY DEF Backed, NoLines, Recorded

\* The line printed names an item of the transaction, or one committed before,
\* that came from the current directory.
LEMMA LineBacked ==
  ASSUME IInv, Provenance, pc = "built", WritesMap(run)
  PROVE  \E x \in Named(Line, work \cup history) : x.dir = cur
  <1>. DEFINE y == CHOOSE x \in work : x.id = new
  <1>1. y \in work /\ y.id = new
    <2>1. \E x \in work : x.id = new
      BY DEF IInv, Building, WritesMap
    <2>. QED
      BY <2>1
  <1>2. y.dir = cur /\ (run.workflow \/ y.handle # None)
    BY <1>1 DEF IInv, Building, WritesMap
  <1>3. CASE run.workflow
    <2>1. Line = IdRef(new)
      BY <1>3 DEF Line
    <2>2. y \in Named(Line, work \cup history)
      BY <1>1, <2>1 DEF Named, IdRef
    <2>. QED
      BY <1>2, <2>2
  <1>4. CASE ~run.workflow
    <2>1. Line = y.handle /\ y.handle # None
      BY <1>2, <1>4 DEF Line
    <2>2. CASE y.handle.kind = "id"
      BY <1>1, <1>2, <2>1, <2>2 DEF Provenance, Named
    <2>3. CASE y.handle.kind # "id"
      BY <1>1, <1>2, <2>1, <2>3 DEF Named
    <2>. QED
      BY <2>2, <2>3
  <1>. QED
    BY <1>3, <1>4

\* The item built carries an id as its handle only if the handle file says so.
LEMMA BuildProvenance ==
  ASSUME IInv, Provenance, NEW d \in Dirs, NEW items \in SUBSET work,
         NEW hf \in [Dirs -> Refs \cup {None}], Backed(hf, history), Build(d, items, hf)
  PROVE  \A x \in work' :
            (x.handle # None /\ x.handle.kind = "id") =>
               \E y \in history : y.id = x.handle.no /\ y.dir = x.dir
  <1>1. CASE run.test
    BY <1>1 DEF Build, Provenance
  <1>2. CASE ~run.test
    <2>1. PICK i \in Ids \ used, p \in Places :
            work' = items \cup {NewItem(d, i, p, hf)}
      BY <1>2, FreshIsUnused DEF Build
    <2>. DEFINE z == NewItem(d, i, p, hf)
    <2>2. z.dir = d /\ z.handle = HandleFor(d, i, p, hf)
      BY DEF NewItem
    <2>3. Handle(i).kind = "handle"
      BY DEF Handle
    <2>4. (z.handle # None /\ z.handle.kind = "id") => z.handle = hf[d]
      BY <2>2, <2>3 DEF HandleFor, HandleFile
    <2>5. (z.handle # None /\ z.handle.kind = "id") =>
             \E y \in history : y.id = z.handle.no /\ y.dir = z.dir
      BY <2>2, <2>4 DEF Backed, Recorded, Named
    <2>. QED
      BY <2>1, <2>5 DEF Provenance
  <1>. QED
    BY <1>1, <1>2

LEMMA WriteHandleBacked ==
  ASSUME IInv, Provenance, NEW d \in Dirs
  PROVE  Backed(WriteHandle(d), history)
  BY DEF Provenance, IInv, TypeOK, WriteHandle, Backed, Recorded

LEMMA NextProvenance ==
  ASSUME CommitsForReal, IInv, Provenance, [Next]_vars
  PROVE  Provenance'
  <1>. USE BackedNoLines
  <1>t. ~run.transactional
    BY DEF CommitsForReal, IInv, Building
  <1>0. CASE UNCHANGED vars
    BY <1>0 DEF vars, db, files, job, Provenance, Backed, Recorded, Named
  <1>1. ASSUME NEW d \in Dirs, AddItem(d) PROVE Provenance'
    <2>1. Build(d, work, handleFile) /\ handleFile \in [Dirs -> Refs \cup {None}]
      BY <1>1 DEF AddItem, IInv, TypeOK
    <2>2. pc = "loop" /\ pc' = "built"
      BY <1>1, <2>1 DEF AddItem, Build
    <2>3. history' = history /\ mapFile' = mapFile /\ handleFile' = handleFile /\ mapBuf' = mapBuf
      BY <1>1 DEF AddItem, files
    <2>4. \A x \in work' :
            (x.handle # None /\ x.handle.kind = "id") =>
               \E y \in history : y.id = x.handle.no /\ y.dir = x.dir
      BY <2>1, BuildProvenance DEF Provenance
    <2>. QED
      BY <2>2, <2>3, <2>4 DEF Provenance
  <1>3. ASSUME NEW d \in Dirs, ReplaceItem(d) PROVE Provenance'
    <2>1. /\ Build(d, AfterDelete(d), WriteHandle(d)) /\ AfterDelete(d) \in SUBSET work
          /\ WriteHandle(d) \in [Dirs -> Refs \cup {None}] /\ Backed(WriteHandle(d), history)
      BY <1>3, AfterDeleteSubset, HandleFileType, WriteHandleBacked DEF ReplaceItem
    <2>2. pc = "loop" /\ pc' = "built"
      BY <1>3, <2>1 DEF ReplaceItem, Build
    <2>3. /\ history' = history /\ mapFile' = mapFile /\ mapBuf' = mapBuf
          /\ handleFile' = WriteHandle(d)
      BY <1>3 DEF ReplaceItem
    <2>4. \A x \in work' :
            (x.handle # None /\ x.handle.kind = "id") =>
               \E y \in history : y.id = x.handle.no /\ y.dir = x.dir
      BY <2>1, BuildProvenance
    <2>. QED
      BY <2>1, <2>2, <2>3, <2>4 DEF Provenance
  <1>4. ASSUME NEW d \in Dirs, AddItemFails(d) \/ ReplaceFails(d) \/ DeleteFails(d)
        PROVE  Provenance'
    <2>1. Backed(handleFile', history)
      BY <1>4, WriteHandleBacked DEF AddItemFails, ReplaceFails, DeleteFails, files, Provenance
    <2>2. /\ pc = "loop" /\ pc' = "failed" /\ work' = work /\ history' = history
          /\ mapFile' = mapFile /\ mapBuf' = mapBuf
      BY <1>4 DEF AddItemFails, ReplaceFails, DeleteFails, files, db
    <2>. QED
      BY <2>1, <2>2 DEF Provenance
  <1>5. ASSUME NEW d \in Dirs, DeleteEntry(d) PROVE Provenance'
    <2>1. /\ pc = "loop" /\ pc' = pc /\ work' \subseteq work /\ history' = history
          /\ mapFile' = mapFile /\ mapBuf' = mapBuf /\ handleFile' = handleFile
      BY <1>5, AfterDeleteSubset DEF DeleteEntry, files
    <2>. QED
      BY <2>1 DEF Provenance
  <1>7. CASE PrintLine
    <2>1. /\ pc = "built" /\ pc' = "commit" /\ work' = work /\ history' = history
          /\ handleFile' = handleFile /\ mapBuf = NoLines /\ mapFile' = mapFile
          /\ run' = run
      BY <1>7, <1>t DEF PrintLine, Provenance, db, job
    <2>2. CASE ~WritesMap(run)
      BY <1>7, <2>1, <2>2 DEF PrintLine, Provenance
    <2>3. CASE WritesMap(run)
      <3>1. mapBuf' = [NoLines EXCEPT ![cur] = Line]
        BY <1>7, <1>t, <2>1, <2>3 DEF PrintLine
      <3>2. \A d \in Recorded(mapBuf') : d = cur /\ mapBuf'[d] = Line
        BY <3>1 DEF Recorded, NoLines
      <3>3. Backed(mapBuf', work \cup history)
        BY <2>1, <2>3, <3>2, LineBacked DEF Backed
      <3>. QED
        BY <2>1, <2>3, <3>3 DEF Provenance, WritesMap
    <2>. QED
      BY <2>2, <2>3
  <1>8. CASE CommitItem
    <2>1. /\ pc = "commit" /\ pc' = "flush" /\ work' = work /\ history' = history \cup work
          /\ mapFile' = mapFile /\ mapBuf' = mapBuf /\ handleFile' = handleFile
          /\ run' = run
      BY <1>8, <1>t DEF CommitItem, Commit, files, job
    <2>2. /\ Backed(mapFile, history') /\ Backed(handleFile, history') /\ Backed(mapBuf, history')
      BY <2>1, BackedMonotone DEF Provenance
    <2>. QED
      BY <2>1, <2>2 DEF Provenance
  <1>10. CASE FlushLine
    <2>1. /\ pc = "flush" /\ pc' = "loop" /\ work' = work /\ history' = history
          /\ handleFile' = handleFile
      BY <1>10 DEF FlushLine, db
    <2>2. CASE WritesMap(run)
      BY <1>10, <1>t, <2>1, <2>2, BackedMerge DEF FlushLine, Provenance
    <2>3. CASE ~WritesMap(run)
      BY <1>10, <2>1, <2>3 DEF FlushLine, Provenance
    <2>. QED
      BY <2>2, <2>3
  <1>11. CASE RejectItem
    <2>1. work' \subseteq work
      BY <1>11 DEF RejectItem, Without
    <2>2. /\ pc = "built" /\ pc' = "failed" /\ history \subseteq history'
          /\ history' \subseteq history \cup work
          /\ mapFile' = mapFile /\ mapBuf' = mapBuf /\ handleFile' = handleFile
      BY <1>11, <1>t, <2>1 DEF RejectItem, Commit, files
    <2>3. Backed(mapFile, history') /\ Backed(handleFile, history')
      BY <2>2, BackedMonotone DEF Provenance
    <2>. QED
      BY <2>1, <2>2, <2>3 DEF Provenance
  <1>12. CASE Finish \/ Abort
    <2>1. /\ mapBuf = NoLines /\ handleFile' = handleFile /\ work' \in {work, disk}
          /\ history' = history /\ pc' \notin {"commit", "flush"}
      BY <1>12, <1>t DEF Finish, Abort, Provenance, db
    <2>2. /\ Backed(mapFile', history) /\ mapBuf' = NoLines
      BY <1>12, <2>1, BackedMerge DEF Finish, Abort, CloseMap, Provenance
    <2>3. disk \subseteq history
      BY DEF IInv, Building
    <2>. QED
      BY <2>1, <2>2, <2>3 DEF Provenance
  <1>13. CASE Complete \/ RealComplete
    <2>1. /\ mapBuf = NoLines /\ handleFile' = handleFile /\ mapFile' = mapFile /\ mapBuf' = mapBuf
          /\ work' = work /\ history' = history \cup work /\ pc' = "off"
      BY <1>13, <1>t DEF Complete, RealComplete, Commit, Provenance, files
    <2>2. Backed(mapFile, history') /\ Backed(handleFile, history')
      BY <2>1, BackedMonotone DEF Provenance
    <2>. QED
      BY <2>1, <2>2 DEF Provenance
  <1>14. CASE CommitFails \/ CompleteFails
    BY <1>14 DEF CommitFails, CompleteFails, CommitsForReal
  <1>15. CASE RealAbort \/ Crash
    <2>1. /\ mapBuf' = NoLines /\ handleFile' = handleFile /\ mapFile' = mapFile
          /\ work' = disk /\ history' = history /\ pc' = "off"
      BY <1>15 DEF RealAbort, Crash, Provenance, files
    <2>2. disk \subseteq history
      BY DEF IInv, Building
    <2>. QED
      BY <2>1, <2>2 DEF Provenance
  <1>16. ASSUME NEW o \in Options, Start(o) PROVE Provenance'
    <2>1. /\ mapBuf' = NoLines /\ handleFile' = handleFile /\ mapFile' \in {mapFile, NoLines}
          /\ work' = work /\ history' = history /\ pc' = "loop"
      BY <1>16 DEF Start, Opened, db
    <2>. QED
      BY <2>1 DEF Provenance
  <1>18. CASE DiscardMapfile
    BY <1>18 DEF DiscardMapfile, Provenance, db
  <1>19. ASSUME NEW d \in Dirs, EditMetadata(d) PROVE Provenance'
    BY <1>19 DEF EditMetadata, Provenance, db, files, job, WritesMap
  <1>20. ASSUME NEW x \in disk, Approve(x) PROVE Provenance'
    <2>. DEFINE y == [x EXCEPT !.place = "archive", !.handle = Handle(x.id)]
    <2>1. disk' = (disk \ {x}) \cup {y} /\ work' = disk' /\ history' = history \cup disk'
      BY <1>20 DEF Approve
    <2>2. y.handle.kind = "handle"
      <3>1. x \in Items
        BY DEF IInv, TypeOK
      <3>. QED
        BY <3>1 DEF Items, Handle
    <2>3. disk \subseteq history /\ history \subseteq history'
      BY <2>1 DEF IInv, Building
    <2>4. /\ pc = "off" /\ pc' = pc /\ mapBuf' = mapBuf /\ mapFile' = mapFile
          /\ handleFile' = handleFile
      BY <1>20 DEF Approve, files
    <2>5. Backed(mapFile, history') /\ Backed(handleFile, history')
      BY <2>3, BackedMonotone DEF Provenance
    <2>6. mapBuf = NoLines
      BY <2>4 DEF Provenance
    <2>7. \A z \in work' \cup history' : z \in history \/ z = y
      BY <2>1, <2>3
    <2>. QED
      BY <2>2, <2>3, <2>4, <2>5, <2>6, <2>7 DEF Provenance
  <1>. QED
    BY <1>0, <1>1, <1>3, <1>4, <1>5, <1>7, <1>8, <1>10, <1>11, <1>12, <1>13, <1>14, <1>15,
       <1>16, <1>18, <1>19, <1>20 DEF Next, Importer, Environment

\* Each line of the mapfile names an item that was committed from that
\* directory, so --resume passes over nothing that is not there and --delete
\* looks for nothing that never was; crashes and exceptions included.
THEOREM MapfileIsTrue == Spec => []RecordedWasCommitted
  <1>. DEFINE PInv == CommitsForReal => Provenance
  <1>1. Init => PInv
    BY BackedNoLines DEF Init, Provenance
  <1>2. IInv /\ PInv /\ [Next]_vars => PInv'
    BY SameWorld, NextProvenance DEF CommitsForReal
  <1>3. PInv => RecordedWasCommitted
    BY DEF Provenance, Backed, RecordedWasCommitted
  <1>. HIDE DEF PInv
  <1>. QED
    BY <1>1, <1>2, <1>3, InitIInv, NextIInv, PTL DEF Spec

-----------------------------------------------------------------------------
(* The ids and handles of two directories never get mixed up: of a number    *)
(* that an item, a line of the mapfile or a handle file carries, the         *)
(* directory is known, since every new item gets a number of its own.        *)

Carries(d, k) ==
  \/ \E x \in work \cup disk :
       x.dir = d /\ (x.id = k \/ (x.handle # None /\ x.handle.no = k))
  \/ \E ref \in {mapFile[d], mapBuf[d], handleFile[d]} : ref # None /\ ref.no = k

Apart ==
  \A d \in Dirs : \A k \in Ids :
    Carries(d, k) => k \in used /\ \A e \in Dirs : Carries(e, k) => d = e

\* A step that hands out one new number, or none, keeps them apart.
LEMMA ApartGrows ==
  ASSUME Apart, NEW d \in Dirs, NEW i \in Ids \ used, used' = used \cup {i},
         \A e \in Dirs : \A k \in Ids : Carries(e, k)' => Carries(e, k) \/ (e = d /\ k = i)
  PROVE  Apart'
  <1>1. SUFFICES ASSUME NEW e \in Dirs, NEW k \in Ids, Carries(e, k)'
                 PROVE  k \in used' /\ \A f \in Dirs : Carries(f, k)' => e = f
    BY DEF Apart
  <1>2. CASE k = i
    <2>1. \A f \in Dirs : ~Carries(f, i)
      BY DEF Apart
    <2>. QED
      BY <1>1, <1>2, <2>1
  <1>3. CASE k # i
    BY <1>1, <1>3 DEF Apart
  <1>. QED
    BY <1>2, <1>3

LEMMA ApartStays ==
  ASSUME Apart, used' = used,
         \A e \in Dirs : \A k \in Ids : Carries(e, k)' => Carries(e, k)
  PROVE  Apart'
  BY DEF Apart

\* Numbers are passed on between the files and the two views of the database.
LEMMA ApartPassedOn ==
  ASSUME Apart, used' = used, work' \cup disk' \subseteq work \cup disk,
         \A d \in Dirs : {mapFile'[d], mapBuf'[d], handleFile'[d]}
                           \subseteq {mapFile[d], mapBuf[d], handleFile[d], None}
  PROVE  Apart'
  <1>1. \A e \in Dirs : \A k \in Ids : Carries(e, k)' => Carries(e, k)
    BY DEF Carries
  <1>. QED
    BY <1>1, ApartStays

LEMMA BuildApart ==
  ASSUME IInv, Apart, NEW d \in Dirs, NEW items \in SUBSET work,
         NEW hf, \A e \in Dirs : hf[e] \in {handleFile[e], mapFile[e]},
         Build(d, items, hf), handleFile' = hf, UNCHANGED <<disk, mapFile, mapBuf>>
  PROVE  Apart'
  <1>1. CASE run.test
    BY <1>1, ApartPassedOn DEF Build
  <1>2. CASE ~run.test
    <2>1. PICK i \in Ids \ used, p \in Places :
            used' = used \cup {i} /\ work' = items \cup {NewItem(d, i, p, hf)}
      BY <1>2, FreshIsUnused DEF Build
    <2>. DEFINE z == NewItem(d, i, p, hf)
    <2>2. z.id = i /\ z.dir = d /\ z.handle \in {None, Handle(i), hf[d]}
      BY DEF NewItem, HandleFor, HandleFile
    <2>3. Handle(i).no = i
      BY DEF Handle
    <2>. HIDE DEF z
    <2>4. ASSUME NEW e \in Dirs, NEW k \in Ids, Carries(e, k)'
          PROVE  Carries(e, k) \/ (e = d /\ k = i)
      <3>1. CASE \E x \in work' \cup disk' :
                    x.dir = e /\ (x.id = k \/ (x.handle # None /\ x.handle.no = k))
        <4>1. PICK x \in work' \cup disk' :
                     x.dir = e /\ (x.id = k \/ (x.handle # None /\ x.handle.no = k))
          BY <3>1
        <4>2. x = z \/ x \in work \cup disk
          BY <2>1 DEF z
        <4>3. CASE x \in work \cup disk
          BY <4>1, <4>3 DEF Carries
        <4>4. CASE x = z
          BY <2>2, <2>3, <4>1, <4>4 DEF Carries
        <4>. QED
          BY <4>2, <4>3, <4>4
      <3>2. CASE \E ref \in {mapFile'[e], mapBuf'[e], handleFile'[e]} : ref # None /\ ref.no = k
        BY <3>2 DEF Carries
      <3>. QED
        BY <2>4, <3>1, <3>2 DEF Carries
    <2>. QED
      BY <2>1, <2>4, ApartGrows
  <1>. QED
    BY <1>1, <1>2

\* The line printed carries a number of the item built.
LEMMA LineCarried ==
  ASSUME IInv, pc = "built", WritesMap(run)
  PROVE  Carries(cur, Line.no) /\ Line \in Refs
  <1>. DEFINE y == CHOOSE x \in work : x.id = new
  <1>1. y \in work /\ y.id = new
    <2>1. \E x \in work : x.id = new
      BY DEF IInv, Building, WritesMap
    <2>. QED
      BY <2>1
  <1>2. y.dir = cur /\ (run.workflow \/ y.handle # None)
    BY <1>1 DEF IInv, Building, WritesMap
  <1>3. Line = IF run.workflow THEN IdRef(new) ELSE y.handle
    BY DEF Line
  <1>. HIDE DEF y
  <1>. QED
    BY <1>1, <1>2, <1>3, LineType DEF Carries, IdRef

LEMMA NextApart ==
  ASSUME IInv, Apart, [Next]_vars
  PROVE  Apart'
  <1>n. \A d \in Dirs : NoLines[d] = None
    BY DEF NoLines
  <1>m. \A old, more : \A d \in Dirs : Merge(old, more)[d] \in {old[d], more[d]}
    BY DEF Merge
  <1>1. ASSUME NEW d \in Dirs, AddItem(d) PROVE Apart'
    <2>1. Build(d, work, handleFile) /\ UNCHANGED <<disk, mapFile, mapBuf, handleFile>>
      BY <1>1 DEF AddItem, files
    <2>. QED
      BY <2>1, BuildApart
  <1>2. ASSUME NEW d \in Dirs, ReplaceItem(d) PROVE Apart'
    <2>1. /\ Build(d, AfterDelete(d), WriteHandle(d)) /\ handleFile' = WriteHandle(d)
          /\ UNCHANGED <<disk, mapFile, mapBuf>>
      BY <1>2 DEF ReplaceItem
    <2>2. \A e \in Dirs : WriteHandle(d)[e] \in {handleFile[e], mapFile[e]}
      BY DEF WriteHandle, IInv, TypeOK
    <2>. QED
      BY <2>1, <2>2, AfterDeleteSubset, BuildApart
  <1>3. ASSUME NEW d \in Dirs, ReplaceFails(d) PROVE Apart'
    <2>1. \A e \in Dirs : handleFile'[e] \in {handleFile[e], mapFile[e]}
      BY <1>3 DEF ReplaceFails, WriteHandle, IInv, TypeOK
    <2>. QED
      BY <1>3, <2>1, ApartPassedOn DEF ReplaceFails, db
  <1>4. CASE PrintLine
    <2>1. CASE ~WritesMap(run)
      BY <1>4, <2>1, ApartPassedOn DEF PrintLine, db
    <2>2. CASE WritesMap(run)
      <3>1. /\ pc = "built" /\ work' = work /\ disk' = disk /\ used' = used
            /\ handleFile' = handleFile
            /\ \/ mapBuf' = [mapBuf EXCEPT ![cur] = Line] /\ mapFile' = mapFile
               \/ /\ mapFile' = Merge(mapFile, mapBuf)
                  /\ mapBuf' = [NoLines EXCEPT ![cur] = Line]
        BY <1>4, <2>2 DEF PrintLine, db
      <3>2. Carries(cur, Line.no) /\ cur \in Dirs
        BY <2>2, <3>1, LineCarried DEF IInv, Building
      <3>3. \A e \in Dirs : /\ mapFile'[e] \in {mapFile[e], mapBuf[e]}
                            /\ mapBuf'[e] \in {mapBuf[e], None} \/ (e = cur /\ mapBuf'[e] = Line)
        <4>1. mapBuf \in [Dirs -> Refs \cup {None}]
          BY DEF IInv, TypeOK
        <4>. QED
          BY <1>m, <1>n, <3>1, <4>1 DEF NoLines
      <3>4. \A e \in Dirs : \A k \in Ids : Carries(e, k)' => Carries(e, k)
        BY <3>1, <3>2, <3>3 DEF Carries
      <3>. QED
        BY <3>1, <3>4, ApartStays
    <2>. QED
      BY <2>1, <2>2
  <1>5. CASE FlushLine \/ Finish \/ Abort
    <2>1. \/ mapFile' = mapFile /\ mapBuf' = mapBuf
          \/ mapFile' = Merge(mapFile, mapBuf) /\ mapBuf' = NoLines
      BY <1>5 DEF FlushLine, Finish, Abort, CloseMap
    <2>2. /\ work' \in {work, disk} /\ disk' = disk /\ used' = used /\ handleFile' = handleFile
      BY <1>5 DEF FlushLine, Finish, Abort, db
    <2>. QED
      BY <1>m, <1>n, <2>1, <2>2, ApartPassedOn
  <1>6. CASE RejectItem
    BY <1>6, ApartPassedOn DEF RejectItem, Without, Commit, files
  <1>7. CASE \/ \E d \in Dirs : AddItemFails(d) \/ DeleteFails(d) \/ EditMetadata(d)
             \/ CommitFails \/ CompleteFails \/ UNCHANGED vars
    BY <1>7, ApartPassedOn
       DEF AddItemFails, DeleteFails, EditMetadata, CommitFails, CompleteFails, vars, db, files
  <1>8. ASSUME NEW d \in Dirs, DeleteEntry(d) PROVE Apart'
    BY <1>8, AfterDeleteSubset, ApartPassedOn DEF DeleteEntry, files
  <1>9. CASE CommitItem \/ Complete \/ RealComplete \/ RealAbort
    BY <1>9, ApartPassedOn DEF CommitItem, Complete, RealComplete, RealAbort, Commit, files
  <1>10. CASE Crash \/ DiscardMapfile \/ \E o \in Options : Start(o)
    <2>1. /\ mapFile' \in {mapFile, NoLines} /\ mapBuf' \in {mapBuf, NoLines}
          /\ handleFile' = handleFile /\ work' \in {work, disk} /\ disk' = disk /\ used' = used
      BY <1>10 DEF Crash, DiscardMapfile, Start, Opened, db
    <2>. QED
      BY <1>n, <2>1, ApartPassedOn
  <1>11. ASSUME NEW x \in disk, Approve(x) PROVE Apart'
    <2>. DEFINE y == [x EXCEPT !.place = "archive", !.handle = Handle(x.id)]
    <2>1. x \in Items
      BY DEF IInv, TypeOK
    <2>2. y.id = x.id /\ y.dir = x.dir /\ y.handle.no = x.id
      BY <2>1 DEF Items, Handle
    <2>3. /\ work' = (disk \ {x}) \cup {y} /\ disk' = work' /\ used' = used
          /\ UNCHANGED <<mapFile, mapBuf, handleFile>>
      BY <1>11 DEF Approve, files
    <2>. HIDE DEF y
    <2>4. \A e \in Dirs : \A k \in Ids : Carries(e, k)' => Carries(e, k)
      BY <2>2, <2>3 DEF Carries
    <2>. QED
      BY <2>3, <2>4, ApartStays
  <1>. QED
    BY <1>1, <1>2, <1>3, <1>4, <1>5, <1>6, <1>7, <1>8, <1>9, <1>10, <1>11
       DEF Next, Importer, Environment

LEMMA InitApart == Init => Apart
  BY DEF Init, Apart, Carries, NoLines

\* What a line names is of its directory, so that a replace of one directory leaves
\* the items of the others alone.
LEMMA NamesOwn ==
  ASSUME IInv, Apart, NEW d \in Recorded(mapFile), NEW x \in Named(mapFile[d], work)
  PROVE  x.dir = d
  <1>1. d \in Dirs /\ mapFile[d] \in Refs /\ mapFile[d] # None
    BY DEF Recorded, IInv, TypeOK
  <1>2. x \in work /\ (x.id = mapFile[d].no \/ x.handle = mapFile[d])
    BY DEF Named
  <1>3. mapFile[d].no \in Ids /\ x.dir \in Dirs
    BY <1>1, <1>2 DEF Refs, IInv, TypeOK, Items
  <1>4. Carries(d, mapFile[d].no) /\ Carries(x.dir, mapFile[d].no)
    BY <1>1, <1>2 DEF Carries
  <1>. QED
    BY <1>1, <1>3, <1>4 DEF Apart

-----------------------------------------------------------------------------
(* AllOrNothing.  The invariant counts the directories done: each has a new  *)
(* item in the transaction that is not in the database yet, or has lost its  *)
(* archived item there.                                                      *)

OnCourse ==
  /\ run.transactional
  /\ \/ pc \in {"loop", "built", "commit", "flush", "completing"}
     \/ pc = "closing" /\ ~aborted

Added(d) == \E x \in work \ disk : x.dir = d
Deleted(d) == \A x \in Named(mapFile[d], work) : x.place # "archive"

Progress ==
  OnCourse =>
    /\ pc \in {"completing", "closing"} => todo = {}
    /\ run.test => work = disk
    /\ run.cmd = "replace" => todo \subseteq Recorded(mapFile)
    /\ (~run.test /\ run.cmd # "delete") =>
          /\ \A d \in batch \ todo : Added(d)
          /\ pc \in {"built", "commit", "flush"} => Added(cur)
    /\ (~run.test /\ run.cmd = "delete") =>
          /\ \A d \in batch \ todo : Deleted(d)
          /\ pc \in {"loop", "completing", "closing"}

LEMMA AddsNotDelete == "delete" \notin Adds /\ "replace" \notin Adds
  BY DEF Adds

\* An item just built is not in the database.
LEMMA BuildAdds ==
  ASSUME IInv, NEW d \in Dirs, NEW items \in SUBSET work,
         NEW hf \in [Dirs -> Refs \cup {None}], Build(d, items, hf), ~run.test
  PROVE  items \subseteq work' /\ cur' = d /\ \E x \in work' \ disk : x.dir = d
  <1>1. PICK i \in Ids \ used, p \in Places : work' = items \cup {NewItem(d, i, p, hf)}
    BY FreshIsUnused DEF Build
  <1>2. NewItem(d, i, p, hf).id = i /\ NewItem(d, i, p, hf).dir = d
    BY DEF NewItem
  <1>3. \A x \in disk : x.id \in used
    BY DEF IInv, Building
  <1>. QED
    BY <1>1, <1>2, <1>3 DEF Build

\* What is deleted for one directory is not of another.
LEMMA DeletesOwn ==
  ASSUME IInv, Apart, NEW d \in Recorded(mapFile), NEW x \in work, x.dir # d
  PROVE  x \in AfterDelete(d)
  BY NamesOwn DEF AfterDelete, Without

LEMMA NextProgress ==
  ASSUME IInv, Apart, Progress, [Next]_vars
  PROVE  Progress'
  <1>. SUFFICES ASSUME OnCourse' PROVE Progress'
    BY DEF Progress
  <1>. USE DEF OnCourse, Added, Deleted
  <1>c. /\ run \in Options /\ run.cmd \in Adds \cup {"replace", "delete"}
    BY CommandLineType DEF IInv, TypeOK, Building
  <1>0. CASE UNCHANGED vars
    BY <1>0 DEF vars, db, files, job, Progress, Named, Recorded
  <1>1. ASSUME NEW d \in Dirs, AddItem(d) PROVE Progress'
    <2>1. /\ Build(d, work, handleFile) /\ handleFile \in [Dirs -> Refs \cup {None}]
          /\ pc = "loop" /\ run.cmd # "delete" /\ run.cmd # "replace"
          /\ todo' = todo /\ batch' = batch /\ disk' = disk /\ run' = run
      BY <1>1, AddsNotDelete DEF AddItem, IInv, TypeOK, job
    <2>2. pc' = "built"
      BY <2>1 DEF Build
    <2>3. CASE run.test
      BY <2>1, <2>2, <2>3 DEF Build, Progress
    <2>4. CASE ~run.test
      <3>1. work \subseteq work' /\ cur' = d /\ \E x \in work' \ disk : x.dir = d
        BY <2>1, <2>4, BuildAdds
      <3>. QED
        BY <2>1, <2>2, <2>4, <3>1 DEF Progress
    <2>. QED
      BY <2>3, <2>4
  <1>2. ASSUME NEW d \in Dirs, AddItemFails(d) \/ ReplaceFails(d) \/ DeleteFails(d)
        PROVE  Progress'
    BY <1>2 DEF AddItemFails, ReplaceFails, DeleteFails
  <1>3. ASSUME NEW d \in Dirs, ReplaceItem(d) PROVE Progress'
    <2>1. /\ Build(d, AfterDelete(d), WriteHandle(d)) /\ d \in todo
          /\ pc = "loop" /\ run.cmd = "replace" /\ run.cmd # "delete"
          /\ todo' = todo /\ batch' = batch /\ disk' = disk /\ run' = run
          /\ mapFile' = mapFile
      BY <1>3 DEF ReplaceItem, job
    <2>2. pc' = "built" /\ run.transactional
      BY <2>1 DEF Build
    <2>3. CASE run.test
      <3>1. work' = work
        BY <2>1, <2>3 DEF Build, AfterDelete
      <3>. QED
        BY <2>1, <2>2, <2>3, <3>1 DEF Progress, Recorded
    <2>4. CASE ~run.test
      <3>1. d \in Recorded(mapFile) /\ todo \subseteq Recorded(mapFile)
        BY <2>1, <2>2 DEF Progress
      <3>2. AfterDelete(d) \subseteq work' /\ cur' = d /\ \E x \in work' \ disk : x.dir = d
        BY <2>1, <2>4, AfterDeleteSubset, HandleFileType, BuildAdds
      <3>3. ASSUME NEW e \in batch \ todo PROVE \E x \in work' \ disk : x.dir = e
        <4>1. PICK x \in work \ disk : x.dir = e
          BY <2>1, <2>2, <2>4 DEF Progress
        <4>2. x \in AfterDelete(d)
          BY <2>1, <3>1, <4>1, DeletesOwn
        <4>. QED
          BY <3>2, <4>1, <4>2
      <3>. QED
        BY <2>1, <2>2, <2>4, <3>1, <3>2, <3>3 DEF Progress, Recorded
    <2>. QED
      BY <2>3, <2>4
  <1>5. ASSUME NEW d \in Dirs, DeleteEntry(d) PROVE Progress'
    <2>1. /\ pc = "loop" /\ pc' = "loop" /\ run.cmd = "delete" /\ run.cmd # "replace"
          /\ work' = AfterDelete(d) /\ todo' = todo \ {d} /\ batch' = batch
          /\ disk' = disk /\ run' = run /\ mapFile' = mapFile
      BY <1>5 DEF DeleteEntry, job, files
    <2>2. CASE run.test
      BY <2>1, <2>2 DEF AfterDelete, Progress
    <2>3. CASE ~run.test
      <3>1. work' = Without(work, Named(mapFile[d], work))
        BY <2>1, <2>3 DEF AfterDelete
      <3>2. \A x \in Named(mapFile[d], work') : x.place # "archive"
        BY <3>1 DEF Without, Named
      <3>3. \A e \in Dirs : Named(mapFile[e], work') \subseteq Named(mapFile[e], work)
        BY <3>1 DEF Without, Named
      <3>4. batch \subseteq Dirs
        BY DEF IInv, TypeOK
      <3>. QED
        BY <2>1, <2>3, <3>2, <3>3, <3>4 DEF Progress
    <2>. QED
      BY <2>2, <2>3
  <1>7. CASE PrintLine
    <2>1. run.cmd = "replace" => mapFile' = mapFile
      BY <1>7, AddsNotDelete DEF PrintLine, WritesMap
    <2>. QED
      BY <1>7, <2>1 DEF PrintLine, Progress, Recorded, db, job
  <1>8. CASE CommitItem
    BY <1>8 DEF CommitItem, Commit, Progress, Recorded, files, job
  <1>9. CASE CommitFails \/ CompleteFails \/ RejectItem
    BY <1>9 DEF CommitFails, CompleteFails, RejectItem
  <1>10. CASE FlushLine
    <2>1. run.cmd = "replace" => mapFile' = mapFile
      BY <1>10, AddsNotDelete DEF FlushLine, WritesMap
    <2>. QED
      BY <1>10, <2>1 DEF FlushLine, Rest, Progress, Recorded, db, job
  <1>12. CASE Finish
    <2>1. /\ pc = "loop" /\ pc' = "completing" /\ todo = {} /\ todo' = todo /\ batch' = batch
          /\ work' = work /\ disk' = disk /\ run' = run
      BY <1>12 DEF Finish, db, job
    <2>2. run.cmd = "delete" => mapFile' = mapFile
      BY <1>12, AddsNotDelete DEF Finish, CloseMap, WritesMap
    <2>. QED
      BY <2>1, <2>2 DEF Progress
  <1>13. CASE Complete
    <2>1. run.transactional
      BY <1>13 DEF Complete, job
    <2>. QED
      BY <1>13, <2>1 DEF Complete, Commit, Progress, Recorded, files, job
  <1>14. CASE Abort
    BY <1>14 DEF Abort, job
  <1>15. CASE RealComplete \/ RealAbort \/ Crash
    BY <1>15 DEF RealComplete, RealAbort, Crash
  <1>16. ASSUME NEW o \in Options, Start(o) PROVE Progress'
    <2>1. /\ pc = "off" /\ pc' = "loop" /\ todo' = batch' /\ work' = work /\ disk' = disk
          /\ run' = o /\ todo' = Pending(o)
      BY <1>16 DEF Start, db
    <2>2. work = disk
      BY <2>1 DEF IInv, Building
    <2>3. o.cmd = "replace" => todo' = Recorded(mapFile) /\ mapFile' = mapFile
      BY <1>16, <2>1, AddsNotDelete DEF Start, Pending, WritesMap
    <2>. QED
      BY <2>1, <2>2, <2>3 DEF Progress, Recorded
  <1>18. CASE DiscardMapfile \/ \E d \in Dirs : EditMetadata(d)
    BY <1>18 DEF DiscardMapfile, EditMetadata, IInv, Building
  <1>20. ASSUME NEW x \in disk, Approve(x) PROVE Progress'
    BY <1>20 DEF Approve
  <1>. QED
    BY <1>0, <1>1, <1>2, <1>3, <1>5, <1>7, <1>8, <1>9, <1>10, <1>12, <1>13, <1>14, <1>15,
       <1>16, <1>18, <1>20 DEF Next, Importer, Environment

\* A transactional import, replacement or deletion changes the database in one step,
\* and only when it did all it set out to do: whatever fails or crashes, and however
\* often commit, complete and abort are called on the way.
THEOREM TransactionalAllOrNothing == Spec => AllOrNothing
  <1>1. Init => Progress
    BY DEF Init, Progress, OnCourse
  <1>2. IInv /\ Apart /\ Progress /\ [Next]_vars => Apart' /\ Progress'
    BY NextApart, NextProgress
  <1>3. IInv /\ Progress /\ [Next]_vars => [TransactionStep]_disk
    <2>. SUFFICES ASSUME IInv, Progress, [Next]_vars, disk' # disk,
                         run.transactional, pc # "off"
                  PROVE  TransactionStep
      BY DEF TransactionStep
    <2>1. RealComplete
      BY DEF Next, Importer, Environment, vars, db, AddItem, AddItemFails, ReplaceItem,
         ReplaceFails, DeleteEntry, DeleteFails, PrintLine, CommitItem, CommitFails, FlushLine,
         RejectItem, Finish, Complete, CompleteFails, Abort, RealAbort, Start, Crash,
         DiscardMapfile, EditMetadata, Approve, Commit
    <2>2. /\ pc = "closing" /\ ~aborted /\ disk' = work /\ outcome' = "ok"
      BY <2>1 DEF RealComplete
    <2>3. ~run.test /\ todo = {}
      BY <2>2 DEF Progress, OnCourse
    <2>. QED
      BY <2>2, <2>3 DEF TransactionStep, Progress, OnCourse, Added, Deleted, Named
  <1>. QED
    BY <1>1, <1>2, <1>3, InitIInv, NextIInv, InitApart, PTL DEF Spec, AllOrNothing

-----------------------------------------------------------------------------
(* SuccessMeansImported, when each item is committed on its own and no      *)
(* commit fails: a directory leaves `todo` only after its commit, and one   *)
(* that a resumed run passes over has a line, which is true.                *)

Wanted == Dirs \ (IF run.perItem THEN NoCollection ELSE {})
Imported(d) == \E x \in history : x.dir = d

Covered ==
  /\ pc # "closing"
  /\ pc # "off" => outcome = "none"
  /\ pc = "completing" => todo = {}
  /\ (WritesMap(run) /\ pc \in {"loop", "built", "commit", "flush", "completing"}) =>
       \A d \in Wanted \ todo : Imported(d)
  /\ (WritesMap(run) /\ pc = "flush") => Imported(cur)
  /\ AllImported

LEMMA NextCovered ==
  ASSUME CommitsForReal, IInv, Provenance, Covered, [Next]_vars
  PROVE  Covered'
  <1>t. ~run.transactional /\ "commit" \notin Faults
    BY DEF CommitsForReal, IInv, Building
  <1>. USE DEF Wanted, Imported, WritesMap, AllImported
  <1>0. CASE UNCHANGED vars
    BY <1>0 DEF vars, db, files, job, Covered
  <1>1. ASSUME NEW d \in Dirs,
               AddItem(d) \/ AddItemFails(d) \/ ReplaceItem(d) \/ ReplaceFails(d) \/ DeleteFails(d)
        PROVE  Covered'
    <2>1. /\ pc = "loop" /\ pc' \in {"built", "failed"} /\ run' = run /\ history' = history
          /\ outcome' = outcome /\ todo' = todo
      BY <1>1 DEF AddItem, AddItemFails, ReplaceItem, ReplaceFails, DeleteFails, Build, db, job
    <2>. QED
      BY <2>1 DEF Covered
  <1>2. ASSUME NEW d \in Dirs, DeleteEntry(d) PROVE Covered'
    BY <1>2, AddsNotDelete DEF DeleteEntry, Covered, job
  <1>3. CASE PrintLine
    BY <1>3 DEF PrintLine, Covered, db, job
  <1>4. CASE CommitItem
    <2>1. /\ pc = "commit" /\ pc' = "flush" /\ history' = history \cup work /\ run' = run
          /\ cur' = cur /\ todo' = todo /\ outcome' = outcome
      BY <1>4, <1>t DEF CommitItem, Commit, job
    <2>2. WritesMap(run) => \E x \in work : x.dir = cur
      BY <2>1 DEF IInv, Building
    <2>. QED
      BY <2>1, <2>2 DEF Covered
  <1>5. CASE FlushLine
    BY <1>5 DEF FlushLine, Rest, Covered, db, job
  <1>6. CASE RejectItem
    BY <1>6, <1>t DEF RejectItem, Commit, Covered, job
  <1>7. CASE Finish
    BY <1>7 DEF Finish, Covered, db, job
  <1>8. CASE Complete
    BY <1>8, <1>t DEF Complete, Commit, Covered, job
  <1>9. CASE CommitFails \/ CompleteFails \/ RealComplete \/ RealAbort
    BY <1>9, <1>t DEF CommitFails, CompleteFails, RealComplete, RealAbort, Covered
  <1>10. CASE Abort \/ Crash
    BY <1>10, <1>t DEF Abort, Crash, Covered, db
  <1>11. ASSUME NEW o \in Options, Start(o) PROVE Covered'
    <2>1. /\ pc' = "loop" /\ run' = o /\ todo' = Pending(o) /\ outcome' = "none"
          /\ history' = history
      BY <1>11 DEF Start, db
    <2>2. \A d \in Recorded(mapFile) : \E x \in history : x.dir = d
      BY DEF Provenance, Backed, Named
    <2>. QED
      BY <2>1, <2>2 DEF Covered, Pending, SkipItems
  <1>12. CASE DiscardMapfile \/ \E d \in Dirs : EditMetadata(d)
    BY <1>12 DEF DiscardMapfile, EditMetadata, Covered, db, job
  <1>13. ASSUME NEW x \in disk, Approve(x) PROVE Covered'
    BY <1>13 DEF Approve, Covered, job
  <1>. QED
    BY <1>0, <1>1, <1>2, <1>3, <1>4, <1>5, <1>6, <1>7, <1>8, <1>9, <1>10, <1>11, <1>12, <1>13
       DEF Next, Importer, Environment

\* An import that ends with exit status 0 has left no directory behind, after
\* any number of crashes, rejected items, failed runs and resumptions.
THEOREM NoSilentLoss == Spec => []SuccessMeansImported
  <1>. DEFINE PInv == CommitsForReal => Provenance /\ Covered
  <1>1. Init => PInv
    BY BackedNoLines DEF Init, Provenance, Covered, AllImported
  <1>2. IInv /\ PInv /\ [Next]_vars => PInv'
    BY SameWorld, NextProvenance, NextCovered DEF CommitsForReal
  <1>3. PInv => SuccessMeansImported
    BY DEF Covered, SuccessMeansImported
  <1>. HIDE DEF PInv
  <1>. QED
    BY <1>1, <1>2, <1>3, InitIInv, NextIInv, PTL DEF Spec

-----------------------------------------------------------------------------
(* NoInvalidItemStored.  The item addItem works on may be invalid, but it is *)
(* in the transaction only, and leaves that before the commit or with a      *)
(* rollback: it is in the archive, so deleting it works.                     *)

NothingWaived == Archiving /\ \A o \in Options : ~o.large

Sound ==
  /\ \A x \in disk : x.ok
  /\ \A x \in work : x.ok \/ (pc = "built" /\ ~run.test /\ x.id = new /\ x.place = "archive")

\* What is built on top of valid items.
LEMMA BuildSound ==
  ASSUME NothingWaived, IInv, NEW d \in Dirs, NEW items \in SUBSET work,
         NEW hf \in [Dirs -> Refs \cup {None}], Build(d, items, hf), \A x \in work : x.ok
  PROVE  /\ pc' = "built"
         /\ \A x \in work' : x.ok \/ (~run.test /\ x.id = new' /\ x.place = "archive")
  <1>1. CASE run.test
    BY <1>1 DEF Build
  <1>2. CASE ~run.test
    <2>1. PICK i \in Ids, p \in Places :
            new' = i /\ work' = items \cup {NewItem(d, i, p, hf)}
      BY <1>2, FreshIsUnused DEF Build
    <2>2. p = "archive"
      BY DEF NothingWaived, Archiving, Places, IInv, Building
    <2>3. NewItem(d, i, p, hf).id = i /\ NewItem(d, i, p, hf).place = "archive"
      BY <2>2 DEF NewItem
    <2>. QED
      BY <1>2, <2>1, <2>3 DEF Build
  <1>. QED
    BY <1>1, <1>2

LEMMA NextSound ==
  ASSUME NothingWaived, IInv, Sound, [Next]_vars
  PROVE  Sound'
  <1>l. ~run.large /\ ~run.workflow
    BY DEF NothingWaived, Archiving, IInv, Building
  <1>0. CASE UNCHANGED vars
    BY <1>0 DEF vars, db, files, job, Sound
  <1>1. ASSUME NEW d \in Dirs, AddItem(d) PROVE Sound'
    <2>1. /\ Build(d, work, handleFile) /\ handleFile \in [Dirs -> Refs \cup {None}]
          /\ disk' = disk /\ run' = run /\ \A x \in work : x.ok
      BY <1>1 DEF AddItem, IInv, TypeOK, Sound, job
    <2>. QED
      BY <2>1, BuildSound DEF Sound
  <1>2. ASSUME NEW d \in Dirs, ReplaceItem(d) PROVE Sound'
    <2>1. /\ Build(d, AfterDelete(d), WriteHandle(d)) /\ AfterDelete(d) \in SUBSET work
          /\ WriteHandle(d) \in [Dirs -> Refs \cup {None}]
          /\ disk' = disk /\ run' = run /\ \A x \in work : x.ok
      BY <1>2, AfterDeleteSubset, HandleFileType DEF ReplaceItem, Sound, job
    <2>. QED
      BY <2>1, BuildSound DEF Sound
  <1>3. ASSUME NEW d \in Dirs, AddItemFails(d) \/ ReplaceFails(d) \/ DeleteFails(d)
        PROVE  Sound'
    BY <1>3 DEF AddItemFails, ReplaceFails, DeleteFails, Sound, db
  <1>4. ASSUME NEW d \in Dirs, DeleteEntry(d) PROVE Sound'
    BY <1>4, AfterDeleteSubset DEF DeleteEntry, Sound
  <1>5. CASE PrintLine
    BY <1>5, <1>l DEF PrintLine, Compliant, Sound, db
  <1>6. CASE CommitItem
    BY <1>6 DEF CommitItem, Commit, Sound
  <1>7. CASE RejectItem
    <2>1. pc = "built" /\ work' = IF run.test THEN work ELSE Without(work, {x \in work : x.id = new})
      BY <1>7 DEF RejectItem
    <2>2. \A x \in work' : x.ok
      BY <2>1 DEF Without, Sound
    <2>3. disk' \in {disk, work'}
      BY <1>7 DEF RejectItem, Commit
    <2>. QED
      BY <2>2, <2>3 DEF Sound
  <1>8. CASE CommitFails \/ FlushLine \/ Finish \/ CompleteFails
    BY <1>8 DEF CommitFails, FlushLine, Finish, CompleteFails, Sound, db
  <1>9. CASE Complete \/ RealComplete
    BY <1>9 DEF Complete, RealComplete, Commit, Sound
  <1>10. CASE Abort \/ RealAbort \/ Crash
    BY <1>10 DEF Abort, RealAbort, Crash, Sound
  <1>11. ASSUME NEW o \in Options, Start(o) PROVE Sound'
    BY <1>11 DEF Start, Sound, db
  <1>12. CASE DiscardMapfile \/ \E d \in Dirs : EditMetadata(d)
    BY <1>12 DEF DiscardMapfile, EditMetadata, Sound, db
  <1>13. ASSUME NEW x \in disk, Approve(x) PROVE Sound'
    <2>. DEFINE y == [x EXCEPT !.place = "archive", !.handle = Handle(x.id)]
    <2>1. x \in Items /\ x.ok
      BY DEF IInv, TypeOK, Sound
    <2>2. y.ok
      BY <2>1 DEF Items
    <2>3. disk' = (disk \ {x}) \cup {y} /\ work' = disk'
      BY <1>13 DEF Approve
    <2>. QED
      BY <2>2, <2>3 DEF Sound
  <1>. QED
    BY <1>0, <1>1, <1>2, <1>3, <1>4, <1>5, <1>6, <1>7, <1>8, <1>9, <1>10, <1>11, <1>12, <1>13
       DEF Next, Importer, Environment

\* No item that breaks the compliance rules is ever committed to the archive,
\* whichever of the importer's commits, completes and rollbacks comes next; the
\* catch block that deletes a rejected item and commits included.
THEOREM InvalidNeverStored == Spec => []NoInvalidItemStored
  <1>. DEFINE PInv == NothingWaived => Sound
  <1>1. Init => PInv
    BY DEF Init, Sound
  <1>2. IInv /\ PInv /\ [Next]_vars => PInv'
    BY SameWorld, NextSound DEF NothingWaived, Archiving
  <1>3. PInv => NoInvalidItemStored
    BY DEF Sound, NoInvalidItemStored, NothingWaived
  <1>. HIDE DEF PInv
  <1>. QED
    BY <1>1, <1>2, <1>3, InitIInv, NextIInv, PTL DEF Spec

-----------------------------------------------------------------------------
(* DeleteRemovesAll.  With no item in the workflow a deletion removes what a *)
(* line names, and nothing brings it back before the run has ended.          *)

Gone(d, items) == mapFile[d] # None => Named(mapFile[d], items) = {}

Underway == pc \in {"loop", "completing"} \/ (pc = "closing" /\ ~aborted)

Removing ==
  /\ \A x \in work \cup disk : x.place = "archive"
  /\ pc # "off" => outcome = "none"
  /\ pc = "completing" => ~aborted
  /\ (pc = "completing" \/ (pc = "closing" /\ ~aborted)) => todo = {}
  /\ pc \in {"loop", "built", "commit", "flush"} => ~aborted
  /\ (run.cmd = "delete" /\ ~run.test) =>
       /\ pc \notin {"built", "commit", "flush"}
       /\ Underway => \A d \in batch \ todo : Gone(d, work)
       /\ outcome = "ok" => \A d \in batch : Gone(d, disk)

LEMMA BuildArchives ==
  ASSUME Archiving, IInv, NEW d \in Dirs, NEW items \in SUBSET work,
         NEW hf \in [Dirs -> Refs \cup {None}], Build(d, items, hf),
         \A x \in work : x.place = "archive"
  PROVE  pc' = "built" /\ \A x \in work' : x.place = "archive"
  <1>1. \A p \in Places : p = "archive"
    BY DEF Archiving, Places, IInv, Building
  <1>2. \A i \in Ids, p \in Places : NewItem(d, i, p, hf).place = "archive"
    BY <1>1 DEF NewItem
  <1>. QED
    BY <1>2, FreshIsUnused DEF Build

LEMMA NextRemoving ==
  ASSUME Archiving, IInv, Removing, [Next]_vars
  PROVE  Removing'
  <1>. USE AddsNotDelete DEF Underway
  <1>0. CASE UNCHANGED vars
    BY <1>0 DEF vars, db, files, job, Removing, Gone, Named
  <1>1. ASSUME NEW d \in Dirs, AddItem(d) \/ ReplaceItem(d) PROVE Removing'
    <2>1. /\ pc = "loop" /\ run.cmd # "delete" /\ run' = run /\ disk' = disk
          /\ outcome' = outcome /\ aborted' = aborted
      BY <1>1 DEF AddItem, ReplaceItem, job
    <2>2. PICK items \in SUBSET work, hf \in [Dirs -> Refs \cup {None}] : Build(d, items, hf)
      BY <1>1, AfterDeleteSubset, HandleFileType DEF AddItem, ReplaceItem, IInv, TypeOK
    <2>3. pc' = "built" /\ \A x \in work' : x.place = "archive"
      BY <2>2, BuildArchives DEF Removing
    <2>. QED
      BY <2>1, <2>3 DEF Removing
  <1>3. ASSUME NEW d \in Dirs, AddItemFails(d) \/ ReplaceFails(d) \/ DeleteFails(d)
        PROVE  Removing'
    BY <1>3 DEF AddItemFails, ReplaceFails, DeleteFails, Removing, db, job
  <1>4. ASSUME NEW d \in Dirs, DeleteEntry(d) PROVE Removing'
    <2>1. /\ pc = "loop" /\ pc' = "loop" /\ run.cmd = "delete" /\ run' = run
          /\ work' = AfterDelete(d) /\ work' \subseteq work /\ todo' = todo \ {d}
          /\ batch' = batch /\ disk' = disk /\ mapFile' = mapFile
          /\ outcome' = outcome /\ aborted' = aborted
      BY <1>4, AfterDeleteSubset DEF DeleteEntry, job, files
    <2>2. CASE run.test
      BY <2>1, <2>2 DEF Removing
    <2>3. CASE ~run.test
      <3>1. work' = Without(work, Named(mapFile[d], work))
        BY <2>1, <2>3 DEF AfterDelete
      <3>2. Named(mapFile[d], work') = {}
        BY <2>1, <3>1 DEF Without, Named, Removing
      <3>3. \A e \in Dirs : Named(mapFile[e], work') \subseteq Named(mapFile[e], work)
        BY <2>1 DEF Named
      <3>4. batch \subseteq Dirs
        BY DEF IInv, TypeOK
      <3>5. \A e \in batch \ todo' : Named(mapFile[e], work') = {} \/ mapFile[e] = None
        BY <2>1, <2>3, <3>2, <3>3, <3>4 DEF Removing, Gone
      <3>. QED
        BY <2>1, <2>3, <3>5 DEF Removing, Gone
    <2>. QED
      BY <2>2, <2>3
  <1>5. CASE PrintLine \/ CommitFails \/ CompleteFails
    BY <1>5 DEF PrintLine, CommitFails, CompleteFails, Removing, db, job
  <1>6. CASE CommitItem
    BY <1>6 DEF CommitItem, Commit, Removing, job
  <1>7. CASE RejectItem
    <2>1. work' \subseteq work /\ disk' \subseteq work \cup disk
      BY <1>7 DEF RejectItem, Without, Commit
    <2>. QED
      BY <1>7, <2>1 DEF RejectItem, Removing, job
  <1>8. CASE FlushLine
    BY <1>8 DEF FlushLine, Removing, db, job
  <1>9. CASE Finish
    <2>1. run.cmd = "delete" => mapFile' = mapFile
      BY <1>9 DEF Finish, CloseMap, WritesMap
    <2>. QED
      BY <1>9, <2>1 DEF Finish, Removing, Gone, db, job
  <1>10. CASE Complete
    <2>1. /\ pc = "completing" /\ todo = {} /\ todo' = todo /\ ~aborted /\ aborted' = aborted
          /\ work' = work /\ disk' \in {disk, work} /\ mapFile' = mapFile /\ batch' = batch
          /\ run' = run /\ outcome = "none"
      BY <1>10 DEF Complete, Commit, Removing, files, job
    <2>2. CASE run.transactional
      BY <1>10, <2>1, <2>2 DEF Complete, Removing, Gone
    <2>3. CASE ~run.transactional
      <3>1. disk' = work /\ pc' = "off" /\ outcome' = "ok"
        BY <1>10, <2>3 DEF Complete, Commit
      <3>. QED
        BY <2>1, <3>1 DEF Removing, Gone
    <2>. QED
      BY <2>2, <2>3
  <1>11. CASE Abort
    BY <1>11 DEF Abort, Removing, job
  <1>12. CASE RealComplete
    <2>1. /\ pc = "closing" /\ ~aborted /\ todo = {} /\ todo' = todo /\ disk' = work
          /\ work' = work /\ pc' = "off" /\ mapFile' = mapFile /\ batch' = batch /\ run' = run
      BY <1>12 DEF RealComplete, Removing, files, job
    <2>. QED
      BY <2>1 DEF Removing, Gone
  <1>13. CASE RealAbort \/ Crash
    BY <1>13 DEF RealAbort, Crash, Removing, job
  <1>14. ASSUME NEW o \in Options, Start(o) PROVE Removing'
    BY <1>14 DEF Start, Removing, db
  <1>15. CASE DiscardMapfile
    <2>1. \A d \in Dirs : mapFile'[d] = None
      BY <1>15 DEF DiscardMapfile, NoLines
    <2>2. batch' \subseteq Dirs
      BY <1>15 DEF DiscardMapfile, IInv, TypeOK, job
    <2>. QED
      BY <1>15, <2>1, <2>2 DEF DiscardMapfile, Removing, Gone, db, job
  <1>16. ASSUME NEW d \in Dirs, EditMetadata(d) PROVE Removing'
    BY <1>16 DEF EditMetadata, Removing, Gone, Named, db, files, job
  <1>17. ASSUME NEW x \in disk, Approve(x) PROVE Removing'
    BY <1>17 DEF Approve, Removing
  <1>. QED
    BY <1>0, <1>1, <1>3, <1>4, <1>5, <1>6, <1>7, <1>8, <1>9, <1>10, <1>11, <1>12, <1>13,
       <1>14, <1>15, <1>16, <1>17 DEF Next, Importer, Environment

\* A delete run that ends with success has removed every item its mapfile names,
\* transactional or not, whatever failed in the runs before.
THEOREM DeletedIsGone == Spec => []DeleteRemovesAll
  <1>. DEFINE PInv == Archiving => Removing
  <1>1. Init => PInv
    BY DEF Init, Removing, Underway
  <1>2. IInv /\ PInv /\ [Next]_vars => PInv'
    BY SameWorld, NextRemoving DEF Archiving
  <1>3. PInv => DeleteRemovesAll
    BY DEF Removing, Gone, DeleteRemovesAll
  <1>. HIDE DEF PInv
  <1>. QED
    BY <1>1, <1>2, <1>3, InitIInv, NextIInv, PTL DEF Spec

-----------------------------------------------------------------------------
(* OneItemPerDirectory, without crashes.  Every item of the transaction and  *)
(* of the database has the handle its directory's line gives, in the file or *)
(* in the buffer, except the one being built; a directory still ahead has no *)
(* line, so it has no item either; and a replace deletes what the line names *)
(* before it builds.                                                        *)

Undisturbed ==
  /\ Archiving /\ Faults \cap {"crash", "discard"} = {}
  /\ \A o \in Options : o.cmd = "add-bte" => o.resume

Adding == WritesMap(run) /\ pc \in {"loop", "built", "commit", "flush"}

ByHandle(ref) == ref # None => ref.kind = "handle"

Listed(x) == x.handle \in {mapFile[x.dir], mapBuf[x.dir]}

Files ==
  /\ ~mapExists => mapFile = NoLines /\ handleFile = NoLines /\ work = {} /\ disk = {}
  /\ (WritesMap(run) /\ pc # "off") => mapExists
  /\ (pc \in {"off", "completing", "closing"} \/ ~WritesMap(run)) => mapBuf = NoLines
  /\ \A d \in Dirs : handleFile[d] \in {None, mapFile[d]}
  /\ \A d \in Dirs : mapBuf[d] = None \/ mapFile[d] = None
  /\ \A d \in Dirs : ByHandle(mapFile[d]) /\ ByHandle(mapBuf[d])

Ahead ==
  /\ Adding => \A d \in todo : \/ mapFile[d] = None /\ mapBuf[d] = None
                               \/ d = cur /\ pc \in {"commit", "flush"}
  /\ (pc = "built" /\ WritesMap(run)) => cur \in todo
  /\ (run.cmd = "replace" /\ pc # "off") => todo \subseteq Recorded(mapFile)

Known(x) == x.handle # None /\ ByHandle(x.handle)

Unlisted(x) == pc = "built" /\ WritesMap(run) /\ x.id = new /\ x.dir = cur

Single ==
  /\ Files /\ Ahead
  /\ \A x \in disk : Known(x) /\ x.place = "archive" /\ Listed(x)
  /\ \A x \in work : Known(x) /\ x.place = "archive" /\ (Listed(x) \/ Unlisted(x))
  /\ \A x, y \in work : x.dir = y.dir => x = y
  /\ OneEach

\* The item built in the place of those of its directory.
LEMMA BuildSingle ==
  ASSUME Archiving, IInv, NEW d \in Dirs, NEW items \in SUBSET work,
         NEW hf \in [Dirs -> Refs \cup {None}], Build(d, items, hf), ByHandle(hf[d]), ~run.test
  PROVE  \E x : /\ work' = items \cup {x}
                /\ x.dir = d /\ x.id = new' /\ x.place = "archive" /\ Known(x)
                /\ (run.cmd # "add-bte" /\ hf[d] # None) => x.handle = hf[d]
  <1>1. PICK i \in Ids, p \in Places :
          new' = i /\ work' = items \cup {NewItem(d, i, p, hf)}
    BY FreshIsUnused DEF Build
  <1>2. ~run.workflow /\ p = "archive"
    BY DEF Archiving, Places, IInv, Building
  <1>3. Handle(i) # None /\ Handle(i).kind = "handle"
    BY DEF Handle, Refs
  <1>. DEFINE x == NewItem(d, i, p, hf)
  <1>4. x.dir = d /\ x.id = i /\ x.place = "archive" /\ x.handle = HandleFor(d, i, p, hf)
    BY <1>2 DEF NewItem
  <1>5. /\ HandleFor(d, i, p, hf) # None /\ ByHandle(HandleFor(d, i, p, hf))
        /\ (run.cmd # "add-bte" /\ hf[d] # None) => HandleFor(d, i, p, hf) = hf[d]
    BY <1>2, <1>3 DEF HandleFor, HandleFile, ByHandle
  <1>6. Known(x)
    BY <1>4, <1>5 DEF Known
  <1>. QED
    BY <1>1, <1>4, <1>5, <1>6

\* Merging the buffer into the file moves its lines.
LEMMA MergeLines ==
  ASSUME IInv, Files
  PROVE  /\ \A d \in Dirs : mapFile[d] # None => Merge(mapFile, mapBuf)[d] = mapFile[d]
         /\ \A d \in Dirs : mapBuf[d] # None => Merge(mapFile, mapBuf)[d] = mapBuf[d]
         /\ \A d \in Dirs : Merge(mapFile, mapBuf)[d] \in {mapFile[d], mapBuf[d]}
  BY DEF IInv, TypeOK, Files, Merge

LEMMA NextSingle ==
  ASSUME Undisturbed, IInv, Single, [Next]_vars
  PROVE  Single'
  <1>a. Archiving /\ "crash" \notin Faults /\ "discard" \notin Faults /\ ~run.workflow
    BY DEF Undisturbed, Archiving, IInv, Building
  <1>n. \A d \in Dirs : NoLines[d] = None
    BY DEF NoLines
  <1>t. /\ \A x \in work \cup disk : x.dir \in Dirs
        /\ todo \subseteq Dirs /\ batch \subseteq Dirs
    BY DEF IInv, TypeOK, Items
  <1>0. CASE UNCHANGED vars
    BY <1>0 DEF vars, db, files, job, Single, Files, Ahead, Adding, WritesMap, Listed,
       Unlisted, OneEach
  <1>1. ASSUME NEW d \in Dirs, AddItem(d) PROVE Single'
    <2>1. /\ Build(d, work, handleFile) /\ handleFile \in [Dirs -> Refs \cup {None}]
          /\ pc = "loop" /\ d \in todo /\ run.cmd \in Adds /\ pc' = "built" /\ cur' = d
          /\ run' = run /\ todo' = todo /\ disk' = disk /\ mapFile' = mapFile /\ mapBuf' = mapBuf
          /\ mapExists' = mapExists /\ handleFile' = handleFile
      BY <1>1 DEF AddItem, Build, IInv, TypeOK, files, job
    <2>2. CASE run.test
      <3>1. work' = work /\ ~WritesMap(run) /\ ~WritesMap(run')
        BY <2>1, <2>2 DEF Build, WritesMap
      <3>. QED
        BY <2>1, <3>1 DEF Single, Files, Ahead, Adding, Listed, Unlisted, OneEach
    <2>3. CASE ~run.test
      <3>1. WritesMap(run) /\ WritesMap(run')
        BY <2>1, <2>3 DEF WritesMap
      <3>2. mapFile[d] = None /\ mapBuf[d] = None /\ handleFile[d] = None
        BY <2>1, <3>1 DEF Single, Files, Ahead, Adding
      <3>3. \A x \in work : Known(x) /\ Listed(x) /\ x.dir # d
        BY <2>1, <3>2 DEF Single, Listed, Unlisted, Known
      <3>4. PICK x : /\ work' = work \cup {x} /\ x.dir = d /\ x.id = new'
                     /\ x.place = "archive" /\ Known(x)
        BY <1>a, <2>1, <2>3, <3>2, BuildSingle DEF ByHandle
      <3>5. Files' /\ Ahead'
        BY <2>1, <3>1 DEF Single, Files, Ahead, Adding
      <3>6. \A y \in disk' : Known(y) /\ y.place = "archive" /\ Listed(y)'
        BY <2>1 DEF Single, Listed
      <3>7. \A y \in work' : Known(y) /\ y.place = "archive" /\ (Listed(y)' \/ Unlisted(y)')
        BY <2>1, <3>1, <3>3, <3>4 DEF Single, Listed, Unlisted
      <3>8. \A y, z \in work' : y.dir = z.dir => y = z
        BY <3>3, <3>4 DEF Single
      <3>. QED
        BY <2>1, <3>5, <3>6, <3>7, <3>8 DEF Single, OneEach
    <2>. QED
      BY <2>2, <2>3
  <1>2. ASSUME NEW d \in Dirs, ReplaceItem(d) PROVE Single'
    <2>. DEFINE items == AfterDelete(d)
    <2>1. /\ Build(d, items, WriteHandle(d)) /\ items \in SUBSET work
          /\ WriteHandle(d) \in [Dirs -> Refs \cup {None}]
          /\ pc = "loop" /\ d \in todo /\ run.cmd = "replace" /\ pc' = "built" /\ cur' = d
          /\ run' = run /\ todo' = todo /\ disk' = disk /\ mapFile' = mapFile /\ mapBuf' = mapBuf
          /\ mapExists' = mapExists /\ handleFile' = WriteHandle(d)
      BY <1>2, AfterDeleteSubset, HandleFileType DEF ReplaceItem, Build, job
    <2>2. ~WritesMap(run) /\ ~WritesMap(run') /\ mapBuf = NoLines
      BY <2>1, AddsNotDelete DEF WritesMap, Single, Files
    <2>3. \A x \in work : Known(x) /\ Listed(x)
      BY <2>1 DEF Single, Unlisted
    <2>4. /\ mapFile[d] # None => WriteHandle(d)[d] = mapFile[d]
          /\ \A e \in Dirs : WriteHandle(d)[e] \in {None, mapFile[e]}
      BY DEF WriteHandle, Single, Files, IInv, TypeOK
    <2>5. ~mapExists => WriteHandle(d) = NoLines
      <3>1. (mapFile = NoLines /\ handleFile = NoLines) => WriteHandle(d) = NoLines
        BY DEF WriteHandle, NoLines
      <3>. QED
        BY <3>1 DEF Single, Files
    <2>6. CASE run.test
      <3>1. work' = work
        BY <2>1, <2>6 DEF Build, AfterDelete
      <3>. QED
        BY <2>1, <2>2, <2>4, <2>5, <3>1 DEF Single, Files, Ahead, Adding, Listed, Unlisted, OneEach
    <2>7. CASE ~run.test
      <3>1. Named(mapFile[d], work) # {}
        BY <1>2, <2>7 DEF ReplaceItem
      <3>2. items = Without(work, Named(mapFile[d], work))
        BY <2>7 DEF AfterDelete
      <3>3. \A x \in work : x.dir = d => x.handle = mapFile[d] /\ mapFile[d].kind = "handle"
        BY <1>n, <2>2, <2>3 DEF Listed, Known, ByHandle
      <3>4. \A x \in items : x.dir # d
        BY <3>2, <3>3 DEF Single, Without, Named
      <3>5. ByHandle(WriteHandle(d)[d])
        BY <2>4 DEF Single, Files, ByHandle
      <3>6. PICK x : /\ work' = items \cup {x} /\ x.dir = d /\ x.id = new'
                     /\ x.place = "archive" /\ Known(x)
                     /\ WriteHandle(d)[d] # None => x.handle = WriteHandle(d)[d]
        BY <1>a, <2>1, <2>7, <3>5, BuildSingle
      <3>7. mapExists
        BY <3>1 DEF Named, Single, Files
      <3>8. mapFile[d] # None
        BY <2>1 DEF Single, Ahead, Recorded
      <3>9. Files' /\ Ahead'
        BY <2>1, <2>2, <2>4, <3>7 DEF Single, Files, Ahead, Adding, Recorded
      <3>10. \A y \in disk' : Known(y) /\ y.place = "archive" /\ Listed(y)'
        BY <2>1 DEF Single, Listed
      <3>11. \A y \in work' : Known(y) /\ y.place = "archive" /\ Listed(y)'
        <4>1. Listed(x)'
          BY <2>1, <2>4, <3>6, <3>8 DEF Listed
        <4>2. \A y \in items : Known(y) /\ y.place = "archive" /\ Listed(y)'
          BY <2>1, <2>3 DEF Single, Listed
        <4>. QED
          BY <3>6, <4>1, <4>2
      <3>12. \A y, z \in work' : y.dir = z.dir => y = z
        BY <2>1, <3>4, <3>6 DEF Single
      <3>. QED
        BY <2>1, <3>9, <3>10, <3>11, <3>12 DEF Single, OneEach
    <2>. QED
      BY <2>6, <2>7
  <1>3. ASSUME NEW d \in Dirs, AddItemFails(d) \/ DeleteFails(d) PROVE Single'
    BY <1>3 DEF AddItemFails, DeleteFails, Single, Files, Ahead, Adding, Listed, Unlisted,
       OneEach, db, files, job
  <1>4. ASSUME NEW d \in Dirs, ReplaceFails(d) PROVE Single'
    <2>1. /\ pc = "loop" /\ pc' = "failed" /\ run.cmd = "replace" /\ run' = run /\ todo' = todo
          /\ work' = work /\ disk' = disk /\ mapFile' = mapFile /\ mapBuf' = mapBuf
          /\ mapExists' = mapExists /\ handleFile' = WriteHandle(d) /\ cur' = cur
      BY <1>4 DEF ReplaceFails, db, job
    <2>2. \A e \in Dirs : WriteHandle(d)[e] \in {None, mapFile[e]}
      BY DEF WriteHandle, Single, Files, IInv, TypeOK
    <2>3. ~mapExists => WriteHandle(d) = NoLines
      <3>1. (mapFile = NoLines /\ handleFile = NoLines) => WriteHandle(d) = NoLines
        BY DEF WriteHandle, NoLines
      <3>. QED
        BY <3>1 DEF Single, Files
    <2>4. Files' /\ Ahead'
      BY <2>1, <2>2, <2>3 DEF Single, Files, Ahead, Adding, WritesMap
    <2>. QED
      BY <2>1, <2>4 DEF Single, Listed, Unlisted, OneEach
  <1>5. ASSUME NEW d \in Dirs, DeleteEntry(d) PROVE Single'
    <2>1. /\ pc = "loop" /\ pc' = pc /\ run.cmd = "delete" /\ run' = run
          /\ work' \subseteq work /\ todo' = todo \ {d} /\ disk' = disk /\ mapFile' = mapFile
          /\ mapBuf' = mapBuf /\ mapExists' = mapExists /\ handleFile' = handleFile
      BY <1>5, AfterDeleteSubset DEF DeleteEntry, files, job
    <2>2. ~WritesMap(run) /\ ~WritesMap(run')
      BY <2>1, AddsNotDelete DEF WritesMap
    <2>3. Files' /\ Ahead'
      BY <2>1, <2>2 DEF Single, Files, Ahead, Adding
    <2>4. \A x \in work' : Known(x) /\ x.place = "archive" /\ Listed(x)'
      BY <2>1 DEF Single, Listed, Unlisted
    <2>. QED
      BY <2>1, <2>3, <2>4 DEF Single, Listed, OneEach
  <1>6. CASE PrintLine
    <2>1. /\ pc = "built" /\ pc' = "commit" /\ work' = work /\ disk' = disk /\ run' = run
          /\ todo' = todo /\ cur' = cur /\ new' = new /\ mapExists' = mapExists
          /\ handleFile' = handleFile
      BY <1>6 DEF PrintLine, db, job
    <2>2. CASE ~WritesMap(run)
      BY <1>6, <2>1, <2>2 DEF PrintLine, WritesMap, Single, Files, Ahead, Adding, Listed,
         Unlisted, OneEach
    <2>3. CASE WritesMap(run)
      <3>1. PICK x \in work : x.id = new
        BY <2>1, <2>3 DEF IInv, Building, WritesMap
      <3>2. \A y \in work : y.id = new => y = x
        BY <2>1, <2>3, <3>1 DEF IInv, Building, WritesMap, Single
      <3>3. Line = x.handle /\ x.dir = cur /\ Known(x)
        <4>1. (CHOOSE y \in work : y.id = new) = x
          BY <3>1, <3>2
        <4>. QED
          BY <1>a, <2>1, <2>3, <3>1, <4>1 DEF Line, IInv, Building, WritesMap, Single
      <3>4. /\ cur \in todo /\ cur \in Dirs /\ mapFile[cur] = None /\ mapBuf[cur] = None
            /\ run.cmd # "replace" /\ WritesMap(run') /\ mapExists
        <4>1. Adding /\ cur \in todo
          BY <2>1, <2>3 DEF Single, Ahead, Adding
        <4>2. run.cmd # "replace" /\ WritesMap(run')
          BY <2>1, <2>3, AddsNotDelete DEF WritesMap
        <4>. QED
          BY <1>t, <2>1, <2>3, <3>1, <4>1, <4>2 DEF Single, Files, Ahead
      <3>5. /\ \A d \in Dirs \ {cur} : {mapFile[d], mapBuf[d]} \ {None} \subseteq
                                      {mapFile'[d], mapBuf'[d]}
            /\ \A d \in Dirs \ {cur} : {mapFile'[d], mapBuf'[d]} \subseteq
                                      {mapFile[d], mapBuf[d], None}
            /\ \A d \in Dirs : mapFile[d] # None => mapFile'[d] = mapFile[d]
            /\ \A d \in Dirs : mapBuf'[d] = None \/ mapFile'[d] = None
            /\ mapBuf'[cur] = x.handle /\ mapFile'[cur] = None
        <4>1. CASE mapBuf' = [mapBuf EXCEPT ![cur] = Line] /\ mapFile' = mapFile
          BY <3>3, <3>4, <4>1 DEF IInv, TypeOK, Single, Files
        <4>2. CASE /\ mapFile' = Merge(mapFile, mapBuf)
                   /\ mapBuf' = [NoLines EXCEPT ![cur] = Line]
          BY <3>3, <3>4, <4>2, MergeLines DEF NoLines, Single
        <4>. QED
          BY <1>6, <2>3, <4>1, <4>2 DEF PrintLine
      <3>6. Files'
        BY <2>1, <3>3, <3>4, <3>5 DEF Single, Files, Known, ByHandle
      <3>7. Ahead'
        BY <1>t, <2>1, <2>3, <3>4, <3>5 DEF Single, Ahead, Adding
      <3>8. \A y \in work \cup disk : y.dir # cur /\ Known(y) /\ Listed(y) => Listed(y)'
        BY <1>t, <3>5 DEF Listed, Known
      <3>9. \A y \in work : y.dir = cur => y = x
        BY <3>1, <3>3 DEF Single
      <3>10. \A y \in disk : y.dir # cur
        BY <3>4 DEF Single, Listed, Known
      <3>11. Listed(x)'
        BY <3>3, <3>5 DEF Listed
      <3>12. \A y \in work' : Known(y) /\ y.place = "archive" /\ Listed(y)'
        BY <2>1, <3>8, <3>9, <3>11, <3>3 DEF Single, Unlisted
      <3>13. \A y \in disk' : Known(y) /\ y.place = "archive" /\ Listed(y)'
        BY <2>1, <3>8, <3>10 DEF Single
      <3>. QED
        BY <2>1, <3>6, <3>7, <3>12, <3>13 DEF Single, OneEach
    <2>. QED
      BY <2>2, <2>3
  <1>7. CASE CommitItem
    <2>1. /\ pc = "commit" /\ pc' = "flush" /\ disk' \in {disk, work} /\ work' = work
          /\ run' = run /\ todo' = todo /\ cur' = cur /\ mapExists' = mapExists
          /\ handleFile' = handleFile /\ mapFile' = mapFile /\ mapBuf' = mapBuf
      BY <1>7 DEF CommitItem, Commit, files, job
    <2>2. Files' /\ Ahead'
      BY <2>1 DEF Single, Files, Ahead, Adding, WritesMap
    <2>. QED
      BY <2>1, <2>2 DEF Single, Listed, Unlisted, OneEach
  <1>8. CASE RejectItem
    <2>1. /\ pc = "built" /\ pc' = "failed" /\ work' \subseteq work
          /\ work' = IF run.test THEN work ELSE Without(work, {x \in work : x.id = new})
          /\ disk' \in {disk, work'}
          /\ run' = run /\ todo' = todo /\ cur' = cur /\ mapExists' = mapExists
          /\ handleFile' = handleFile /\ mapFile' = mapFile /\ mapBuf' = mapBuf
      BY <1>8 DEF RejectItem, Commit, Without, files, job
    <2>2. Files' /\ Ahead'
      BY <2>1 DEF Single, Files, Ahead, Adding, WritesMap
    <2>3. \A x \in work' : Known(x) /\ x.place = "archive" /\ Listed(x)
      BY <2>1 DEF Single, Without, Unlisted, WritesMap
    <2>4. \A x, y \in work' : x.dir = y.dir => x = y
      BY <2>1 DEF Single
    <2>5. \A x \in disk : Known(x) /\ x.place = "archive" /\ Listed(x)
      BY DEF Single
    <2>6. OneEach'
      BY <2>1, <2>4 DEF Single, OneEach
    <2>7. \A x : Listed(x) => Listed(x)'
      BY <2>1 DEF Listed
    <2>. QED
      BY <2>1, <2>2, <2>3, <2>4, <2>5, <2>6, <2>7 DEF Single
  <1>9. CASE CommitFails \/ CompleteFails
    BY <1>9 DEF CommitFails, CompleteFails, Single, Files, Ahead, Adding, WritesMap, Listed,
       Unlisted, OneEach, db, files, job
  <1>10. CASE FlushLine \/ Finish \/ Abort
    <2>1. /\ mapExists' = mapExists /\ handleFile' = handleFile /\ run' = run /\ disk' = disk
          /\ work' \in {work, disk} /\ pc # "built" /\ pc # "off"
      BY <1>10 DEF FlushLine, Finish, Abort, db, job
    <2>2. \/ mapFile' = mapFile /\ mapBuf' = mapBuf
          \/ mapFile' = Merge(mapFile, mapBuf) /\ mapBuf' = NoLines
      BY <1>10 DEF FlushLine, Finish, Abort, CloseMap
    <2>3. /\ \A d \in Dirs : mapFile[d] # None => mapFile'[d] = mapFile[d]
          /\ \A d \in Dirs : mapBuf[d] # None => mapBuf[d] \in {mapFile'[d], mapBuf'[d]}
          /\ \A d \in Dirs : {mapFile'[d], mapBuf'[d]} \subseteq {mapFile[d], mapBuf[d], None}
          /\ \A d \in Dirs : mapBuf'[d] = None \/ mapFile'[d] = None
      BY <1>n, <2>2, MergeLines DEF Single, Files
    <2>4. \A x \in work \cup disk : Known(x) /\ Listed(x) /\ Listed(x)'
      <3>1. \A x \in work \cup disk : Known(x) /\ Listed(x)
        BY <2>1 DEF Single, Unlisted
      <3>. QED
        BY <1>t, <2>3, <3>1 DEF Listed, Known
    <2>5. ~WritesMap(run) => mapFile' = mapFile /\ mapBuf' = mapBuf
      BY <1>10 DEF FlushLine, Finish, Abort, CloseMap
    <2>6. ~mapExists => mapFile' = mapFile
      BY <2>1, <2>5 DEF Single, Files
    <2>7. pc' \in {"loop", "completing", "closing", "off"} /\ (pc' # "loop" => mapBuf' = NoLines)
      BY <1>10 DEF FlushLine, Finish, Abort, CloseMap, Single, Files
    <2>8. Files'
      <3>1. ~WritesMap(run) => mapBuf' = NoLines
        BY <2>5 DEF Single, Files
      <3>2. \A d \in Dirs : ByHandle(mapFile'[d]) /\ ByHandle(mapBuf'[d])
        BY <2>3 DEF Single, Files, ByHandle
      <3>3. \A d \in Dirs : handleFile[d] \in {None, mapFile'[d]}
        BY <2>3 DEF Single, Files
      <3>4. ~mapExists => work' = {} /\ disk' = {} /\ mapFile' = NoLines /\ handleFile' = NoLines
        BY <2>1, <2>6 DEF Single, Files
      <3>. QED
        BY <2>1, <2>3, <2>7, <3>1, <3>2, <3>3, <3>4 DEF Single, Files, WritesMap
    <2>9. Ahead'
      <3>1. run.cmd = "replace" => ~WritesMap(run)
        BY AddsNotDelete DEF WritesMap
      <3>2. todo' \subseteq todo
        BY <1>10 DEF FlushLine, Finish, Abort, Rest
      <3>3. CASE FlushLine
        <4>1. pc = "flush" /\ pc' = "loop" /\ todo' = todo \ {cur}
          BY <3>3 DEF FlushLine, Rest
        <4>2. \A d \in todo' : WritesMap(run) => mapFile'[d] = None /\ mapBuf'[d] = None
          BY <1>t, <2>3, <4>1 DEF Single, Ahead, Adding
        <4>. QED
          BY <2>1, <2>5, <3>1, <3>2, <4>1, <4>2 DEF Single, Ahead, Adding, Recorded, WritesMap
      <3>4. CASE Finish \/ Abort
        <4>1. pc' \in {"completing", "closing", "off"}
          BY <3>4 DEF Finish, Abort
        <4>. QED
          BY <2>1, <2>5, <3>1, <3>2, <4>1 DEF Single, Ahead, Adding, Recorded, WritesMap
      <3>. QED
        BY <1>10, <3>3, <3>4
    <2>10. \A x \in work' : x.place = "archive" /\ Known(x) /\ Listed(x)'
      <3>1. CASE work' = work
        BY <2>4, <3>1 DEF Single
      <3>2. CASE work' = disk
        BY <2>4, <3>2 DEF Single
      <3>. QED
        BY <2>1, <3>1, <3>2
    <2>. QED
      BY <2>1, <2>4, <2>8, <2>9, <2>10 DEF Single, OneEach
  <1>11. CASE Complete \/ RealComplete
    <2>1. /\ pc \in {"completing", "closing"} /\ pc' \in {"closing", "off"}
          /\ disk' \in {disk, work} /\ work' = work
          /\ run' = run /\ todo' = todo /\ cur' = cur /\ mapExists' = mapExists
          /\ handleFile' = handleFile /\ mapFile' = mapFile /\ mapBuf' = mapBuf
      BY <1>11 DEF Complete, RealComplete, Commit, files, job
    <2>2. Files' /\ Ahead'
      BY <2>1 DEF Single, Files, Ahead, Adding, WritesMap
    <2>. QED
      BY <2>1, <2>2 DEF Single, Listed, Unlisted, OneEach
  <1>12. CASE RealAbort
    <2>1. /\ pc = "closing" /\ pc' = "off" /\ disk' = disk /\ work' = disk
          /\ run' = run /\ todo' = todo /\ cur' = cur /\ mapExists' = mapExists
          /\ handleFile' = handleFile /\ mapFile' = mapFile /\ mapBuf' = mapBuf
      BY <1>12 DEF RealAbort, files, job
    <2>2. Files' /\ Ahead'
      BY <2>1 DEF Single, Files, Ahead, Adding, WritesMap
    <2>. QED
      BY <2>1, <2>2 DEF Single, Listed, Unlisted, OneEach
  <1>13. CASE Crash \/ DiscardMapfile
    BY <1>13, <1>a DEF Crash, DiscardMapfile
  <1>14. ASSUME NEW o \in Options, Start(o) PROVE Single'
    <2>1. /\ pc = "off" /\ pc' = "loop" /\ run' = o /\ todo' = Pending(o) /\ batch' = Pending(o)
          /\ work' = work /\ disk' = disk /\ handleFile' = handleFile /\ mapBuf' = NoLines
          /\ mapBuf = NoLines /\ Accepted(o)
      BY <1>14 DEF Start, Single, Files, db
    <2>2. mapFile' = mapFile /\ (WritesMap(o) => mapExists') /\ (mapExists => mapExists')
      <3>1. CASE WritesMap(o)
        <4>1. o.cmd \in {"add", "add-bte"} /\ (o.cmd = "add-bte" => o.resume)
          BY <3>1 DEF WritesMap, Adds, Undisturbed
        <4>2. ~o.resume => mapFile = NoLines
          BY <2>1, <4>1 DEF Accepted, Single, Files
        <4>. QED
          BY <1>14, <3>1, <4>2 DEF Start, Opened
      <3>2. CASE ~WritesMap(o)
        BY <1>14, <3>2 DEF Start
      <3>. QED
        BY <3>1, <3>2
    <2>3. WritesMap(o) => \A d \in Pending(o) : d \in Dirs /\ mapFile[d] = None
      <3>1. ASSUME WritesMap(o), ~o.resume PROVE mapFile = NoLines
        <4>1. o.cmd \in {"add", "add-bte"} /\ (o.cmd = "add-bte" => o.resume)
          BY <3>1 DEF WritesMap, Adds, Undisturbed
        <4>. QED
          BY <2>1, <3>1, <4>1 DEF Accepted, Single, Files
      <3>. QED
        BY <1>n, <3>1 DEF Pending, SkipItems, Recorded, WritesMap
    <2>4. o.cmd = "replace" => Pending(o) \subseteq Recorded(mapFile)
      BY AddsNotDelete DEF Pending
    <2>5. Files'
      BY <1>n, <2>1, <2>2 DEF Single, Files
    <2>6. Ahead'
      BY <1>n, <2>1, <2>2, <2>3, <2>4 DEF Single, Ahead, Adding, Recorded
    <2>7. \A x \in work \cup disk : Known(x) /\ x.place = "archive" /\ Listed(x)'
      BY <2>1, <2>2 DEF Single, Listed, Unlisted
    <2>. QED
      BY <2>1, <2>5, <2>6, <2>7 DEF Single, OneEach
  <1>15. ASSUME NEW d \in Dirs, EditMetadata(d) PROVE Single'
    BY <1>15 DEF EditMetadata, Single, Files, Ahead, Adding, WritesMap, Listed, Unlisted,
       OneEach, db, files, job
  <1>16. ASSUME NEW x \in disk, Approve(x) PROVE Single'
    BY <1>16 DEF Approve, Single
  <1>. QED
    BY <1>0, <1>1, <1>2, <1>3, <1>4, <1>5, <1>6, <1>7, <1>8, <1>9, <1>10, <1>11, <1>12, <1>13,
       <1>14, <1>15, <1>16 DEF Next, Importer, Environment

\* However often an import failed, was rejected, rolled back and resumed, and
\* whatever was replaced or deleted in between, no directory is in the database
\* twice, as long as no crash separates a commit from its line.
THEOREM ImportedOnce == Spec => []OneItemPerDirectory
  <1>. DEFINE PInv == Undisturbed => Single
  <1>1. Init => PInv
    BY DEF Init, Single, Files, Ahead, Adding, OneEach, NoLines, ByHandle
  <1>2. IInv /\ PInv /\ [Next]_vars => PInv'
    BY SameWorld, NextSingle DEF Undisturbed, Archiving
  <1>3. PInv => OneItemPerDirectory
    BY DEF Single, OneItemPerDirectory, Undisturbed
  <1>. HIDE DEF PInv
  <1>. QED
    BY <1>1, <1>2, <1>3, InitIInv, NextIInv, PTL DEF Spec

-----------------------------------------------------------------------------
(* ImportKeepsRecord.  A mapfile is opened afresh only when there was none.  *)

Opens ==
  /\ ~mapExists => mapFile = NoLines
  /\ (WritesMap(run) /\ pc # "off") => mapExists

KeepsRecord ==
  (mapExists' /\ run'.cmd # "add-bte") => Recorded(mapFile) \subseteq Recorded(mapFile')

LEMMA NextOpens ==
  ASSUME IInv, Opens, [Next]_vars
  PROVE  Opens' /\ KeepsRecord
  <1>1. CASE UNCHANGED <<mapFile, mapExists, run, pc>>
    BY <1>1 DEF Opens, KeepsRecord, WritesMap
  <1>2. ASSUME NEW o \in Options, Start(o) PROVE Opens' /\ KeepsRecord
    <2>1. run' = o /\ Accepted(o)
      BY <1>2 DEF Start
    <2>2. CASE ~WritesMap(o)
      BY <1>2, <2>1, <2>2 DEF Start, Opens, KeepsRecord
    <2>3. CASE WritesMap(o) /\ o.resume
      BY <1>2, <2>1, <2>3 DEF Start, Opened, Opens, KeepsRecord
    <2>4. CASE WritesMap(o) /\ ~o.resume
      <3>1. o.cmd = "add" => mapFile = NoLines
        BY <2>1, <2>4 DEF Accepted, Opens
      <3>2. Recorded(NoLines) = {}
        BY DEF Recorded, NoLines
      <3>. QED
        BY <1>2, <2>1, <2>4, <3>1, <3>2 DEF Start, Opens, KeepsRecord, WritesMap, Adds
    <2>. QED
      BY <2>2, <2>3, <2>4
  <1>3. CASE DiscardMapfile
    BY <1>3 DEF DiscardMapfile, Opens, KeepsRecord, job
  <1>4. CASE PrintLine \/ FlushLine \/ Finish \/ Abort
    <2>1. /\ mapExists' = mapExists /\ run' = run /\ pc # "off"
          /\ mapFile' = mapFile \/ (WritesMap(run) /\ mapFile' = Merge(mapFile, mapBuf))
      BY <1>4 DEF PrintLine, FlushLine, Finish, Abort, CloseMap, job
    <2>2. Recorded(mapFile) \subseteq Recorded(Merge(mapFile, mapBuf))
      BY DEF Recorded, Merge, IInv, TypeOK
    <2>. QED
      BY <2>1, <2>2 DEF Opens, KeepsRecord, WritesMap
  <1>5. ASSUME NEW d \in Dirs, \/ AddItem(d) \/ AddItemFails(d) \/ ReplaceItem(d)
                               \/ ReplaceFails(d) \/ DeleteEntry(d) \/ DeleteFails(d)
        PROVE  Opens' /\ KeepsRecord
    BY <1>5 DEF AddItem, AddItemFails, ReplaceItem, ReplaceFails, DeleteEntry, DeleteFails,
       files, job, Opens, KeepsRecord, WritesMap
  <1>6. CASE CommitItem \/ CommitFails \/ RejectItem \/ Complete \/ CompleteFails
    BY <1>6 DEF CommitItem, CommitFails, RejectItem, Complete, CompleteFails, files, job,
       Opens, KeepsRecord, WritesMap
  <1>7. CASE RealComplete \/ RealAbort \/ Crash
    BY <1>7 DEF RealComplete, RealAbort, Crash, files, job, Opens, KeepsRecord, WritesMap
  <1>8. CASE (\E d \in Dirs : EditMetadata(d)) \/ (\E x \in disk : Approve(x)) \/ UNCHANGED vars
    BY <1>8, <1>1 DEF EditMetadata, Approve, vars, files, job
  <1>. QED
    BY <1>2, <1>3, <1>4, <1>5, <1>6, <1>7, <1>8 DEF Next, Importer, Environment

\* Whatever is done with the mapfile, no import loses a directory that an
\* earlier one recorded there, unless the operator threw the file away.
THEOREM RecordIsKept == Spec => ImportKeepsRecord
  <1>1. Init => Opens
    BY DEF Init, Opens
  <1>2. IInv /\ Opens /\ [Next]_vars => Opens' /\ [KeepsRecord]_mapFile
    BY NextOpens
  <1>. QED
    BY <1>1, <1>2, InitIInv, NextIInv, PTL DEF Spec, ImportKeepsRecord, KeepsRecord

-----------------------------------------------------------------------------
(* ReplaceKeepsHandles.  The line and the handle file of a directory agree,  *)
(* so that the item built gets the handle of those it replaces; in a replace *)
(* the transaction therefore holds every handle the database holds.          *)

ReplacesAsIs ==
  Archiving /\ \A o \in Options : o.cmd # "add-bte" /\ (o.cmd = "replace" => o.large)

Agrees(d, ref) == ref = None \/ handleFile[d] = None \/ ref = handleFile[d]

OneHandle ==
  /\ ~WritesMap(run) => mapBuf = NoLines
  /\ \A d \in Dirs : ByHandle(mapFile[d]) /\ ByHandle(mapBuf[d]) /\ ByHandle(handleFile[d])
  /\ \A d \in Dirs : Agrees(d, mapFile[d]) /\ Agrees(d, mapBuf[d])
  /\ \A x \in work : (pc = "built" /\ WritesMap(run) /\ x.id = new) =>
                        Agrees(x.dir, x.handle) /\ ByHandle(x.handle)

Replacing ==
  /\ \A x \in work \cup disk : x.place = "archive"
  /\ (run.cmd = "replace" /\ pc # "off") => todo \subseteq Recorded(mapFile)
  /\ (run.cmd = "replace" /\ (pc \in {"loop", "built", "commit", "flush", "completing"}
                                \/ (pc = "closing" /\ ~aborted))) =>
        Handles(disk) \subseteq Handles(work)

LEMMA NextOneHandle ==
  ASSUME ReplacesAsIs, IInv, OneHandle, [Next]_vars
  PROVE  OneHandle'
  <1>a. ~run.workflow /\ run.cmd # "add-bte" /\ Places = {"archive"}
    BY DEF ReplacesAsIs, Archiving, IInv, Building, Places
  <1>n. \A d \in Dirs : NoLines[d] = None
    BY DEF NoLines
  <1>. USE DEF ByHandle, Agrees
  <1>1. CASE /\ UNCHANGED <<mapFile, mapBuf, handleFile, run>>
             /\ pc' # "built" \/ UNCHANGED <<pc, work, new>>
    BY <1>1 DEF OneHandle, WritesMap
  <1>2. ASSUME NEW d \in Dirs, AddItem(d) PROVE OneHandle'
    <2>1. /\ run' = run /\ mapFile' = mapFile /\ mapBuf' = mapBuf /\ handleFile' = handleFile
          /\ Build(d, work, handleFile)
      BY <1>2 DEF AddItem, files, job
    <2>2. CASE run.test
      BY <2>1, <2>2 DEF OneHandle, WritesMap
    <2>3. CASE ~run.test
      <3>1. PICK i \in Ids \ used : new' = i /\ work' = work \cup {NewItem(d, i, "archive", handleFile)}
        BY <1>a, <2>1, <2>3, FreshIsUnused DEF Build
      <3>2. \A x \in work : x.id # i
        BY DEF IInv, Building
      <3>. DEFINE x == NewItem(d, i, "archive", handleFile)
      <3>3. x.dir = d /\ x.handle \in {handleFile[d], Handle(i)}
            /\ (handleFile[d] # None => x.handle = handleFile[d])
        BY <1>a DEF NewItem, HandleFor, HandleFile
      <3>4. Handle(i).kind = "handle"
        BY DEF Handle
      <3>5. Agrees(x.dir, x.handle) /\ ByHandle(x.handle)
        BY <3>3, <3>4 DEF OneHandle
      <3>. QED
        BY <2>1, <3>1, <3>2, <3>5 DEF OneHandle, WritesMap
    <2>. QED
      BY <2>2, <2>3
  <1>3. ASSUME NEW d \in Dirs, ReplaceItem(d) \/ ReplaceFails(d) PROVE OneHandle'
    <2>1. /\ run' = run /\ mapFile' = mapFile /\ mapBuf' = mapBuf /\ run.cmd = "replace"
          /\ handleFile' = WriteHandle(d)
      BY <1>3 DEF ReplaceItem, ReplaceFails, job
    <2>2. ~WritesMap(run) /\ ~WritesMap(run') /\ mapBuf = NoLines
      BY <2>1, AddsNotDelete DEF WritesMap, OneHandle
    <2>3. \A e \in Dirs : \/ WriteHandle(d)[e] = handleFile[e]
                          \/ handleFile[e] = None /\ WriteHandle(d)[e] = mapFile[e]
      BY DEF WriteHandle, IInv, TypeOK
    <2>. QED
      BY <1>n, <2>1, <2>2, <2>3 DEF OneHandle
  <1>4. CASE PrintLine
    <2>1. run' = run /\ handleFile' = handleFile /\ pc' = "commit" /\ pc = "built"
      BY <1>4 DEF PrintLine, job
    <2>2. CASE ~WritesMap(run)
      BY <1>4, <2>1, <2>2 DEF PrintLine, OneHandle, WritesMap
    <2>3. CASE WritesMap(run)
      <3>1. PICK x \in work : x.id = new /\ Line = x.handle /\ x.dir = cur
        <4>1. \E x \in work : x.id = new
          BY <2>1, <2>3 DEF IInv, Building, WritesMap
        <4>2. LET y == CHOOSE x \in work : x.id = new IN y \in work /\ y.id = new
          BY <4>1
        <4>. QED
          BY <1>a, <2>1, <2>3, <4>2 DEF IInv, Building, WritesMap, Line
      <3>2. Agrees(cur, Line) /\ ByHandle(Line) /\ cur \in Dirs
        BY <2>1, <2>3, <3>1 DEF OneHandle, IInv, Building
      <3>3. \A d \in Dirs : /\ mapBuf'[d] \in {mapBuf[d], None} \/ (d = cur /\ mapBuf'[d] = Line)
                            /\ mapFile'[d] \in {mapFile[d], mapBuf[d]}
        <4>1. CASE mapBuf' = [mapBuf EXCEPT ![cur] = Line] /\ mapFile' = mapFile
          BY <4>1 DEF IInv, TypeOK
        <4>2. CASE /\ mapFile' = Merge(mapFile, mapBuf)
                   /\ mapBuf' = [NoLines EXCEPT ![cur] = Line]
          BY <4>2 DEF NoLines, Merge
        <4>. QED
          BY <1>4, <2>3, <4>1, <4>2 DEF PrintLine
      <3>. QED
        BY <2>1, <2>3, <3>2, <3>3 DEF OneHandle, WritesMap
    <2>. QED
      BY <2>2, <2>3
  <1>5. CASE FlushLine \/ Finish \/ Abort
    <2>1. run' = run /\ handleFile' = handleFile /\ pc' # "built"
      BY <1>5 DEF FlushLine, Finish, Abort, job
    <2>2. \/ mapFile' = mapFile /\ mapBuf' = mapBuf
          \/ mapFile' = Merge(mapFile, mapBuf) /\ mapBuf' = NoLines
      BY <1>5 DEF FlushLine, Finish, Abort, CloseMap
    <2>3. \A d \in Dirs : /\ mapBuf'[d] \in {mapBuf[d], None}
                          /\ mapFile'[d] \in {mapFile[d], mapBuf[d]}
      BY <1>n, <2>2 DEF Merge
    <2>. QED
      BY <2>1, <2>2, <2>3 DEF OneHandle, WritesMap
  <1>6. CASE Crash \/ DiscardMapfile \/ \E o \in Options : Start(o)
    <2>1. /\ handleFile' = handleFile /\ pc' # "built"
          /\ mapFile' \in {mapFile, NoLines} /\ mapBuf' \in {mapBuf, NoLines}
          /\ run' = run \/ mapBuf' = NoLines
      BY <1>6 DEF Crash, DiscardMapfile, Start, Opened, job
    <2>. QED
      BY <1>n, <2>1 DEF OneHandle, WritesMap
  <1>7. ASSUME NEW x \in disk, Approve(x) PROVE OneHandle'
    BY <1>7 DEF Approve, OneHandle, WritesMap, files, job
  <1>8. ASSUME NEW d \in Dirs, AddItemFails(d) \/ DeleteEntry(d) \/ DeleteFails(d)
        PROVE  OneHandle'
    BY <1>8, <1>1 DEF AddItemFails, DeleteEntry, DeleteFails, files, job
  <1>9. CASE CommitItem \/ CommitFails \/ RejectItem \/ Complete \/ CompleteFails
    BY <1>9, <1>1 DEF CommitItem, CommitFails, RejectItem, Complete, CompleteFails, files, job
  <1>10. CASE RealComplete \/ RealAbort
    BY <1>10, <1>1 DEF RealComplete, RealAbort, files, job
  <1>11. CASE (\E d \in Dirs : EditMetadata(d)) \/ UNCHANGED vars
    BY <1>11, <1>1 DEF EditMetadata, vars, db, files, job
  <1>. QED
    BY <1>2, <1>3, <1>4, <1>5, <1>6, <1>7, <1>8, <1>9, <1>10, <1>11
       DEF Next, Importer, Environment

\* What a replace takes out of the transaction it puts back.
LEMMA ReplacementHandles ==
  ASSUME ReplacesAsIs, IInv, OneHandle, Replacing, NEW d \in Dirs, ReplaceItem(d)
  PROVE  /\ Handles(work) \subseteq Handles(work')
         /\ \A x \in work' : x.place = "archive"
  <1>1. /\ Build(d, AfterDelete(d), WriteHandle(d)) /\ run.cmd = "replace"
        /\ AfterDelete(d) \subseteq work /\ mapFile[d] # None
    BY AfterDeleteSubset DEF ReplaceItem, Replacing, Recorded
  <1>2. CASE run.test
    BY <1>1, <1>2 DEF Build, AfterDelete, Replacing
  <1>3. CASE ~run.test
    <2>1. ~run.workflow /\ Places = {"archive"}
      BY DEF ReplacesAsIs, Archiving, IInv, Building, Places
    <2>2. PICK i \in Ids :
            work' = AfterDelete(d) \cup {NewItem(d, i, "archive", WriteHandle(d))}
      BY <1>1, <1>3, <2>1, FreshIsUnused DEF Build
    <2>. DEFINE x == NewItem(d, i, "archive", WriteHandle(d))
    <2>3. WriteHandle(d)[d] = mapFile[d]
      BY <1>1 DEF WriteHandle, OneHandle, Agrees, IInv, TypeOK
    <2>4. x.handle = mapFile[d] /\ x.place = "archive"
      BY <1>1, <2>1, <2>3 DEF NewItem, HandleFor, HandleFile
    <2>5. \A y \in work : y \in AfterDelete(d) \/ y.handle = mapFile[d]
      BY <1>1, <1>3 DEF AfterDelete, Without, Named, OneHandle, ByHandle
    <2>. QED
      BY <1>1, <2>2, <2>4, <2>5 DEF Handles, Replacing
  <1>. QED
    BY <1>2, <1>3

LEMMA NextReplacing ==
  ASSUME ReplacesAsIs, IInv, OneHandle, Replacing, [Next]_vars
  PROVE  Replacing' /\ (disk' = disk \/ HandlesKept)
  <1>a. Archiving /\ (run.cmd = "replace" => run.large)
    BY DEF ReplacesAsIs, IInv, Building
  <1>. USE AddsNotDelete DEF HandlesKept
  <1>1. ASSUME NEW d \in Dirs, AddItem(d) PROVE Replacing' /\ disk' = disk
    <2>1. /\ Build(d, work, handleFile) /\ handleFile \in [Dirs -> Refs \cup {None}]
          /\ run' = run /\ run.cmd # "replace" /\ disk' = disk
      BY <1>1 DEF AddItem, IInv, TypeOK, job
    <2>2. \A x \in work' : x.place = "archive"
      BY <1>a, <2>1, BuildArchives DEF Replacing
    <2>. QED
      BY <2>1, <2>2 DEF Replacing
  <1>2. ASSUME NEW d \in Dirs, ReplaceItem(d) PROVE Replacing' /\ disk' = disk
    <2>1. /\ pc = "loop" /\ pc' = "built" /\ run' = run /\ disk' = disk /\ todo' = todo
          /\ mapFile' = mapFile
      BY <1>2 DEF ReplaceItem, Build, job
    <2>2. Handles(work) \subseteq Handles(work') /\ \A x \in work' : x.place = "archive"
      BY <1>2, ReplacementHandles
    <2>. QED
      BY <2>1, <2>2 DEF Replacing, Handles
  <1>3. ASSUME NEW d \in Dirs, AddItemFails(d) \/ ReplaceFails(d) \/ DeleteFails(d)
        PROVE  Replacing' /\ disk' = disk
    BY <1>3 DEF AddItemFails, ReplaceFails, DeleteFails, Replacing, db, files, job
  <1>4. ASSUME NEW d \in Dirs, DeleteEntry(d) PROVE Replacing' /\ disk' = disk
    BY <1>4, AfterDeleteSubset DEF DeleteEntry, Replacing, job
  <1>5. CASE PrintLine \/ FlushLine \/ Finish
    <2>1. /\ run' = run /\ disk' = disk /\ work' = work /\ todo' \subseteq todo
          /\ pc \in {"built", "flush", "loop"} /\ (run.cmd = "replace" => mapFile' = mapFile)
      BY <1>5 DEF PrintLine, FlushLine, Finish, CloseMap, WritesMap, Rest, db, job
    <2>. QED
      BY <2>1 DEF Replacing, Handles
  <1>6. CASE CommitItem \/ Complete \/ RealComplete
    <2>1. /\ run' = run /\ work' = work /\ disk' \in {disk, work} /\ todo' = todo
          /\ mapFile' = mapFile
          /\ pc \in {"commit", "completing"} \/ (pc = "closing" /\ ~aborted)
      BY <1>6 DEF CommitItem, Complete, RealComplete, Commit, files, job
    <2>. QED
      BY <2>1 DEF Replacing, Handles
  <1>7. CASE RejectItem
    <2>1. run.cmd # "replace" /\ run' = run
      BY <1>7, <1>a DEF RejectItem, Compliant, job
    <2>2. work' \subseteq work /\ disk' \subseteq work \cup disk
      BY <1>7 DEF RejectItem, Without, Commit
    <2>. QED
      BY <2>1, <2>2 DEF Replacing
  <1>8. CASE CommitFails \/ CompleteFails
    BY <1>8 DEF CommitFails, CompleteFails, Replacing, db, files, job
  <1>9. CASE Abort
    <2>1. run.cmd = "replace" => mapFile' = mapFile
      BY <1>9 DEF Abort, CloseMap, WritesMap
    <2>. QED
      BY <1>9, <2>1 DEF Abort, Replacing, job
  <1>10. CASE RealAbort \/ Crash
    BY <1>10 DEF RealAbort, Crash, Replacing, files, job
  <1>11. ASSUME NEW o \in Options, Start(o) PROVE Replacing' /\ disk' = disk
    <2>1. /\ pc = "off" /\ run' = o /\ todo' = Pending(o) /\ work' = work /\ disk' = disk
          /\ work = disk
      BY <1>11 DEF Start, db, IInv, Building
    <2>2. o.cmd = "replace" => Pending(o) = Recorded(mapFile) /\ mapFile' = mapFile
      BY <1>11 DEF Start, Pending, WritesMap
    <2>. QED
      BY <2>1, <2>2 DEF Replacing
  <1>12. CASE DiscardMapfile \/ (\E d \in Dirs : EditMetadata(d)) \/ UNCHANGED vars
    BY <1>12 DEF DiscardMapfile, EditMetadata, vars, Replacing, Handles, db, files, job
  <1>13. ASSUME NEW x \in disk, Approve(x) PROVE FALSE
    BY <1>13 DEF Approve, Replacing
  <1>. QED
    BY <1>1, <1>2, <1>3, <1>4, <1>5, <1>6, <1>7, <1>8, <1>9, <1>10, <1>11, <1>12, <1>13
       DEF Next, Importer, Environment

\* A replace that does not validate keeps every handle resolving at each of its
\* commits, over crashes, failed commits, rejected builds and discarded mapfiles.
THEOREM HandlesSurviveReplace == Spec => ReplaceKeepsHandles
  <1>. DEFINE PInv == ReplacesAsIs => OneHandle /\ Replacing
              Keeps == ReplacesAsIs => HandlesKept
  <1>1. Init => PInv
    BY DEF Init, OneHandle, Replacing, NoLines, ByHandle, Agrees
  <1>2. IInv /\ PInv /\ [Next]_vars => PInv'
    BY SameWorld, NextOneHandle, NextReplacing DEF ReplacesAsIs, Archiving
  <1>3. IInv /\ PInv /\ [Next]_vars => [Keeps]_disk
    BY NextReplacing
  <1>4. [Keeps]_disk =>
          [(Archiving /\ \A o \in Options : o.cmd # "add-bte" /\ (o.cmd = "replace" => o.large))
              => HandlesKept]_disk
    BY DEF ReplacesAsIs
  <1>. HIDE DEF PInv, Keeps
  <1>. QED
    BY <1>1, <1>2, <1>3, <1>4, InitIInv, NextIInv, PTL DEF Spec, ReplaceKeepsHandles
-----------------------------------------------------------------------------
(* That a run ends (RunEnds) rests on a measure: each step of the importer   *)
(* takes it nearer to its end, whatever fails, and nothing but the start of  *)
(* another run takes it back.                                                *)

Stage ==
  CASE pc = "off" -> 0
    [] pc = "closing" -> 1
    [] pc = "failed" -> 2
    [] pc = "completing" -> 3
    [] pc = "flush" -> 4
    [] pc = "commit" -> 5
    [] pc = "built" -> 6
    [] pc = "loop" -> 7

StepsLeft == 4 * Cardinality(todo) + Stage

\* The directory in hand is still to be done, and nothing is when the run ends.
Course ==
  /\ pc \in {"built", "commit", "flush"} => cur \in todo
  /\ pc \in {"off", "completing", "closing"} => todo = {}

Nearer ==
  /\ Importer => StepsLeft' < StepsLeft
  /\ StepsLeft' > StepsLeft => \E o \in Options : Start(o)

LEMMA StageType == ASSUME IInv PROVE Stage \in 0 .. 7
  BY DEF Stage, IInv, TypeOK

\* How many directories are left, after a step that takes at most one of them.
LEMMA LeftFinite ==
  ASSUME IsFiniteSet(Dirs), IInv
  PROVE  IsFiniteSet(todo) /\ Cardinality(todo) \in 0 .. Cardinality(Dirs)
         /\ Cardinality(Dirs) \in Nat
  BY FS_Subset, FS_CardinalityType DEF IInv, TypeOK

LEMMA OneLess ==
  ASSUME IsFiniteSet(Dirs), IInv, NEW d \in todo
  PROVE  Cardinality(todo \ {d}) = Cardinality(todo) - 1
  BY LeftFinite, FS_RemoveElement

LEMMA NextCourse ==
  ASSUME IsFiniteSet(Dirs), IInv, IInv', Course, [Next]_vars
  PROVE  Course' /\ Nearer
  <1>0. /\ Cardinality(todo) \in Nat /\ Cardinality(todo') \in Nat
        /\ Stage \in 0 .. 7 /\ Stage' \in 0 .. 7
    <2>1. Cardinality(todo') \in Nat
      BY FS_Subset, FS_CardinalityType DEF IInv, TypeOK
    <2>2. Stage' \in 0 .. 7
      BY DEF Stage, IInv, TypeOK
    <2>. QED
      BY <2>1, <2>2, LeftFinite, StageType
  <1>. USE DEF Course, Nearer
  \* A step that leaves the directories alone goes forward.
  <1>a. ASSUME todo' = todo, Stage' < Stage PROVE Nearer
    BY <1>0, <1>a DEF StepsLeft
  <1>b. ASSUME todo' = {}, Stage' < Stage PROVE Nearer
    <2>1. Cardinality(todo') = 0
      BY <1>b, FS_EmptySet
    <2>. QED
      BY <1>0, <1>b, <2>1 DEF StepsLeft
  \* Outside of the importer.
  <1>c. ASSUME todo' = todo, pc' = pc, cur' = cur, ~Importer PROVE Course' /\ Nearer
    <2>1. Stage' = Stage
      BY <1>c DEF Stage
    <2>2. StepsLeft' = StepsLeft
      BY <1>c, <2>1 DEF StepsLeft
    <2>3. StepsLeft \in Nat
      BY <1>0 DEF StepsLeft
    <2>. QED
      BY <1>c, <2>2, <2>3
  <1>1. ASSUME NEW d \in Dirs, AddItem(d) \/ ReplaceItem(d) PROVE Course' /\ Nearer
    <2>1. todo' = todo /\ cur' = d /\ d \in todo /\ pc = "loop" /\ pc' = "built"
      BY <1>1 DEF AddItem, ReplaceItem, Build
    <2>. QED
      BY <1>a, <2>1 DEF Stage
  <1>2. ASSUME NEW d \in Dirs, AddItemFails(d) \/ ReplaceFails(d) \/ DeleteFails(d)
        PROVE  Course' /\ Nearer
    <2>1. todo' = todo /\ pc = "loop" /\ pc' = "failed"
      BY <1>2 DEF AddItemFails, ReplaceFails, DeleteFails
    <2>. QED
      BY <1>a, <2>1 DEF Stage
  <1>3. ASSUME NEW d \in Dirs, DeleteEntry(d) PROVE Course' /\ Nearer
    <2>1. d \in todo /\ todo' = todo \ {d} /\ pc = "loop" /\ pc' = pc
      BY <1>3 DEF DeleteEntry
    <2>. QED
      BY <1>0, <2>1, OneLess DEF Stage, StepsLeft
  <1>4. CASE PrintLine \/ CommitItem \/ CommitFails \/ RejectItem
    <2>1. todo' = todo /\ cur' = cur /\ pc \in {"built", "commit"}
          /\ \/ pc = "built" /\ pc' = "commit"
             \/ pc = "commit" /\ pc' = "flush"
             \/ pc' = "failed"
      BY <1>4 DEF PrintLine, CommitItem, CommitFails, RejectItem
    <2>. QED
      BY <1>a, <2>1 DEF Stage
  <1>5. CASE FlushLine
    <2>1. cur \in todo /\ todo' = todo \ {cur} /\ pc = "flush" /\ pc' = "loop"
      BY <1>5 DEF FlushLine, Rest
    <2>. QED
      BY <1>0, <2>1, OneLess DEF Stage, StepsLeft
  <1>6. CASE Finish \/ Complete \/ CompleteFails \/ RealComplete \/ RealAbort
    <2>1. todo = {} /\ todo' = todo
          /\ \/ pc = "loop" /\ pc' = "completing"
             \/ pc = "completing" /\ pc' \in {"closing", "off", "failed"}
             \/ pc = "closing" /\ pc' = "off"
      BY <1>6 DEF Finish, Complete, CompleteFails, RealComplete, RealAbort
    <2>. QED
      BY <1>a, <2>1 DEF Stage
  <1>7. CASE Abort
    <2>1. todo' = {} /\ pc = "failed" /\ pc' \in {"closing", "off"}
      BY <1>7 DEF Abort
    <2>. QED
      BY <1>b, <2>1 DEF Stage
  <1>8. CASE Crash
    <2>1. todo' = {} /\ pc # "off" /\ pc' = "off"
      BY <1>8 DEF Crash
    <2>2. Stage' < Stage
      BY <2>1 DEF Stage, IInv, TypeOK
    <2>. QED
      BY <1>b, <2>1, <2>2
  <1>9. ASSUME NEW o \in Options, Start(o) PROVE Course' /\ Nearer
    <2>1. pc = "off" /\ pc' = "loop"
      BY <1>9 DEF Start
    <2>2. ~Importer
      BY <2>1 DEF Importer, AddItem, AddItemFails, ReplaceItem, ReplaceFails, DeleteEntry,
         DeleteFails, PrintLine, CommitItem, CommitFails, FlushLine, RejectItem, Finish,
         Complete, CompleteFails, Abort, RealComplete, RealAbort
    <2>. QED
      BY <1>9, <2>1, <2>2
  <1>10. CASE DiscardMapfile \/ (\E d \in Dirs : EditMetadata(d)) \/ (\E x \in disk : Approve(x))
    <2>1. pc = "off" /\ pc' = pc /\ todo' = todo /\ cur' = cur
      BY <1>10 DEF DiscardMapfile, EditMetadata, Approve
    <2>2. ~Importer
      BY <2>1 DEF Importer, AddItem, AddItemFails, ReplaceItem, ReplaceFails, DeleteEntry,
         DeleteFails, PrintLine, CommitItem, CommitFails, FlushLine, RejectItem, Finish,
         Complete, CompleteFails, Abort, RealComplete, RealAbort
    <2>. QED
      BY <1>c, <2>1, <2>2
  <1>11. CASE UNCHANGED vars /\ ~Importer
    BY <1>c, <1>11 DEF vars
  <1>. QED
    BY <1>1, <1>2, <1>3, <1>4, <1>5, <1>6, <1>7, <1>8, <1>9, <1>10, <1>11
       DEF Next, Importer, Environment

\* A run over n directories ends after at most 4n + 7 steps: every step of the
\* importer lessens what is left to do, whatever it meets on the way, and only the
\* start of a run adds to it.
THEOREM RunsAreBounded ==
  IsFiniteSet(Dirs) =>
    (Spec => /\ [](StepsLeft \in 0 .. 4 * Cardinality(Dirs) + 7)
             /\ [](StepsLeft = 0 <=> pc = "off")
             /\ [][Nearer]_vars)
  <1>. SUFFICES ASSUME IsFiniteSet(Dirs)
                PROVE  Spec => /\ [](StepsLeft \in 0 .. 4 * Cardinality(Dirs) + 7)
                               /\ [](StepsLeft = 0 <=> pc = "off")
                               /\ [][Nearer]_vars
    OBVIOUS
  <1>1. Init => Course
    BY DEF Init, Course
  <1>2. IInv /\ IInv' /\ Course /\ [Next]_vars => Course' /\ [Nearer]_vars
    BY NextCourse
  <1>3. IInv => StepsLeft \in 0 .. 4 * Cardinality(Dirs) + 7
    BY LeftFinite, StageType DEF StepsLeft
  <1>4. IInv /\ Course => (StepsLeft = 0 <=> pc = "off")
    <2>. SUFFICES ASSUME IInv, Course PROVE StepsLeft = 0 <=> pc = "off"
      OBVIOUS
    <2>1. Stage = 0 <=> pc = "off"
      BY DEF Stage, IInv, TypeOK
    <2>2. pc = "off" => Cardinality(todo) = 0
      BY FS_EmptySet DEF Course
    <2>. QED
      BY <2>1, <2>2, LeftFinite, StageType DEF StepsLeft
  <1>. QED
    BY <1>1, <1>2, <1>3, <1>4, InitIInv, NextIInv, PTL DEF Spec
=============================================================================
