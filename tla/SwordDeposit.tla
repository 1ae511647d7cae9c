----------------------------- MODULE SwordDeposit -----------------------------
(***************************************************************************)
(* SWORD v2 deposits of packages in the Simple Archive Format: the chain   *)
(* from SwordAuthenticator over SwordSAFSIPIngester and                    *)
(* ItemImport.addItemsAtomic to SwordContext.commit or abort.  Deposits    *)
(* run concurrently in one web application, each in a thread.              *)
(*                                                                         *)
(* They share the pool of database connections (a deposit uses one for the *)
(* authenticated user, one for the user it is made on behalf of, and one   *)
(* each time a rule looks for the identifier of a new item), the committed *)
(* database, and ItemImport's static mapfile writer.  The contexts are     *)
(* TransactionalContexts: what a deposit adds or deletes is seen by itself *)
(* only (`added`, `gone`) until realComplete.                              *)
(***************************************************************************)
EXTENDS Naturals, FiniteSets

CONSTANTS Deposits,
          Dirs,         \* item directories in a package
          Package,      \* Package[p]: those in the package of deposit p
          Identifier,   \* Identifier[p]: vlaanderen.identifier of each of its items
          Mediated,     \* deposits made on behalf of another user
          Connections,  \* db.maxconnections
          Worlds,       \* the circumstances considered (below)
          None

Items == [by : Deposits, dir : Dirs]
Contents == [p \in Deposits |-> {[by |-> p, dir |-> d] : d \in Package[p]}]

\* What can go wrong: the request, the credentials, the special groups of the
\* other user, an item directory, its metadata, a commit, the consumer of its
\* event, the web application.
Faults == {"request", "auth", "groups", "build", "invalid", "commit", "consumer", "crash"}

ASSUME DepositAssumption ==
  /\ Package \in [Deposits -> (SUBSET Dirs) \ {{}}]
  /\ Mediated \subseteq Deposits
  /\ Connections \in Nat
  /\ Worlds \subseteq [overlap : BOOLEAN, faults : SUBSET Faults]
  /\ None \notin Deposits /\ None \notin Dirs

VARIABLES
  world,       \* do deposits overlap, and what can go wrong
  pc, todo, cur,
  out,         \* the mapfile writer addItem was called with
  added, gone, \* items the open transaction of a deposit added and deleted
  disk,        \* items committed
  claimed,     \* those whose identifier the consumer turned into an authority
  connections, \* in use: deposit and purpose
  mapOut,      \* ItemImport.mapOut: the deposit whose mapfile it writes
  closed,      \* deposits whose writer is closed
  lines,       \* items listed in each deposit's mapfile
  answer       \* what the client was told

database == <<disk, claimed>>
transaction == <<added, gone>>
mapfile == <<mapOut, closed, lines>>
vars == <<world, pc, todo, cur, out, transaction, database, connections, mapfile, answer>>

Purposes == {"auth", "obo", "rule"}
Stages == {"idle", "auth", "obo", "unpack", "loop", "built", "rule", "valid", "failed",
           "undo", "abort", "commit", "dispatch", "done", "ended"}

TypeOK ==
  /\ world \in Worlds
  /\ pc \in [Deposits -> Stages]
  /\ todo \in [Deposits -> SUBSET Dirs]
  /\ cur \in [Deposits -> Dirs \cup {None}]
  /\ out \in [Deposits -> Deposits \cup {None}]
  /\ added \in [Deposits -> SUBSET Items] /\ gone \in [Deposits -> SUBSET Items]
  /\ disk \subseteq Items /\ claimed \subseteq disk
  /\ connections \subseteq Deposits \X Purposes
  /\ mapOut \in Deposits \cup {None} /\ closed \subseteq Deposits
  /\ lines \in [Deposits -> SUBSET Items]
  /\ answer \in [Deposits -> {"none", "accepted", "refused"}]

Init ==
  /\ world \in Worlds
  /\ pc = [p \in Deposits |-> "idle"]
  /\ todo = [p \in Deposits |-> {}]
  /\ cur = [p \in Deposits |-> None]
  /\ out = [p \in Deposits |-> None]
  /\ added = [p \in Deposits |-> {}] /\ gone = [p \in Deposits |-> {}]
  /\ disk = {} /\ claimed = {}
  /\ connections = {}
  /\ mapOut = None /\ closed = {}
  /\ lines = [p \in Deposits |-> {}]
  /\ answer = [p \in Deposits |-> "none"]

Can(f) == f \in world.faults

Goes(p, from, to) == pc[p] = from /\ pc' = [pc EXCEPT ![p] = to]

\* The connection pool: BasicDataSource hands out a connection, or gives up after
\* db.maxwait when all are in use.
PoolBusy == Cardinality(connections) >= Connections
Connect(p, purpose) == ~PoolBusy /\ connections' = connections \cup {<<p, purpose>>}
Disconnect(p, purposes) == connections' = connections \ ({p} \X purposes)

\* The end of a request.
Answer(p, what) ==
  /\ pc' = [pc EXCEPT ![p] = "ended"]
  /\ answer' = [answer EXCEPT ![p] = what]

-----------------------------------------------------------------------------
(* The request is checked, authenticated and authorized.                    *)

Receive(p) ==
  /\ Goes(p, "idle", "auth")
  /\ world.overlap \/ \A q \in Deposits : pc[q] \in {"idle", "ended"}
  /\ UNCHANGED <<world, todo, cur, out, transaction, database, connections, mapfile, answer>>

\* An In-Progress request, a wrong checksum, a file that is too large, or no
\* connection: refused before there is a context.
Decline(p) ==
  /\ pc[p] = "auth" /\ (Can("request") \/ PoolBusy)
  /\ Answer(p, "refused")
  /\ UNCHANGED <<world, todo, cur, out, transaction, database, connections, mapfile>>

\* authenticate constructs the context of the user who authenticates.
OpenContext(p) ==
  /\ Goes(p, "auth", IF p \in Mediated THEN "obo" ELSE "unpack")
  /\ Connect(p, "auth")
  /\ UNCHANGED <<world, todo, cur, out, transaction, database, mapfile, answer>>

\* Then that of the user the deposit is made for.
OpenMediatedContext(p) ==
  /\ Goes(p, "obo", "unpack")
  /\ Connect(p, "obo")
  /\ UNCHANGED <<world, todo, cur, out, transaction, database, mapfile, answer>>

\* Wrong credentials, an unknown user, or no connection for the second context:
\* authenticate aborts the first.
\* Mutant: the first is left open.
OpenFirst(p) == UNCHANGED connections
AbortFirst(p) == Disconnect(p, {"auth"})

AuthenticationFails(p) ==
  /\ pc[p] \in {"obo", "unpack"} /\ <<p, "obo">> \notin connections
  /\ Can("auth") \/ (pc[p] = "obo" /\ PoolBusy)
  /\ AbortFirst(p)
  /\ Answer(p, "refused")
  /\ UNCHANGED <<world, todo, cur, out, transaction, database, mapfile>>

\* An exception once the second context is open: only the first is aborted.
GroupsFail(p) ==
  /\ pc[p] = "obo" /\ Can("groups") /\ ~PoolBusy
  /\ connections' = (connections \ {<<p, "auth">>}) \cup {<<p, "obo">>}
  /\ Answer(p, "refused")
  /\ UNCHANGED <<world, todo, cur, out, transaction, database, mapfile>>

-----------------------------------------------------------------------------
(* addItems: the mapfile, then one directory after the other.               *)

OpenMapfile(p) ==
  /\ Goes(p, "unpack", "loop")
  /\ todo' = [todo EXCEPT ![p] = Package[p]]
  /\ mapOut' = p
  /\ UNCHANGED <<world, cur, out, transaction, database, connections, closed, lines, answer>>

\* The user may not submit to the collection, or the package cannot be unpacked:
\* addItems is not reached.
UnpackFails(p) ==
  /\ Goes(p, "unpack", "abort") /\ (Can("auth") \/ Can("build"))
  /\ UNCHANGED <<world, todo, cur, out, transaction, database, connections, mapfile, answer>>

AddItem(p, d) ==
  /\ Goes(p, "loop", "built") /\ d \in todo[p]
  /\ cur' = [cur EXCEPT ![p] = d]
  /\ out' = [out EXCEPT ![p] = mapOut]
  /\ added' = [added EXCEPT ![p] = @ \cup {[by |-> p, dir |-> d]}]
  /\ UNCHANGED <<world, todo, gone, database, connections, mapfile, answer>>

\* Unreadable metadata or a missing file; what was built of the item stays.
AddItemFails(p) ==
  /\ Goes(p, "built", "failed") /\ Can("build")
  /\ UNCHANGED <<world, todo, cur, out, transaction, database, connections, mapfile, answer>>

NewItem(p) == [by |-> p, dir |-> cur[p]]

\* The rule on vlaanderen.identifier looks in a context of its own, so it sees
\* what is committed and has its authority.
OpenRuleContext(p) ==
  /\ Goes(p, "built", "rule")
  /\ Connect(p, "rule")
  /\ UNCHANGED <<world, todo, cur, out, transaction, database, mapfile, answer>>

\* Mutant: the rule is not applied.
NeverTaken(p) == FALSE
Taken(p) == \E x \in claimed : Identifier[x.by][x.dir] = Identifier[p][cur[p]]

IsValid(p) ==
  /\ Goes(p, "rule", "valid") /\ ~Taken(p)
  /\ Disconnect(p, {"rule"})
  /\ UNCHANGED <<world, todo, cur, out, transaction, database, mapfile, answer>>

\* MetadataImportException: the new item is deleted.
Reject(p) ==
  /\ pc' = [pc EXCEPT ![p] = "failed"]
  /\ added' = [added EXCEPT ![p] = @ \ {NewItem(p)}]
  /\ UNCHANGED <<world, todo, cur, out, gone, database, mapfile, answer>>

IsInvalid(p) ==
  /\ pc[p] = "rule" /\ (Taken(p) \/ Can("invalid"))
  /\ Disconnect(p, {"rule"})
  /\ Reject(p)

\* No connection for the rule counts as a violation.
\* Mutant: it waits for one.
CannotCheckWaits(p) == FALSE /\ Reject(p)
CannotCheck(p) ==
  /\ pc[p] = "built" /\ PoolBusy
  /\ Reject(p) /\ UNCHANGED connections

\* TransactionalContext.commit does nothing yet.
\* Mutant: it commits.
CommitItemNow(p) == disk' = disk \cup added[p]
CommitItem(p) == UNCHANGED disk

\* The line goes where `out` writes, if that is still open.
PrintLine(p) ==
  /\ Goes(p, "valid", "loop")
  /\ lines' = [q \in Deposits |->
                 IF q = out[p] /\ q \notin closed THEN lines[q] \cup {NewItem(p)} ELSE lines[q]]
  /\ CommitItem(p)
  /\ todo' = [todo EXCEPT ![p] = @ \ {cur[p]}]
  /\ cur' = [cur EXCEPT ![p] = None]
  /\ UNCHANGED <<world, out, transaction, claimed, connections, mapOut, closed, answer>>

\* addItems' finally closes the static writer, whoever opened it.
CloseMapfile == closed' = closed \cup ({mapOut} \ {None})

Finish(p) ==
  /\ Goes(p, "loop", "commit") /\ todo[p] = {}
  /\ CloseMapfile
  /\ UNCHANGED <<world, todo, cur, out, transaction, database, connections, mapOut, lines, answer>>

-----------------------------------------------------------------------------
(* A failed deposit.                                                        *)

Fail(p) ==
  /\ Goes(p, "failed", "undo")
  /\ CloseMapfile
  /\ UNCHANGED <<world, todo, cur, out, transaction, database, connections, mapOut, lines, answer>>

\* addItemsAtomic deletes the items its mapfile names, as far as they were flushed
\* to it and the transaction sees them.
Visible(p) == disk \cup added[p]

Undo(p) ==
  /\ Goes(p, "undo", "abort")
  /\ \E X \in SUBSET (lines[p] \cap Visible(p)) :
        /\ gone' = [gone EXCEPT ![p] = X]
        /\ added' = [added EXCEPT ![p] = @ \ X]
  /\ UNCHANGED <<world, todo, cur, out, database, connections, mapfile, answer>>

Forget(P) ==
  /\ added' = [p \in Deposits |-> IF p \in P THEN {} ELSE added[p]]
  /\ gone' = [p \in Deposits |-> IF p \in P THEN {} ELSE gone[p]]

\* SwordContext.abort: realAbort of both contexts.
Abort(p) ==
  /\ pc[p] = "abort"
  /\ Forget({p})
  /\ Disconnect(p, Purposes)
  /\ Answer(p, "refused")
  /\ UNCHANGED <<world, todo, cur, out, database, mapfile>>

-----------------------------------------------------------------------------
(* A successful one: SwordContext.commit.                                   *)

\* realComplete commits the context of the deposit,
\* Mutant: the commits that were counted are forgotten.
CommitNothing(p) ==
  /\ Goes(p, "commit", "dispatch")
  /\ UNCHANGED <<world, todo, cur, out, transaction, database, connections, mapfile, answer>>
Commit(p) ==
  /\ Goes(p, "commit", "dispatch")
  /\ disk' = (disk \cup added[p]) \ gone[p]
  /\ UNCHANGED <<world, todo, cur, out, transaction, claimed, connections, mapfile, answer>>

\* or fails to,
CommitFails(p) ==
  /\ Goes(p, "commit", "abort") /\ Can("commit")
  /\ UNCHANGED <<world, todo, cur, out, transaction, database, connections, mapfile, answer>>

\* then dispatches its events: ExternalIdentifierAuthorityConsumer sets the
\* authority of the identifiers and commits once more.  An exception of a
\* consumer is logged.
Dispatch(p) ==
  /\ Goes(p, "dispatch", "done")
  /\ \/ claimed' = claimed \cup added[p]
     \/ Can("consumer") /\ UNCHANGED claimed
  /\ Forget({p})
  /\ UNCHANGED <<world, todo, cur, out, disk, connections, mapfile, answer>>

\* The other context is aborted, and the client gets its receipt.
Accept(p) ==
  /\ pc[p] = "done"
  /\ Disconnect(p, Purposes)
  /\ Answer(p, "accepted")
  /\ UNCHANGED <<world, todo, cur, out, transaction, database, mapfile>>

\* The web application goes down: requests under way get no answer.
Crash ==
  /\ Can("crash")
  /\ \E p \in Deposits : pc[p] \notin {"idle", "ended"}
  /\ pc' = [p \in Deposits |-> IF pc[p] = "idle" THEN "idle" ELSE "ended"]
  /\ Forget(Deposits)
  /\ connections' = {} /\ mapOut' = None /\ closed' = {}
  /\ UNCHANGED <<world, todo, cur, out, database, lines, answer>>

Thread(p) ==
  \/ Decline(p) \/ OpenContext(p) \/ OpenMediatedContext(p)
  \/ AuthenticationFails(p) \/ GroupsFail(p)
  \/ OpenMapfile(p) \/ UnpackFails(p)
  \/ (\E d \in Dirs : AddItem(p, d)) \/ AddItemFails(p)
  \/ OpenRuleContext(p) \/ IsValid(p) \/ IsInvalid(p) \/ CannotCheck(p)
  \/ PrintLine(p) \/ Finish(p)
  \/ Fail(p) \/ Undo(p) \/ Abort(p)
  \/ Commit(p) \/ CommitFails(p) \/ Dispatch(p) \/ Accept(p)

Next == (\E p \in Deposits : Receive(p) \/ Thread(p)) \/ Crash

Spec == Init /\ [][Next]_vars

\* Each request has a thread of the web application.
FairSpec == Spec /\ \A p \in Deposits : WF_vars(Thread(p))

-----------------------------------------------------------------------------
\* A deposit adds all its items or none, its answer tells which, and no deposit
\* loses its items to another, though they share the mapfile writer and the code
\* that undoes one deletes what its mapfile names.
Atomic == INSTANCE AtomicDeposits WITH stored <- disk
DepositsAreAtomic == Atomic!Spec

\* A request that was answered left no connection behind, whatever failed and
\* whoever waited; unless the special groups could not be read.
ConnectionsReturned ==
  ~Can("groups") =>
    /\ Cardinality(connections) <= Connections
    /\ \A p \in Deposits : pc[p] = "ended" => connections \cap ({p} \X Purposes) = {}

\* While deposits come one at a time and no package has the same identifier twice,
\* no two items hold the same identifier as an authority, so that a client that
\* got no answer can deposit once more; and no two items have the same one, unless
\* a consumer failed or the web application went down before it ran.
Duplicate(x, y) == x # y /\ Identifier[x.by][x.dir] = Identifier[y.by][y.dir]
OneEach == \A p \in Deposits : \A x, y \in Contents[p] : ~Duplicate(x, y)
IdentifiersUnique ==
  ~world.overlap /\ OneEach =>
    /\ \A x, y \in claimed : ~Duplicate(x, y)
    /\ Can("consumer") \/ Can("crash") \/ \A x, y \in disk : ~Duplicate(x, y)

\* Every request is answered, although each may need three connections and the
\* others hold them; unless the web application goes down.
EveryRequestAnswered ==
  \A p \in Deposits : (pc[p] = "auth" /\ ~Can("crash")) ~> (answer[p] # "none")

\* Claimed: <rule type="uniqueValueByAuthorityId"> on vlaanderen.identifier
\* (item-validation-rules.xml:44-45).
AlwaysUnique == \A x, y \in disk : ~Duplicate(x, y)
=============================================================================
