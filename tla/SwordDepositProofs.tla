-------------------------- MODULE SwordDepositProofs --------------------------
(* Proofs about SwordDeposit for every set of deposits, packages, size of   *)
(* the connection pool and combination of faults.                           *)
EXTENDS SwordDeposit, FiniteSetTheorems, TLAPS

USE DepositAssumption

\* A transaction holds items of its own package only: of the directories done
\* all, and at the end of the loop the whole package; and it deletes something
\* only on its way to the abort.
Transactions ==
  \A p \in Deposits :
    /\ todo[p] \subseteq Package[p]
    /\ added[p] \subseteq Contents[p]
    /\ pc[p] \in {"loop", "built", "rule", "valid"} =>
         \A d \in Package[p] \ todo[p] : [by |-> p, dir |-> d] \in added[p]
    /\ pc[p] \in {"built", "rule", "valid"} => cur[p] \in todo[p] /\ NewItem(p) \in added[p]
    /\ pc[p] \in {"commit", "dispatch"} => added[p] = Contents[p] /\ todo[p] = {}
    /\ pc[p] # "abort" => gone[p] = {}

\* The whole package is committed from realComplete on and none of it before.
Committed ==
  \A p \in Deposits :
    /\ pc[p] \in {"dispatch", "done"} => Contents[p] \subseteq disk
    /\ pc[p] \notin {"dispatch", "done", "ended"} => Contents[p] \cap disk = {}
    /\ pc[p] # "ended" => answer[p] = "none"

DInv == TypeOK /\ Transactions /\ Committed

LEMMA ContentsFacts ==
  /\ \A p \in Deposits : Contents[p] \subseteq Items
  /\ \A p, q \in Deposits : p # q => Contents[p] \cap Contents[q] = {}
  /\ \A p \in Deposits : \A d \in Package[p] : [by |-> p, dir |-> d] \in Contents[p]
  BY DEF Contents, Items

LEMMA InitDInv == Init => DInv
  BY DEF Init, DInv, TypeOK, Transactions, Committed, Stages

\* A step from one control state to another that leaves the transactions, the
\* database and the answers alone.
LEMMA GoesDInv ==
  ASSUME DInv, NEW p \in Deposits, NEW from \in Stages, NEW to \in Stages, Goes(p, from, to),
         UNCHANGED <<world, todo, cur, transaction, database, answer>>,
         out' \in [Deposits -> Deposits \cup {None}], connections' \subseteq Deposits \X Purposes,
         mapOut' \in Deposits \cup {None}, closed' \subseteq Deposits,
         lines' \in [Deposits -> SUBSET Items],
         to \notin {"loop", "dispatch", "ended"}, from \notin {"dispatch", "abort", "ended"},
         from # "done",
         to \in {"built", "rule", "valid"} => from \in {"built", "rule", "valid"},
         to = "commit" => added[p] = Contents[p] /\ todo[p] = {}, to # "done"
  PROVE  DInv'
  <1>1. TypeOK'
    BY DEF DInv, TypeOK, Goes, transaction, database
  <1>2. Transactions'
    BY DEF DInv, TypeOK, Transactions, Goes, transaction, NewItem
  <1>3. Committed'
    BY DEF DInv, TypeOK, Committed, Goes, database
  <1>. QED
    BY <1>1, <1>2, <1>3 DEF DInv

\* The steps of the other kind, one lemma each; first the end of a request.
LEMMA AnswerDInv ==
  ASSUME DInv, NEW p \in Deposits, NEW what \in {"accepted", "refused"}, Answer(p, what),
         \/ UNCHANGED transaction
         \/ Forget({p}),
         connections' \subseteq connections \cup {<<p, "obo">>},
         UNCHANGED <<world, todo, cur, out, database, mapfile>>,
         gone'[p] = {}
  PROVE  DInv'
  <1>1. TypeOK'
    BY DEF DInv, TypeOK, Answer, Forget, transaction, database, mapfile, Stages, Purposes
  <1>2. Transactions'
    BY DEF DInv, TypeOK, Transactions, Answer, Forget, transaction, NewItem
  <1>3. Committed'
    BY DEF DInv, TypeOK, Committed, Answer, database
  <1>. QED
    BY <1>1, <1>2, <1>3 DEF DInv

LEMMA OpenMapfileDInv ==
  ASSUME DInv, NEW p \in Deposits, OpenMapfile(p)
  PROVE  DInv'
  <1>1. TypeOK'
    BY DEF DInv, TypeOK, OpenMapfile, Goes, transaction, database, Stages
  <1>2. Transactions'
    BY DEF DInv, TypeOK, Transactions, OpenMapfile, Goes, transaction, NewItem
  <1>3. Committed'
    BY DEF DInv, TypeOK, Committed, OpenMapfile, Goes, database
  <1>. QED
    BY <1>1, <1>2, <1>3 DEF DInv

LEMMA AddItemDInv ==
  ASSUME DInv, NEW p \in Deposits, NEW d \in Dirs, AddItem(p, d)
  PROVE  DInv'
  <1>1. d \in Package[p] /\ [by |-> p, dir |-> d] \in Contents[p] /\ [by |-> p, dir |-> d] \in Items
    BY ContentsFacts DEF AddItem, DInv, Transactions
  <1>2. TypeOK'
    BY <1>1 DEF DInv, TypeOK, AddItem, Goes, database, mapfile, Stages
  <1>3. Transactions'
    BY <1>1 DEF DInv, TypeOK, Transactions, AddItem, Goes, NewItem
  <1>4. Committed'
    BY DEF DInv, TypeOK, Committed, AddItem, Goes, database
  <1>. QED
    BY <1>2, <1>3, <1>4 DEF DInv

LEMMA RejectDInv ==
  ASSUME DInv, NEW p \in Deposits, Reject(p), pc[p] \in {"built", "rule"},
         connections' \subseteq connections
  PROVE  DInv'
  <1>1. TypeOK'
    BY DEF DInv, TypeOK, Reject, database, mapfile, Stages
  <1>2. Transactions'
    BY DEF DInv, TypeOK, Transactions, Reject, NewItem
  <1>3. Committed'
    BY DEF DInv, TypeOK, Committed, Reject, database
  <1>. QED
    BY <1>1, <1>2, <1>3 DEF DInv

LEMMA PrintLineDInv ==
  ASSUME DInv, NEW p \in Deposits, PrintLine(p)
  PROVE  DInv'
  <1>1. cur[p] \in todo[p] /\ NewItem(p) \in added[p] /\ NewItem(p) \in Items
    BY ContentsFacts DEF DInv, Transactions, PrintLine, Goes
  <1>2. TypeOK'
    BY <1>1 DEF DInv, TypeOK, PrintLine, CommitItem, Goes, transaction, Stages
  <1>3. Transactions'
    BY <1>1 DEF DInv, TypeOK, Transactions, PrintLine, Goes, transaction, NewItem
  <1>4. Committed'
    BY DEF DInv, TypeOK, Committed, PrintLine, CommitItem, Goes
  <1>. QED
    BY <1>2, <1>3, <1>4 DEF DInv

LEMMA UndoDInv ==
  ASSUME DInv, NEW p \in Deposits, Undo(p)
  PROVE  DInv'
  <1>1. PICK X \in SUBSET (lines[p] \cap Visible(p)) :
          /\ gone' = [gone EXCEPT ![p] = X]
          /\ added' = [added EXCEPT ![p] = @ \ X]
    BY DEF Undo
  <1>2. TypeOK'
    BY <1>1 DEF DInv, TypeOK, Undo, Goes, database, mapfile, Stages
  <1>3. Transactions'
    BY <1>1 DEF DInv, TypeOK, Transactions, Undo, Goes, NewItem
  <1>4. Committed'
    BY DEF DInv, TypeOK, Committed, Undo, Goes, database
  <1>. QED
    BY <1>2, <1>3, <1>4 DEF DInv

LEMMA CommitDInv ==
  ASSUME DInv, NEW p \in Deposits, Commit(p)
  PROVE  DInv' /\ disk' = disk \cup Contents[p]
  <1>1. disk' = disk \cup Contents[p]
    BY DEF DInv, Transactions, Commit, Goes
  <1>2. TypeOK'
    BY <1>1, ContentsFacts DEF DInv, TypeOK, Commit, Goes, transaction, mapfile, Stages
  <1>3. Transactions'
    BY DEF DInv, TypeOK, Transactions, Commit, Goes, transaction, NewItem
  <1>4. Committed'
    BY <1>1, ContentsFacts DEF DInv, TypeOK, Committed, Commit, Goes
  <1>. QED
    BY <1>1, <1>2, <1>3, <1>4 DEF DInv

LEMMA DispatchDInv ==
  ASSUME DInv, NEW p \in Deposits, Dispatch(p)
  PROVE  DInv'
  <1>1. claimed' \subseteq disk
    BY DEF DInv, TypeOK, Transactions, Committed, Dispatch, Goes
  <1>2. TypeOK'
    BY <1>1 DEF DInv, TypeOK, Dispatch, Forget, Goes, mapfile, Stages
  <1>3. Transactions'
    BY DEF DInv, TypeOK, Transactions, Dispatch, Forget, Goes, NewItem
  <1>4. Committed'
    BY DEF DInv, TypeOK, Committed, Dispatch, Goes
  <1>. QED
    BY <1>2, <1>3, <1>4 DEF DInv

LEMMA CrashDInv ==
  ASSUME DInv, Crash
  PROVE  DInv'
  <1>1. TypeOK'
    BY DEF DInv, TypeOK, Crash, Forget, database, Stages, Purposes
  <1>2. Transactions'
    BY DEF DInv, TypeOK, Transactions, Crash, Forget, NewItem
  <1>3. Committed'
    BY DEF DInv, TypeOK, Committed, Crash, database
  <1>. QED
    BY <1>1, <1>2, <1>3 DEF DInv

LEMMA ConnectType ==
  ASSUME DInv, NEW p \in Deposits, NEW purpose \in Purposes, Connect(p, purpose)
  PROVE  connections' \subseteq Deposits \X Purposes
  BY DEF Connect, DInv, TypeOK

LEMMA ThreadDInv ==
  ASSUME DInv, NEW p \in Deposits, Thread(p)
  PROVE  DInv'
  <1>1. CASE Decline(p)
    BY <1>1, AnswerDInv DEF Decline, mapfile, DInv, Transactions, transaction
  <1>2. CASE OpenContext(p)
    <2>1. connections' \subseteq Deposits \X Purposes
      BY <1>2, ConnectType DEF OpenContext, Purposes
    <2>. QED
      BY <1>2, <2>1, GoesDInv DEF OpenContext, mapfile, DInv, TypeOK, Stages
  <1>3. CASE OpenMediatedContext(p)
    <2>1. connections' \subseteq Deposits \X Purposes
      BY <1>3, ConnectType DEF OpenMediatedContext, Purposes
    <2>. QED
      BY <1>3, <2>1, GoesDInv DEF OpenMediatedContext, mapfile, DInv, TypeOK, Stages
  <1>4. CASE AuthenticationFails(p)
    <2>1. connections' \subseteq connections /\ gone'[p] = {}
      BY <1>4 DEF AuthenticationFails, AbortFirst, Disconnect, transaction, DInv, Transactions
    <2>. QED
      BY <1>4, <2>1, AnswerDInv DEF AuthenticationFails
  <1>5. CASE GroupsFail(p)
    <2>1. gone'[p] = {}
      BY <1>5 DEF GroupsFail, transaction, DInv, Transactions
    <2>. QED
      BY <1>5, <2>1, AnswerDInv DEF GroupsFail
  <1>6. CASE OpenMapfile(p)
    BY <1>6, OpenMapfileDInv
  <1>7. CASE UnpackFails(p)
    BY <1>7, GoesDInv DEF UnpackFails, mapfile, DInv, TypeOK, Stages
  <1>8. CASE \E d \in Dirs : AddItem(p, d)
    BY <1>8, AddItemDInv
  <1>9. CASE AddItemFails(p)
    BY <1>9, GoesDInv DEF AddItemFails, mapfile, DInv, TypeOK, Stages
  <1>10. CASE OpenRuleContext(p)
    <2>1. connections' \subseteq Deposits \X Purposes
      BY <1>10, ConnectType DEF OpenRuleContext, Purposes
    <2>. QED
      BY <1>10, <2>1, GoesDInv DEF OpenRuleContext, mapfile, DInv, TypeOK, Stages
  <1>11. CASE IsValid(p)
    BY <1>11, GoesDInv DEF IsValid, Disconnect, mapfile, DInv, TypeOK, Stages
  <1>12. CASE IsInvalid(p)
    BY <1>12, RejectDInv DEF IsInvalid, Disconnect
  <1>13. CASE CannotCheck(p)
    BY <1>13, RejectDInv DEF CannotCheck
  <1>14. CASE PrintLine(p)
    BY <1>14, PrintLineDInv
  <1>15. CASE Finish(p)
    <2>1. Contents[p] \subseteq added[p]
      BY <1>15 DEF Finish, Goes, DInv, Transactions, Contents
    <2>2. added[p] = Contents[p]
      BY <2>1 DEF DInv, Transactions
    <2>3. closed' \subseteq Deposits
      BY <1>15 DEF Finish, CloseMapfile, DInv, TypeOK
    <2>. QED
      BY <1>15, <2>2, <2>3, GoesDInv DEF Finish, DInv, TypeOK, Stages
  <1>16. CASE Fail(p)
    <2>1. closed' \subseteq Deposits
      BY <1>16 DEF Fail, CloseMapfile, DInv, TypeOK
    <2>. QED
      BY <1>16, <2>1, GoesDInv DEF Fail, DInv, TypeOK, Stages
  <1>17. CASE Undo(p)
    BY <1>17, UndoDInv
  <1>18. CASE Abort(p)
    <2>1. connections' \subseteq connections /\ gone'[p] = {}
      BY <1>18 DEF Abort, Forget, Disconnect
    <2>. QED
      BY <1>18, <2>1, AnswerDInv DEF Abort
  <1>19. CASE Commit(p)
    BY <1>19, CommitDInv
  <1>20. CASE CommitFails(p)
    BY <1>20, GoesDInv DEF CommitFails, mapfile, DInv, TypeOK, Stages
  <1>21. CASE Dispatch(p)
    BY <1>21, DispatchDInv
  <1>22. CASE Accept(p)
    <2>1. connections' \subseteq connections /\ gone'[p] = {}
      BY <1>22 DEF Accept, Disconnect, transaction, DInv, Transactions
    <2>. QED
      BY <1>22, <2>1, AnswerDInv DEF Accept
  <1>. QED
    BY <1>1, <1>2, <1>3, <1>4, <1>5, <1>6, <1>7, <1>8, <1>9, <1>10, <1>11, <1>12, <1>13,
       <1>14, <1>15, <1>16, <1>17, <1>18, <1>19, <1>20, <1>21, <1>22 DEF Thread

LEMMA ReceiveDInv ==
  ASSUME DInv, NEW p \in Deposits, Receive(p)
  PROVE  DInv'
  BY GoesDInv DEF Receive, mapfile, DInv, TypeOK, Stages

LEMMA StutterDInv == ASSUME DInv, UNCHANGED vars PROVE DInv'
  BY DEF DInv, TypeOK, Transactions, Committed, NewItem, vars, transaction, database, mapfile

LEMMA NextDInv == DInv /\ [Next]_vars => DInv'
  BY ThreadDInv, ReceiveDInv, CrashDInv, StutterDInv DEF Next

THEOREM DepositInvariant == Spec => []DInv
  BY InitDInv, NextDInv, PTL DEF Spec

\* The state of every deposit has its types, whatever overlaps and fails.
THEOREM DepositTypeCorrect == Spec => []TypeOK
  BY DepositInvariant, PTL DEF DInv

-----------------------------------------------------------------------------
(* SwordDeposit implements AtomicDeposits.                                  *)

LEMMA EndRefines ==
  ASSUME NEW p \in Deposits, DInv, disk' = disk, Answer(p, "refused"),
         pc[p] \notin {"dispatch", "done", "ended"}
  PROVE  Atomic!Refuse(p)
  BY DEF DInv, Committed, Answer, Atomic!Refuse

LEMMA ThreadRefines ==
  ASSUME NEW p \in Deposits, DInv, Thread(p)
  PROVE  Atomic!Next \/ UNCHANGED <<disk, answer>>
  <1>1. CASE Decline(p) \/ AuthenticationFails(p) \/ GroupsFail(p) \/ Abort(p)
    BY <1>1, EndRefines DEF Decline, AuthenticationFails, GroupsFail, Abort, database, Atomic!Next
  <1>2. CASE Commit(p)
    <2>1. Atomic!Store(p)
      BY <1>2, CommitDInv DEF Commit, Goes, DInv, Committed, Atomic!Store
    <2>. QED
      BY <2>1 DEF Atomic!Next
  <1>3. CASE Accept(p)
    <2>1. Atomic!Accept(p)
      BY <1>3 DEF Accept, Answer, DInv, Committed, database, Atomic!Accept
    <2>. QED
      BY <2>1 DEF Atomic!Next
  <1>4. CASE \/ OpenContext(p) \/ OpenMediatedContext(p) \/ OpenMapfile(p) \/ UnpackFails(p)
             \/ (\E d \in Dirs : AddItem(p, d)) \/ AddItemFails(p) \/ OpenRuleContext(p)
             \/ IsValid(p) \/ IsInvalid(p) \/ CannotCheck(p) \/ PrintLine(p)
    BY <1>4 DEF OpenContext, OpenMediatedContext, OpenMapfile, UnpackFails, AddItem, AddItemFails,
                OpenRuleContext, IsValid, IsInvalid, CannotCheck, Reject, PrintLine, CommitItem,
                database
  <1>5. CASE Finish(p) \/ Fail(p) \/ Undo(p) \/ CommitFails(p) \/ Dispatch(p)
    BY <1>5 DEF Finish, Fail, Undo, CommitFails, Dispatch, database
  <1>. QED
    BY <1>1, <1>2, <1>3, <1>4, <1>5 DEF Thread

\* A deposit stores its package completely or not at all, is accepted only after
\* and refused only if not, and no deposit loses its items to another: although
\* all of them share the mapfile by which a failed one is undone.
THEOREM DepositsAtomic == Spec => DepositsAreAtomic
  <1>1. Init => Atomic!Init
    BY DEF Init, Atomic!Init
  <1>2. DInv /\ [Next]_vars => [Atomic!Next]_<<disk, answer>>
    <2>1. ASSUME NEW p \in Deposits, Receive(p) PROVE UNCHANGED <<disk, answer>>
      BY <2>1 DEF Receive, database
    <2>2. CASE Crash
      BY <2>2 DEF Crash, database
    <2>3. CASE UNCHANGED vars
      BY <2>3 DEF vars, database
    <2>. QED
      BY <2>1, <2>2, <2>3, ThreadRefines DEF Next
  <1>. QED
    BY <1>1, <1>2, DepositInvariant, PTL DEF Spec, DepositsAreAtomic, Atomic!Spec

-----------------------------------------------------------------------------
(* The connection pool.                                                     *)

Holds(p) == connections \cap ({p} \X Purposes)

Bounded == IsFiniteSet(connections) /\ Cardinality(connections) <= Connections

\* A connection is opened at most once for each purpose, and closed again, unless
\* the special groups could not be read.
Balanced ==
  ~Can("groups") =>
    \A p \in Deposits :
      /\ pc[p] \in {"idle", "auth", "ended"} => Holds(p) = {}
      /\ pc[p] \in {"obo", "unpack"} => <<p, "rule">> \notin connections
      /\ pc[p] = "obo" => <<p, "obo">> \notin connections

PInv == DInv /\ Bounded /\ Balanced

LEMMA HoldsPair ==
  ASSUME NEW p \in Deposits, NEW purpose \in Purposes, Holds(p) = {}
  PROVE  <<p, purpose>> \notin connections
  BY DEF Holds

\* What is given back keeps the bound,
LEMMA FewerBounded ==
  ASSUME Bounded, connections' \subseteq connections
  PROVE  Bounded'
  <1>1. IsFiniteSet(connections') /\ Cardinality(connections') <= Cardinality(connections)
    BY FS_Subset DEF Bounded
  <1>2. Cardinality(connections) \in Nat /\ Cardinality(connections') \in Nat
    BY <1>1, FS_CardinalityType DEF Bounded
  <1>. QED
    BY <1>1, <1>2 DEF Bounded

\* and so does what is taken while the pool is not exhausted.
LEMMA ConnectBounded ==
  ASSUME Bounded, ~PoolBusy, NEW c, connections' \subseteq connections \cup {c}
  PROVE  Bounded'
  <1>. DEFINE both == connections \cup {c}
  <1>1. IsFiniteSet(both) /\ Cardinality(both) <= Cardinality(connections) + 1
    <2>1. Cardinality(connections) \in Nat
      BY FS_CardinalityType DEF Bounded
    <2>2. /\ IsFiniteSet(both)
          /\ Cardinality(both) = IF c \in connections THEN Cardinality(connections)
                                ELSE Cardinality(connections) + 1
      BY FS_AddElement DEF Bounded
    <2>. QED
      BY <2>1, <2>2
  <1>2. IsFiniteSet(connections') /\ Cardinality(connections') <= Cardinality(both)
    BY <1>1, FS_Subset
  <1>3. Cardinality(connections) \in Nat /\ Cardinality(both) \in Nat /\ Cardinality(connections') \in Nat
    BY <1>1, <1>2, FS_CardinalityType DEF Bounded
  <1>4. Cardinality(connections) + 1 <= Connections
    BY <1>3 DEF PoolBusy
  <1>. HIDE DEF both
  <1>. QED
    BY <1>1, <1>2, <1>3, <1>4 DEF Bounded

\* The steps of a deposit disturb what it holds itself, never what another holds.
LEMMA OwnBalanced ==
  ASSUME DInv, Balanced, NEW p \in Deposits, NEW to \in Stages, world' = world,
         pc' = [pc EXCEPT ![p] = to],
         \A q \in Deposits : q # p => Holds(q)' = Holds(q),
         ~Can("groups") =>
           /\ to \in {"idle", "auth", "ended"} => Holds(p)' = {}
           /\ to \in {"obo", "unpack"} => <<p, "rule">> \notin connections'
           /\ to = "obo" => <<p, "obo">> \notin connections'
  PROVE  Balanced'
  <1>. SUFFICES ASSUME ~Can("groups"), NEW q \in Deposits
                PROVE /\ pc'[q] \in {"idle", "auth", "ended"} => Holds(q)' = {}
                      /\ pc'[q] \in {"obo", "unpack"} => <<q, "rule">> \notin connections'
                      /\ pc'[q] = "obo" => <<q, "obo">> \notin connections'
    BY DEF Balanced, Can
  <1>1. CASE q = p
    BY <1>1 DEF DInv, TypeOK
  <1>2. CASE q # p
    <2>1. pc'[q] = pc[q]
      BY <1>2 DEF DInv, TypeOK
    <2>2. \A c \in Purposes : <<q, c>> \in connections' <=> <<q, c>> \in connections
      BY <1>2 DEF Holds
    <2>3. "rule" \in Purposes /\ "obo" \in Purposes
      BY DEF Purposes
    <2>. QED
      BY <1>2, <2>1, <2>2, <2>3 DEF Balanced
  <1>. QED
    BY <1>1, <1>2

LEMMA ThreadPInv ==
  ASSUME PInv, NEW p \in Deposits, Thread(p)
  PROVE  Bounded' /\ Balanced'
  <1>. USE DEF PInv
  <1>w. world' = world
    BY DEF Thread, Decline, OpenContext, OpenMediatedContext, AuthenticationFails, GroupsFail,
           OpenMapfile, UnpackFails, AddItem, AddItemFails, OpenRuleContext, IsValid, IsInvalid,
           CannotCheck, Reject, PrintLine, Finish, Fail, Undo, Abort, Commit, CommitFails,
           Dispatch, Accept
  <1>1. CASE Decline(p)
    <2>1. connections' = connections /\ pc[p] = "auth" /\ pc' = [pc EXCEPT ![p] = "ended"]
      BY <1>1 DEF Decline, Answer
    <2>. QED
      BY <1>w, <2>1, FewerBounded, OwnBalanced DEF Balanced, Holds, Stages
  <1>2. CASE OpenContext(p)
    <2>1. /\ pc[p] = "auth" /\ ~PoolBusy /\ connections' = connections \cup {<<p, "auth">>}
          /\ \E to \in {"obo", "unpack"} : pc' = [pc EXCEPT ![p] = to]
      BY <1>2 DEF OpenContext, Goes, Connect
    <2>2. ~Can("groups") => \A c \in Purposes : <<p, c>> \notin connections
      BY <2>1, HoldsPair DEF Balanced
    <2>3. ~Can("groups") => <<p, "rule">> \notin connections' /\ <<p, "obo">> \notin connections'
      BY <2>1, <2>2 DEF Purposes
    <2>4. \A q \in Deposits : q # p => Holds(q)' = Holds(q)
      BY <2>1 DEF Holds
    <2>5. PICK to \in {"obo", "unpack"} : pc' = [pc EXCEPT ![p] = to]
      BY <2>1
    <2>. QED
      BY <1>w, <2>1, <2>3, <2>4, <2>5, ConnectBounded, OwnBalanced DEF Stages
  <1>3. CASE OpenMediatedContext(p)
    <2>1. /\ pc[p] = "obo" /\ ~PoolBusy /\ connections' = connections \cup {<<p, "obo">>}
          /\ pc' = [pc EXCEPT ![p] = "unpack"]
      BY <1>3 DEF OpenMediatedContext, Goes, Connect
    <2>2. ~Can("groups") => <<p, "rule">> \notin connections'
      BY <2>1 DEF Balanced
    <2>3. \A q \in Deposits : q # p => Holds(q)' = Holds(q)
      BY <2>1 DEF Holds
    <2>. QED
      BY <1>w, <2>1, <2>2, <2>3, ConnectBounded, OwnBalanced DEF Stages
  <1>4. CASE AuthenticationFails(p)
    <2>1. /\ pc[p] \in {"obo", "unpack"} /\ <<p, "obo">> \notin connections
          /\ connections' = connections \ ({p} \X {"auth"})
          /\ pc' = [pc EXCEPT ![p] = "ended"]
      BY <1>4 DEF AuthenticationFails, AbortFirst, Disconnect, Answer
    <2>2. ~Can("groups") => Holds(p)' = {}
      BY <2>1 DEF Balanced, Holds, Purposes
    <2>3. \A q \in Deposits : q # p => Holds(q)' = Holds(q)
      BY <2>1 DEF Holds
    <2>. QED
      BY <1>w, <2>1, <2>2, <2>3, FewerBounded, OwnBalanced DEF Stages
  <1>5. CASE GroupsFail(p)
    <2>1. /\ Can("groups") /\ ~PoolBusy /\ connections' \subseteq connections \cup {<<p, "obo">>}
      BY <1>5 DEF GroupsFail
    <2>2. Balanced'
      BY <1>w, <2>1 DEF Balanced, Can
    <2>. QED
      BY <2>1, <2>2, ConnectBounded
  <1>6. CASE OpenRuleContext(p)
    <2>1. /\ ~PoolBusy /\ connections' = connections \cup {<<p, "rule">>}
          /\ pc' = [pc EXCEPT ![p] = "rule"]
      BY <1>6 DEF OpenRuleContext, Goes, Connect
    <2>2. \A q \in Deposits : q # p => Holds(q)' = Holds(q)
      BY <2>1 DEF Holds
    <2>. QED
      BY <1>w, <2>1, <2>2, ConnectBounded, OwnBalanced DEF Stages
  <1>7. CASE IsValid(p) \/ IsInvalid(p)
    <2>1. /\ connections' = connections \ ({p} \X {"rule"})
          /\ \E to \in {"valid", "failed"} : pc' = [pc EXCEPT ![p] = to]
      BY <1>7 DEF IsValid, IsInvalid, Reject, Goes, Disconnect
    <2>2. \A q \in Deposits : q # p => Holds(q)' = Holds(q)
      BY <2>1 DEF Holds
    <2>3. PICK to \in {"valid", "failed"} : pc' = [pc EXCEPT ![p] = to]
      BY <2>1
    <2>. QED
      BY <1>w, <2>1, <2>2, <2>3, FewerBounded, OwnBalanced DEF Stages
  <1>8. CASE Abort(p) \/ Accept(p)
    <2>1. /\ connections' = connections \ ({p} \X Purposes)
          /\ pc' = [pc EXCEPT ![p] = "ended"]
      BY <1>8 DEF Abort, Accept, Disconnect, Answer
    <2>2. Holds(p)' = {} /\ \A q \in Deposits : q # p => Holds(q)' = Holds(q)
      BY <2>1 DEF Holds
    <2>. QED
      BY <1>w, <2>1, <2>2, FewerBounded, OwnBalanced DEF Stages
  <1>9. CASE \/ OpenMapfile(p) \/ UnpackFails(p) \/ (\E d \in Dirs : AddItem(p, d))
             \/ AddItemFails(p) \/ CannotCheck(p) \/ PrintLine(p) \/ Finish(p) \/ Fail(p)
             \/ Undo(p) \/ Commit(p) \/ CommitFails(p) \/ Dispatch(p)
    <2>1. /\ connections' = connections
          /\ \E to \in Stages \ {"idle", "auth", "ended", "obo", "unpack"} :
               pc' = [pc EXCEPT ![p] = to]
      BY <1>9 DEF OpenMapfile, UnpackFails, AddItem, AddItemFails, CannotCheck, Reject, PrintLine,
                  Finish, Fail, Undo, Commit, CommitFails, Dispatch, Goes, Stages
    <2>2. \A q \in Deposits : q # p => Holds(q)' = Holds(q)
      BY <2>1 DEF Holds
    <2>3. PICK to \in Stages \ {"idle", "auth", "ended", "obo", "unpack"} :
            pc' = [pc EXCEPT ![p] = to]
      BY <2>1
    <2>. QED
      BY <1>w, <2>1, <2>2, <2>3, FewerBounded, OwnBalanced
  <1>. QED
    BY <1>1, <1>2, <1>3, <1>4, <1>5, <1>6, <1>7, <1>8, <1>9 DEF Thread

\* Every connection a request used is given back once it is answered, and no more
\* are in use than the pool has, whichever step fails; unless the special groups
\* could not be read.
THEOREM ConnectionsAreReturned == Spec => []ConnectionsReturned
  <1>1. Init => PInv
    BY InitDInv, FS_EmptySet DEF Init, PInv, Bounded, Balanced, Holds
  <1>2. PInv /\ [Next]_vars => PInv'
    <2>. SUFFICES ASSUME PInv, [Next]_vars PROVE PInv'
      OBVIOUS
    <2>1. DInv'
      BY ThreadDInv, ReceiveDInv, CrashDInv, StutterDInv DEF Next, PInv
    <2>2. ASSUME NEW p \in Deposits, Receive(p) PROVE Bounded' /\ Balanced'
      <3>1. connections' = connections /\ world' = world /\ pc[p] = "idle"
            /\ pc' = [pc EXCEPT ![p] = "auth"]
        BY <2>2 DEF Receive, Goes
      <3>. QED
        BY <3>1, FewerBounded, OwnBalanced DEF PInv, Balanced, Holds, Stages
    <2>3. CASE Crash
      <3>1. connections' = {}
        BY <2>3 DEF Crash
      <3>2. Balanced'
        BY <3>1 DEF Balanced, Holds
      <3>. QED
        BY <2>1, <3>1, <3>2, FS_EmptySet DEF Bounded, PInv
    <2>4. CASE UNCHANGED vars
      <3>1. connections' = connections /\ pc' = pc /\ world' = world
        BY <2>4 DEF vars
      <3>2. Balanced'
        BY <3>1 DEF PInv, Balanced, Holds, Can
      <3>. QED
        BY <2>1, <3>1, <3>2, FewerBounded DEF PInv
    <2>5. CASE \E p \in Deposits : Receive(p) \/ Thread(p)
      BY <2>1, <2>2, <2>5, ThreadPInv DEF PInv
    <2>. QED
      BY <2>3, <2>4, <2>5 DEF Next
  <1>3. PInv => ConnectionsReturned
    BY DEF PInv, Bounded, Balanced, Holds, ConnectionsReturned
  <1>. QED
    BY <1>1, <1>2, <1>3, PTL DEF Spec

-----------------------------------------------------------------------------
(* Identifiers, while deposits come in turn.                                *)

Resting == {"idle", "ended"}

\* No identifier of an item that claimed it is that of x.
Clear(x) == \A y \in claimed : ~Duplicate(x, y)

InTurn ==
  \A p, q \in Deposits : p # q => pc[p] \in Resting \/ pc[q] \in Resting

\* The items a deposit has had validated are clear until it claims them,
Cleared ==
  \A p \in Deposits :
    /\ pc[p] \in {"loop", "built", "rule", "valid", "commit", "dispatch"} =>
         \A d \in Package[p] \ todo[p] : Clear([by |-> p, dir |-> d])
    /\ pc[p] = "valid" => Clear(NewItem(p))

\* those that claimed differ, and what is committed has claimed or is about to.
Distinct == \A x, y \in claimed : ~Duplicate(x, y)
Claiming ==
  Can("consumer") \/ Can("crash")
    \/ \A x \in disk : x \in claimed \/ \E p \in Deposits : pc[p] = "dispatch" /\ x \in Contents[p]

Singly == ~world.overlap /\ OneEach
UInv == Singly => InTurn /\ Cleared /\ Distinct /\ Claiming

LEMMA InitUInv == Init => UInv
  BY DEF Init, UInv, InTurn, Cleared, Distinct, Claiming, Resting

\* A step that leaves what is committed and claimed alone and validates nothing.
LEMMA QuietUInv ==
  ASSUME DInv, UInv, NEW p \in Deposits, NEW to \in Stages \ {"commit", "dispatch", "valid"},
         world' = world, pc' = [pc EXCEPT ![p] = to], UNCHANGED database,
         pc[p] \notin Resting \cup {"dispatch"} \/ to \in Resting,
         pc[p] # "dispatch",
         to = "loop" => todo'[p] = Package[p],
         to # "loop" => todo' = todo,
         \A q \in Deposits : q # p => todo'[q] = todo[q] /\ cur'[q] = cur[q],
         to \in {"built", "rule"} => pc[p] \in {"loop", "built"}
  PROVE  UInv'
  <1>. SUFFICES ASSUME Singly PROVE (InTurn /\ Cleared /\ Distinct /\ Claiming)'
    BY DEF UInv, Singly, OneEach, Duplicate, Contents
  <1>0. \A q \in Deposits : q # p => pc'[q] = pc[q]
    BY DEF DInv, TypeOK
  <1>a. pc'[p] = to
    BY DEF DInv, TypeOK
  <1>1. InTurn'
    BY <1>0, <1>a DEF UInv, InTurn, Resting
  <1>2. Cleared'
    BY <1>0, <1>a DEF UInv, Cleared, Clear, Duplicate, NewItem, database
  <1>3. Distinct'
    BY DEF UInv, Distinct, Duplicate, database
  <1>4. Claiming'
    BY <1>0 DEF UInv, Claiming, Can, database, Contents
  <1>. QED
    BY <1>1, <1>2, <1>3, <1>4

LEMMA ReceiveUInv ==
  ASSUME DInv, UInv, NEW p \in Deposits, Receive(p)
  PROVE  UInv'
  <1>. SUFFICES ASSUME Singly PROVE (InTurn /\ Cleared /\ Distinct /\ Claiming)'
    BY DEF UInv, Singly, OneEach, Duplicate, Contents, Receive
  <1>1. /\ pc[p] = "idle" /\ pc' = [pc EXCEPT ![p] = "auth"] /\ todo' = todo /\ UNCHANGED database
        /\ cur' = cur /\ world' = world /\ \A q \in Deposits : pc[q] \in Resting
    BY DEF Receive, Goes, Resting, Singly
  <1>2. \A q \in Deposits : q # p => pc'[q] = pc[q]
    BY <1>1 DEF DInv, TypeOK
  <1>3. pc'[p] = "auth"
    BY <1>1 DEF DInv, TypeOK
  <1>4. InTurn'
    BY <1>1, <1>2 DEF InTurn
  <1>5. Cleared'
    BY <1>1, <1>2, <1>3 DEF UInv, Cleared, Clear, Duplicate, NewItem, database
  <1>6. Distinct' /\ Claiming'
    BY <1>1, <1>2 DEF UInv, Distinct, Duplicate, Claiming, Can, database, Contents
  <1>. QED
    BY <1>4, <1>5, <1>6

\* The steps of the loop that carry clearance on.
LEMMA ClearingUInv ==
  ASSUME DInv, UInv, NEW p \in Deposits, IsValid(p) \/ PrintLine(p) \/ Finish(p)
  PROVE  UInv'
  <1>. SUFFICES ASSUME Singly PROVE (InTurn /\ Cleared /\ Distinct /\ Claiming)'
    BY DEF UInv, Singly, OneEach, Duplicate, Contents, IsValid, PrintLine, Finish
  <1>1. /\ world' = world /\ UNCHANGED database
        /\ pc[p] \in {"rule", "valid", "loop"}
        /\ \E to \in {"valid", "loop", "commit"} : pc' = [pc EXCEPT ![p] = to]
    BY DEF IsValid, PrintLine, Finish, CommitItem, Goes, database
  <1>2. \A q \in Deposits : q # p => pc'[q] = pc[q] /\ todo'[q] = todo[q] /\ cur'[q] = cur[q]
    BY DEF DInv, TypeOK, IsValid, PrintLine, Finish, Goes
  <1>3. pc'[p] \in {"valid", "loop", "commit"}
    BY <1>1 DEF DInv, TypeOK
  <1>4. InTurn'
    BY <1>1, <1>2 DEF UInv, InTurn, Resting
  <1>5. ASSUME NEW d \in Package[p] \ todo'[p] PROVE Clear([by |-> p, dir |-> d])
    <2>1. CASE PrintLine(p)
      BY <1>5, <2>1 DEF PrintLine, Goes, UInv, Cleared, NewItem, DInv, TypeOK
    <2>2. CASE IsValid(p) \/ Finish(p)
      BY <1>5, <2>2 DEF IsValid, Finish, Goes, UInv, Cleared
    <2>. QED
      BY <2>1, <2>2
  <1>6. pc'[p] = "valid" => Clear(NewItem(p)) /\ cur' = cur
    <2>1. CASE IsValid(p)
      BY <2>1 DEF IsValid, Taken, Clear, Duplicate, NewItem
    <2>2. CASE PrintLine(p) \/ Finish(p)
      BY <2>2 DEF PrintLine, Finish, Goes, DInv, TypeOK
    <2>. QED
      BY <2>1, <2>2
  <1>7. Cleared'
    BY <1>1, <1>2, <1>3, <1>5, <1>6 DEF UInv, Cleared, Clear, Duplicate, NewItem, database
  <1>8. Distinct' /\ Claiming'
    BY <1>1, <1>2 DEF UInv, Distinct, Duplicate, Claiming, Can, database, Contents
  <1>. QED
    BY <1>4, <1>7, <1>8

LEMMA CommitUInv ==
  ASSUME DInv, UInv, NEW p \in Deposits, Commit(p)
  PROVE  UInv'
  <1>. SUFFICES ASSUME Singly PROVE (InTurn /\ Cleared /\ Distinct /\ Claiming)'
    BY DEF UInv, Singly, OneEach, Duplicate, Contents, Commit
  <1>1. /\ pc[p] = "commit" /\ pc' = [pc EXCEPT ![p] = "dispatch"] /\ todo' = todo /\ cur' = cur
        /\ claimed' = claimed /\ world' = world /\ disk' = disk \cup Contents[p]
    BY CommitDInv DEF Commit, Goes
  <1>2. \A q \in Deposits : q # p => pc'[q] = pc[q]
    BY <1>1 DEF DInv, TypeOK
  <1>3. pc'[p] = "dispatch"
    BY <1>1 DEF DInv, TypeOK
  <1>4. InTurn'
    BY <1>1, <1>2 DEF UInv, InTurn, Resting
  <1>5. Cleared'
    BY <1>1, <1>2, <1>3 DEF UInv, Cleared, Clear, Duplicate, NewItem
  <1>6. Distinct'
    BY <1>1 DEF UInv, Distinct, Duplicate
  <1>7. Claiming'
    BY <1>1, <1>2, <1>3 DEF UInv, Claiming, Can, Contents
  <1>. QED
    BY <1>4, <1>5, <1>6, <1>7

LEMMA DispatchUInv ==
  ASSUME DInv, UInv, NEW p \in Deposits, Dispatch(p)
  PROVE  UInv'
  <1>. SUFFICES ASSUME Singly PROVE (InTurn /\ Cleared /\ Distinct /\ Claiming)'
    BY DEF UInv, Singly, OneEach, Duplicate, Contents, Dispatch
  <1>1. /\ pc[p] = "dispatch" /\ pc' = [pc EXCEPT ![p] = "done"]
        /\ world' = world /\ disk' = disk
        /\ claimed' = claimed \cup Contents[p] \/ (Can("consumer") /\ claimed' = claimed)
    BY DEF Dispatch, Goes, DInv, Transactions
  <1>2. \A q \in Deposits : q # p => pc[q] \in Resting /\ pc'[q] = pc[q]
    BY <1>1 DEF UInv, InTurn, Resting, DInv, TypeOK
  <1>3. pc'[p] = "done"
    BY <1>1 DEF DInv, TypeOK
  <1>4. InTurn'
    BY <1>2 DEF InTurn
  <1>5. Cleared'
    BY <1>2, <1>3 DEF Cleared, Resting
  <1>6. \A x \in Contents[p] : Clear(x)
    BY <1>1 DEF UInv, Cleared, DInv, Transactions, Contents
  <1>7. \A x, y \in Contents[p] : ~Duplicate(x, y)
    BY DEF Singly, OneEach
  <1>8. \A x \in Contents[p], y \in claimed : ~Duplicate(x, y) /\ ~Duplicate(y, x)
    BY <1>6 DEF Clear, Duplicate
  <1>9. Distinct'
    BY <1>1, <1>7, <1>8 DEF UInv, Distinct, Duplicate
  <1>10. Claiming'
    BY <1>1, <1>2 DEF UInv, Claiming, Can, Resting
  <1>. QED
    BY <1>4, <1>5, <1>9, <1>10

LEMMA CrashUInv ==
  ASSUME DInv, UInv, Crash
  PROVE  UInv'
  <1>. SUFFICES ASSUME Singly PROVE (InTurn /\ Cleared /\ Distinct /\ Claiming)'
    BY DEF UInv, Singly, OneEach, Duplicate, Contents, Crash
  <1>1. /\ world' = world /\ claimed' = claimed /\ Can("crash")
        /\ \A q \in Deposits : pc'[q] \in Resting
    BY DEF Crash, database, Resting
  <1>. QED
    BY <1>1 DEF UInv, InTurn, Cleared, Distinct, Duplicate, Claiming, Can, Resting

LEMMA ThreadUInv ==
  ASSUME DInv, UInv, NEW p \in Deposits, Thread(p)
  PROVE  UInv'
  <1>1. CASE Decline(p) \/ AuthenticationFails(p) \/ GroupsFail(p) \/ Abort(p) \/ Accept(p)
    <2>1. /\ world' = world /\ todo' = todo /\ cur' = cur /\ UNCHANGED database
          /\ pc' = [pc EXCEPT ![p] = "ended"] /\ pc[p] # "dispatch"
      BY <1>1 DEF Decline, AuthenticationFails, GroupsFail, Abort, Accept, Answer
    <2>. QED
      BY <2>1, QuietUInv DEF Resting, Stages
  <1>2. CASE OpenContext(p) \/ OpenMediatedContext(p) \/ UnpackFails(p) \/ AddItemFails(p)
             \/ Fail(p) \/ Undo(p) \/ CommitFails(p) \/ IsInvalid(p) \/ CannotCheck(p)
    <2>1. /\ world' = world /\ todo' = todo /\ cur' = cur /\ UNCHANGED database
          /\ pc[p] \notin Resting \cup {"dispatch"}
          /\ \E to \in {"obo", "unpack", "abort", "failed", "undo"} : pc' = [pc EXCEPT ![p] = to]
      BY <1>2 DEF OpenContext, OpenMediatedContext, UnpackFails, AddItemFails, Fail, Undo,
                  CommitFails, IsInvalid, CannotCheck, Reject, Goes, Resting
    <2>2. PICK to \in {"obo", "unpack", "abort", "failed", "undo"} : pc' = [pc EXCEPT ![p] = to]
      BY <2>1
    <2>3. to \in Stages \ {"commit", "dispatch", "valid"}
      BY DEF Stages
    <2>. QED
      BY <2>1, <2>2, <2>3, QuietUInv
  <1>3. CASE OpenMapfile(p)
    <2>1. /\ world' = world /\ cur' = cur /\ UNCHANGED database
          /\ pc[p] = "unpack" /\ pc' = [pc EXCEPT ![p] = "loop"]
          /\ todo'[p] = Package[p] /\ \A q \in Deposits : q # p => todo'[q] = todo[q]
      BY <1>3 DEF OpenMapfile, Goes, DInv, TypeOK
    <2>. QED
      BY <2>1, QuietUInv DEF Resting, Stages
  <1>4. CASE (\E d \in Dirs : AddItem(p, d)) \/ OpenRuleContext(p)
    <2>1. /\ world' = world /\ todo' = todo /\ UNCHANGED database
          /\ pc[p] \in {"loop", "built"}
          /\ \E to \in {"built", "rule"} : pc' = [pc EXCEPT ![p] = to]
          /\ \A q \in Deposits : q # p => cur'[q] = cur[q]
      BY <1>4 DEF AddItem, OpenRuleContext, Goes, DInv, TypeOK
    <2>2. PICK to \in {"built", "rule"} : pc' = [pc EXCEPT ![p] = to]
      BY <2>1
    <2>3. to \in Stages \ {"commit", "dispatch", "valid"}
      BY DEF Stages
    <2>. QED
      BY <2>1, <2>2, <2>3, QuietUInv DEF Resting
  <1>5. CASE IsValid(p) \/ PrintLine(p) \/ Finish(p)
    BY <1>5, ClearingUInv
  <1>6. CASE Commit(p)
    BY <1>6, CommitUInv
  <1>7. CASE Dispatch(p)
    BY <1>7, DispatchUInv
  <1>. QED
    BY <1>1, <1>2, <1>3, <1>4, <1>5, <1>6, <1>7 DEF Thread

\* While deposits come in turn no identifier is claimed twice, whatever fails and
\* however often the web application goes down between a deposit and its consumer;
\* and none is stored twice unless one of these happens.
THEOREM UniqueInTurn == Spec => []IdentifiersUnique
  <1>1. UInv /\ UNCHANGED vars => UInv'
    BY DEF UInv, InTurn, Cleared, Clear, Distinct, Claiming, Singly, OneEach, Duplicate, Contents,
           Can, NewItem, vars, database
  <1>2. DInv /\ UInv /\ [Next]_vars => UInv'
    BY <1>1, ThreadUInv, ReceiveUInv, CrashUInv DEF Next
  <1>3. DInv /\ UInv => IdentifiersUnique
    <2>. SUFFICES ASSUME DInv, UInv, Singly
                  PROVE  Distinct /\ (Can("consumer") \/ Can("crash")
                                        \/ \A x, y \in disk : ~Duplicate(x, y))
      BY DEF IdentifiersUnique, Singly, Distinct
    <2>1. ASSUME ~Can("consumer"), ~Can("crash"), NEW x \in disk, NEW y \in disk
          PROVE  ~Duplicate(x, y)
      <3>1. /\ x \in claimed \/ \E p \in Deposits : pc[p] = "dispatch" /\ x \in Contents[p]
            /\ y \in claimed \/ \E p \in Deposits : pc[p] = "dispatch" /\ y \in Contents[p]
        BY <2>1 DEF UInv, Claiming
      <3>2. \A p \in Deposits : pc[p] = "dispatch" => \A z \in Contents[p] : Clear(z)
        BY DEF UInv, Cleared, DInv, Transactions, Contents
      <3>3. \A p, q \in Deposits : pc[p] = "dispatch" /\ pc[q] = "dispatch" => p = q
        BY DEF UInv, InTurn, Resting
      <3>4. CASE x \in claimed /\ y \in claimed
        BY <3>4 DEF UInv, Distinct
      <3>5. CASE x \in claimed /\ y \notin claimed
        BY <3>1, <3>2, <3>5 DEF Clear, Duplicate
      <3>6. CASE x \notin claimed /\ y \in claimed
        BY <3>1, <3>2, <3>6 DEF Clear
      <3>7. CASE x \notin claimed /\ y \notin claimed
        BY <3>1, <3>3, <3>7 DEF Singly, OneEach
      <3>. QED
        BY <3>4, <3>5, <3>6, <3>7
    <2>. QED
      BY <2>1 DEF UInv
  <1>. QED
    BY InitUInv, <1>2, <1>3, DepositInvariant, PTL DEF Spec
-----------------------------------------------------------------------------
(* EveryRequestAnswered without the fairness: how far a deposit is from its   *)
(* answer, whatever the others do.                                            *)

Rank(p) ==
  CASE pc[p] = "auth" -> 7
    [] pc[p] = "obo" -> 6
    [] pc[p] = "unpack" -> 5
    [] pc[p] = "loop" -> 4
    [] pc[p] \in {"built", "failed", "commit"} -> 3
    [] pc[p] \in {"rule", "undo", "dispatch"} -> 2
    [] pc[p] \in {"valid", "abort", "done"} -> 1
    [] OTHER -> 0

\* The directories it may still have to go through, in four steps each.
Ahead(p) ==
  CASE pc[p] \in {"auth", "obo", "unpack"} -> Package[p]
    [] pc[p] \in {"loop", "built", "rule", "valid"} -> todo[p]
    [] OTHER -> {}

StepsLeft(p) == 4 * Cardinality(Ahead(p)) + Rank(p)

Limited(p) ==
  /\ StepsLeft(p) \in 0 .. 4 * Cardinality(Package[p]) + 7
  /\ StepsLeft(p) = 0 <=> pc[p] \in {"idle", "ended"}

Nearer(p) ==
  /\ Thread(p) => StepsLeft(p)' < StepsLeft(p)
  /\ StepsLeft(p)' > StepsLeft(p) => Receive(p)

\* It ends with an answer, unless the web application goes down.
Answered ==
  ~Can("crash") => \A p \in Deposits : pc[p] = "ended" => answer[p] # "none"

LEMMA NextAnswered == DInv /\ Answered /\ [Next]_vars => Answered'
  <1>. SUFFICES ASSUME DInv, Answered, [Next]_vars, ~Can("crash") PROVE Answered'
    BY DEF Answered, Can, Next, Receive, Thread, vars, Crash, Decline, OpenContext,
       OpenMediatedContext, AuthenticationFails, GroupsFail, OpenMapfile, UnpackFails, AddItem,
       AddItemFails, OpenRuleContext, IsValid, IsInvalid, CannotCheck, Reject, PrintLine, Finish,
       Fail, Undo, Abort, Commit, CommitFails, Dispatch, Accept
  <1>. USE DEF Answered, DInv, TypeOK
  <1>1. ASSUME NEW p \in Deposits, NEW from \in Stages, NEW to \in Stages \ {"ended"},
               Goes(p, from, to), answer' = answer
        PROVE  Answered'
    BY <1>1 DEF Goes
  <1>2. ASSUME NEW p \in Deposits, NEW what \in {"accepted", "refused"}, Answer(p, what)
        PROVE  Answered'
    BY <1>2 DEF Answer
  <1>3. ASSUME NEW p \in Deposits, Reject(p) PROVE Answered'
    BY <1>3 DEF Reject
  <1>4. ASSUME NEW p \in Deposits, Receive(p) \/ Thread(p) PROVE Answered'
    <2>1. CASE Receive(p) \/ OpenContext(p) \/ OpenMediatedContext(p) \/ OpenMapfile(p)
               \/ UnpackFails(p) \/ (\E d \in Dirs : AddItem(p, d)) \/ AddItemFails(p)
               \/ OpenRuleContext(p) \/ IsValid(p) \/ PrintLine(p) \/ Finish(p) \/ Fail(p)
               \/ Undo(p) \/ Commit(p) \/ CommitFails(p) \/ Dispatch(p)
      BY <1>1, <2>1 DEF Receive, OpenContext, OpenMediatedContext, OpenMapfile, UnpackFails,
         AddItem, AddItemFails, OpenRuleContext, IsValid, PrintLine, Finish, Fail, Undo, Commit,
         CommitFails, Dispatch, Stages
    <2>2. CASE Decline(p) \/ AuthenticationFails(p) \/ GroupsFail(p) \/ Abort(p) \/ Accept(p)
      BY <1>2, <2>2 DEF Decline, AuthenticationFails, GroupsFail, Abort, Accept
    <2>3. CASE IsInvalid(p) \/ CannotCheck(p)
      BY <1>3, <2>3 DEF IsInvalid, CannotCheck
    <2>. QED
      BY <1>4, <2>1, <2>2, <2>3 DEF Thread
  <1>5. CASE UNCHANGED vars
    BY <1>5 DEF vars
  <1>. QED
    BY <1>4, <1>5 DEF Next, Crash

LEMMA RankType == \A p \in Deposits : Rank(p) \in 0 .. 7
  BY DEF Rank

LEMMA AheadType ==
  ASSUME IsFiniteSet(Dirs), DInv, NEW p \in Deposits
  PROVE  /\ IsFiniteSet(Ahead(p)) /\ IsFiniteSet(Package[p])
         /\ Cardinality(Ahead(p)) \in 0 .. Cardinality(Package[p])
         /\ Cardinality(Package[p]) \in Nat
  <1>1. Ahead(p) \subseteq Package[p] /\ Package[p] \subseteq Dirs
    BY DEF Ahead, DInv, Transactions
  <1>. QED
    BY <1>1, FS_Subset, FS_CardinalityType

LEMMA StepsAreBounded ==
  ASSUME IsFiniteSet(Dirs), DInv, NEW p \in Deposits
  PROVE  Limited(p)
  <1>1. /\ Cardinality(Ahead(p)) \in 0 .. Cardinality(Package[p])
        /\ Cardinality(Package[p]) \in Nat /\ Rank(p) \in 0 .. 7
    BY AheadType, RankType
  <1>2. pc[p] \in {"idle", "ended"} => Ahead(p) = {} /\ Rank(p) = 0
    BY DEF Ahead, Rank
  <1>3. pc[p] \notin {"idle", "ended"} => Rank(p) # 0
    BY DEF Rank, DInv, TypeOK, Stages
  <1>4. Cardinality({}) = 0
    BY FS_EmptySet
  <1>5. StepsLeft(p) \in 0 .. 4 * Cardinality(Package[p]) + 7
    <2>. DEFINE n == Cardinality(Package[p])
                k == Cardinality(Ahead(p))
                r == Rank(p)
    <2>1. n \in Nat /\ k \in 0 .. n /\ r \in 0 .. 7 /\ StepsLeft(p) = 4 * k + r
      BY <1>1 DEF StepsLeft
    <2>. HIDE DEF n, k, r
    <2>2. StepsLeft(p) \in 0 .. 4 * n + 7
      BY <2>1
    <2>. QED
      BY <2>2 DEF n
  <1>6. ASSUME pc[p] \in {"idle", "ended"} PROVE StepsLeft(p) = 0
    <2>1. Cardinality(Ahead(p)) = 0 /\ Rank(p) = 0
      BY <1>2, <1>4, <1>6
    <2>. QED
      BY <2>1 DEF StepsLeft
  <1>7. ASSUME pc[p] \notin {"idle", "ended"} PROVE StepsLeft(p) # 0
    <2>1. Cardinality(Ahead(p)) \in Nat /\ Rank(p) \in 1 .. 7
      BY <1>1, <1>3, <1>7
    <2>. QED
      BY <2>1 DEF StepsLeft
  <1>. QED
    BY <1>5, <1>6, <1>7 DEF Limited

\* Two ways to get nearer: with as much ahead or nothing, and past a directory.
LEMMA LessLeft ==
  ASSUME IsFiniteSet(Dirs), DInv, NEW p \in Deposits,
         \/ Ahead(p)' \in {Ahead(p), {}} /\ Rank(p)' < Rank(p)
         \/ \E d \in Ahead(p) : Ahead(p)' = Ahead(p) \ {d} /\ Rank(p)' <= Rank(p) + 3
  PROVE  StepsLeft(p)' < StepsLeft(p)
  <1>. DEFINE A == Ahead(p)
  <1>1. /\ IsFiniteSet(A) /\ Cardinality(A) \in Nat /\ Rank(p) \in 0 .. 7 /\ Rank(p)' \in 0 .. 7
        /\ Cardinality({}) = 0
    BY AheadType, RankType, FS_EmptySet DEF Rank
  <1>2. StepsLeft(p) = 4 * Cardinality(A) + Rank(p)
        /\ StepsLeft(p)' = 4 * Cardinality(A') + Rank(p)'
    BY DEF StepsLeft
  <1>3. CASE A' = A /\ Rank(p)' < Rank(p)
    <2>. HIDE DEF A
    <2>. QED
      BY <1>1, <1>2, <1>3
  <1>4. CASE A' = {} /\ Rank(p)' < Rank(p)
    <2>. HIDE DEF A
    <2>. QED
      BY <1>1, <1>2, <1>4
  <1>5. ASSUME NEW d \in A, A' = A \ {d}, Rank(p)' <= Rank(p) + 3
        PROVE  StepsLeft(p)' < StepsLeft(p)
    <2>. HIDE DEF A
    <2>1. Cardinality(A') = Cardinality(A) - 1
      BY <1>1, <1>5, FS_RemoveElement
    <2>. QED
      BY <1>1, <1>2, <1>5, <2>1
  <1>. QED
    BY <1>3, <1>4, <1>5

LEMMA ThreadNearer ==
  ASSUME IsFiniteSet(Dirs), DInv, NEW p \in Deposits, Thread(p)
  PROVE  StepsLeft(p)' < StepsLeft(p)
  <1>t. pc \in [Deposits -> Stages] /\ todo \in [Deposits -> SUBSET Dirs]
    BY DEF DInv, TypeOK
  <1>1. CASE Decline(p) \/ AuthenticationFails(p) \/ GroupsFail(p) \/ Abort(p) \/ Accept(p)
    <2>1. pc[p] \in {"auth", "obo", "unpack", "abort", "done"} /\ pc'[p] = "ended"
      BY <1>1, <1>t DEF Decline, AuthenticationFails, GroupsFail, Abort, Accept, Answer
    <2>2. Ahead(p)' = {} /\ Rank(p)' < Rank(p)
      BY <2>1 DEF Ahead, Rank
    <2>. QED
      BY <2>2, LessLeft
  <1>2. CASE OpenContext(p) \/ OpenMediatedContext(p) \/ OpenMapfile(p) \/ UnpackFails(p)
    <2>1. \/ pc[p] = "auth" /\ pc'[p] \in {"obo", "unpack"}
          \/ pc[p] = "obo" /\ pc'[p] = "unpack"
          \/ pc[p] = "unpack" /\ pc'[p] = "loop" /\ todo'[p] = Package[p]
          \/ pc[p] = "unpack" /\ pc'[p] = "abort"
      BY <1>2, <1>t DEF OpenContext, OpenMediatedContext, OpenMapfile, UnpackFails, Goes
    <2>2. Ahead(p)' \in {Ahead(p), {}} /\ Rank(p)' < Rank(p)
      BY <2>1 DEF Ahead, Rank
    <2>. QED
      BY <2>2, LessLeft
  <1>3. CASE (\E d \in Dirs : AddItem(p, d)) \/ AddItemFails(p) \/ OpenRuleContext(p)
             \/ IsValid(p) \/ IsInvalid(p) \/ CannotCheck(p) \/ Finish(p)
    <2>1. /\ todo' = todo
          /\ \/ pc[p] = "loop" /\ pc'[p] \in {"built", "commit"}
             \/ pc[p] = "built" /\ pc'[p] = "rule"
             \/ pc[p] = "rule" /\ pc'[p] = "valid"
             \/ pc[p] \in {"built", "rule"} /\ pc'[p] = "failed"
      BY <1>3, <1>t DEF AddItem, AddItemFails, OpenRuleContext, IsValid, IsInvalid, CannotCheck,
         Reject, Finish, Goes
    <2>2. CASE pc[p] = "rule" /\ pc'[p] = "failed"
      \* One directory at least was ahead, the one the rule was applied to.
      <3>1. cur[p] \in Ahead(p) /\ Ahead(p)' = {} /\ Rank(p) = 2 /\ Rank(p)' = 3
        BY <2>2 DEF Ahead, Rank, DInv, Transactions
      <3>. DEFINE A == Ahead(p)
      <3>2. IsFiniteSet(A) /\ Cardinality(A) \in Nat /\ A # {} /\ A' = {}
        BY <3>1, AheadType
      <3>3. Cardinality(A) \in Nat \ {0} /\ Cardinality(A') = 0
        <4>. HIDE DEF A
        <4>. QED
          BY <3>2, FS_EmptySet
      <3>4. StepsLeft(p) = 4 * Cardinality(A) + 2 /\ StepsLeft(p)' = 4 * Cardinality(A') + 3
        BY <3>1 DEF StepsLeft
      <3>. HIDE DEF A
      <3>. QED
        BY <3>3, <3>4
    <2>3. CASE pc[p] = "built" /\ pc'[p] = "failed"
      <3>1. cur[p] \in Ahead(p) /\ Ahead(p)' = {} /\ Rank(p) = 3 /\ Rank(p)' = 3
        BY <2>3 DEF Ahead, Rank, DInv, Transactions
      <3>. DEFINE A == Ahead(p)
      <3>2. IsFiniteSet(A) /\ Cardinality(A) \in Nat /\ A # {} /\ A' = {}
        BY <3>1, AheadType
      <3>3. Cardinality(A) \in Nat \ {0} /\ Cardinality(A') = 0
        <4>. HIDE DEF A
        <4>. QED
          BY <3>2, FS_EmptySet
      <3>4. StepsLeft(p) = 4 * Cardinality(A) + 3 /\ StepsLeft(p)' = 4 * Cardinality(A') + 3
        BY <3>1 DEF StepsLeft
      <3>. HIDE DEF A
      <3>. QED
        BY <3>3, <3>4
    <2>4. CASE ~(pc[p] \in {"built", "rule"} /\ pc'[p] = "failed")
      <3>1. Ahead(p)' \in {Ahead(p), {}} /\ Rank(p)' < Rank(p)
        BY <2>1, <2>4 DEF Ahead, Rank
      <3>. QED
        BY <3>1, LessLeft
    <2>. QED
      BY <2>2, <2>3, <2>4
  <1>4. CASE PrintLine(p)
    <2>1. /\ pc[p] = "valid" /\ pc'[p] = "loop" /\ cur[p] \in todo[p]
          /\ todo'[p] = todo[p] \ {cur[p]}
      BY <1>4, <1>t DEF PrintLine, Goes, DInv, Transactions
    <2>2. /\ cur[p] \in Ahead(p) /\ Ahead(p)' = Ahead(p) \ {cur[p]}
          /\ Rank(p)' <= Rank(p) + 3
      BY <2>1 DEF Ahead, Rank
    <2>. QED
      BY <2>2, LessLeft
  <1>5. CASE Fail(p) \/ Undo(p) \/ Commit(p) \/ CommitFails(p) \/ Dispatch(p)
    <2>1. \/ pc[p] = "failed" /\ pc'[p] = "undo"
          \/ pc[p] = "undo" /\ pc'[p] = "abort"
          \/ pc[p] = "commit" /\ pc'[p] \in {"dispatch", "abort"}
          \/ pc[p] = "dispatch" /\ pc'[p] = "done"
      BY <1>5, <1>t DEF Fail, Undo, Commit, CommitFails, Dispatch, Goes
    <2>2. Ahead(p)' = {} /\ Rank(p)' < Rank(p)
      BY <2>1 DEF Ahead, Rank
    <2>. QED
      BY <2>2, LessLeft
  <1>. QED
    BY <1>1, <1>2, <1>3, <1>4, <1>5 DEF Thread

\* Steps of another deposit are none of this one's.
LEMMA OthersApart ==
  ASSUME DInv, NEW p \in Deposits, NEW q \in Deposits, p # q, Receive(q) \/ Thread(q)
  PROVE  pc'[p] = pc[p] /\ todo'[p] = todo[p]
  <1>t. pc \in [Deposits -> Stages] /\ todo \in [Deposits -> SUBSET Dirs]
    BY DEF DInv, TypeOK
  <1>1. CASE Receive(q) \/ Decline(q) \/ OpenContext(q) \/ OpenMediatedContext(q)
             \/ AuthenticationFails(q) \/ GroupsFail(q) \/ OpenMapfile(q) \/ UnpackFails(q)
    BY <1>1, <1>t DEF Receive, Decline, OpenContext, OpenMediatedContext, AuthenticationFails,
       GroupsFail, OpenMapfile, UnpackFails, Goes, Answer
  <1>2. CASE (\E d \in Dirs : AddItem(q, d)) \/ AddItemFails(q) \/ OpenRuleContext(q)
             \/ IsValid(q) \/ IsInvalid(q) \/ CannotCheck(q) \/ PrintLine(q) \/ Finish(q)
    BY <1>2, <1>t DEF AddItem, AddItemFails, OpenRuleContext, IsValid, IsInvalid, CannotCheck,
       Reject, PrintLine, Finish, Goes
  <1>3. CASE Fail(q) \/ Undo(q) \/ Abort(q) \/ Commit(q) \/ CommitFails(q) \/ Dispatch(q)
             \/ Accept(q)
    BY <1>3, <1>t DEF Fail, Undo, Abort, Commit, CommitFails, Dispatch, Accept, Goes, Answer
  <1>. QED
    BY <1>1, <1>2, <1>3 DEF Thread

LEMMA NextNearer ==
  ASSUME IsFiniteSet(Dirs), DInv, DInv', [Next]_vars, NEW p \in Deposits
  PROVE  Nearer(p)
  <1>1. Thread(p) => StepsLeft(p)' < StepsLeft(p)
    BY ThreadNearer
  <1>2. StepsLeft(p) \in Int /\ StepsLeft(p)' \in Int
    <2>1. Ahead(p)' \subseteq Dirs /\ Rank(p)' \in 0 .. 7
      BY DEF Ahead, Rank, DInv, TypeOK
    <2>2. Cardinality(Ahead(p)') \in Nat
      BY <2>1, FS_Subset, FS_CardinalityType
    <2>. QED
      BY <2>1, <2>2, StepsAreBounded, AheadType, RankType DEF StepsLeft
  <1>3. ASSUME pc'[p] = pc[p], todo'[p] = todo[p] PROVE StepsLeft(p)' = StepsLeft(p)
    BY <1>3 DEF StepsLeft, Ahead, Rank
  <1>4. ASSUME Crash PROVE ~(StepsLeft(p)' > StepsLeft(p))
    <2>1. pc'[p] \in {"idle", "ended"}
      BY <1>4 DEF Crash
    <2>2. Ahead(p)' = {} /\ Rank(p)' = 0
      BY <2>1 DEF Ahead, Rank
    <2>3. StepsLeft(p)' = 0
      BY <2>2, FS_EmptySet DEF StepsLeft
    <2>4. StepsLeft(p) \in 0 .. 4 * Cardinality(Package[p]) + 7
      BY StepsAreBounded DEF Limited
    <2>. QED
      BY <1>2, <2>3, <2>4
  <1>5. ASSUME NEW q \in Deposits, q # p, Receive(q) \/ Thread(q)
        PROVE  StepsLeft(p)' = StepsLeft(p)
    BY <1>3, <1>5, OthersApart
  <1>6. ASSUME UNCHANGED vars PROVE StepsLeft(p)' = StepsLeft(p)
    BY <1>3, <1>6 DEF vars
  <1>. QED
    BY <1>1, <1>2, <1>4, <1>5, <1>6 DEF Nearer, Next

\* A request for a package of n items ends, and with an answer, within 4n + 7 steps of its
\* thread, unless the web application goes down: every step lessens them, with and without
\* a connection and whatever fails, and no step of another deposit adds to them.
THEOREM RequestsAreBounded ==
  IsFiniteSet(Dirs) =>
    (Spec => /\ [](\A p \in Deposits : Limited(p)) /\ []Answered
             /\ [][\A p \in Deposits : Nearer(p)]_vars)
  <1>. SUFFICES ASSUME IsFiniteSet(Dirs)
                PROVE  Spec => /\ [](\A p \in Deposits : Limited(p)) /\ []Answered
                               /\ [][\A p \in Deposits : Nearer(p)]_vars
    OBVIOUS
  <1>1. DInv => \A p \in Deposits : Limited(p)
    BY StepsAreBounded
  <1>2. DInv /\ DInv' /\ [Next]_vars => [\A p \in Deposits : Nearer(p)]_vars
    BY NextNearer
  <1>3. Init => Answered
    BY DEF Init, Answered
  <1>. QED
    BY <1>1, <1>2, <1>3, InitDInv, NextDInv, NextAnswered, PTL DEF Spec
=============================================================================
