---------------------------- MODULE AtomicDeposits ----------------------------
(***************************************************************************)
(* What a SWORD client relies on: a deposit puts all the items of its      *)
(* package in the repository in one step, or none; it is accepted only if  *)
(* they are there and refused only if they are not; and no other deposit   *)
(* takes them away.  SwordDeposit implements this.                         *)
(***************************************************************************)
CONSTANTS Deposits, Contents  \* Contents[p]: the items of the package of p

VARIABLES stored, answer

Init ==
  /\ stored = {}
  /\ answer = [p \in Deposits |-> "none"]

Store(p) ==
  /\ answer[p] = "none" /\ Contents[p] \cap stored = {}
  /\ stored' = stored \cup Contents[p]
  /\ UNCHANGED answer

Accept(p) ==
  /\ answer[p] = "none" /\ Contents[p] \subseteq stored
  /\ answer' = [answer EXCEPT ![p] = "accepted"]
  /\ UNCHANGED stored

Refuse(p) ==
  /\ answer[p] = "none" /\ Contents[p] \cap stored = {}
  /\ answer' = [answer EXCEPT ![p] = "refused"]
  /\ UNCHANGED stored

Next == \E p \in Deposits : Store(p) \/ Accept(p) \/ Refuse(p)

Spec == Init /\ [][Next]_<<stored, answer>>
=============================================================================
