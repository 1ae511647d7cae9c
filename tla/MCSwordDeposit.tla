---------------------------- MODULE MCSwordDeposit ----------------------------
(* Small instances of SwordDeposit: two deposits, one of them made on       *)
(* behalf of another user, and fewer connections than they could use.       *)
EXTENDS SwordDeposit, TLC

CONSTANTS p1, p2, d1, d2

\* The second deposit is a retry of the first: the same package.
SamePackage == [p \in Deposits |-> {d1, d2}]
SameIdentifiers == [p \in Deposits |-> (d1 :> "A") @@ (d2 :> "B")]

Overlapping(fs) == [overlap |-> TRUE, faults |-> fs]
InTurn(fs) == [overlap |-> FALSE, faults |-> fs]

AllWorlds ==
  {Overlapping({"build", "commit", "consumer"}), Overlapping({"request", "auth", "invalid"}),
   Overlapping({"crash", "groups"}), InTurn({"build", "invalid", "commit"}), InTurn({"crash", "consumer"})}
=============================================================================
