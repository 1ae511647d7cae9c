----------------------------- MODULE MCVirusScan -----------------------------
(* Small instances of VirusScan: two bitstreams, of one item or of two.   *)
EXTENDS VirusScan, TLC

CONSTANTS b1, b2, x1, x2, w1, c1

OneItem == (b1 :> x1) @@ (b2 :> x1)
OneEach == (b1 :> x1) @@ (b2 :> x2)

\* Answers, commits and JVMs are lost; files and policy removals are.
AllFaultSets == {{"answer", "commit", "webapp", c1}, {"clamd", "file", "policies"}}
PoolLoses == {{"clamd", "webapp"}}
NoFaults == {{}}
=============================================================================
