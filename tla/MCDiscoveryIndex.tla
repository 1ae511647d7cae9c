--------------------------- MODULE MCDiscoveryIndex ---------------------------
(* Instance of DiscoveryIndex for TLC: three items for a pool of one thread and *)
(* a queue of one, so that the main thread has to wait.                         *)
EXTENDS DiscoveryIndex, TLC

CONSTANTS i1, i2, i3

MCItems == {i1, i2, i3}
AllIn == [i \in MCItems |-> "in"]
OneEach(a, b, c) == (i1 :> a) @@ (i2 :> b) @@ (i3 :> c)
Command(status, command, dispatcher, during, faults) ==
  [status |-> status, command |-> command, dispatcher |-> dispatcher, during |-> during,
   faults |-> faults]
MCWorlds ==
  {Command(OneEach("in", "new", "gone"), "nightly", "default", FALSE, {"solr"}),
   Command(OneEach("in", "in", "gone"), "nightly", "noindex", TRUE, {}),
   Command(OneEach("in", "in", "gone"), "nightly", "default", TRUE, {}),
   Command(OneEach("in", "new", "gone"), "force", "default", FALSE, {}),
   Command(AllIn, "rebuild", "noindex", FALSE, {"commit"}),
   Command(AllIn, "nightly", "noindex", FALSE, {})}
=============================================================================
