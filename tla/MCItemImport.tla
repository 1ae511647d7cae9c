----------------------------- MODULE MCItemImport -----------------------------
(* Small instances of ItemImport: two or three directories, as many ids as  *)
(* three runs can use, and the circumstances that bear on each question.    *)
EXTENDS ItemImport

\* A plain command line; the definitions below change one or two flags.
Plain(c) == [cmd |-> c, test |-> FALSE, resume |-> FALSE, workflow |-> FALSE,
             large |-> FALSE, transactional |-> FALSE, perItem |-> FALSE]
Flag(o, f) == [o EXCEPT ![f] = TRUE]
With(os, f) == {Flag(o, f) : o \in os}

World(os, fs) == [options |-> os, faults |-> fs]

AddAndResume == {Plain("add"), Flag(Plain("add"), "resume")}

\* Imports, resumed imports, imports into the collections each directory names.
Interrupted == World(AddAndResume \cup With(AddAndResume, "perItem"), {"build", "crash"})

\* All four commands, one at a time, each commit on its own.
Commands ==
  World(AddAndResume \cup {Plain("replace"), Plain("delete")}
                      \cup With({Plain("add"), Plain("replace"), Plain("delete")}, "test"),
        {"build", "commit"})

\* Replace without validation.
Replacing ==
  World(With(AddAndResume \cup {Plain("replace"), Plain("delete")}, "large"),
        {"build", "commit", "crash"})

Transactional ==
  World(With({Plain(c) : c \in Adds \cup {"replace", "delete"}}, "transactional")
          \cup {Plain("add"), Flag(Flag(Plain("replace"), "test"), "large")},
        {"build", "commit", "crash", "discard"})

ThroughWorkflow ==
  World(With(AddAndResume, "workflow") \cup {Plain("delete")}, {"build", "crash"})

AllWorlds == {Interrupted, Commands, Replacing, Transactional, ThroughWorkflow}

\* For the claim: a replace of what became invalid.
ReplaceWorld == {World({Plain("add"), Plain("replace")}, {})}
=============================================================================
