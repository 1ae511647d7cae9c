-------------------------- MODULE MCBitstreamChecker --------------------------
(* Small instances of BitstreamChecker: three bitstreams, batches of two,   *)
(* and the command lines each question is about.                            *)
EXTENDS BitstreamChecker

CONSTANTS b1, b2

Plain == [loop |-> FALSE, duration |-> FALSE, count |-> Unlimited, ids |-> {}]

World(os, bs, fs) == [options |-> os, arrivals |-> bs, faults |-> fs]

\* Without limits: everything, or the bitstreams of -b and -i, cut short by
\* exceptions.
Sweeps == World({Plain} \cup {[Plain EXCEPT !.ids = bs] : bs \in SUBSET Bitstreams}, {}, {"abort"})

\* The line in crontab.sh: check-bitstreams -d 4h -p vscan, with a consumer that
\* scans a new bitstream.
CronOptions == {[Plain EXCEPT !.duration = TRUE]}
Weekly == World(CronOptions, {b1}, {})

\* Every way to limit a run, looping or not, beside a consumer.
Limits ==
  World({Plain, [Plain EXCEPT !.duration = TRUE], [Plain EXCEPT !.count = 0],
         [Plain EXCEPT !.loop = TRUE, !.duration = TRUE]}, {b1, b2}, {})

\* clamd comes and goes.
Outages == World(CronOptions, {b1}, {"clamd"})

AllWorlds == {Sweeps, Weekly, Limits, Outages}
=============================================================================
