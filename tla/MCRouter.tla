------------------------------ MODULE MCRouter ------------------------------
(* Two workers, a work channel of one, and three packets: one more than the *)
(* workers.  Each budget lets one part of the process meet the workers, so  *)
(* that the cases add up instead of multiplying.                            *)
EXTENDS Router, TLC

CONSTANT d

Only(n, criticality, latencies) ==
    [packets |-> n, kinds |-> [dest : {d}, critical : criticality], latencies |-> latencies,
     reroutes |-> 0, loops |-> 0, drops |-> 0, scrapes |-> 0, signals |-> 0, changes |-> 0]

\* Reroutes by workers that share a cooldown.
Rerouted == [Only(3, BOOLEAN, {1}) EXCEPT !.reroutes = 3, !.loops = 1, !.changes = 1]

\* Packets that are dropped and lost, in every mix with packets that are not.
Losing == [Only(3, {FALSE}, {1}) EXCEPT !.drops = 3]

\* Every mix of latencies.
Measured == Only(3, {FALSE}, Latency)

\* A scrape while three packets are forwarded, or one of them is lost: two are
\* then all that the workers have in hand, and the third has to be explained.
ScrapedObserving == [Only(3, {FALSE}, {1}) EXCEPT !.scrapes = 1]
ScrapedLosing == [Only(3, {FALSE}, {3}) EXCEPT !.scrapes = 1, !.drops = 1]

\* Signals and changes of the view, with a packet on its way.
Stopped == [Only(1, {FALSE}, {1}) EXCEPT !.reroutes = 1, !.signals = 2, !.changes = 3]

RouterBudgets == {Rerouted, Losing, Measured, ScrapedObserving, ScrapedLosing, Stopped}

\* The workers of the safety run are alike.
AlikeWorkers == Permutations(Worker)

\* For liveness: a full channel, drops that meet a scrape, and signals.
ScrapedOnce == [Only(1, {FALSE}, {3}) EXCEPT !.scrapes = 1, !.drops = 1]

LivenessBudgets == {Losing, ScrapedOnce, Stopped}
=============================================================================
