----------------------------- MODULE MCDijkstra -----------------------------
(* Two ways from s to e with a link in each direction between them, a link   *)
(* back into s and one out of e.                                             *)
EXTENDS Dijkstra

CONSTANTS s, a, b, e

Square == {<<s, a>>, <<s, b>>, <<a, b>>, <<b, a>>, <<a, e>>, <<b, e>>, <<b, s>>}

\* A fast link that loses packets, and a slow one that is clean but loaded: which is the
\* lighter depends on the intent.
FastOrClean == {[latency |-> 1, load |-> 0, loss |-> 4], [latency |-> 3, load |-> 2, loss |-> 0]}

\* The level above 3 is one that the code clamps.
Intents == {[latency |-> 0, reliability |-> 0, priority |-> 0],
            [latency |-> 9, reliability |-> 1, priority |-> 2],
            [latency |-> 1, reliability |-> 2, priority |-> 1]}
=============================================================================
