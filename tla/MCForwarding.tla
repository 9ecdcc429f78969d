---------------------------- MODULE MCForwarding ----------------------------
(* Four routers: the ring of the seven-router demo topology, shortened, and  *)
(* a link across it.  The sender enters at a, the receiver hangs off d.      *)
EXTENDS Forwarding, TLC

CONSTANTS a, b, c, d, s, r

Ring == (a :> {b, c}) @@ (b :> {a, c, d}) @@ (c :> {a, b, d}) @@ (d :> {b, c, r})

\* A view misses the measurements of any set of routers: they are all stale or
\* have not arrived.
PartialViews == {{l \in Topology : l[1] \notin S} : S \in SUBSET Router}
=============================================================================
