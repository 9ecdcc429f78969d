----------------------------- MODULE PacketWalk -----------------------------
(***************************************************************************)
(* What the network promises of one smart packet, without its plan, maps   *)
(* and indices: a walk over the configured links that starts at the first  *)
(* router, takes at most MaxHops steps, and visits no router twice unless  *)
(* the packet was forced - which, once it happened, stays on record.       *)
(***************************************************************************)
EXTENDS Naturals

CONSTANTS
    Link,          \* the configured links
    Start,         \* where the packet enters the network
    Destination,
    MaxHops

VARIABLES
    at,        \* where the packet is, or goes to
    visited,   \* routers that handled it
    hops,      \* how often it was handled
    forced,    \* whether it was ever sent off its plan
    status     \* "flight", or how the walk ended

vars == <<at, visited, hops, forced, status>>

Init ==
    /\ at = Start
    /\ visited = {}
    /\ hops = 0
    /\ forced = FALSE
    /\ status = "flight"

\* A router handles the packet within the budget and puts itself on record.
Handled ==
    /\ status = "flight"
    /\ hops < MaxHops
    /\ hops' = hops + 1
    /\ visited' = visited \cup {at}
    /\ forced' \in {forced, TRUE}

\* It goes to a neighbour: to a new one, unless it is forced.
Hop ==
    /\ Handled
    /\ <<at, at'>> \in Link
    /\ forced' \/ at' \notin visited'
    /\ status' = IF at' = Destination THEN "delivered" ELSE "flight"

\* It has nowhere to go: only a forced packet may end so.
Strand ==
    /\ Handled
    /\ forced'
    /\ status' = "no_neighbor"
    /\ at' = at

Expire ==
    /\ status = "flight"
    /\ hops = MaxHops
    /\ status' = "expired"
    /\ UNCHANGED <<at, visited, hops, forced>>

Lose ==
    /\ status = "flight"
    /\ status' = "lost"
    /\ UNCHANGED <<at, visited, hops, forced>>

Next == Hop \/ Strand \/ Expire \/ Lose

Spec == Init /\ [][Next]_vars
=============================================================================
