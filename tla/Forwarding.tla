----------------------------- MODULE Forwarding -----------------------------
(***************************************************************************)
(* The life of one smart packet: sender/main.go puts it on the wire, the   *)
(* worker of cmd/router/main.go handles it at each router with the methods *)
(* of packet/packet.go, until it is delivered, dropped or lost.            *)
(*                                                                         *)
(* Packets share only the reroute cooldown and the routers' gossip views.  *)
(* Both appear here as nondeterminism: a reroute may be suppressed at any  *)
(* time, and each reading of a view returns a member of Views.  Weights    *)
(* are abstract: any simple path of a view may be the shortest one, any    *)
(* link of a class the lightest.                                           *)
(***************************************************************************)
EXTENDS Integers, Sequences, FiniteSets

CONSTANTS
    Router,        \* the routers
    Neighbors,     \* Neighbors[n]: keys of config.Neighbors of router n
    Sender,
    FirstRouter,   \* the router at the sender's RouterAddr
    Destination,
    None,          \* the empty node name
    Views,         \* what GetFreshLinks may return: sets of links
    MaxHops        \* SmartPacket.MaxHops

Node == Router \cup {Sender, Destination}

\* Links that some router measures: one to each of its configured neighbours.
Topology == UNION {{n} \X Neighbors[n] : n \in Router}

ASSUME ForwardingAssumption ==
    /\ FirstRouter \in Router
    /\ Sender \notin Router /\ Destination \notin Router /\ Sender # Destination
    /\ None \notin Node
    /\ Neighbors \in [Router -> SUBSET (Router \cup {Destination})]
    /\ Views \subseteq SUBSET Topology
    /\ MaxHops \in 1..255
    /\ IsFiniteSet(Router)

VARIABLES
    packet,   \* the SmartPacket
    at,       \* node the datagram is addressed to
    status,   \* "flight", or how it ended
    stamp,    \* neighbour whose latency the last HopRecord carries, or None
    mode      \* how the sender built it (never changes)

vars == <<packet, at, status, stamp, mode>>

-----------------------------------------------------------------------------
(* Routes *)

IsRoute(r, view, from) ==
    /\ r[1] = from /\ r[Len(r)] = Destination
    /\ \A i, j \in 1..Len(r) : r[i] = r[j] => i = j
    /\ \A i \in 1..Len(r) - 1 : <<r[i], r[i + 1]>> \in view

Walk == UNION {[1..k -> Router \cup {Destination}] : k \in 2..Cardinality(Router) + 1}

\* Routes[v][n]: what Dijkstra may answer at n on view v.
Routes == [v \in Views \cup {Topology} |-> [n \in Router |-> {r \in Walk : IsRoute(r, v, n)}]]

-----------------------------------------------------------------------------
(* Methods of SmartPacket *)

\* Mutant: the hop count stays as it is.
LogHop_NoCount(p, n) ==
    [p EXCEPT !.previous = p.current,
              !.current = n,
              !.visited = @ \cup {n},
              !.hopIndex = IF @ + 1 >= Len(p.path) THEN Len(p.path) - 1 ELSE @ + 1]

LogHop(p, n) ==
    [p EXCEPT !.previous = p.current,
              !.current = n,
              !.hopCount = @ + 1,
              !.visited = @ \cup {n},
              !.hopIndex = IF @ + 1 >= Len(p.path) THEN Len(p.path) - 1 ELSE @ + 1]

NextHop(p) == IF p.hopIndex + 1 < Len(p.path) THEN p.path[p.hopIndex + 2] ELSE None

RemainingPath(p) ==
    IF p.hopIndex + 1 < Len(p.path) THEN SubSeq(p.path, p.hopIndex + 1, Len(p.path)) ELSE <<>>

\* Mutant: one hop too many.
IsExpired_OffByOne(p) == p.hopCount > MaxHops

IsExpired(p) == p.hopCount >= MaxHops

DetectLoop(p, next) == next \in p.visited

\* Mutant: the new path is installed and the index kept.
RerouteTo_IndexKept(p, route, view) ==
    IF route = RemainingPath(p) THEN p
    ELSE [p EXCEPT !.path = route, !.rerouted = TRUE,
                   !.miniMap = IF p.light THEN @ ELSE view]

RerouteTo(p, route, view) ==
    IF route = RemainingPath(p) THEN p
    ELSE [p EXCEPT !.path = route, !.hopIndex = 0, !.rerouted = TRUE,
                   !.miniMap = IF p.light THEN @ ELSE view]

\* Reroute and RerouteFromTopology: the packets they may make of p.
Reroute(p, view) ==
    IF Routes[view][p.current] = {} THEN {[p EXCEPT !.degraded = TRUE]}
    ELSE {RerouteTo(p, route, view) : route \in Routes[view][p.current]}

\* ForceForward and ForceForwardFromTopology: the next hops they may answer.
ForceForward(p, map) ==
    LET out == {l[2] : l \in {l \in map : l[1] = p.current}}
        unvisited == (out \ p.visited) \ {p.previous}
        onward == out \ {p.previous}
    IN  IF Destination \in out THEN {Destination}
        ELSE IF unvisited # {} THEN unvisited
        ELSE IF onward # {} THEN onward
        ELSE IF out # {} THEN out
        ELSE {None}

-----------------------------------------------------------------------------
(* The worker of cmd/router/main.go *)

\* Mutant: packets without a map are rerouted as well.
MayReroute_EmptyMapToo(p) == TRUE

\* A divergence is only ever seen on a link out of the current router: in the
\* packet's map, or in the router's own view when the packet travels light.
MayReroute(p) == p.light \/ \E l \in p.miniMap : l[1] = p.current

\* Step 3.  No divergence, cooldown and an empty view all leave p as it is.
AfterReroute(p) ==
    {p} \cup (IF MayReroute(p) THEN UNION {Reroute(p, v) : v \in Views \ {{}}} ELSE {})

\* Mutant: forced forwarding does not mark the packet.
Choices_NotDegraded(p) ==
    IF NextHop(p) # None /\ DetectLoop(p, NextHop(p))
    THEN UNION {{[packet |-> p, hop |-> h] : h \in ForceForward(p, m)} :
                   m \in IF p.light THEN Views ELSE {p.miniMap}}
    ELSE {[packet |-> p, hop |-> NextHop(p)]}

\* Steps 4 and 5.
Choices(p) ==
    IF NextHop(p) # None /\ DetectLoop(p, NextHop(p))
    THEN UNION {{[packet |-> [p EXCEPT !.degraded = TRUE], hop |-> h] : h \in ForceForward(p, m)} :
                   m \in IF p.light THEN Views ELSE {p.miniMap}}
    ELSE {[packet |-> p, hop |-> NextHop(p)]}

\* An empty next hop stands for the destination.
Target(h) == IF h = None THEN Destination ELSE h

\* Mutant: the next hop is looked up before the reroute.
Decisions_StaleHop(n) ==
    LET p == LogHop(packet, n)
    IN  {[packet |-> q, hop |-> NextHop(p)] : q \in AfterReroute(p)}

\* Steps 2 to 5: what the worker of router n may decide.
Decisions(n) == UNION {Choices(p) : p \in AfterReroute(LogHop(packet, n))}

\* Step 2 looks the next hop up before LogHop moves the index.
LookedUp(n) == IF Target(NextHop(packet)) \in Neighbors[n] THEN Target(NextHop(packet)) ELSE None

Arrived(n) == status = "flight" /\ at = n

\* Step 1: the hop budget is spent.
Expire(n) ==
    /\ Arrived(n)
    /\ IsExpired(packet)
    /\ status' = "expired"
    /\ UNCHANGED <<packet, at, stamp, mode>>

\* Step 6: the chosen node is no neighbour of this router.
DropNoNeighbor(n) ==
    /\ Arrived(n)
    /\ ~IsExpired(packet)
    /\ \E d \in Decisions(n) :
        /\ Target(d.hop) \notin Neighbors[n]
        /\ packet' = d.packet
    /\ status' = "no_neighbor"
    /\ stamp' = LookedUp(n)
    /\ UNCHANGED <<at, mode>>

\* Step 6: the packet is encoded and sent on.
Forward(n) ==
    /\ Arrived(n)
    /\ ~IsExpired(packet)
    /\ \E d \in Decisions(n) :
        /\ Target(d.hop) \in Neighbors[n]
        /\ packet' = d.packet
        /\ at' = Target(d.hop)
    /\ status' = IF at' = Destination THEN "delivered" ELSE "flight"
    /\ stamp' = LookedUp(n)
    /\ UNCHANGED mode

\* The datagram is lost, or the sending router could not encode or send it.
Lose ==
    /\ status = "flight"
    /\ status' = "lost"
    /\ UNCHANGED <<packet, at, stamp, mode>>

-----------------------------------------------------------------------------
(* The sender: "full" carries the map the path was computed on, "light" no   *)
(* map, "fixed" is a static or OSPF path without a map in a packet that is   *)
(* not light.  FirstRouter is configured, so every path starts there.        *)

NewPacket(m, view, route) ==
    [path |-> <<Sender>> \o route, hopIndex |-> 0, hopCount |-> 0,
     current |-> None, previous |-> None, visited |-> {},
     degraded |-> FALSE, rerouted |-> FALSE, light |-> m = "light",
     miniMap |-> IF m = "full" THEN view ELSE {}]

Init ==
    /\ mode \in {"full", "light", "fixed"}
    /\ \E v \in Views \cup {Topology} : \E r \in Routes[v][FirstRouter] :
          packet = NewPacket(mode, v, r)
    /\ at = FirstRouter
    /\ status = "flight"
    /\ stamp = None

Handle(n) == Expire(n) \/ DropNoNeighbor(n) \/ Forward(n)

Next == (\E n \in Router : Handle(n)) \/ Lose

Spec == Init /\ [][Next]_vars

\* A worker handles every packet its router received.
FairSpec == Spec /\ WF_vars(\E n \in Router : Handle(n))

-----------------------------------------------------------------------------
(* Properties *)

Packet ==
    [path : Seq(Node), hopIndex : Nat, hopCount : 0..255,
     current : Node \cup {None}, previous : Node \cup {None}, visited : SUBSET Router,
     degraded : BOOLEAN, rerouted : BOOLEAN, light : BOOLEAN, miniMap : SUBSET Topology]

\* The type of the state; HopIndex stays inside PlannedPath and the one-byte
\* HopCount never passes MaxHops, so it does not wrap.
TypeOK ==
    /\ packet \in Packet
    /\ packet.hopIndex < Len(packet.path)
    /\ packet.hopCount <= MaxHops
    /\ at \in Node
    /\ status \in {"flight", "delivered", "expired", "no_neighbor", "lost"}
    /\ stamp \in Node \cup {None}
    /\ mode \in {"full", "light", "fixed"}

\* A packet that went through some router twice says so: only a forced,
\* degraded packet revisits, whatever the routers' views made it do before.
RevisitOnlyDegraded ==
    packet.hopCount > Cardinality(packet.visited) => packet.degraded

\* As long as nothing was forced, the packet travels its planned path: the
\* router it is sent to is the next hop of the plan it carries, over any number
\* of reroutes.
OnPlanUnlessDegraded ==
    status = "flight" /\ ~packet.degraded => NextHop(packet) = at

\* A packet that was never forced is not dropped by the data plane: its plan
\* leads from neighbour to neighbour and is too short to spend the hop budget,
\* even when routers keep replacing it.
UndegradedNotDropped ==
    status \in {"no_neighbor", "expired"} => packet.degraded

\* The static and OSPF baselines measure a fixed path: no router reroutes a
\* packet that carries no map and is not light, nor forces it off its path.
FixedPathKept ==
    [][mode = "fixed" => packet'.path = packet.path /\ ~packet'.rerouted /\ ~packet'.degraded]_vars

\* Every packet comes to an end, also one that is forced back and forth.
Terminates == <>(status # "flight")

-----------------------------------------------------------------------------
(* Refinement: what happens to the packet is a bounded walk *)

Journey == INSTANCE PacketWalk WITH
               Link <- Topology, Start <- FirstRouter,
               visited <- packet.visited, hops <- packet.hopCount,
               forced <- packet.degraded

\* Plans, reroutes, maps and indices implement a bounded walk: every router
\* handles the packet once within its budget, sends it over a configured link
\* from where it is, to a router it has not seen unless it is forced, and a
\* packet that ends without a neighbour was forced before or by that router.
ImplementsWalk == Journey!Spec

-----------------------------------------------------------------------------
(* What the comments say and the code does not do *)

\* "Use the specific next-hop neighbor's latency": the latency a router stamps
\* on a packet it forwards along its plan is that of the neighbour it goes to.
StampsNextHopLatency ==
    status = "flight" /\ packet.hopCount > 0 /\ ~packet.degraded => stamp = at
=============================================================================
