-------------------------- MODULE ForwardingProofs --------------------------
(***************************************************************************)
(* Proofs of the safety properties of Forwarding for every network, every  *)
(* family of views and every hop budget.                                   *)
(*                                                                         *)
(* The invariant has two halves.  WellPlanned: from its second node on the *)
(* plan leads from each router to one of its configured neighbours and     *)
(* ends at the destination.  OnTrack: while the packet is not degraded, it *)
(* is on its plan, the router it goes to has not seen it, and it has been  *)
(* counted once per visited router.                                        *)
(***************************************************************************)
EXTENDS Forwarding, FiniteSetTheorems, TLAPS

-----------------------------------------------------------------------------
(* The data *)

\* A plan: its steps from the i-th node on are links to configured neighbours.
LeadsOn(path, i) ==
    \A j \in i..Len(path) - 1 : path[j] \in Router /\ path[j + 1] \in Neighbors[path[j]]

WellPlanned(p) ==
    /\ p.path[Len(p.path)] = Destination
    /\ LeadsOn(p.path, 2)

Sound(p) ==
    /\ p \in Packet
    /\ p.hopIndex < Len(p.path)
    /\ WellPlanned(p)

\* The packet is at router n of its plan, and the plan goes on from there.
Positioned(p, n) ==
    /\ p.current = n
    /\ p.hopIndex + 1 < Len(p.path)
    /\ p.path[p.hopIndex + 1] = n
    /\ p.path[p.hopIndex + 2] \in Neighbors[n]

\* Whatever Dijkstra answers is a plan from the asking router.
LEMMA RouteFacts ==
    ASSUME NEW v \in Views \cup {Topology}, NEW n \in Router, NEW r \in Routes[v][n]
    PROVE  /\ r \in Seq(Router \cup {Destination})
           /\ Len(r) >= 2
           /\ r[1] = n
           /\ r[Len(r)] = Destination
           /\ LeadsOn(r, 1)
<1>1. r \in Walk /\ IsRoute(r, v, n)
  BY DEF Routes
<1>2. PICK k \in 2..Cardinality(Router) + 1 : r \in [1..k -> Router \cup {Destination}]
  BY <1>1 DEF Walk
<1>3. Cardinality(Router) \in Nat
  BY FS_CardinalityType, ForwardingAssumption
<1>4. k \in Nat /\ k >= 2
  BY <1>2, <1>3
<1>5. r \in Seq(Router \cup {Destination}) /\ Len(r) = k
  BY <1>2, <1>4
<1>6. \A i \in 1..Len(r) - 1 : <<r[i], r[i + 1]>> \in Topology
  BY <1>1, ForwardingAssumption DEF IsRoute
<1>7. \A l \in Topology : l[1] \in Router /\ l[2] \in Neighbors[l[1]]
  BY DEF Topology
<1>8. ASSUME NEW i \in 1..Len(r) - 1 PROVE r[i] \in Router /\ r[i + 1] \in Neighbors[r[i]]
  BY <1>6, <1>7
<1> QED
  BY <1>1, <1>4, <1>5, <1>8 DEF IsRoute, LeadsOn

-----------------------------------------------------------------------------
(* What the methods do to a sound packet *)

\* What a reroute writes into a packet keeps its type.
LEMMA NewPlanTyped ==
    ASSUME NEW p \in Packet, NEW path \in Seq(Node), NEW map \in SUBSET Topology
    PROVE  [p EXCEPT !.path = path, !.hopIndex = 0, !.rerouted = TRUE, !.miniMap = map] \in Packet
<1> DEFINE Paths == Seq(Node)
           Counts == 0..255
           Names == Node \cup {None}
           Sets == SUBSET Router
           Maps == SUBSET Topology
           Typed == [path : Paths, hopIndex : Nat, hopCount : Counts, current : Names,
                     previous : Names, visited : Sets, degraded : BOOLEAN,
                     rerouted : BOOLEAN, light : BOOLEAN, miniMap : Maps]
<1>1. Packet = Typed
  BY DEF Packet
<1>2. path \in Paths /\ map \in Maps /\ p \in Typed
  BY <1>1
<1> HIDE DEF Paths, Counts, Names, Sets, Maps
<1> QED
  BY <1>1, <1>2

\* What LogHop writes into a packet keeps its type.
LEMMA StampTyped ==
    ASSUME NEW p \in Packet, NEW n \in Router, NEW i \in Nat, NEW k \in 0..255
    PROVE  [p EXCEPT !.previous = p.current, !.current = n, !.hopCount = k,
                     !.visited = @ \cup {n}, !.hopIndex = i] \in Packet
<1> DEFINE Paths == Seq(Node)
           Counts == 0..255
           Names == Node \cup {None}
           Sets == SUBSET Router
           Maps == SUBSET Topology
           Typed == [path : Paths, hopIndex : Nat, hopCount : Counts, current : Names,
                     previous : Names, visited : Sets, degraded : BOOLEAN,
                     rerouted : BOOLEAN, light : BOOLEAN, miniMap : Maps]
<1>1. Packet = Typed
  BY DEF Packet
<1>2. k \in Counts /\ n \in Names /\ p \in Typed
  BY <1>1 DEF Node
<1>3. p.visited \cup {n} \in Sets
  BY DEF Packet
<1> HIDE DEF Paths, Counts, Names, Sets, Maps
<1> QED
  BY <1>1, <1>2, <1>3

LEMMA LogHopFacts ==
    ASSUME NEW p \in Packet, Sound(p), p.hopCount < MaxHops, NEW n \in Router
    PROVE  LET q == LogHop(p, n)
           IN  /\ Sound(q)
               /\ q.current = n
               /\ q.hopCount = p.hopCount + 1
               /\ q.visited = p.visited \cup {n}
               /\ q.degraded = p.degraded
               /\ NextHop(p) = n => Positioned(q, n)
<1> DEFINE q == LogHop(p, n)
<1>1. /\ p.path \in Seq(Node) /\ p.hopIndex \in Nat /\ p.hopCount \in 0..255
      /\ p.hopIndex < Len(p.path) /\ p.current \in Node \cup {None} /\ p.visited \in SUBSET Router
  BY DEF Sound, Packet
<1>2. /\ q.path = p.path /\ q.current = n /\ q.hopCount = p.hopCount + 1
      /\ q.visited = p.visited \cup {n} /\ q.degraded = p.degraded
      /\ q.hopIndex = IF p.hopIndex + 1 >= Len(p.path) THEN Len(p.path) - 1 ELSE p.hopIndex + 1
  BY DEF LogHop, Sound, Packet
<1>3. q.hopIndex \in Nat /\ q.hopIndex < Len(p.path)
  BY <1>1, <1>2
<1>4. q.hopCount \in 0..255
  <2>1. MaxHops \in 1..255
    BY ForwardingAssumption
  <2>2. \A k \in 0..255 : k < MaxHops => k + 1 \in 0..255
    BY <2>1
  <2> QED
    BY <1>1, <1>2, <2>2
<1>5. q \in Packet
  <2>1. PICK i \in Nat, k \in 0..255 :
           q = [p EXCEPT !.previous = p.current, !.current = n, !.hopCount = k,
                         !.visited = @ \cup {n}, !.hopIndex = i]
    <3>1. q = [p EXCEPT !.previous = p.current, !.current = n, !.hopCount = q.hopCount,
                        !.visited = @ \cup {n}, !.hopIndex = q.hopIndex]
      BY <1>2 DEF LogHop
    <3> QED
      BY <1>3, <1>4, <3>1
  <2>2. [p EXCEPT !.previous = p.current, !.current = n, !.hopCount = k,
                  !.visited = @ \cup {n}, !.hopIndex = i] \in Packet
    BY StampTyped, Zenon
  <2> HIDE DEF q
  <2> QED
    BY <2>1, <2>2, Zenon
<1>6. Sound(q)
  BY <1>2, <1>3, <1>5 DEF Sound, WellPlanned
<1>7. ASSUME NextHop(p) = n PROVE Positioned(q, n)
  <2>1. n # None /\ n # Destination
    BY ForwardingAssumption DEF Node
  <2>2. p.hopIndex + 1 < Len(p.path) /\ p.path[p.hopIndex + 2] = n
    BY <1>7, <2>1 DEF NextHop
  <2>3. q.hopIndex = p.hopIndex + 1
    BY <1>1, <1>2, <2>2
  <2>4. p.hopIndex + 2 # Len(p.path)
    BY <2>1, <2>2 DEF Sound, WellPlanned
  <2>5. p.hopIndex + 2 \in 2..Len(p.path) - 1
    <3>1. Len(p.path) \in Nat
      BY <1>1
    <3> QED
      BY <1>1, <2>2, <2>4, <3>1
  <2>6. p.path[p.hopIndex + 3] \in Neighbors[n]
    <3>1. \A j \in 2..Len(p.path) - 1 : p.path[j + 1] \in Neighbors[p.path[j]]
      BY DEF Sound, WellPlanned, LeadsOn
    <3>2. p.path[p.hopIndex + 2 + 1] \in Neighbors[p.path[p.hopIndex + 2]]
      BY <2>5, <3>1
    <3>3. p.hopIndex + 2 + 1 = p.hopIndex + 3
      BY <1>1
    <3> QED
      BY <2>2, <3>2, <3>3
  <2>7. /\ q.hopIndex + 1 = p.hopIndex + 2
        /\ q.hopIndex + 2 = p.hopIndex + 3
        /\ q.hopIndex + 1 < Len(p.path)
    BY <1>1, <2>3, <2>5
  <2> HIDE DEF q
  <2> QED
    BY <1>2, <2>2, <2>6, <2>7 DEF Positioned
<1> QED
  BY <1>2, <1>6, <1>7

\* A reroute leaves a sound packet sound and, unless it finds no path, puts it
\* at the start of its new plan or leaves it where it was on the old one.
LEMMA RerouteFacts ==
    ASSUME NEW p \in Packet, NEW n \in Router, Sound(p), p.current = n,
           NEW q \in AfterReroute(p)
    PROVE  /\ Sound(q)
           /\ q.current = n
           /\ q.hopCount = p.hopCount
           /\ q.visited = p.visited
           /\ p.degraded => q.degraded
           /\ ~q.degraded /\ Positioned(p, n) => Positioned(q, n)
<1> DEFINE Goal == /\ Sound(q)
                   /\ q.current = n
                   /\ q.hopCount = p.hopCount
                   /\ q.visited = p.visited
                   /\ p.degraded => q.degraded
                   /\ ~q.degraded /\ Positioned(p, n) => Positioned(q, n)
<1>1. CASE q = p
  BY <1>1
<1>2. ASSUME NEW v \in Views \ {{}}, q \in Reroute(p, v) PROVE Goal
  <2>1. CASE q = [p EXCEPT !.degraded = TRUE]
    <3>1. q \in Packet /\ q.path = p.path /\ q.hopIndex = p.hopIndex /\ q.current = p.current
          /\ q.hopCount = p.hopCount /\ q.visited = p.visited /\ q.degraded = TRUE
      BY <2>1 DEF Sound, Packet
    <3> QED
      BY <3>1 DEF Sound, WellPlanned
  <2>2. ASSUME NEW r \in Routes[v][n], q = RerouteTo(p, r, v) PROVE Goal
    <3>1. CASE q = p
      BY <3>1
    <3>2. CASE q # p
      <4>1. q = [p EXCEPT !.path = r, !.hopIndex = 0, !.rerouted = TRUE,
                          !.miniMap = IF p.light THEN @ ELSE v]
        BY <2>2, <3>2 DEF RerouteTo
      <4>2. /\ r \in Seq(Router \cup {Destination}) /\ Len(r) >= 2 /\ r[1] = n
            /\ r[Len(r)] = Destination /\ LeadsOn(r, 1)
        BY <2>2, RouteFacts
      <4>3. /\ q.path = r /\ q.hopIndex = 0 /\ q.current = n /\ q.hopCount = p.hopCount
            /\ q.visited = p.visited /\ q.degraded = p.degraded
        BY <4>1 DEF Sound, Packet
      <4>4. r \in Seq(Node)
        BY <4>2 DEF Node
      <4>5. v \in SUBSET Topology
        BY <1>2, ForwardingAssumption
      <4>6. q \in Packet
        <5>1. PICK map \in SUBSET Topology :
                 q = [p EXCEPT !.path = r, !.hopIndex = 0, !.rerouted = TRUE, !.miniMap = map]
          <6>1. CASE p.light
            BY <4>1, <6>1 DEF Packet
          <6>2. CASE ~p.light
            BY <4>1, <4>5, <6>2
          <6> QED
            BY <6>1, <6>2
        <5> QED
          BY <4>4, <5>1, NewPlanTyped
      <4>7. Sound(q)
        BY <4>2, <4>3, <4>6 DEF Sound, WellPlanned, LeadsOn
      <4>8. Positioned(q, n)
        <5>1. 1 \in 1..Len(r) - 1
          BY <4>2
        <5>2. r[1 + 1] \in Neighbors[r[1]]
          BY <4>2, <5>1 DEF LeadsOn
        <5> QED
          BY <4>2, <4>3, <5>2 DEF Positioned
      <4> QED
        BY <4>3, <4>7, <4>8
    <3> QED
      BY <3>1, <3>2
  <2> QED
    BY <1>2, <2>1, <2>2 DEF Reroute
<1> QED
  BY <1>1, <1>2 DEF AfterReroute

\* Choosing the next hop never changes more than the degraded flag; an
\* undegraded choice is the next hop of the plan, a router not visited.
LEMMA ChoiceFacts ==
    ASSUME NEW p \in Packet, NEW n \in Router, Sound(p), p.current = n, NEW d \in Choices(p)
    PROVE  /\ Sound(d.packet)
           /\ d.packet.hopCount = p.hopCount
           /\ d.packet.visited = p.visited
           /\ p.degraded => d.packet.degraded
           /\ ~d.packet.degraded /\ Positioned(p, n) =>
                 /\ d.hop = NextHop(d.packet)
                 /\ d.hop \in Neighbors[n]
                 /\ d.hop \notin d.packet.visited
<1> DEFINE forced == [p EXCEPT !.degraded = TRUE]
<1>1. /\ forced \in Packet /\ forced.path = p.path /\ forced.hopIndex = p.hopIndex
      /\ forced.hopCount = p.hopCount /\ forced.visited = p.visited /\ forced.degraded = TRUE
  BY DEF Sound, Packet
<1>2. CASE d.packet = forced
  BY <1>1, <1>2 DEF Sound, WellPlanned
<1>3. CASE /\ ~(NextHop(p) # None /\ DetectLoop(p, NextHop(p)))
           /\ d = [packet |-> p, hop |-> NextHop(p)]
  <2>1. ASSUME Positioned(p, n)
        PROVE  NextHop(p) \in Neighbors[n] /\ NextHop(p) \notin p.visited
    <3>1. NextHop(p) \in Neighbors[n]
      BY <2>1 DEF Positioned, NextHop
    <3>2. NextHop(p) # None
      BY <3>1, ForwardingAssumption DEF Node
    <3> QED
      BY <1>3, <3>1, <3>2 DEF DetectLoop
  <2> QED
    BY <1>3, <2>1
<1>4. CASE NextHop(p) # None /\ DetectLoop(p, NextHop(p))
  <2>1. PICK m, h : d = [packet |-> forced, hop |-> h]
    BY <1>4 DEF Choices
  <2> QED
    BY <1>2, <2>1
<1>5. CASE ~(NextHop(p) # None /\ DetectLoop(p, NextHop(p)))
  BY <1>3, <1>5 DEF Choices
<1> QED
  BY <1>4, <1>5

\* All of steps 2 to 5: what a router's decision does to the packet it got.
LEMMA DecisionFacts ==
    ASSUME NEW n \in Router, Sound(packet), packet.hopCount < MaxHops, NEW d \in Decisions(n)
    PROVE  /\ Sound(d.packet)
           /\ d.packet.hopCount = packet.hopCount + 1
           /\ d.packet.visited = packet.visited \cup {n}
           /\ packet.degraded => d.packet.degraded
           /\ ~d.packet.degraded /\ NextHop(packet) = n =>
                 /\ Target(d.hop) = NextHop(d.packet)
                 /\ Target(d.hop) \in Neighbors[n]
                 /\ Target(d.hop) \notin d.packet.visited
<1> DEFINE p == LogHop(packet, n)
<1>1. /\ Sound(p) /\ p.current = n /\ p.hopCount = packet.hopCount + 1
      /\ p.visited = packet.visited \cup {n} /\ p.degraded = packet.degraded
      /\ NextHop(packet) = n => Positioned(p, n)
  BY LogHopFacts DEF Sound
<1>2. PICK q \in AfterReroute(p) : d \in Choices(q)
  BY DEF Decisions
<1>3. p \in Packet
  BY <1>1 DEF Sound
<1> HIDE DEF p
<1>4. /\ Sound(q) /\ q.current = n /\ q.hopCount = p.hopCount /\ q.visited = p.visited
      /\ p.degraded => q.degraded
      /\ ~q.degraded /\ Positioned(p, n) => Positioned(q, n)
  BY <1>1, <1>2, <1>3, RerouteFacts
<1>5. q \in Packet
  BY <1>4 DEF Sound
<1>6. /\ Sound(d.packet) /\ d.packet.hopCount = q.hopCount /\ d.packet.visited = q.visited
      /\ q.degraded => d.packet.degraded
      /\ ~d.packet.degraded /\ Positioned(q, n) =>
            d.hop = NextHop(d.packet) /\ d.hop \in Neighbors[n] /\ d.hop \notin d.packet.visited
  BY <1>2, <1>4, <1>5, ChoiceFacts
<1>7. d.hop \in Neighbors[n] => Target(d.hop) = d.hop
  BY ForwardingAssumption DEF Target, Node
<1> QED
  BY <1>1, <1>4, <1>6, <1>7

-----------------------------------------------------------------------------
(* The inductive invariant *)

\* An undegraded packet in flight goes to the next hop of its plan, which has
\* not handled it before.
OnTrack ==
    status = "flight" /\ ~packet.degraded => NextHop(packet) = at /\ at \notin packet.visited

IInv ==
    /\ Sound(packet)
    /\ packet.hopCount <= MaxHops
    /\ at \in Node
    /\ status \in {"flight", "delivered", "expired", "no_neighbor", "lost"}
    /\ stamp \in Node \cup {None}
    /\ mode \in {"full", "light", "fixed"}
    /\ status = "flight" => at \in Router
    /\ RevisitOnlyDegraded
    /\ OnTrack

\* The sender's path, behind the sender itself, is a plan.
LEMMA InitInv == Init => IInv
<1> SUFFICES ASSUME Init PROVE IInv
  OBVIOUS
<1>1. PICK v \in Views \cup {Topology} :
        \E r \in Routes[v][FirstRouter] : packet = NewPacket(mode, v, r)
  BY DEF Init
<1>2. PICK r \in Routes[v][FirstRouter] : packet = NewPacket(mode, v, r)
  BY <1>1
<1>3. FirstRouter \in Router /\ Sender \in Node /\ Sender # FirstRouter /\ None \notin Node
  BY ForwardingAssumption DEF Node
<1>4. /\ r \in Seq(Router \cup {Destination}) /\ Len(r) >= 2 /\ r[1] = FirstRouter
      /\ r[Len(r)] = Destination /\ LeadsOn(r, 1)
  BY <1>3, RouteFacts
<1>5. r \in Seq(Node)
  BY <1>4 DEF Node
<1> DEFINE path == <<Sender>> \o r
<1>6. /\ path \in Seq(Node) /\ Len(path) = Len(r) + 1
      /\ \A j \in 2..Len(path) : path[j] = r[j - 1]
  BY <1>3, <1>5
<1>7. /\ packet.path = path /\ packet.hopIndex = 0 /\ packet.hopCount = 0 /\ packet.visited = {}
      /\ packet.degraded = FALSE
  BY <1>2 DEF NewPacket
<1>8. v \in SUBSET Topology
  BY ForwardingAssumption
<1>9. packet \in Packet
  <2> DEFINE light == mode = "light"
             map == IF mode = "full" THEN v ELSE {}
  <2>1. packet = [path |-> path, hopIndex |-> 0, hopCount |-> 0,
                  current |-> None, previous |-> None, visited |-> {},
                  degraded |-> FALSE, rerouted |-> FALSE, light |-> light, miniMap |-> map]
    BY <1>2 DEF NewPacket
  <2>2. light \in BOOLEAN /\ map \in SUBSET Topology
    BY <1>8
  <2> HIDE DEF light, map
  <2> QED
    BY <1>6, <2>1, <2>2 DEF Packet
<1>10. path[Len(path)] = Destination
  BY <1>4, <1>6
<1>11. LeadsOn(path, 2)
  <2> SUFFICES ASSUME NEW j \in 2..Len(path) - 1
               PROVE  path[j] \in Router /\ path[j + 1] \in Neighbors[path[j]]
    BY DEF LeadsOn
  <2>1. j - 1 \in 1..Len(r) - 1 /\ path[j] = r[j - 1] /\ path[j + 1] = r[(j - 1) + 1]
    BY <1>4, <1>6
  <2> QED
    BY <1>4, <2>1 DEF LeadsOn
<1>12. path[2] = FirstRouter
  BY <1>4, <1>6
<1> HIDE DEF path
<1>13. Sound(packet)
  BY <1>4, <1>6, <1>7, <1>9, <1>10, <1>11 DEF Sound, WellPlanned
<1>14. NextHop(packet) = FirstRouter
  BY <1>4, <1>6, <1>7, <1>12 DEF NextHop
<1>15. RevisitOnlyDegraded
  BY <1>7, FS_EmptySet DEF RevisitOnlyDegraded
<1>16. MaxHops \in 1..255
  BY ForwardingAssumption
<1>17. packet.hopCount <= MaxHops
  BY <1>7, <1>16
<1> QED
  BY <1>3, <1>7, <1>13, <1>14, <1>15, <1>17 DEF Init, IInv, OnTrack, Node

\* A router that handles the packet counts it once more, for one more router.
LEMMA Counted ==
    ASSUME IInv, NEW n \in Router, Arrived(n), ~IsExpired(packet), NEW d \in Decisions(n),
           ~d.packet.degraded
    PROVE  d.packet.hopCount <= Cardinality(d.packet.visited)
<1>1. packet.hopCount \in Nat /\ packet.visited \in SUBSET Router /\ packet.hopCount < MaxHops
  <2>1. packet.hopCount \in 0..255 /\ MaxHops \in 1..255 /\ packet.visited \in SUBSET Router
    BY ForwardingAssumption DEF IInv, Sound, Packet
  <2>2. ~(packet.hopCount >= MaxHops)
    BY DEF IsExpired
  <2> QED
    BY <2>1, <2>2
<1>2. ~packet.degraded /\ d.packet.hopCount = packet.hopCount + 1
      /\ d.packet.visited = packet.visited \cup {n}
  BY <1>1, DecisionFacts DEF IInv
<1>3. n \notin packet.visited
  BY <1>2 DEF IInv, OnTrack, Arrived
<1>4. IsFiniteSet(packet.visited)
  BY <1>1, FS_Subset, ForwardingAssumption
<1>5. Cardinality(packet.visited) \in Nat
      /\ Cardinality(packet.visited \cup {n}) = Cardinality(packet.visited) + 1
  BY <1>3, <1>4, FS_AddElement, FS_CardinalityType
<1>6. packet.hopCount <= Cardinality(packet.visited)
  BY <1>1, <1>2, <1>5 DEF IInv, RevisitOnlyDegraded
<1> QED
  BY <1>1, <1>2, <1>5, <1>6

\* One step per action; Handle's three actions and the network's loss.
LEMMA NextInv == IInv /\ [Next]_vars => IInv'
<1> SUFFICES ASSUME IInv, [Next]_vars PROVE IInv'
  OBVIOUS
<1>1. packet.hopCount \in 0..255 /\ MaxHops \in 1..255
  BY ForwardingAssumption DEF IInv, Sound, Packet
<1>2. ASSUME NEW n \in Router, Expire(n) PROVE IInv'
  BY <1>2 DEF Expire, Arrived, IInv, Sound, RevisitOnlyDegraded, OnTrack
<1>3. ASSUME NEW n \in Router, Arrived(n), ~IsExpired(packet), NEW d \in Decisions(n),
             packet' = d.packet
      PROVE  /\ Sound(packet)' /\ packet'.hopCount <= MaxHops /\ RevisitOnlyDegraded'
             /\ ~packet'.degraded => Target(d.hop) = NextHop(packet')
             /\ ~packet'.degraded => Target(d.hop) \in Neighbors[n]
             /\ ~packet'.degraded => Target(d.hop) \notin packet'.visited
  <2>1. packet.hopCount < MaxHops
    BY <1>1, <1>3 DEF IsExpired
  <2>2. /\ Sound(d.packet) /\ d.packet.hopCount = packet.hopCount + 1
        /\ packet.degraded => d.packet.degraded
        /\ ~d.packet.degraded /\ NextHop(packet) = n =>
              /\ Target(d.hop) = NextHop(d.packet)
              /\ Target(d.hop) \in Neighbors[n]
              /\ Target(d.hop) \notin d.packet.visited
    BY <1>3, <2>1, DecisionFacts DEF IInv
  <2>3. ~d.packet.degraded => NextHop(packet) = n
    BY <1>3, <2>2 DEF IInv, OnTrack, Arrived
  <2>4. d.packet.hopCount <= MaxHops
    BY <1>1, <2>1, <2>2
  <2>5. Sound(packet)'
    BY <1>3, <2>2 DEF Sound, WellPlanned, LeadsOn
  <2>6. RevisitOnlyDegraded'
    <3>1. CASE d.packet.degraded
      BY <1>3, <3>1 DEF RevisitOnlyDegraded
    <3>2. CASE ~d.packet.degraded
      <4>1. d.packet.hopCount <= Cardinality(d.packet.visited)
        BY <1>3, <3>2, Counted
      <4>2. d.packet.hopCount \in 0..255 /\ d.packet.visited \in SUBSET Router
        BY <2>2 DEF Sound, Packet
      <4>3. Cardinality(d.packet.visited) \in Nat
        BY <4>2, FS_Subset, FS_CardinalityType, ForwardingAssumption
      <4> QED
        BY <1>3, <4>1, <4>2, <4>3 DEF RevisitOnlyDegraded
    <3> QED
      BY <3>1, <3>2
  <2> QED
    BY <1>3, <2>2, <2>3, <2>4, <2>5, <2>6
<1>4. ASSUME NEW n \in Router PROVE LookedUp(n) \in Node \cup {None}
  BY ForwardingAssumption DEF LookedUp, Node
<1>5. ASSUME NEW n \in Router, DropNoNeighbor(n) PROVE IInv'
  <2>1. PICK d \in Decisions(n) : packet' = d.packet
    BY <1>5 DEF DropNoNeighbor
  <2>2. Sound(packet)' /\ packet'.hopCount <= MaxHops /\ RevisitOnlyDegraded'
    BY <1>3, <1>5, <2>1 DEF DropNoNeighbor
  <2> QED
    BY <1>4, <1>5, <2>2 DEF DropNoNeighbor, IInv, OnTrack
<1>6. ASSUME NEW n \in Router, Forward(n) PROVE IInv'
  <2>1. PICK d \in Decisions(n) : /\ Target(d.hop) \in Neighbors[n]
                                  /\ packet' = d.packet
                                  /\ at' = Target(d.hop)
    BY <1>6 DEF Forward
  <2>2. /\ Sound(packet)' /\ packet'.hopCount <= MaxHops /\ RevisitOnlyDegraded'
        /\ ~packet'.degraded => at' = NextHop(packet')
        /\ ~packet'.degraded => at' \notin packet'.visited
    BY <1>3, <1>6, <2>1 DEF Forward
  <2>3. at' \in Router \cup {Destination}
    BY <2>1, ForwardingAssumption
  <2>4. OnTrack'
    BY <2>2 DEF OnTrack
  <2> QED
    BY <1>4, <1>6, <2>2, <2>3, <2>4 DEF Forward, IInv, Node
<1>7. CASE Lose
  BY <1>7 DEF Lose, IInv, Sound, RevisitOnlyDegraded, OnTrack
<1>8. CASE UNCHANGED vars
  BY <1>8 DEF vars, IInv, Sound, RevisitOnlyDegraded, OnTrack
<1> QED
  BY <1>2, <1>5, <1>6, <1>7, <1>8 DEF Next, Handle

\* The inductive invariant holds throughout, whatever the views and the network.
THEOREM Invariance == Spec => []IInv
<1> QED
  BY InitInv, NextInv, PTL DEF Spec

-----------------------------------------------------------------------------
(* Theorems *)

\* HopIndex never leaves the plan and the one-byte HopCount never wraps, for
\* every network and hop budget.
THEOREM TypeCorrect == Spec => []TypeOK
<1>1. IInv => TypeOK
  BY DEF IInv, Sound, TypeOK
<1> QED
  BY <1>1, Invariance, PTL

\* Only degraded packets revisit a router, however often and on whatever views
\* they were rerouted.
THEOREM RevisitsAreForced == Spec => []RevisitOnlyDegraded
<1>1. IInv => RevisitOnlyDegraded
  BY DEF IInv
<1> QED
  BY <1>1, Invariance, PTL

\* A packet that was never forced is always sent to the next hop of its plan.
THEOREM StaysOnPlan == Spec => []OnPlanUnlessDegraded
<1>1. IInv => OnPlanUnlessDegraded
  BY DEF IInv, OnTrack, OnPlanUnlessDegraded
<1> QED
  BY <1>1, Invariance, PTL

\* With a hop budget of at least the number of routers, a packet that was never
\* forced is neither dropped for want of a neighbour nor expired.
THEOREM PlanIsEnough ==
    ASSUME MaxHops >= Cardinality(Router)
    PROVE  Spec => []UndegradedNotDropped
<1>1. Init => UndegradedNotDropped
  BY DEF Init, UndegradedNotDropped
<1>2. ASSUME IInv, UndegradedNotDropped, [Next]_vars PROVE UndegradedNotDropped'
  <2>1. ASSUME NEW n \in Router, Expire(n), ~packet.degraded PROVE FALSE
    <3>1. packet.visited \in SUBSET Router /\ packet.hopCount \in Nat
          /\ packet.hopCount <= Cardinality(packet.visited) /\ n \notin packet.visited
      <4>1. packet.visited \in SUBSET Router /\ packet.hopCount \in 0..255
        BY <1>2 DEF IInv, Sound, Packet
      <4>2. Cardinality(packet.visited) \in Nat
        BY <4>1, FS_Subset, FS_CardinalityType, ForwardingAssumption
      <4> QED
        BY <1>2, <2>1, <4>1, <4>2 DEF IInv, RevisitOnlyDegraded, OnTrack, Expire, Arrived
    <3>2. IsFiniteSet(packet.visited) /\ IsFiniteSet(packet.visited \cup {n})
      BY <3>1, FS_Subset, FS_AddElement, ForwardingAssumption
    <3>3. Cardinality(packet.visited \cup {n}) = Cardinality(packet.visited) + 1
          /\ Cardinality(packet.visited) \in Nat
      BY <3>1, <3>2, FS_AddElement, FS_CardinalityType
    <3>4. Cardinality(packet.visited \cup {n}) <= Cardinality(Router) /\ Cardinality(Router) \in Nat
      BY <3>1, FS_Subset, FS_CardinalityType, ForwardingAssumption
    <3>5. packet.hopCount >= MaxHops /\ MaxHops \in 1..255
      BY <2>1, ForwardingAssumption DEF Expire, IsExpired
    <3> QED
      BY <3>1, <3>3, <3>4, <3>5
  <2>2. ASSUME NEW n \in Router, Expire(n) PROVE UndegradedNotDropped'
    BY <2>1, <2>2 DEF Expire, UndegradedNotDropped
  <2>3. ASSUME NEW n \in Router, DropNoNeighbor(n) PROVE packet'.degraded
    <3>1. PICK d \in Decisions(n) : Target(d.hop) \notin Neighbors[n] /\ packet' = d.packet
      BY <2>3 DEF DropNoNeighbor
    <3>2. packet.hopCount < MaxHops
      <4>1. packet.hopCount \in 0..255 /\ MaxHops \in 1..255
        BY <1>2, ForwardingAssumption DEF IInv, Sound, Packet
      <4> QED
        BY <2>3, <4>1 DEF DropNoNeighbor, IsExpired
    <3>3. ~d.packet.degraded /\ NextHop(packet) = n => Target(d.hop) \in Neighbors[n]
      BY <1>2, <3>2, DecisionFacts DEF IInv
    <3>4. packet.degraded => d.packet.degraded
      BY <1>2, <3>2, DecisionFacts DEF IInv
    <3>5. ~packet.degraded => NextHop(packet) = n
      BY <1>2, <2>3 DEF IInv, OnTrack, DropNoNeighbor, Arrived
    <3>6. Sound(d.packet)
      BY <1>2, <3>2, DecisionFacts DEF IInv
    <3> QED
      BY <3>1, <3>3, <3>4, <3>5, <3>6 DEF Sound, Packet
  <2>4. ASSUME NEW n \in Router, Forward(n) PROVE UndegradedNotDropped'
    BY <2>4 DEF Forward, UndegradedNotDropped
  <2>5. CASE Lose
    BY <2>5 DEF Lose, UndegradedNotDropped
  <2>6. CASE UNCHANGED vars
    BY <1>2, <2>6 DEF vars, UndegradedNotDropped
  <2> QED
    BY <1>2, <2>2, <2>3, <2>4, <2>5, <2>6 DEF Next, Handle, UndegradedNotDropped
<1> QED
  BY <1>1, <1>2, Invariance, PTL DEF Spec
-----------------------------------------------------------------------------
(* Forwarding implements the bounded walk *)

\* What a router's decision on an arrived packet comes to, in terms of the walk.
LEMMA DecisionWalks ==
    ASSUME IInv, NEW n \in Router, Arrived(n), ~IsExpired(packet), NEW d \in Decisions(n)
    PROVE  /\ packet.hopCount < MaxHops
           /\ d.packet.hopCount = packet.hopCount + 1
           /\ d.packet.visited = packet.visited \cup {at}
           /\ d.packet.degraded \in {packet.degraded, TRUE}
           /\ ~d.packet.degraded => /\ Target(d.hop) \in Neighbors[n]
                                    /\ Target(d.hop) \notin d.packet.visited
<1>1. packet.hopCount \in 0..255 /\ MaxHops \in 1..255 /\ packet.degraded \in BOOLEAN
  BY ForwardingAssumption DEF IInv, Sound, Packet
<1>2. packet.hopCount < MaxHops
  BY <1>1 DEF IsExpired
<1>3. /\ Sound(d.packet)
      /\ d.packet.hopCount = packet.hopCount + 1
      /\ d.packet.visited = packet.visited \cup {n}
      /\ packet.degraded => d.packet.degraded
      /\ ~d.packet.degraded /\ NextHop(packet) = n =>
            Target(d.hop) \in Neighbors[n] /\ Target(d.hop) \notin d.packet.visited
  BY <1>2, DecisionFacts DEF IInv
<1>4. d.packet.degraded \in BOOLEAN
  BY <1>3 DEF Sound, Packet
<1>5. ~packet.degraded => NextHop(packet) = n
  BY DEF IInv, OnTrack, Arrived
<1> QED
  BY <1>1, <1>2, <1>3, <1>4, <1>5 DEF Arrived

LEMMA WalkInit == Init => Journey!Init
BY DEF Init, Journey!Init, NewPacket

LEMMA WalkStep == IInv /\ [Next]_vars => [Journey!Next]_(Journey!vars)
<1> SUFFICES ASSUME IInv, [Next]_vars PROVE Journey!Next \/ UNCHANGED Journey!vars
  OBVIOUS
<1>1. packet.hopCount \in 0..255 /\ MaxHops \in 1..255 /\ packet.hopCount <= MaxHops
  BY ForwardingAssumption DEF IInv, Sound, Packet
<1>2. ASSUME NEW n \in Router, Expire(n) PROVE Journey!Next
  <2>1. packet.hopCount = MaxHops
    BY <1>1, <1>2 DEF Expire, IsExpired
  <2> QED
    BY <1>2, <2>1 DEF Expire, Arrived, Journey!Next, Journey!Expire
<1>3. ASSUME NEW n \in Router, DropNoNeighbor(n) PROVE Journey!Next
  <2>1. PICK d \in Decisions(n) : Target(d.hop) \notin Neighbors[n] /\ packet' = d.packet
    BY <1>3 DEF DropNoNeighbor
  <2>2. Arrived(n) /\ ~IsExpired(packet) /\ status' = "no_neighbor" /\ at' = at
    BY <1>3 DEF DropNoNeighbor
  <2>3. packet'.degraded
    BY <2>1, <2>2, DecisionWalks
  <2>4. Journey!Handled
    BY <2>1, <2>2, DecisionWalks DEF Journey!Handled, Arrived
  <2> QED
    BY <2>2, <2>3, <2>4 DEF Journey!Next, Journey!Strand
<1>4. ASSUME NEW n \in Router, Forward(n) PROVE Journey!Next
  <2>1. PICK d \in Decisions(n) : /\ Target(d.hop) \in Neighbors[n]
                                  /\ packet' = d.packet
                                  /\ at' = Target(d.hop)
    BY <1>4 DEF Forward
  <2>2. /\ Arrived(n) /\ ~IsExpired(packet) /\ at = n /\ status = "flight"
        /\ status' = IF at' = Destination THEN "delivered" ELSE "flight"
    BY <1>4 DEF Forward, Arrived
  <2>3. <<at, at'>> \in Topology
    BY <2>1, <2>2 DEF Topology
  <2>4. packet'.degraded \/ at' \notin packet'.visited
    BY <2>1, <2>2, DecisionWalks
  <2>5. Journey!Handled
    BY <2>1, <2>2, DecisionWalks DEF Journey!Handled
  <2> QED
    BY <2>2, <2>3, <2>4, <2>5 DEF Journey!Next, Journey!Hop
<1>5. CASE Lose
  BY <1>5 DEF Lose, Journey!Next, Journey!Lose
<1>6. CASE UNCHANGED vars
  BY <1>6 DEF vars, Journey!vars
<1> QED
  BY <1>2, <1>3, <1>4, <1>5, <1>6 DEF Next, Handle

\* On every network and on whatever views the routers decide, the packet takes a
\* walk over configured links of at most MaxHops steps, simple until forced.
THEOREM PacketsWalk == Spec => ImplementsWalk
<1> QED
  BY WalkInit, WalkStep, Invariance, PTL
     DEF Spec, ImplementsWalk, Journey!Spec

-----------------------------------------------------------------------------
(* Termination: the hop budget is spent, and no router is left without a     *)
(* decision                                                                  *)

\* How often the packet can still be handled, the expiry included.
BudgetLeft == IF status = "flight" THEN 1 + MaxHops - packet.hopCount ELSE 0

\* The guards of Handle at the router that has the packet.
MayHandle ==
    \E n \in Router :
        /\ Arrived(n)
        /\ \/ IsExpired(packet)
           \/ ~IsExpired(packet) /\ \E d \in Decisions(n) : Target(d.hop) \notin Neighbors[n]
           \/ ~IsExpired(packet) /\ \E d \in Decisions(n) : Target(d.hop) \in Neighbors[n]

LEMMA BudgetTyped == IInv => BudgetLeft \in 0..MaxHops + 1 /\ (status = "flight" => BudgetLeft > 0)
<1> SUFFICES ASSUME IInv
             PROVE  BudgetLeft \in 0..MaxHops + 1 /\ (status = "flight" => BudgetLeft > 0)
  OBVIOUS
<1>1. packet.hopCount \in 0..255 /\ MaxHops \in 1..255 /\ packet.hopCount <= MaxHops
  BY ForwardingAssumption DEF IInv, Sound, Packet
<1> QED
  BY <1>1 DEF BudgetLeft

\* Whatever a router decides - a reroute, a forced hop, a drop - spends hop
\* budget or ends the packet; the one-byte HopCount never stops counting.  No
\* packet is handled more than MaxHops + 1 times, loops and all.
THEOREM EveryHopCounts ==
    Spec => [][BudgetLeft' \in Nat /\ BudgetLeft' < BudgetLeft]_vars
<1>0. MaxHops \in 1..255
  BY ForwardingAssumption
<1>1. IInv => BudgetLeft \in Nat
  BY <1>0, BudgetTyped
<1>2. IInv /\ (BudgetLeft \in Nat)' /\ [Next]_vars
         => [BudgetLeft' \in Nat /\ BudgetLeft' < BudgetLeft]_vars
  <2> SUFFICES ASSUME IInv, Next PROVE BudgetLeft' < BudgetLeft
    OBVIOUS
  <2>1. packet.hopCount \in 0..255 /\ BudgetLeft \in Nat /\ (status = "flight" => BudgetLeft > 0)
    BY <1>0, BudgetTyped DEF IInv, Sound, Packet
  <2>2. ASSUME status = "flight", status' # "flight" PROVE BudgetLeft' < BudgetLeft
    <3>1. BudgetLeft' = 0
      BY <2>2 DEF BudgetLeft
    <3> QED
      BY <2>1, <2>2, <3>1
  <2>3. ASSUME NEW n \in Router, Forward(n) PROVE BudgetLeft' < BudgetLeft
    <3>1. PICK d \in Decisions(n) : packet' = d.packet
      BY <2>3 DEF Forward
    <3>2. status = "flight" /\ packet'.hopCount = packet.hopCount + 1
      BY <2>3, <3>1, DecisionWalks DEF Forward, Arrived
    <3>3. status' \in {"flight", "delivered"}
      BY <2>3 DEF Forward
    <3>4. CASE status' = "flight"
      <4>1. BudgetLeft = 1 + MaxHops - packet.hopCount /\ BudgetLeft' = 1 + MaxHops - packet'.hopCount
        BY <3>2, <3>4 DEF BudgetLeft
      <4> QED
        BY <1>0, <2>1, <3>2, <4>1
    <3>5. CASE status' = "delivered"
      BY <2>2, <3>2, <3>5
    <3> QED
      BY <3>3, <3>4, <3>5
  <2>4. ASSUME NEW n \in Router, Expire(n) \/ DropNoNeighbor(n) PROVE BudgetLeft' < BudgetLeft
    BY <2>2, <2>4 DEF Expire, DropNoNeighbor, Arrived
  <2>5. CASE Lose
    BY <2>2, <2>5 DEF Lose
  <2> QED
    BY <2>3, <2>4, <2>5 DEF Next, Handle
<1> QED
  BY <1>1, <1>2, Invariance, PTL DEF Spec

\* A forced packet goes somewhere, if only to its destination.
LEMMA ForcedSomewhere ==
    ASSUME NEW p, NEW map
    PROVE  ForceForward(p, map) # {}
<1> DEFINE out == {l[2] : l \in {l \in map : l[1] = p.current}}
           unvisited == (out \ p.visited) \ {p.previous}
           onward == out \ {p.previous}
<1>1. ForceForward(p, map) = IF Destination \in out THEN {Destination}
                             ELSE IF unvisited # {} THEN unvisited
                             ELSE IF onward # {} THEN onward
                             ELSE IF out # {} THEN out
                             ELSE {None}
  BY DEF ForceForward
<1> HIDE DEF out, unvisited, onward
<1> QED
  BY <1>1

\* Each router can always decide: it has some view to read, if only an empty one.
LEMMA DecisionExists ==
    ASSUME Views # {}, NEW n \in Router
    PROVE  Decisions(n) # {}
<1> DEFINE p == LogHop(packet, n)
<1>1. p \in AfterReroute(p)
  BY DEF AfterReroute
<1> HIDE DEF p
<1>2. Choices(p) # {}
  <2>1. CASE NextHop(p) # None /\ DetectLoop(p, NextHop(p))
    <3>1. PICK m : m \in IF p.light THEN Views ELSE {p.miniMap}
      <4>1. PICK v : v \in Views
        OBVIOUS
      <4>2. CASE p.light
        BY <4>1, <4>2
      <4>3. CASE ~p.light
        BY <4>3
      <4> QED
        BY <4>2, <4>3
    <3>2. PICK h : h \in ForceForward(p, m)
      BY ForcedSomewhere
    <3> DEFINE sent(x) == [packet |-> [p EXCEPT !.degraded = TRUE], hop |-> x]
               maps == IF p.light THEN Views ELSE {p.miniMap}
               over(x) == {sent(y) : y \in ForceForward(p, x)}
    <3>3. Choices(p) = UNION {over(x) : x \in maps}
      BY <2>1 DEF Choices
    <3>4. m \in maps
      BY <3>1
    <3> HIDE DEF sent, maps
    <3>5. sent(h) \in over(m)
      BY <3>2
    <3> HIDE DEF over
    <3> QED
      BY <3>3, <3>4, <3>5
  <2>2. CASE ~(NextHop(p) # None /\ DetectLoop(p, NextHop(p)))
    BY <2>2 DEF Choices
  <2> QED
    BY <2>1, <2>2
<1>3. Choices(p) \subseteq Decisions(n)
  BY <1>1 DEF Decisions, p
<1> QED
  BY <1>2, <1>3

\* A packet in flight is always at a router that can handle it: with
\* EveryHopCounts, all of Terminates but the fairness of the workers.
THEOREM NeverStranded ==
    ASSUME Views # {}
    PROVE  Spec => [](status = "flight" => MayHandle)
<1>1. IInv => (status = "flight" => MayHandle)
  <2> SUFFICES ASSUME IInv, status = "flight" PROVE MayHandle
    OBVIOUS
  <2>1. at \in Router /\ Arrived(at)
    BY DEF IInv, Arrived
  <2>2. PICK d : d \in Decisions(at)
    BY <2>1, DecisionExists
  <2> QED
    BY <2>1, <2>2 DEF MayHandle
<1> QED
  BY <1>1, Invariance, PTL

-----------------------------------------------------------------------------
(* The baselines *)

\* The routers a packet on its plan has passed.
Passed(p) == {p.path[j] : j \in 2..p.hopIndex + 1}

\* A fixed packet carries no map, so that no router reroutes it; its plan has no
\* router twice, and the routers it has seen are the part of the plan behind it,
\* so that no router finds its next hop visited and forces it.
Untouched(p) == /\ ~p.light /\ ~p.rerouted /\ ~p.degraded /\ p.miniMap = {}
                /\ p.visited = Passed(p)
                /\ \A i, j \in 2..Len(p.path) : p.path[i] = p.path[j] => i = j

FixedInv == mode = "fixed" => Untouched(packet)

LEMMA FixedInit == Init => FixedInv
<1> SUFFICES ASSUME Init, mode = "fixed" PROVE Untouched(packet)
  BY DEF FixedInv
<1>1. PICK v \in Views \cup {Topology} :
        \E r \in Routes[v][FirstRouter] : packet = NewPacket(mode, v, r)
  BY DEF Init
<1>2. PICK r \in Routes[v][FirstRouter] : packet = NewPacket(mode, v, r)
  BY <1>1
<1>3. r \in Seq(Router \cup {Destination}) /\ IsRoute(r, v, FirstRouter)
  BY RouteFacts, ForwardingAssumption DEF Routes
<1> DEFINE path == <<Sender>> \o r
<1>4. r \in Seq(Node) /\ Sender \in Node
  BY <1>3 DEF Node
<1>5. path \in Seq(Node) /\ Len(path) = Len(r) + 1
      /\ \A j \in 2..Len(path) : j - 1 \in 1..Len(r) /\ path[j] = r[j - 1]
  BY <1>4
<1>6. /\ packet.path = path /\ packet.hopIndex = 0 /\ packet.visited = {}
      /\ ~packet.light /\ ~packet.rerouted /\ ~packet.degraded /\ packet.miniMap = {}
  BY <1>2 DEF NewPacket
<1> HIDE DEF path
<1>7. \A i, j \in 2..Len(path) : path[i] = path[j] => i = j
  <2> SUFFICES ASSUME NEW i \in 2..Len(path), NEW j \in 2..Len(path), path[i] = path[j]
               PROVE  i = j
    OBVIOUS
  <2>1. i - 1 = j - 1
    BY <1>3, <1>5 DEF IsRoute
  <2> QED
    BY <2>1, <1>4, <1>5
<1>8. Passed(packet) = {}
  BY <1>6 DEF Passed
<1> QED
  BY <1>6, <1>7, <1>8 DEF Untouched

\* All a router does to an untouched packet is to log the hop.
LEMMA FixedDecision ==
    ASSUME IInv, NEW n \in Router, Arrived(n), ~IsExpired(packet), Untouched(packet),
           NEW d \in Decisions(n)
    PROVE  Untouched(d.packet) /\ d.packet.path = packet.path
<1> DEFINE p == LogHop(packet, n)
           i == packet.hopIndex
<1>1. /\ packet \in Packet /\ i \in Nat /\ i < Len(packet.path) /\ packet.path \in Seq(Node)
      /\ packet.path[Len(packet.path)] = Destination /\ Len(packet.path) \in Nat
  BY DEF IInv, Sound, Packet, WellPlanned
<1>2. NextHop(packet) = n
  BY DEF IInv, OnTrack, Arrived, Untouched
<1>3. i + 1 < Len(packet.path) /\ packet.path[i + 2] = n
  BY <1>2, ForwardingAssumption DEF NextHop, Node
<1>4. i + 2 < Len(packet.path)
  BY <1>1, <1>3, ForwardingAssumption
<1>5. /\ p.path = packet.path /\ p.hopIndex = i + 1 /\ p.current = n
      /\ p.visited = packet.visited \cup {n}
      /\ ~p.light /\ ~p.rerouted /\ ~p.degraded /\ p.miniMap = {}
  BY <1>1, <1>4 DEF LogHop, Packet, Untouched
<1> HIDE DEF p, i
<1>6. p.visited = Passed(p)
  BY <1>1, <1>3, <1>5 DEF Untouched, Passed, i
<1>7. Untouched(p)
  BY <1>5, <1>6 DEF Untouched
<1>8. NextHop(p) = packet.path[i + 3]
  BY <1>1, <1>4, <1>5 DEF NextHop, i
<1>9. NextHop(p) \notin p.visited
  <2>1. ASSUME NEW j \in 2..p.hopIndex + 1 PROVE p.path[j] # NextHop(p)
    <3>1. i \in Nat /\ i + 2 < Len(packet.path) /\ p.hopIndex = i + 1 /\ Len(packet.path) \in Nat
      BY <1>1, <1>4, <1>5 DEF i
    <3>2. j \in 2..Len(packet.path) /\ i + 3 \in 2..Len(packet.path) /\ j # i + 3
      BY <3>1
    <3> QED
      BY <1>5, <1>8, <3>2 DEF Untouched
  <2> QED
    BY <1>6, <2>1 DEF Passed
<1>10. AfterReroute(p) = {p}
  BY <1>5 DEF AfterReroute, MayReroute
<1>11. d \in Choices(p)
  BY <1>10 DEF Decisions, p
<1>12. d.packet = p
  BY <1>9, <1>11 DEF Choices, DetectLoop
<1> QED
  BY <1>5, <1>7, <1>12

LEMMA FixedStep ==
    ASSUME IInv, FixedInv, [Next]_vars
    PROVE  FixedInv' /\ (mode = "fixed" => packet'.path = packet.path)
<1> DEFINE Goal == FixedInv' /\ (mode = "fixed" => packet'.path = packet.path)
<1>1. CASE packet' = packet /\ mode' = mode
  BY <1>1 DEF FixedInv, Untouched, Passed
<1>2. ASSUME NEW n \in Router, Arrived(n), ~IsExpired(packet), NEW d \in Decisions(n),
             packet' = d.packet, mode' = mode
      PROVE  Goal
  BY <1>2, FixedDecision DEF FixedInv, Untouched, Passed
<1>3. ASSUME NEW n \in Router, Handle(n) PROVE Goal
  BY <1>1, <1>2, <1>3 DEF Handle, Expire, DropNoNeighbor, Forward
<1> QED
  BY <1>1, <1>3 DEF Next, Lose, vars

\* A packet sent without a map and not light keeps the path its sender gave it,
\* on every network: the static and OSPF runs really measure fixed paths.
THEOREM FixedPathsStay == Spec => FixedPathKept
<1>1. IInv /\ FixedInv /\ [Next]_vars =>
         FixedInv' /\ [mode = "fixed" => /\ packet'.path = packet.path
                                        /\ ~packet'.rerouted
                                        /\ ~packet'.degraded]_vars
  <2> SUFFICES ASSUME IInv, FixedInv, [Next]_vars
               PROVE  FixedInv' /\ (~UNCHANGED vars => (mode = "fixed" =>
                         packet'.path = packet.path /\ ~packet'.rerouted /\ ~packet'.degraded))
    OBVIOUS
  <2>1. mode' = mode
    BY DEF Next, Handle, Expire, DropNoNeighbor, Forward, Lose, vars
  <2> QED
    BY <2>1, FixedStep DEF FixedInv, Untouched
<1> QED
  BY <1>1, FixedInit, Invariance, PTL DEF Spec, FixedPathKept
=============================================================================
