------------------------------ MODULE Dijkstra ------------------------------
(***************************************************************************)
(* The path computation of packet/dijkstra.go: the weight of a link for an *)
(* intent, the graph built from the links a node knows, and dijkstraCore,  *)
(* one action per turn of its loops.  Where the code scans a Go map for    *)
(* the nearest node, any nearest node may be met first.                    *)
(*                                                                         *)
(* Milliseconds and percents are whole numbers; multipliers are in tenths  *)
(* and weights in hundredths, so that the sums are exact.                  *)
(***************************************************************************)
EXTENDS Integers, Sequences, FiniteSets

CONSTANTS
    Node,      \* node names
    Start,     \* where the path starts
    End,       \* the destination
    None,      \* no node, no link
    Pair,      \* the pairs of nodes that may have a link
    Metric,    \* what a link may carry: latency, load and loss
    Intent,    \* the intents: latency, reliability and priority level
    Exclusion, \* the sets of nodes a caller may exclude
    Config     \* the WeightConfig

Level == 0..3

Tenfold == [latencyMultiplier : [Level -> Nat], loadMultiplier : [Level -> Nat],
            lossMultiplier : Nat, baseLossMultiplier : Nat, reliabilityThreshold : Nat,
            reliabilityLoadBoost : Nat, highPriorityLatencyBoost : Nat, hopPenalty : Nat]

ASSUME DijkstraAssumption ==
    /\ IsFiniteSet(Node) /\ Start \in Node /\ End \in Node /\ Start # End
    /\ None \notin Node /\ None \notin Metric
    /\ Pair \subseteq Node \X Node
    /\ Metric \subseteq [latency : Nat, load : Nat, loss : Nat]
    /\ Intent \subseteq [latency : Nat, reliability : Nat, priority : Nat]
    /\ Exclusion \subseteq SUBSET Node
    /\ Config \in Tenfold /\ Config.hopPenalty > 0

VARIABLES
    links,     \* links[p]: what is known of the link of the pair p, or None
    intent,    \* the packet's IntentHeader
    builder,   \* which function built the graph
    exclude,   \* the exclude set of DijkstraExcluding, {} for Dijkstra
    dist, prev, unvisited,   \* the maps of dijkstraCore
    current,   \* the node the walk back stands at
    path,      \* the nodes walked so far, from current's successor to End
    pc         \* "search", "walk" or "done"

input == <<links, intent, builder, exclude>>
vars == <<input, dist, prev, unvisited, current, path, pc>>

-----------------------------------------------------------------------------
(* Weights *)

DefaultWeightConfig ==
    [latencyMultiplier |-> [l \in Level |-> <<0, 10, 15, 20>>[l + 1]],
     loadMultiplier |-> [l \in Level |-> <<3, 5, 10, 5>>[l + 1]],
     lossMultiplier |-> 100,
     baseLossMultiplier |-> 5,
     reliabilityThreshold |-> 2,
     reliabilityLoadBoost |-> 15,
     highPriorityLatencyBoost |-> 12,
     hopPenalty |-> 1]

\* A boost is a factor in tenths; 0 switches it off.
Boosted(x, wanted, boost) == x * IF wanted /\ boost > 0 THEN boost ELSE 10

CalculateWeight(m, i) ==
    LET level == IF i.latency > 3 THEN 3 ELSE i.latency
        reliable == i.reliability >= Config.reliabilityThreshold
    IN  Boosted(m.latency * Config.latencyMultiplier[level], i.priority >= 2,
                Config.highPriorityLatencyBoost)
        + Boosted(m.load * Config.loadMultiplier[level], reliable, Config.reliabilityLoadBoost)
        + 10 * Config.hopPenalty
        + 10 * m.loss * IF reliable THEN Config.lossMultiplier ELSE Config.baseLossMultiplier

\* BuildOSPFGraph: the latency alone, at least 1 ms.
OSPFWeight(m) == 100 * IF m.latency < 1 THEN 1 ELSE m.latency

\* Mutant: the loss the receiver seems to have is counted.
LinkWeight_ReceiverLossKept(p) ==
    IF builder = "ospf" THEN OSPFWeight(links[p]) ELSE CalculateWeight(links[p], intent)

\* The edge weights of BuildGraph ("plain"), BuildGraphForDest ("dest"), which
\* ignores the loss of links into the destination, and BuildOSPFGraph.
LinkWeight(p) ==
    IF builder = "ospf" THEN OSPFWeight(links[p])
    ELSE IF builder = "dest" /\ p[2] = End
    THEN CalculateWeight([links[p] EXCEPT !.loss = 0], intent)
    ELSE CalculateWeight(links[p], intent)

-----------------------------------------------------------------------------
(* dijkstraCore *)

Linked(p) == p \in Pair /\ links[p] # None

InGraph(n) == \E p \in Pair : Linked(p) /\ (p[1] = n \/ p[2] = n)

\* Distances are natural numbers; -1 stands for +Inf.
Inf == -1

Nearer(a, b) == a # Inf /\ (b = Inf \/ a < b)

\* Relaxing does not enter a node that is excluded.
Skipped(n) == n \in exclude /\ n # End

\* The nodes the search is about: excluded ones are left out, the ends never.
Candidate == {n \in Node : InGraph(n) /\ (n \notin exclude \/ n \in {Start, End})}

Init ==
    /\ links \in [Pair -> Metric \cup {None}]
    /\ intent \in Intent
    /\ builder \in {"plain", "dest", "ospf"}
    /\ exclude \in Exclusion
    /\ dist = [n \in Node |-> IF n = Start THEN 0 ELSE Inf]
    /\ prev = [n \in Node |-> None]
    /\ unvisited = Candidate
    /\ current = None
    /\ path = <<>>
    /\ pc = "search"

\* Mutant: any reached node will do.
Nearest_AnyReached(n) == n \in unvisited /\ dist[n] # Inf

Nearest(n) == n \in unvisited /\ \A m \in unvisited : ~Nearer(dist[m], dist[n])

\* The edge from u leads to a shorter way to n.
Improves(u, n) ==
    /\ Linked(<<u, n>>)
    /\ ~Skipped(n)
    /\ Nearer(dist[u] + LinkWeight(<<u, n>>), dist[n])

\* Mutant: the node stays unvisited.
Settle_NotDeleted(u) ==
    /\ pc = "search"
    /\ Nearest(u) /\ u # End /\ dist[u] # Inf
    /\ dist' = [n \in Node |-> IF Improves(u, n) THEN dist[u] + LinkWeight(<<u, n>>) ELSE dist[n]]
    /\ prev' = [n \in Node |-> IF Improves(u, n) THEN u ELSE prev[n]]
    /\ UNCHANGED <<input, unvisited, current, path, pc>>

\* Mutant: the predecessor is the one first found.
Settle_FirstPrevKept(u) ==
    /\ pc = "search"
    /\ Nearest(u) /\ u # End /\ dist[u] # Inf
    /\ dist' = [n \in Node |-> IF Improves(u, n) THEN dist[u] + LinkWeight(<<u, n>>) ELSE dist[n]]
    /\ prev' = [n \in Node |-> IF Improves(u, n) /\ prev[n] = None THEN u ELSE prev[n]]
    /\ unvisited' = unvisited \ {u}
    /\ UNCHANGED <<input, current, path, pc>>

\* One turn of the search: the nearest node's edges are relaxed.
Settle(u) ==
    /\ pc = "search"
    /\ Nearest(u) /\ u # End /\ dist[u] # Inf
    /\ dist' = [n \in Node |-> IF Improves(u, n) THEN dist[u] + LinkWeight(<<u, n>>) ELSE dist[n]]
    /\ prev' = [n \in Node |-> IF Improves(u, n) THEN u ELSE prev[n]]
    /\ unvisited' = unvisited \ {u}
    /\ UNCHANGED <<input, current, path, pc>>

\* The search ends: nothing is left, or the nearest node is the destination or
\* out of reach.
EndSearch ==
    /\ pc = "search"
    /\ unvisited = {} \/ \E n \in Node : Nearest(n) /\ (n = End \/ dist[n] = Inf)
    /\ current' = End
    /\ pc' = "walk"
    /\ UNCHANGED <<input, dist, prev, unvisited, path>>

\* Mutant: the step to the predecessor comes before the append.
WalkBack_StepFirst ==
    /\ pc = "walk"
    /\ current # None
    /\ path' = <<prev[current]>> \o path
    /\ current' = prev[current]
    /\ UNCHANGED <<input, dist, prev, unvisited, pc>>

\* One turn of the walk back over prev.
WalkBack ==
    /\ pc = "walk"
    /\ current # None
    /\ path' = <<current>> \o path
    /\ current' = prev[current]
    /\ UNCHANGED <<input, dist, prev, unvisited, pc>>

\* A walk that did not end at the start means that there is no path.
Return ==
    /\ pc = "walk"
    /\ current = None
    /\ path' = IF path # <<>> /\ path[1] = Start THEN path ELSE <<>>
    /\ pc' = "done"
    /\ UNCHANGED <<input, dist, prev, unvisited, current>>

Next == (\E u \in Node : Settle(u)) \/ EndSearch \/ WalkBack \/ Return

Spec == Init /\ [][Next]_vars

\* The function runs until it returns.
FairSpec == Spec /\ WF_vars(Next)

-----------------------------------------------------------------------------
(* Properties *)

\* The type of the state.
TypeOK ==
    /\ links \in [Pair -> Metric \cup {None}]
    /\ intent \in Intent
    /\ builder \in {"plain", "dest", "ospf"}
    /\ exclude \in Exclusion
    /\ dist \in [Node -> Nat \cup {Inf}]
    /\ prev \in [Node -> Node \cup {None}]
    /\ unvisited \subseteq Node
    /\ current \in Node \cup {None}
    /\ path \in Seq(Node)
    /\ pc \in {"search", "walk", "done"}

\* A simple path from Start to End over known links around the excluded nodes.
IsPath(p) ==
    /\ p[1] = Start /\ p[Len(p)] = End
    /\ \A i, j \in 1..Len(p) : p[i] = p[j] => i = j
    /\ \A i \in 1..Len(p) - 1 : Linked(<<p[i], p[i + 1]>>)
    /\ \A i \in 2..Len(p) - 1 : p[i] \notin exclude

SimplePath == {p \in UNION {[1..k -> Node] : k \in 2..Cardinality(Node)} : IsPath(p)}

\* What a link costs this packet: by the documented formula, a link into the
\* destination by latency and load only when the caller asked for it.
Cost(p) ==
    LET unmeasured == builder = "dest" /\ p[2] = End
        metric == IF unmeasured THEN [links[p] EXCEPT !.loss = 0] ELSE links[p]
    IN  IF builder = "ospf" THEN OSPFWeight(links[p]) ELSE CalculateWeight(metric, intent)

PathCost(p) ==
    LET sum[i \in 1..Len(p)] == IF i = 1 THEN 0 ELSE sum[i - 1] + Cost(<<p[i - 1], p[i]>>)
    IN  sum[Len(p)]

\* The answer is a simple path over known links around the excluded nodes, and
\* no such path costs the packet less; there is no answer only if there is no
\* such path.  (Forwarding assumes just this of its routes.)
Optimal ==
    pc = "done" =>
        IF path = <<>> THEN SimplePath = {}
        ELSE path \in SimplePath /\ \A q \in SimplePath : PathCost(path) <= PathCost(q)

Settled == Candidate \ unvisited

\* The distances certify themselves: every way on from a settled node has been
\* taken into account, every predecessor accounts for its node's distance
\* exactly, and nothing that is still unvisited is nearer than what is settled.
Certified ==
    /\ \A u \in Settled, n \in Node :
          Linked(<<u, n>>) /\ ~Skipped(n) => ~Nearer(dist[u] + LinkWeight(<<u, n>>), dist[n])
    /\ \A n \in Node : prev[n] # None =>
          /\ Linked(<<prev[n], n>>) /\ prev[n] \in Settled
          /\ dist[n] = dist[prev[n]] + LinkWeight(<<prev[n], n>>)
    /\ \A u \in Settled, n \in unvisited : ~Nearer(dist[n], dist[u])

\* What is settled stays: no later turn of the search finds a shorter way to a
\* node it is done with, so one visit of each node is enough.
SettledStays ==
    [][\A n \in Settled : dist'[n] = dist[n] /\ prev'[n] = prev[n]]_vars

\* The computation comes to an end, the walk back over prev included.
Terminates == <>(pc = "done")
=============================================================================
