--------------------------- MODULE DijkstraProofs ---------------------------
(***************************************************************************)
(* Proofs about Dijkstra for every set of nodes, links, metrics, intents,  *)
(* exclusions and weight configurations with a positive hop penalty.       *)
(*                                                                         *)
(* The inductive invariant is Certified, strengthened by: every settled    *)
(* node has a distance, nothing ever relaxes into the start, and only      *)
(* candidates get predecessors (Reached); and by what the walk back has    *)
(* collected: a chain of predecessors with rising distances (Walked).      *)
(***************************************************************************)
EXTENDS Dijkstra, FiniteSetTheorems, WellFoundedInduction, TLAPS

-----------------------------------------------------------------------------
(* Weights *)

\* A product of natural numbers is one.
LEMMA ProductNat ==
    ASSUME NEW x \in Nat, NEW y \in Nat
    PROVE  x * y \in Nat
  OBVIOUS

\* A boost keeps a term a natural number.
LEMMA BoostedNat ==
    ASSUME NEW x \in Nat, NEW b \in Nat, NEW wanted \in BOOLEAN
    PROVE  Boosted(x, wanted, b) \in Nat
<1>1. CASE wanted /\ b > 0
  BY <1>1, ProductNat DEF Boosted
<1>2. CASE ~(wanted /\ b > 0)
  BY <1>2, ProductNat DEF Boosted
<1> QED
  BY <1>1, <1>2

\* Whatever the intent and the multipliers, the hop penalty makes every weight
\* positive.
LEMMA CalculatedPositive ==
    ASSUME NEW m \in [latency : Nat, load : Nat, loss : Nat],
           NEW i \in [latency : Nat, reliability : Nat, priority : Nat]
    PROVE  CalculateWeight(m, i) \in Nat \ {0}
<1> DEFINE level == IF i.latency > 3 THEN 3 ELSE i.latency
           reliable == i.reliability >= Config.reliabilityThreshold
           lat == Boosted(m.latency * Config.latencyMultiplier[level], i.priority >= 2,
                          Config.highPriorityLatencyBoost)
           load == Boosted(m.load * Config.loadMultiplier[level], reliable,
                           Config.reliabilityLoadBoost)
           factor == IF reliable THEN Config.lossMultiplier ELSE Config.baseLossMultiplier
           loss == 10 * m.loss * factor
<1>1. Config \in Tenfold /\ Config.hopPenalty > 0
  BY DijkstraAssumption
<1>2. level \in Level
  BY DEF Level
<1>3. /\ Config.latencyMultiplier[level] \in Nat /\ Config.loadMultiplier[level] \in Nat
      /\ Config.lossMultiplier \in Nat /\ Config.baseLossMultiplier \in Nat
      /\ Config.reliabilityLoadBoost \in Nat /\ Config.highPriorityLatencyBoost \in Nat
      /\ Config.hopPenalty \in Nat
  BY <1>1, <1>2 DEF Tenfold
<1>4. m.latency \in Nat /\ m.load \in Nat /\ m.loss \in Nat
  OBVIOUS
<1> HIDE DEF level
<1>5. lat \in Nat
  <2>1. m.latency * Config.latencyMultiplier[level] \in Nat
    BY <1>3, <1>4, ProductNat
  <2>2. (i.priority >= 2) \in BOOLEAN
    OBVIOUS
  <2> QED
    BY <1>3, <2>1, <2>2, BoostedNat
<1>6. load \in Nat
  <2>1. m.load * Config.loadMultiplier[level] \in Nat
    BY <1>3, <1>4, ProductNat
  <2>2. reliable \in BOOLEAN
    OBVIOUS
  <2> QED
    BY <1>3, <2>1, <2>2, BoostedNat
<1>7. loss \in Nat
  <2>1. factor \in Nat
    BY <1>3
  <2>2. 10 * m.loss \in Nat
    BY <1>4
  <2> HIDE DEF factor
  <2> QED
    BY <2>1, <2>2, ProductNat
<1>8. CalculateWeight(m, i) = lat + load + 10 * Config.hopPenalty + loss
  BY DEF CalculateWeight, level
<1> HIDE DEF lat, load, loss
<1> QED
  BY <1>1, <1>3, <1>5, <1>6, <1>7, <1>8

\* Every link of every graph has a positive weight.
LEMMA WeightPositive ==
    ASSUME TypeOK, NEW p, Linked(p)
    PROVE  LinkWeight(p) \in Nat \ {0}
<1>1. links[p] \in [latency : Nat, load : Nat, loss : Nat]
  BY DijkstraAssumption DEF TypeOK, Linked
<1>2. intent \in [latency : Nat, reliability : Nat, priority : Nat]
  BY DijkstraAssumption DEF TypeOK
<1>3. [links[p] EXCEPT !.loss = 0] \in [latency : Nat, load : Nat, loss : Nat]
  BY <1>1
<1>4. OSPFWeight(links[p]) \in Nat \ {0}
  BY <1>1 DEF OSPFWeight
<1> QED
  BY <1>1, <1>2, <1>3, <1>4, CalculatedPositive DEF LinkWeight

-----------------------------------------------------------------------------
(* The search *)

Reached ==
    /\ unvisited \subseteq Candidate
    /\ dist[Start] = 0 /\ prev[Start] = None
    /\ \A u \in Settled : dist[u] # Inf /\ u # End
    /\ \A n \in Node : prev[n] # None => ~Skipped(n)

SearchInv == TypeOK /\ Reached /\ Certified

\* The initial state satisfies it: nothing is settled yet.
LEMMA SearchInit == Init => SearchInv
<1> SUFFICES ASSUME Init PROVE SearchInv
  OBVIOUS
<1>1. TypeOK
  BY DijkstraAssumption DEF Init, TypeOK, Inf, Candidate
<1>2. Settled = {}
  BY DEF Init, Settled
<1>3. Reached
  BY <1>2, DijkstraAssumption DEF Init, Reached
<1>4. Certified
  BY <1>2 DEF Init, Certified
<1> QED
  BY <1>1, <1>3, <1>4 DEF SearchInv

\* Settling a node improves no settled node, nor the start.
LEMMA SettledNotImproved ==
    ASSUME SearchInv, NEW u \in Node, Nearest(u), dist[u] # Inf, NEW n \in Settled
    PROVE  ~Improves(u, n)
<1> SUFFICES ASSUME Improves(u, n) PROVE FALSE
  OBVIOUS
<1>1. LinkWeight(<<u, n>>) \in Nat \ {0}
  BY WeightPositive DEF SearchInv, Improves
<1>2. n \in Node /\ u \in unvisited
  BY DEF Settled, Candidate, Nearest
<1>3. dist[n] \in Nat /\ dist[u] \in Nat /\ dist[n] <= dist[u]
  BY <1>2 DEF SearchInv, Reached, Certified, TypeOK, Inf, Nearer
<1> QED
  BY <1>1, <1>3 DEF Improves, Nearer, Inf

\* What one turn does to distances, predecessors and the settled set.
LEMMA SettleFacts ==
    ASSUME SearchInv, NEW u \in Node, Settle(u)
    PROVE  /\ u \in unvisited /\ u # End /\ dist[u] \in Nat
           /\ dist'[u] = dist[u]
           /\ \A n \in Node : dist'[n] = IF Improves(u, n) THEN dist[u] + LinkWeight(<<u, n>>)
                                         ELSE dist[n]
           /\ \A n \in Node : prev'[n] = IF Improves(u, n) THEN u ELSE prev[n]
           /\ \A n \in Node : Improves(u, n) =>
                 /\ Linked(<<u, n>>) /\ ~Skipped(n)
                 /\ LinkWeight(<<u, n>>) \in Nat \ {0}
                 /\ dist[n] = Inf \/ dist[u] + LinkWeight(<<u, n>>) < dist[n]
           /\ Settled' = Settled \cup {u}
           /\ \A n \in Settled : dist'[n] = dist[n] /\ prev'[n] = prev[n]
           /\ \A p : LinkWeight(p)' = LinkWeight(p) /\ Linked(p)' = Linked(p)
<1>1. u \in unvisited /\ u # End /\ dist[u] \in Nat
  BY DEF Settle, Nearest, SearchInv, TypeOK
<1>2. /\ \A n \in Node : dist'[n] = IF Improves(u, n) THEN dist[u] + LinkWeight(<<u, n>>)
                                    ELSE dist[n]
      /\ \A n \in Node : prev'[n] = IF Improves(u, n) THEN u ELSE prev[n]
  BY DEF Settle
<1>3. \A n \in Node : Improves(u, n) =>
         /\ Linked(<<u, n>>) /\ ~Skipped(n)
         /\ LinkWeight(<<u, n>>) \in Nat \ {0}
         /\ dist[n] = Inf \/ dist[u] + LinkWeight(<<u, n>>) < dist[n]
  <2> SUFFICES ASSUME NEW n \in Node, Improves(u, n)
               PROVE  /\ Linked(<<u, n>>) /\ ~Skipped(n)
                      /\ LinkWeight(<<u, n>>) \in Nat \ {0}
                      /\ dist[n] = Inf \/ dist[u] + LinkWeight(<<u, n>>) < dist[n]
    OBVIOUS
  <2>1. Linked(<<u, n>>) /\ ~Skipped(n) /\ Nearer(dist[u] + LinkWeight(<<u, n>>), dist[n])
    BY DEF Improves
  <2>2. LinkWeight(<<u, n>>) \in Nat \ {0}
    BY <2>1, WeightPositive DEF SearchInv
  <2> QED
    BY <2>1, <2>2 DEF Nearer
<1>4. ~Improves(u, u)
  <2> SUFFICES ASSUME Improves(u, u) PROVE FALSE
    OBVIOUS
  <2>1. LinkWeight(<<u, u>>) \in Nat \ {0} /\ (dist[u] = Inf \/ dist[u] + LinkWeight(<<u, u>>) < dist[u])
    BY <1>3
  <2> QED
    BY <1>1, <2>1 DEF Inf
<1>5. dist'[u] = dist[u]
  BY <1>2, <1>4
<1>6. Candidate' = Candidate
  BY DEF Settle, input, Candidate, InGraph, Linked
<1>7. Settled' = Settled \cup {u}
  <2>1. u \in Candidate
    BY <1>1 DEF SearchInv, Reached
  <2> QED
    BY <1>1, <1>6, <2>1 DEF Settle, Settled
<1>8. \A n \in Settled : dist'[n] = dist[n] /\ prev'[n] = prev[n]
  <2> SUFFICES ASSUME NEW n \in Settled PROVE dist'[n] = dist[n] /\ prev'[n] = prev[n]
    OBVIOUS
  <2>1. ~Improves(u, n)
    BY SettledNotImproved DEF Settle
  <2>2. n \in Node
    BY DEF Settled, Candidate
  <2> QED
    BY <1>2, <2>1, <2>2
<1>9. \A p : LinkWeight(p)' = LinkWeight(p) /\ Linked(p)' = Linked(p)
  BY DEF Settle, input, LinkWeight, Linked
<1> QED
  BY <1>1, <1>2, <1>3, <1>5, <1>7, <1>8, <1>9

\* A turn keeps the types.
LEMMA SettleTyped ==
    ASSUME SearchInv, NEW u \in Node, Settle(u)
    PROVE  TypeOK'
<1>1. \A n \in Node : Improves(u, n) => dist[u] + LinkWeight(<<u, n>>) \in Nat
  BY SettleFacts
<1>2. dist' \in [Node -> Nat \cup {Inf}]
  BY <1>1 DEF Settle, SearchInv, TypeOK
<1>3. prev' \in [Node -> Node \cup {None}]
  BY DEF Settle, SearchInv, TypeOK
<1> QED
  BY <1>2, <1>3 DEF Settle, SearchInv, TypeOK, input

\* A turn keeps the certificate: the settled distances stay, and the new one is
\* the least of those that remain.
LEMMA SettleCertified ==
    ASSUME SearchInv, NEW u \in Node, Settle(u)
    PROVE  Certified'
<1>a. dist \in [Node -> Nat \cup {Inf}] /\ unvisited \subseteq Node /\ Settled \subseteq Node
  BY DEF SearchInv, TypeOK, Settled, Candidate
<1>b. exclude' = exclude /\ unvisited' = unvisited \ {u}
  BY DEF Settle, input
<1>1. ASSUME NEW v \in Settled', NEW n \in Node, Linked(<<v, n>>), ~Skipped(n)
      PROVE  ~Nearer(dist'[v] + LinkWeight(<<v, n>>), dist'[n])
  <2>1. LinkWeight(<<v, n>>) \in Nat \ {0}
    BY <1>1, WeightPositive DEF SearchInv
  <2>2. CASE v = u
    <3>1. CASE Improves(u, n)
      <4>1. dist'[n] = dist[u] + LinkWeight(<<u, n>>) /\ dist'[u] = dist[u] /\ dist[u] \in Nat
        BY <3>1, SettleFacts
      <4> QED
        BY <2>1, <2>2, <4>1 DEF Nearer, Inf
    <3>2. CASE ~Improves(u, n)
      <4>1. dist'[n] = dist[n] /\ dist'[u] = dist[u]
        BY <3>2, SettleFacts
      <4> QED
        BY <1>1, <2>2, <3>2, <4>1 DEF Improves
    <3> QED
      BY <3>1, <3>2
  <2>3. CASE v # u
    <3>1. v \in Settled
      BY <1>1, <2>3, SettleFacts
    <3>2. ~Nearer(dist[v] + LinkWeight(<<v, n>>), dist[n]) /\ dist'[v] = dist[v] /\ dist[v] \in Nat
      BY <1>1, <1>a, <3>1, SettleFacts DEF SearchInv, Certified, Reached
    <3>3. CASE Improves(u, n)
      <4>1. /\ dist'[n] = dist[u] + LinkWeight(<<u, n>>) /\ dist[u] \in Nat
            /\ LinkWeight(<<u, n>>) \in Nat \ {0}
            /\ dist[n] = Inf \/ dist'[n] < dist[n]
        BY <3>3, SettleFacts
      <4>2. dist[v] + LinkWeight(<<v, n>>) \in Nat /\ dist[n] \in Nat \cup {Inf}
        BY <1>a, <2>1, <3>2
      <4>3. dist[n] # Inf /\ dist[n] <= dist[v] + LinkWeight(<<v, n>>)
        BY <3>2, <4>2 DEF Nearer, Inf
      <4> QED
        BY <3>2, <4>1, <4>2, <4>3 DEF Nearer, Inf
    <3>4. CASE ~Improves(u, n)
      BY <3>2, <3>4, SettleFacts
    <3> QED
      BY <3>3, <3>4
  <2> QED
    BY <2>2, <2>3
<1>2. ASSUME NEW n \in Node, prev'[n] # None
      PROVE  /\ Linked(<<prev'[n], n>>) /\ prev'[n] \in Settled'
             /\ dist'[n] = dist'[prev'[n]] + LinkWeight(<<prev'[n], n>>)
  <2>1. CASE Improves(u, n)
    BY <2>1, SettleFacts
  <2>2. CASE ~Improves(u, n)
    <3>1. prev'[n] = prev[n] /\ dist'[n] = dist[n]
      BY <2>2, SettleFacts
    <3>2. /\ Linked(<<prev[n], n>>) /\ prev[n] \in Settled
          /\ dist[n] = dist[prev[n]] + LinkWeight(<<prev[n], n>>)
      BY <1>2, <3>1 DEF SearchInv, Certified
    <3>3. dist'[prev[n]] = dist[prev[n]] /\ prev[n] \in Settled'
      BY <3>2, SettleFacts
    <3> QED
      BY <3>1, <3>2, <3>3
  <2> QED
    BY <2>1, <2>2
<1>3. ASSUME NEW v \in Settled', NEW n \in unvisited'
      PROVE  ~Nearer(dist'[n], dist'[v])
  <2>1. n \in unvisited /\ n \in Node
    BY <1>a, <1>b, <1>3
  <2>2. ~Nearer(dist[n], dist[u])
    BY <2>1 DEF Settle, Nearest
  <2>3. CASE v = u
    <3>1. CASE Improves(u, n)
      <4>1. /\ dist'[n] = dist[u] + LinkWeight(<<u, n>>) /\ dist'[u] = dist[u]
            /\ dist[u] \in Nat /\ LinkWeight(<<u, n>>) \in Nat
        BY <2>1, <3>1, SettleFacts
      <4> QED
        BY <2>3, <4>1 DEF Nearer, Inf
    <3>2. CASE ~Improves(u, n)
      BY <2>1, <2>2, <2>3, <3>2, SettleFacts
    <3> QED
      BY <3>1, <3>2
  <2>4. CASE v # u
    <3>1. v \in Settled /\ dist'[v] = dist[v] /\ dist[v] \in Nat
      BY <1>3, <1>a, <2>4, SettleFacts DEF SearchInv, Reached
    <3>2. ~Nearer(dist[u], dist[v]) /\ ~Nearer(dist[n], dist[v])
      BY <2>1, <3>1, SettleFacts DEF SearchInv, Certified
    <3>3. CASE Improves(u, n)
      <4>1. /\ dist'[n] = dist[u] + LinkWeight(<<u, n>>)
            /\ dist[u] \in Nat /\ LinkWeight(<<u, n>>) \in Nat
        BY <2>1, <3>3, SettleFacts
      <4>2. dist[v] <= dist[u]
        BY <3>1, <3>2, <4>1 DEF Nearer, Inf
      <4> QED
        BY <3>1, <4>1, <4>2 DEF Nearer, Inf
    <3>4. CASE ~Improves(u, n)
      BY <2>1, <3>1, <3>2, <3>4, SettleFacts
    <3> QED
      BY <3>3, <3>4
  <2> QED
    BY <2>3, <2>4
<1>4. \A n : Skipped(n)' = Skipped(n)
  BY <1>b DEF Skipped
<1>5. \A p : LinkWeight(p)' = LinkWeight(p) /\ Linked(p)' = Linked(p)
  BY SettleFacts
<1> QED
  BY <1>1, <1>2, <1>3, <1>4, <1>5 DEF Certified

\* A turn keeps what is known of reached nodes.
LEMMA SettleReached ==
    ASSUME SearchInv, NEW u \in Node, Settle(u)
    PROVE  Reached'
<1> USE SettleFacts
<1>1. exclude' = exclude /\ unvisited' = unvisited \ {u} /\ Candidate' = Candidate
  BY DEF Settle, input, Candidate, InGraph, Linked
<1>2. unvisited' \subseteq Candidate'
  BY <1>1 DEF SearchInv, Reached
<1>3. dist'[Start] = 0 /\ prev'[Start] = None
  <2>1. ~Improves(u, Start)
    <3> SUFFICES ASSUME Improves(u, Start) PROVE FALSE
      OBVIOUS
    <3>1. dist[Start] = 0 /\ Start \in Node
      BY DijkstraAssumption DEF SearchInv, Reached
    <3>2. LinkWeight(<<u, Start>>) \in Nat /\ (dist[Start] = Inf \/ dist[u] + LinkWeight(<<u, Start>>) < dist[Start])
      BY <3>1
    <3> QED
      BY <3>1, <3>2 DEF Inf
  <2> QED
    BY <2>1, DijkstraAssumption DEF SearchInv, Reached
<1>4. \A v \in Settled' : dist'[v] # Inf /\ v # End
  BY DEF SearchInv, Reached, Inf
<1>5. \A n \in Node : prev'[n] # None => ~Skipped(n)'
  BY <1>1 DEF SearchInv, Reached, Skipped
<1> QED
  BY <1>2, <1>3, <1>4, <1>5 DEF Reached

\* Steps that leave the maps alone keep the certificate.
LEMMA SearchUnchanged ==
    ASSUME SearchInv, UNCHANGED <<input, dist, prev, unvisited>>
    PROVE  Reached' /\ Certified'
<1>1. /\ \A p : LinkWeight(p)' = LinkWeight(p) /\ Linked(p)' = Linked(p)
      /\ Candidate' = Candidate /\ Settled' = Settled
      /\ \A n : Skipped(n)' = Skipped(n)
  BY DEF input, LinkWeight, Linked, Candidate, InGraph, Settled, Skipped
<1>2. dist' = dist /\ prev' = prev /\ unvisited' = unvisited
  OBVIOUS
<1> QED
  BY <1>1, <1>2 DEF SearchInv, Reached, Certified

\* Every step keeps the search invariant.
LEMMA SearchStep == SearchInv /\ [Next]_vars => SearchInv'
<1> SUFFICES ASSUME SearchInv, [Next]_vars PROVE SearchInv'
  OBVIOUS
<1>1. ASSUME NEW u \in Node, Settle(u) PROVE SearchInv'
  BY <1>1, SettleTyped, SettleReached, SettleCertified DEF SearchInv
<1>2. CASE EndSearch
  <2>1. TypeOK'
    BY <1>2, DijkstraAssumption DEF EndSearch, SearchInv, TypeOK, input
  <2> QED
    BY <1>2, <2>1, SearchUnchanged DEF EndSearch, SearchInv
<1>3. CASE WalkBack
  <2>1. current \in Node /\ path \in Seq(Node)
    BY <1>3 DEF WalkBack, SearchInv, TypeOK
  <2>2. path' \in Seq(Node)
    BY <1>3, <2>1 DEF WalkBack
  <2>3. TypeOK'
    BY <1>3, <2>1, <2>2 DEF WalkBack, SearchInv, TypeOK, input
  <2> QED
    BY <1>3, <2>3, SearchUnchanged DEF WalkBack, SearchInv
<1>4. CASE Return
  <2>1. TypeOK'
    BY <1>4 DEF Return, SearchInv, TypeOK, input
  <2> QED
    BY <1>4, <2>1, SearchUnchanged DEF Return, SearchInv
<1>5. CASE UNCHANGED vars
  <2>1. TypeOK'
    BY <1>5 DEF vars, input, SearchInv, TypeOK
  <2> QED
    BY <1>5, <2>1, SearchUnchanged DEF vars, SearchInv
<1> QED
  BY <1>1, <1>2, <1>3, <1>4, <1>5 DEF Next

LEMMA SearchAlways == Spec => []SearchInv
  BY SearchInit, SearchStep, PTL DEF Spec

\* The computation keeps its types for every input.
THEOREM TypeCorrect == Spec => []TypeOK
<1>1. SearchInv => TypeOK
  BY DEF SearchInv
<1> QED
  BY <1>1, SearchAlways, PTL

\* The distances are a certificate in every state, so in the last one no way to
\* a settled node is shorter than the one its predecessors tell.
THEOREM AlwaysCertified == Spec => []Certified
<1>1. SearchInv => Certified
  BY DEF SearchInv
<1> QED
  BY <1>1, SearchAlways, PTL

\* A node that was settled keeps its distance and predecessor for good.
THEOREM SettledForGood == Spec => SettledStays
<1> DEFINE Stays == \A n \in Settled : dist'[n] = dist[n] /\ prev'[n] = prev[n]
<1>1. SearchInv /\ [Next]_vars => [Stays]_vars
  <2> SUFFICES ASSUME SearchInv, Next PROVE Stays
    BY DEF vars
  <2>1. ASSUME NEW u \in Node, Settle(u) PROVE Stays
    BY <2>1, SettleFacts
  <2>2. CASE EndSearch \/ WalkBack \/ Return
    BY <2>2 DEF EndSearch, WalkBack, Return
  <2> QED
    BY <2>1, <2>2 DEF Next
<1> QED
  BY <1>1, SearchAlways, PTL DEF Spec, SettledStays

-----------------------------------------------------------------------------
(* The walk back *)

\* What is walked is a chain of predecessors that ends at the destination, and
\* the distances rise along it.
Chain(p) ==
    /\ p # <<>> => p[Len(p)] = End
    /\ \A i \in 1..Len(p) - 1 : prev[p[i + 1]] = p[i]
    /\ \A i, j \in 1..Len(p) : i < j => dist[p[i]] < dist[p[j]]

Walked ==
    /\ Chain(path)
    /\ pc = "search" => path = <<>>
    /\ pc = "walk" => current = IF path = <<>> THEN End ELSE prev[path[1]]
    /\ pc = "done" /\ path # <<>> => path[1] = Start

\* One more predecessor in front keeps a chain a chain.
LEMMA ChainGrows ==
    ASSUME SearchInv, Walked, pc = "walk", current # None
    PROVE  Chain(<<current>> \o path)
<1> DEFINE longer == <<current>> \o path
<1>1. path \in Seq(Node) /\ current \in Node
  BY DEF SearchInv, TypeOK
<1>2. /\ longer \in Seq(Node) /\ Len(longer) = Len(path) + 1 /\ Len(path) \in Nat
      /\ longer[1] = current
      /\ \A i \in 1..Len(path) : longer[i + 1] = path[i]
  BY <1>1
<1>a. \A i \in 2..Len(longer) : i - 1 \in 1..Len(path) /\ longer[i] = path[i - 1]
  <2> SUFFICES ASSUME NEW i \in 2..Len(longer)
               PROVE  i - 1 \in 1..Len(path) /\ longer[i] = path[i - 1]
    OBVIOUS
  <2>1. i - 1 \in 1..Len(path) /\ (i - 1) + 1 = i
    BY <1>2
  <2> QED
    BY <1>2, <2>1
<1> HIDE DEF longer
<1>3. longer[Len(longer)] = End
  <2>1. CASE path = <<>>
    BY <1>2, <2>1 DEF Walked
  <2>2. CASE path # <<>>
    <3>1. Len(path) \in 1..Len(path)
      BY <1>1, <2>2
    <3> QED
      BY <1>2, <2>2, <3>1 DEF Walked, Chain
  <2> QED
    BY <2>1, <2>2
<1>4. path # <<>> => prev[path[1]] = current /\ 1 \in 1..Len(path)
  BY <1>1 DEF Walked
<1>5. ASSUME NEW i \in 1..Len(longer) - 1
      PROVE  prev[longer[i + 1]] = longer[i]
  <2>0. longer[i + 1] = path[i] /\ i \in 1..Len(path)
    BY <1>2
  <2>1. CASE i = 1
    BY <1>1, <1>2, <1>4, <2>0, <2>1
  <2>2. CASE i # 1
    <3>1. i - 1 \in 1..Len(path) - 1 /\ longer[i] = path[i - 1] /\ (i - 1) + 1 = i
      BY <1>2, <1>a, <2>0, <2>2
    <3>2. prev[path[(i - 1) + 1]] = path[i - 1]
      BY <3>1 DEF Walked, Chain
    <3> QED
      BY <2>0, <3>1, <3>2
  <2> QED
    BY <2>1, <2>2
<1>6. path # <<>> => dist[current] < dist[path[1]]
  <2> SUFFICES ASSUME path # <<>> PROVE dist[current] < dist[path[1]]
    OBVIOUS
  <2>1. path[1] \in Node /\ prev[path[1]] = current
    BY <1>1, <1>4
  <2>2. /\ Linked(<<current, path[1]>>) /\ current \in Settled
        /\ dist[path[1]] = dist[current] + LinkWeight(<<current, path[1]>>)
    BY <2>1 DEF SearchInv, Certified
  <2>3. LinkWeight(<<current, path[1]>>) \in Nat \ {0} /\ dist[current] \in Nat
    BY <1>1, <2>2, WeightPositive DEF SearchInv, Reached, TypeOK
  <2> QED
    BY <2>2, <2>3
<1>7. ASSUME NEW i \in 1..Len(longer), NEW j \in 1..Len(longer), i < j
      PROVE  dist[longer[i]] < dist[longer[j]]
  <2>0. j - 1 \in 1..Len(path) /\ longer[j] = path[j - 1] /\ path # <<>>
    <3>1. j \in 2..Len(longer)
      BY <1>2, <1>7
    <3>2. j - 1 \in 1..Len(path) /\ longer[j] = path[j - 1]
      BY <1>a, <3>1
    <3> QED
      BY <3>2
  <2>1. CASE i = 1
    <3>1. CASE j = 2
      BY <1>2, <1>6, <2>0, <2>1, <3>1
    <3>2. CASE j # 2
      <4>1. 1 \in 1..Len(path) /\ 1 < j - 1
        BY <1>2, <1>7, <2>0, <2>1, <3>2
      <4>2. dist[path[1]] < dist[path[j - 1]]
        BY <2>0, <4>1 DEF Walked, Chain
      <4>3. dist[current] \in Int /\ dist[path[1]] \in Int /\ dist[path[j - 1]] \in Int
        BY <1>1, <2>0, <4>1 DEF SearchInv, TypeOK, Inf
      <4> QED
        BY <1>2, <1>6, <2>0, <2>1, <4>2, <4>3
    <3> QED
      BY <3>1, <3>2
  <2>2. CASE i # 1
    <3>1. i - 1 \in 1..Len(path) /\ longer[i] = path[i - 1] /\ i - 1 < j - 1
      <4>1. i \in 2..Len(longer)
        BY <1>2, <2>2
      <4> QED
        BY <1>2, <1>7, <1>a, <4>1
    <3> QED
      BY <2>0, <3>1 DEF Walked, Chain
  <2> QED
    BY <2>1, <2>2
<1> QED
  BY <1>3, <1>5, <1>7 DEF Chain, longer

WalkInv == SearchInv /\ Walked

LEMMA WalkStep == WalkInv /\ [Next]_vars => WalkInv'
<1> SUFFICES ASSUME WalkInv, [Next]_vars PROVE Walked'
  BY SearchStep DEF WalkInv
<1>1. ASSUME NEW u \in Node, Settle(u) PROVE Walked'
  <2>1. path' = <<>> /\ pc' = "search"
    BY <1>1 DEF Settle, WalkInv, Walked
  <2> QED
    BY <2>1 DEF Walked, Chain
<1>2. CASE EndSearch
  <2>1. path' = <<>> /\ pc' = "walk" /\ current' = End
    BY <1>2 DEF EndSearch, WalkInv, Walked
  <2> QED
    BY <2>1 DEF Walked, Chain
<1>3. CASE WalkBack
  <2>1. Chain(<<current>> \o path)
    BY <1>3, ChainGrows DEF WalkBack, WalkInv
  <2>2. path' = <<current>> \o path /\ dist' = dist /\ prev' = prev /\ pc' = "walk"
        /\ current' = prev[current]
    BY <1>3 DEF WalkBack
  <2>3. path \in Seq(Node) /\ current \in Node
    BY <1>3 DEF WalkBack, WalkInv, SearchInv, TypeOK
  <2>4. path' # <<>> /\ path'[1] = current
    BY <2>2, <2>3
  <2>5. Chain(path)'
    BY <2>1, <2>2 DEF Chain
  <2> QED
    BY <2>2, <2>4, <2>5 DEF Walked
<1>4. CASE Return
  <2>1. path' \in {path, <<>>} /\ dist' = dist /\ prev' = prev /\ pc' = "done"
        /\ (path' # <<>> => path'[1] = Start)
    BY <1>4 DEF Return
  <2>2. Chain(path)'
    BY <2>1 DEF WalkInv, Walked, Chain
  <2> QED
    BY <2>1, <2>2 DEF Walked
<1>5. CASE UNCHANGED vars
  BY <1>5 DEF vars, WalkInv, Walked, Chain
<1> QED
  BY <1>1, <1>2, <1>3, <1>4, <1>5 DEF Next

LEMMA WalkAlways == Spec => []WalkInv
<1>1. Init => WalkInv
  BY SearchInit DEF Init, WalkInv, Walked, Chain
<1> QED
  BY <1>1, WalkStep, PTL DEF Spec

\* An answer is a simple path from Start to End over known links that avoids
\* the excluded nodes: the walk back neither cycles nor strays.
LEMMA DoneIsPath ==
    ASSUME WalkInv, pc = "done", path # <<>>
    PROVE  IsPath(path)
<1>1. path \in Seq(Node) /\ Len(path) \in Nat \ {0}
  BY DEF WalkInv, SearchInv, TypeOK
<1>2. path[1] = Start /\ path[Len(path)] = End
  BY DEF WalkInv, Walked, Chain
<1>3. ASSUME NEW i \in 1..Len(path), NEW j \in 1..Len(path), path[i] = path[j]
      PROVE  i = j
  <2>1. dist[path[i]] \in Int /\ dist[path[j]] \in Int
    BY <1>1 DEF WalkInv, SearchInv, TypeOK, Inf
  <2>2. /\ i < j => dist[path[i]] < dist[path[j]]
        /\ j < i => dist[path[j]] < dist[path[i]]
    BY DEF WalkInv, Walked, Chain
  <2> QED
    BY <1>1, <1>3, <2>1, <2>2
<1>4. ASSUME NEW i \in 1..Len(path) - 1
      PROVE  Linked(<<path[i], path[i + 1]>>) /\ ~Skipped(path[i + 1])
  <2>1. prev[path[i + 1]] = path[i] /\ path[i] \in Node /\ path[i + 1] \in Node
    BY <1>1 DEF WalkInv, Walked, Chain
  <2>2. prev[path[i + 1]] # None
    BY <2>1, DijkstraAssumption
  <2> QED
    BY <2>1, <2>2 DEF WalkInv, SearchInv, Reached, Certified
<1>5. ASSUME NEW i \in 2..Len(path) - 1 PROVE path[i] \notin exclude
  <2>1. i - 1 \in 1..Len(path) - 1 /\ (i - 1) + 1 = i /\ i \in 1..Len(path) /\ i # Len(path)
        /\ Len(path) \in 1..Len(path)
    BY <1>1
  <2>2. ~Skipped(path[(i - 1) + 1])
    BY <1>4, <2>1
  <2>3. path[i] # End
    BY <1>2, <1>3, <2>1
  <2> QED
    BY <2>1, <2>2, <2>3 DEF Skipped
<1> QED
  BY <1>2, <1>3, <1>4, <1>5 DEF IsPath

-----------------------------------------------------------------------------
(* The cost of a path *)

\* Induction by the least counterexample.
LEMMA LeastNatural ==
    ASSUME NEW T \in SUBSET Nat, T # {}
    PROVE  \E x \in T : \A y \in T : x <= y
<1> DEFINE R == OpToRel(<, Nat)
<1>1. IsWellFoundedOn(R, Nat)
  BY NatLessThanWellFounded
<1> HIDE DEF R
<1>2. PICK x \in T : \A y \in T : ~(<<y, x>> \in R)
  BY <1>1, WFMin
<1>3. \A y \in T : ~(y < x)
  BY <1>2 DEF R, OpToRel
<1> QED
  BY <1>3

\* c[i] is what the first i nodes of p cost.
Running(p, k, c) ==
    /\ c \in [1..k -> Nat]
    /\ c[1] = 0
    /\ \A i \in 2..k : c[i] = c[i - 1] + Cost(<<p[i - 1], p[i]>>)

\* Cost, from which paths are judged, is the weight the search works with.
LEMMA CostIsWeight ==
    ASSUME NEW p
    PROVE  Cost(p) = LinkWeight(p)
  BY DEF Cost, LinkWeight

\* Every path over known links has running costs.
LEMMA RunningExists ==
    ASSUME TypeOK, NEW k \in Nat \ {0}, NEW p,
           \A i \in 1..k - 1 : Linked(<<p[i], p[i + 1]>>)
    PROVE  \E c : Running(p, k, c)
<1> DEFINE Bad == {n \in 1..k : ~\E c : Running(p, n, c)}
<1> SUFFICES ASSUME Bad # {} PROVE FALSE
  BY k \in 1..k
<1>1. Bad \in SUBSET Nat
  OBVIOUS
<1>2. PICK n \in Bad : \A m \in Bad : n <= m
  BY <1>1, LeastNatural
<1>3. CASE n = 1
  <2>1. Running(p, 1, [i \in 1..1 |-> 0])
    BY DEF Running
  <2> QED
    BY <1>2, <1>3, <2>1
<1>4. CASE n # 1
  <2>1. n \in 2..k /\ n - 1 \in 1..k
    BY <1>4
  <2>2. n - 1 \notin Bad
    BY <1>2, <2>1
  <2>3. PICK c : Running(p, n - 1, c)
    BY <2>1, <2>2
  <2> DEFINE d == [i \in 1..n |-> IF i = n THEN c[n - 1] + Cost(<<p[n - 1], p[n]>>) ELSE c[i]]
  <2>4. Linked(<<p[n - 1], p[n]>>)
    <3>1. n - 1 \in 1..k - 1 /\ (n - 1) + 1 = n
      BY <2>1
    <3> QED
      BY <3>1
  <2>5. Cost(<<p[n - 1], p[n]>>) \in Nat
    BY <2>4, WeightPositive, CostIsWeight
  <2>6. \A i \in 1..n : i # n => i \in 1..n - 1
    BY <2>1
  <2>7. c \in [1..n - 1 -> Nat] /\ c[1] = 0 /\ n - 1 \in 1..n - 1 /\ 1 \in 1..n /\ n \in 1..n
        /\ 1 \in 1..n - 1 /\ 1 # n
    BY <1>4, <2>1, <2>3 DEF Running
  <2>8. d \in [1..n -> Nat]
    BY <2>5, <2>6, <2>7
  <2>9. d[1] = 0
    BY <2>7
  <2>10. ASSUME NEW i \in 2..n
         PROVE  d[i] = d[i - 1] + Cost(<<p[i - 1], p[i]>>)
    <3>1. i - 1 \in 1..n /\ i - 1 # n /\ i \in 1..n
      BY <2>1
    <3>2. CASE i = n
      BY <3>1, <3>2
    <3>3. CASE i # n
      <4>1. i \in 2..n - 1
        BY <2>1, <3>3
      <4> QED
        BY <2>3, <3>1, <3>3, <4>1 DEF Running
    <3> QED
      BY <3>2, <3>3
  <2>11. Running(p, n, d)
    <3> HIDE DEF d
    <3> QED
      BY <2>8, <2>9, <2>10 DEF Running
  <2> QED
    BY <2>11
<1> QED
  BY <1>3, <1>4

\* Running costs are unique: two of them agree on every node.
LEMMA RunningUnique ==
    ASSUME NEW k \in Nat \ {0}, NEW p, NEW c, Running(p, k, c), NEW g,
           g = [i \in 1..k |-> IF i = 1 THEN 0 ELSE g[i - 1] + Cost(<<p[i - 1], p[i]>>)]
    PROVE  g = c
<1> DEFINE Bad == {i \in 1..k : g[i] # c[i]}
<1>1. Bad = {}
  <2> SUFFICES ASSUME Bad # {} PROVE FALSE
    OBVIOUS
  <2>1. Bad \in SUBSET Nat
    OBVIOUS
  <2>2. PICK n \in Bad : \A m \in Bad : n <= m
    BY <2>1, LeastNatural
  <2>3. n # 1
    BY <2>2 DEF Running
  <2>4. n \in 2..k /\ n - 1 \in 1..k
    BY <2>3
  <2>5. g[n - 1] = c[n - 1]
    BY <2>2, <2>4
  <2>6. g[n] = g[n - 1] + Cost(<<p[n - 1], p[n]>>)
    BY <2>3, <2>4
  <2> QED
    BY <2>2, <2>4, <2>5, <2>6 DEF Running
<1>2. g = [i \in 1..k |-> g[i]]
  OBVIOUS
<1>3. c = [i \in 1..k |-> c[i]]
  BY DEF Running
<1>4. \A i \in 1..k : g[i] = c[i]
  BY <1>1
<1> QED
  BY ONLY <1>2, <1>3, <1>4

\* PathCost is the last of the running costs.
LEMMA PathCostRuns ==
    ASSUME TypeOK, NEW p, Len(p) \in Nat \ {0}, NEW c, Running(p, Len(p), c)
    PROVE  PathCost(p) = c[Len(p)]
<1> DEFINE F(g) == [i \in 1..Len(p) |-> IF i = 1 THEN 0 ELSE g[i - 1] + Cost(<<p[i - 1], p[i]>>)]
           sum == CHOOSE g : g = F(g)
<1>1. c = F(c)
  <2>1. ASSUME NEW i \in 1..Len(p), i # 1 PROVE c[i] = c[i - 1] + Cost(<<p[i - 1], p[i]>>)
    BY <2>1 DEF Running
  <2>2. c = [i \in 1..Len(p) |-> c[i]] /\ c[1] = 0
    BY DEF Running
  <2> QED
    BY <2>1, <2>2
<1>2. sum = F(sum)
  BY <1>1
<1>3. sum = c
  <2> HIDE DEF sum
  <2> QED
    BY <1>2, RunningUnique
<1>4. PathCost(p) = sum[Len(p)]
  BY DEF PathCost
<1> QED
  BY <1>3, <1>4

-----------------------------------------------------------------------------
(* Optimality *)

\* Once the search is over, the destination is no farther than any node that is
\* still unvisited; a node with a distance has a predecessor; and if the
\* destination was reached, the walk has met reached nodes only, and at its end
\* an answer.
Finished ==
    /\ \A n \in Node : dist[n] # Inf /\ n # Start => prev[n] # None
    /\ pc # "search" => \A n \in unvisited : ~Nearer(dist[n], dist[End])
    /\ dist[End] # Inf /\ pc # "search" => \A i \in 1..Len(path) : dist[path[i]] # Inf
    /\ dist[End] # Inf /\ pc = "done" => path # <<>>

OptInv == WalkInv /\ Finished

LEMMA OptInit == Init => OptInv
<1> SUFFICES ASSUME Init PROVE OptInv
  OBVIOUS
<1>1. WalkInv
  BY SearchInit DEF Init, WalkInv, Walked, Chain
<1>2. Finished
  BY DEF Init, Finished
<1> QED
  BY <1>1, <1>2 DEF OptInv

LEMMA OptStep == OptInv /\ [Next]_vars => OptInv'
<1> SUFFICES ASSUME OptInv, [Next]_vars PROVE Finished'
  BY WalkStep DEF OptInv
<1>0. /\ path \in Seq(Node) /\ current \in Node \cup {None} /\ End \in Node /\ None \notin Node
      /\ dist \in [Node -> Nat \cup {Inf}] /\ unvisited \subseteq Node
  BY DijkstraAssumption DEF OptInv, WalkInv, SearchInv, TypeOK
<1>1. ASSUME NEW u \in Node, Settle(u) PROVE Finished'
  <2>1. pc' = "search"
    BY <1>1 DEF Settle
  <2>2. ASSUME NEW n \in Node, dist'[n] # Inf, n # Start PROVE prev'[n] # None
    <3>1. CASE Improves(u, n)
      BY <1>0, <1>1, <3>1, SettleFacts DEF OptInv, WalkInv
    <3>2. CASE ~Improves(u, n)
      BY <1>1, <2>2, <3>2, SettleFacts DEF OptInv, WalkInv, Finished
    <3> QED
      BY <3>1, <3>2
  <2> QED
    BY <2>1, <2>2 DEF Finished
<1>2. CASE EndSearch
  <2>1. /\ dist' = dist /\ prev' = prev /\ unvisited' = unvisited /\ path' = <<>> /\ pc' = "walk"
    BY <1>2 DEF EndSearch, OptInv, WalkInv, Walked
  <2>2. ASSUME NEW n \in unvisited PROVE ~Nearer(dist[n], dist[End])
    <3>1. PICK m \in Node : Nearest(m) /\ (m = End \/ dist[m] = Inf)
      BY <1>2, <2>2 DEF EndSearch
    <3>2. ~Nearer(dist[n], dist[m])
      BY <3>1 DEF Nearest
    <3> QED
      BY <3>1, <3>2 DEF Nearer
  <2> QED
    BY <2>1, <2>2 DEF OptInv, Finished
<1>3. CASE WalkBack
  <2>1. /\ dist' = dist /\ prev' = prev /\ unvisited' = unvisited /\ path' = <<current>> \o path
        /\ pc = "walk" /\ pc' = "walk" /\ current \in Node
    BY <1>0, <1>3 DEF WalkBack
  <2>2. dist[End] # Inf => dist[current] # Inf
    <3>1. CASE path = <<>>
      BY <2>1, <3>1 DEF OptInv, WalkInv, Walked
    <3>2. CASE path # <<>>
      <4>1. current = prev[path[1]] /\ path[1] \in Node
        BY <1>0, <2>1, <3>2 DEF OptInv, WalkInv, Walked
      <4>2. current \in Settled
        BY <1>0, <2>1, <4>1 DEF OptInv, WalkInv, SearchInv, Certified
      <4> QED
        BY <4>2 DEF OptInv, WalkInv, SearchInv, Reached
    <3> QED
      BY <3>1, <3>2
  <2>3. ASSUME dist[End] # Inf, NEW i \in 1..Len(path')
        PROVE  dist[path'[i]] # Inf
    <3>1. path' \in Seq(Node) /\ Len(path') = Len(path) + 1 /\ path'[1] = current
      BY <1>0, <2>1
    <3>2. CASE i = 1
      BY <2>2, <2>3, <3>1, <3>2
    <3>3. CASE i # 1
      <4>1. i - 1 \in 1..Len(path) /\ path'[i] = path[i - 1]
        BY <1>0, <2>1, <3>1, <3>3
      <4> QED
        BY <2>1, <2>3, <4>1 DEF OptInv, Finished
    <3> QED
      BY <3>2, <3>3
  <2> QED
    BY <2>1, <2>3 DEF OptInv, Finished
<1>4. CASE Return
  <2>1. /\ dist' = dist /\ prev' = prev /\ unvisited' = unvisited /\ pc = "walk" /\ pc' = "done"
        /\ current = None /\ path' = IF path # <<>> /\ path[1] = Start THEN path ELSE <<>>
    BY <1>4 DEF Return
  <2>2. path # <<>> /\ prev[path[1]] = None
    BY <1>0, <2>1 DEF OptInv, WalkInv, Walked
  <2>3. dist[End] # Inf => path[1] = Start
    <3>1. 1 \in 1..Len(path) /\ path[1] \in Node
      BY <1>0, <2>2
    <3> QED
      BY <2>1, <2>2, <3>1 DEF OptInv, Finished
  <2>4. dist[End] # Inf => path' = path
    BY <2>1, <2>2, <2>3
  <2>5. dist[End] # Inf => \A i \in 1..Len(path') : dist[path'[i]] # Inf
    BY <2>1, <2>4 DEF OptInv, Finished
  <2> QED
    BY <2>1, <2>2, <2>4, <2>5 DEF OptInv, Finished
<1>5. CASE UNCHANGED vars
  BY <1>5 DEF vars, OptInv, Finished
<1> QED
  BY <1>1, <1>2, <1>3, <1>4, <1>5 DEF Next

\* When the search is over, no path undercuts the distance of the destination.
LEMMA NoCheaperPath ==
    ASSUME OptInv, pc # "search", NEW k \in Nat, k >= 2, NEW q \in [1..k -> Node],
           Len(q) = k, IsPath(q), NEW c, Running(q, k, c)
    PROVE  dist[End] \in Nat /\ dist[End] <= c[k]
<1> DEFINE Ahead(i) == q[i] \in Settled /\ dist[q[i]] <= c[i]
           Behind(i) == dist[End] # Inf /\ dist[End] <= c[i]
           Bad == {i \in 1..k : ~Ahead(i) /\ ~Behind(i)}
<1>0. /\ SearchInv /\ End \in Node /\ Start \in Node /\ dist[End] \in Nat \cup {Inf}
      /\ \A i \in 1..k : dist[q[i]] \in Nat \cup {Inf} /\ c[i] \in Nat
      /\ 1 \in 1..k /\ k \in 1..k
  BY DijkstraAssumption DEF OptInv, WalkInv, SearchInv, TypeOK, Running
\* A node with a distance within its running cost is settled, or else the
\* destination is no farther.
<1>1. ASSUME NEW i \in 1..k, q[i] \in Candidate, dist[q[i]] # Inf, dist[q[i]] <= c[i]
      PROVE  Ahead(i) \/ Behind(i)
  <2>1. CASE q[i] \in unvisited
    <3>1. ~Nearer(dist[q[i]], dist[End])
      BY <2>1 DEF OptInv, Finished
    <3> QED
      BY <1>0, <1>1, <3>1 DEF Nearer, Inf
  <2>2. CASE q[i] \notin unvisited
    BY <1>1, <2>2 DEF Settled
  <2> QED
    BY <2>1, <2>2
<1>2. Ahead(1) \/ Behind(1)
  <2>1. q[1] = Start /\ 1 \in 1..k - 1 /\ Linked(<<q[1], q[1 + 1]>>)
    BY <1>0 DEF IsPath
  <2>2. Start \in Candidate
    BY <1>0, <2>1 DEF Candidate, InGraph, Linked
  <2>3. dist[Start] = 0 /\ c[1] = 0
    BY <1>0 DEF SearchInv, Reached, Running
  <2> QED
    BY <1>0, <1>1, <2>1, <2>2, <2>3 DEF Inf
<1>3. ASSUME NEW i \in 1..k - 1, Ahead(i) \/ Behind(i)
      PROVE  Ahead(i + 1) \/ Behind(i + 1)
  <2>1. i \in 1..k /\ i + 1 \in 2..k /\ i + 1 \in 1..k /\ (i + 1) - 1 = i
    OBVIOUS
  <2>2. Linked(<<q[i], q[i + 1]>>)
    BY <2>1 DEF IsPath
  <2>3. c[i + 1] = c[i] + LinkWeight(<<q[i], q[i + 1]>>)
    BY <2>1, CostIsWeight DEF Running
  <2>4. LinkWeight(<<q[i], q[i + 1]>>) \in Nat
    BY <1>0, <2>2, WeightPositive DEF SearchInv
  <2>5. CASE Behind(i)
    BY <1>0, <2>1, <2>3, <2>4, <2>5
  <2>6. CASE Ahead(i)
    <3>1. ~Skipped(q[i + 1])
      <4>1. CASE i + 1 = k
        BY <4>1 DEF IsPath, Skipped
      <4>2. CASE i + 1 # k
        <5>1. i + 1 \in 2..k - 1
          BY <4>2
        <5> QED
          BY <5>1 DEF IsPath, Skipped
      <4> QED
        BY <4>1, <4>2
    <3>2. q[i + 1] \in Node /\ q[i + 1] \in Candidate
      BY <2>1, <2>2, <3>1 DEF Candidate, InGraph, Skipped, Linked
    <3>3. ~Nearer(dist[q[i]] + LinkWeight(<<q[i], q[i + 1]>>), dist[q[i + 1]])
      BY <1>0, <2>2, <2>6, <3>1, <3>2 DEF SearchInv, Certified
    <3>4. dist[q[i]] \in Nat
      BY <1>0, <2>1, <2>6 DEF SearchInv, Reached
    <3>5. dist[q[i + 1]] # Inf /\ dist[q[i + 1]] <= c[i + 1]
      <4> DEFINE w == LinkWeight(<<q[i], q[i + 1]>>)
      <4>1. dist[q[i]] + w \in Nat /\ dist[q[i]] + w <= c[i + 1] /\ c[i + 1] \in Nat
        BY <1>0, <2>1, <2>3, <2>4, <2>6, <3>4
      <4>2. ~Nearer(dist[q[i]] + w, dist[q[i + 1]]) /\ dist[q[i + 1]] \in Nat \cup {Inf}
        BY <1>0, <2>1, <3>3
      <4> HIDE DEF w
      <4> QED
        BY <3>4, <4>1, <4>2 DEF Nearer, Inf
    <3> QED
      BY <1>1, <2>1, <3>2, <3>5
  <2> QED
    BY <1>3, <2>5, <2>6
<1>4. Bad = {}
  <2> SUFFICES ASSUME Bad # {} PROVE FALSE
    OBVIOUS
  <2>1. Bad \in SUBSET Nat
    OBVIOUS
  <2>2. PICK n \in Bad : \A m \in Bad : n <= m
    BY <2>1, LeastNatural
  <2>3. n # 1
    BY <1>2, <2>2
  <2>4. n - 1 \in 1..k - 1 /\ n - 1 \in 1..k /\ (n - 1) + 1 = n
    BY <2>3
  <2>5. Ahead(n - 1) \/ Behind(n - 1)
    BY <2>2, <2>4
  <2>6. Ahead((n - 1) + 1) \/ Behind((n - 1) + 1)
    BY <1>3, <2>4, <2>5
  <2> QED
    BY <2>2, <2>4, <2>6
<1>5. ~Ahead(k)
  BY <1>0 DEF IsPath, SearchInv, Reached
<1>6. Behind(k)
  BY <1>0, <1>4, <1>5
<1> QED
  BY <1>0, <1>6

\* The answer costs just the distance of the destination.
LEMMA AnswerCost ==
    ASSUME OptInv, pc = "done", path # <<>>, NEW c, Running(path, Len(path), c)
    PROVE  c[Len(path)] = dist[End]
<1> DEFINE Bad == {i \in 1..Len(path) : c[i] # dist[path[i]]}
<1>0. path \in Seq(Node) /\ Len(path) \in 1..Len(path) /\ path[Len(path)] = End /\ path[1] = Start
  BY DEF OptInv, WalkInv, Walked, Chain, SearchInv, TypeOK
<1>1. Bad = {}
  <2> SUFFICES ASSUME Bad # {} PROVE FALSE
    OBVIOUS
  <2>1. Bad \in SUBSET Nat
    BY <1>0
  <2>2. PICK n \in Bad : \A m \in Bad : n <= m
    BY <2>1, LeastNatural
  <2>3. n # 1
    BY <1>0, <2>2 DEF OptInv, WalkInv, SearchInv, Reached, Running
  <2>4. n \in 2..Len(path) /\ n - 1 \in 1..Len(path) - 1 /\ n - 1 \in 1..Len(path) /\ (n - 1) + 1 = n
    BY <1>0, <2>3
  <2>5. c[n - 1] = dist[path[n - 1]]
    BY <2>2, <2>4
  <2>6. prev[path[n]] = path[n - 1] /\ path[n] \in Node /\ path[n - 1] \in Node
    BY <1>0, <2>4 DEF OptInv, WalkInv, Walked, Chain
  <2>7. dist[path[n]] = dist[path[n - 1]] + LinkWeight(<<path[n - 1], path[n]>>)
    BY <2>6, DijkstraAssumption DEF OptInv, WalkInv, SearchInv, Certified
  <2>8. c[n] = c[n - 1] + LinkWeight(<<path[n - 1], path[n]>>)
    BY <2>4, CostIsWeight DEF Running
  <2> QED
    BY <2>2, <2>5, <2>7, <2>8
<1> QED
  BY <1>0, <1>1

\* A path without repetition is no longer than there are nodes.
LEMMA SimpleIsShort ==
    ASSUME NEW p \in Seq(Node), \A i, j \in 1..Len(p) : p[i] = p[j] => i = j
    PROVE  Len(p) <= Cardinality(Node)
<1>1. Len(p) \in Nat /\ p \in [1..Len(p) -> Node]
  OBVIOUS
<1>2. IsFiniteSet(Node) /\ Cardinality(Node) \in Nat
  BY DijkstraAssumption, FS_CardinalityType
<1>3. IsFiniteSet(1..Len(p)) /\ Cardinality(1..Len(p)) = Len(p)
  BY <1>1, FS_Interval
<1>4. p \in Injection(1..Len(p), Node)
  BY <1>1 DEF Injection, IsInjective
<1> QED
  BY <1>2, <1>3, <1>4, FS_Injection

\* dijkstraCore computes a cheapest path, whatever the links, the intent, the
\* weight configuration and the nodes to avoid, and answers nothing only if
\* there is no path.
THEOREM CheapestPath == Spec => []Optimal
<1>1. OptInv => Optimal
  <2> SUFFICES ASSUME OptInv, pc = "done" PROVE
          IF path = <<>> THEN SimplePath = {}
          ELSE path \in SimplePath /\ \A q \in SimplePath : PathCost(path) <= PathCost(q)
    BY DEF Optimal
  <2>1. ASSUME NEW q \in SimplePath
        PROVE  dist[End] \in Nat /\ dist[End] <= PathCost(q)
    <3>1. PICK k \in 2..Cardinality(Node) : q \in [1..k -> Node]
      BY DEF SimplePath
    <3>2. k \in Nat /\ k >= 2
      BY <3>1, DijkstraAssumption, FS_CardinalityType
    <3>3. q \in Seq(Node) /\ Len(q) = k
      BY <3>1, <3>2
    <3>4. IsPath(q)
      BY DEF SimplePath
    <3>5. PICK c : Running(q, k, c)
      BY <3>2, <3>3, <3>4, RunningExists DEF OptInv, WalkInv, SearchInv, IsPath
    <3>6. PathCost(q) = c[k]
      BY <3>2, <3>3, <3>5, PathCostRuns DEF OptInv, WalkInv, SearchInv
    <3> QED
      BY <3>1, <3>2, <3>3, <3>4, <3>5, <3>6, NoCheaperPath
  <2>2. CASE path = <<>>
    <3>1. dist[End] = Inf
      BY <2>2 DEF OptInv, Finished
    <3> QED
      BY <2>1, <2>2, <3>1 DEF Inf
  <2>3. CASE path # <<>>
    <3>1. path \in Seq(Node) /\ IsPath(path)
      BY <2>3, DoneIsPath DEF OptInv, WalkInv, SearchInv, TypeOK
    <3>2. Len(path) \in Nat \ {0}
      BY <2>3, <3>1
    <3>3. path \in SimplePath
      <4>1. Len(path) # 1
        BY <3>1, DijkstraAssumption DEF IsPath
      <4>2. Len(path) \in 2..Cardinality(Node)
        BY <3>1, <3>2, <4>1, SimpleIsShort, DijkstraAssumption, FS_CardinalityType DEF IsPath
      <4>3. path \in [1..Len(path) -> Node]
        BY <3>1
      <4> QED
        BY <3>1, <4>2, <4>3 DEF SimplePath
    <3>4. PICK c : Running(path, Len(path), c)
      BY <3>1, <3>2, RunningExists DEF OptInv, WalkInv, SearchInv, IsPath
    <3>5. PathCost(path) = dist[End]
      BY <2>3, <3>2, <3>4, PathCostRuns, AnswerCost DEF OptInv, WalkInv, SearchInv
    <3> QED
      BY <2>1, <2>3, <3>3, <3>5
  <2> QED
    BY <2>2, <2>3
<1> QED
  BY <1>1, OptInit, OptStep, PTL DEF Spec

-----------------------------------------------------------------------------
(* Termination: the variant of the loops, and that one of them can go on *)

\* A bound on the turns still to come: the search deletes a node in each, and
\* the walk back collects at most every node once.
StepsLeft ==
    LET all == Cardinality(Node)
    IN  IF pc = "search" THEN all + 2 + Cardinality(unvisited)
        ELSE IF pc = "walk" THEN all + 1 - Len(path)
        ELSE 0

\* The guards of the actions.
MayGoOn ==
    \/ pc = "search" /\ \E u \in Node : Nearest(u) /\ u # End /\ dist[u] # Inf
    \/ pc = "search" /\ (unvisited = {} \/ \E n \in Node : Nearest(n) /\ (n = End \/ dist[n] = Inf))
    \/ pc = "walk"

\* What is walked so far has no node twice, so it is no longer than there are
\* nodes, and the variant is a natural number; before the end it is not 0.
LEMMA StepsLeftTyped ==
    ASSUME WalkInv
    PROVE  /\ StepsLeft \in 0..2 * Cardinality(Node) + 2
           /\ pc = "walk" => Len(path) <= Cardinality(Node)
           /\ pc # "done" => StepsLeft > 0
<1>1. IsFiniteSet(Node) /\ Cardinality(Node) \in Nat
  BY DijkstraAssumption, FS_CardinalityType
<1>2. Cardinality(unvisited) \in Nat /\ Cardinality(unvisited) <= Cardinality(Node)
  BY <1>1, FS_Subset, FS_CardinalityType DEF WalkInv, SearchInv, TypeOK
<1>3. path \in Seq(Node) /\ Len(path) \in Nat /\ pc \in {"search", "walk", "done"}
  BY DEF WalkInv, SearchInv, TypeOK
<1>4. ASSUME NEW i \in 1..Len(path), NEW j \in 1..Len(path), path[i] = path[j]
      PROVE  i = j
  <2>1. dist[path[i]] \in Int /\ dist[path[j]] \in Int
    BY <1>3 DEF WalkInv, SearchInv, TypeOK, Inf
  <2>2. /\ i < j => dist[path[i]] < dist[path[j]]
        /\ j < i => dist[path[j]] < dist[path[i]]
    BY DEF WalkInv, Walked, Chain
  <2> QED
    BY <1>3, <1>4, <2>1, <2>2
<1>5. Len(path) <= Cardinality(Node)
  BY <1>3, <1>4, SimpleIsShort
<1> QED
  BY <1>1, <1>2, <1>3, <1>5 DEF StepsLeft

\* Every turn of the search, its end, every turn of the walk back and the
\* return bring the computation nearer to its end, whatever the map iteration
\* order: there are at most 2 * Cardinality(Node) + 2 steps.
THEOREM EveryTurnIsProgress ==
    Spec => [][StepsLeft' \in Nat /\ StepsLeft' < StepsLeft]_vars
<1> DEFINE all == Cardinality(Node)
<1>0. IsFiniteSet(Node) /\ all \in Nat
  BY DijkstraAssumption, FS_CardinalityType
<1>1. WalkInv => StepsLeft \in Nat
  BY <1>0, StepsLeftTyped
<1>2. WalkInv /\ (StepsLeft \in Nat)' /\ [Next]_vars
         => [StepsLeft' \in Nat /\ StepsLeft' < StepsLeft]_vars
  <2> SUFFICES ASSUME WalkInv, Next PROVE StepsLeft' < StepsLeft
    OBVIOUS
  <2>1. StepsLeft \in Nat /\ (pc = "walk" => Len(path) <= all) /\ (pc # "done" => StepsLeft > 0)
    BY <1>0, StepsLeftTyped
  <2>3. Len(path) \in Nat /\ path \in Seq(Node) /\ unvisited \subseteq Node
    BY DEF WalkInv, SearchInv, TypeOK
  <2>4. IsFiniteSet(unvisited) /\ Cardinality(unvisited) \in Nat
    BY <1>0, <2>3, FS_Subset, FS_CardinalityType
  <2>5. ASSUME NEW u \in Node, Settle(u) PROVE StepsLeft' < StepsLeft
    <3>1. u \in unvisited /\ unvisited' = unvisited \ {u} /\ pc = "search" /\ pc' = "search"
      BY <2>5 DEF Settle, Nearest
    <3>2. Cardinality(unvisited') = Cardinality(unvisited) - 1
      BY <2>4, <3>1, FS_RemoveElement
    <3> QED
      BY <1>0, <2>4, <3>1, <3>2 DEF StepsLeft
  <2>6. CASE EndSearch
    <3>1. pc = "search" /\ pc' = "walk" /\ path' = <<>> /\ Len(path') = 0
      BY <2>6 DEF EndSearch, WalkInv, Walked
    <3> QED
      BY <1>0, <2>4, <3>1 DEF StepsLeft
  <2>7. CASE WalkBack
    <3>1. pc = "walk" /\ pc' = "walk" /\ path' = <<current>> \o path /\ current \in Node
      BY <2>7 DEF WalkBack, WalkInv, SearchInv, TypeOK
    <3>2. Len(path') = Len(path) + 1
      BY <2>3, <3>1
    <3> QED
      BY <1>0, <2>3, <3>1, <3>2 DEF StepsLeft
  <2>8. CASE Return
    <3>1. pc = "walk" /\ pc' = "done"
      BY <2>8 DEF Return
    <3>2. StepsLeft' = 0 /\ StepsLeft > 0
      BY <2>1, <3>1 DEF StepsLeft
    <3> QED
      BY <3>2
  <2> QED
    BY <2>5, <2>6, <2>7, <2>8 DEF Next
<1> QED
  BY <1>1, <1>2, WalkAlways, PTL DEF Spec

\* As long as nodes are left, one of them is nearest.
LEMMA NearestExists ==
    ASSUME TypeOK, unvisited # {}
    PROVE  \E n \in Node : Nearest(n)
<1>1. unvisited \subseteq Node /\ \A n \in unvisited : dist[n] \in Nat \/ dist[n] = Inf
  BY DEF TypeOK
<1>2. CASE \A n \in unvisited : dist[n] = Inf
  BY <1>1, <1>2 DEF Nearest, Nearer
<1>3. CASE \E n \in unvisited : dist[n] # Inf
  <2> DEFINE D == {dist[n] : n \in {m \in unvisited : dist[m] # Inf}}
  <2>1. D \subseteq Nat /\ D # {}
    BY <1>1, <1>3
  <2>2. PICK x \in D : \A y \in D : x <= y
    BY <2>1, LeastNatural
  <2>3. PICK n \in unvisited : dist[n] # Inf /\ dist[n] = x
    BY <2>2
  <2>4. ASSUME NEW m \in unvisited PROVE ~Nearer(dist[m], dist[n])
    <3>1. CASE dist[m] = Inf
      BY <3>1 DEF Nearer
    <3>2. CASE dist[m] # Inf
      <4>1. dist[m] \in D /\ x \in Nat /\ dist[m] \in Nat
        BY <1>1, <2>1, <3>2
      <4>2. dist[n] <= dist[m]
        BY <2>2, <2>3, <4>1
      <4> QED
        BY <2>3, <4>1, <4>2 DEF Nearer
    <3> QED
      BY <3>1, <3>2
  <2> QED
    BY <1>1, <2>4 DEF Nearest
<1> QED
  BY <1>2, <1>3

\* The computation is never stuck before it has returned: together with
\* EveryTurnIsProgress, all of Terminates but the fairness.
THEOREM NeverStuck == Spec => [](pc # "done" => MayGoOn)
<1>1. SearchInv => (pc # "done" => MayGoOn)
  <2> SUFFICES ASSUME SearchInv, pc = "search", unvisited # {} PROVE MayGoOn
    BY DEF SearchInv, TypeOK, MayGoOn
  <2>1. \E n \in Node : Nearest(n)
    BY NearestExists DEF SearchInv
  <2> QED
    BY <2>1 DEF MayGoOn
<1> QED
  BY <1>1, SearchAlways, PTL
=============================================================================
