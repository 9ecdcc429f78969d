---------------------------- MODULE GossipProofs ----------------------------
(***************************************************************************)
(* Proofs of the safety properties of Gossip for every set of routers,     *)
(* every neighbour relation and every bound.                               *)
(*                                                                         *)
(* The invariant IInv says of every copy of a measurement, in a view or in *)
(* a datagram: it is filed under its own link, its origin is the node that *)
(* measures the link, its sequence number is one that node has handed out  *)
(* and its timestamp is not in the future.  The only step that makes a     *)
(* copy that was not there before is UpdateLocal (CopiesOnlyMove), and     *)
(* what it makes has a higher number and a time no earlier than all the    *)
(* copies of its link; so order is kept.                                   *)
(***************************************************************************)
EXTENDS GossipClaims, TLAPS

-----------------------------------------------------------------------------
(* Facts about the data *)

\* A link is measured by its first node, and Measurement makes an entry of it.
LEMMA LinkFacts ==
    /\ \A k \in Link : k[1] \in Node
    /\ \A n \in Node : \A p \in Probed[n] : <<n, p>> \in Link
BY DEF Link

\* A new measurement is an entry of its link, from the node that measures it.
LEMMA MeasurementFacts ==
    ASSUME TypeOK, NEW n \in Node, NEW p \in Probed[n], NEW q \in Quality
    PROVE  /\ Measurement(n, p, q) \in LinkState
           /\ Measurement(n, p, q).link = <<n, p>>
           /\ Measurement(n, p, q).origin = n
           /\ Measurement(n, p, q).seq = seqGen[n] + 1
           /\ Measurement(n, p, q).ts = now
BY LinkFacts DEF Measurement, LinkState, TypeOK

\* Merging two link maps keeps, for every link, one of the two entries.
LEMMA MergedFacts ==
    ASSUME NEW t \in Table, NEW u \in Table
    PROVE  /\ Merged(t, u) \in Table
           /\ \A k \in Link : Merged(t, u)[k] \in {t[k], u[k]}
           /\ \A k \in Link : t[k] # None => Merged(t, u)[k] # None
BY DEF Merged, Table

LEMMA OutgoingFacts ==
    ASSUME TypeOK, NEW n \in Node
    PROVE  /\ OutgoingStates(n) \in Table
           /\ \A k \in Link : OutgoingStates(n)[k] \in {links[n][k], None}
BY DEF OutgoingStates, ChangedStates, TypeOK, Table

-----------------------------------------------------------------------------
(* Type correctness *)

LEMMA TypeInit == Init => TypeOK
BY DEF Init, TypeOK, Table, EmptyTable

LEMMA TypeStep == TypeOK /\ [Next]_vars => TypeOK'
<1> SUFFICES ASSUME TypeOK, [Next]_vars PROVE TypeOK'
    OBVIOUS
<1> USE DEF TypeOK, state, loop
<1>1. ASSUME NEW n \in Node, NEW p \in Probed[n], NEW q \in Quality, UpdateLocal(n, p, q)
      PROVE  TypeOK'
  <2>1. <<n, p>> \in Link /\ Measurement(n, p, q) \in LinkState
    BY LinkFacts, MeasurementFacts
  <2>2. links' \in [Node -> Table]
    BY <1>1, <2>1 DEF UpdateLocal, Table
  <2> QED
    BY <1>1, <2>2 DEF UpdateLocal
<1>2. ASSUME NEW n \in Node, PruneStale(n) PROVE TypeOK'
  BY <1>2 DEF PruneStale, Table
<1>3. ASSUME NEW n \in Node, BroadcastNothing(n) PROVE TypeOK'
  BY <1>3 DEF BroadcastNothing
<1>4. ASSUME NEW n \in Node, NEW got \in SUBSET Neighbors[n], BroadcastSend(n, got)
      PROVE  TypeOK'
  <2>1. got \subseteq Node
    BY ConstantsAssumption DEF NeighborsAssumption
  <2>2. msgs' \subseteq Message
    BY <1>4, <2>1, OutgoingFacts DEF BroadcastSend, Message
  <2> QED
    BY <1>4, <2>2 DEF BroadcastSend
<1>5. ASSUME NEW n \in Node, MarkBroadcast(n) PROVE TypeOK'
  BY <1>5 DEF MarkBroadcast
<1>6. ASSUME NEW n \in Node, ResetTimer(n) PROVE TypeOK'
  BY <1>6 DEF ResetTimer
<1>7. ASSUME NEW n \in Node, FullSyncElapsed(n) PROVE TypeOK'
  BY <1>7 DEF FullSyncElapsed
<1>8. ASSUME NEW m \in msgs, NEW keep \in BOOLEAN, Receive(m, keep) PROVE TypeOK'
  <2>1. m.to \in Node /\ m.states \in Table
    BY DEF Message
  <2>2. links' \in [Node -> Table]
    BY <1>8, <2>1, MergedFacts DEF Receive
  <2>3. hasChanges' \in [Node -> BOOLEAN]
    BY <1>8, <2>1 DEF Receive
  <2> QED
    BY <1>8, <2>2, <2>3 DEF Receive
<1>9. ASSUME Tick PROVE TypeOK'
  BY <1>9 DEF Tick
<1>10. CASE UNCHANGED vars
  BY <1>10 DEF vars
<1> QED
  BY <1>1, <1>2, <1>3, <1>4, <1>5, <1>6, <1>7, <1>8, <1>9, <1>10 DEF Next, BroadcastLoop

\* The variables keep their types in every behaviour: in particular what a
\* node merges from the network is always a well-formed link map.
THEOREM TypeCorrect == Spec => []TypeOK
BY TypeInit, TypeStep, PTL DEF Spec

-----------------------------------------------------------------------------
(* The inductive invariant *)

\* Views and datagrams file an entry under its own link.
KeyedByLink ==
    \A t \in Tables, k \in Link : t[k] # None => t[k].link = k

\* A copy comes from the node that measures its link, carries a number that
\* node has handed out, and was not made in the future.
CopyBounded(c) ==
    /\ c.origin = c.link[1]
    /\ c.seq <= seqGen[c.origin]
    /\ c.ts <= now

CopiesBounded == \A c \in Copies : CopyBounded(c)

IInv ==
    /\ TypeOK
    /\ KeyedByLink
    /\ CopiesBounded
    /\ SequenceOrdersMeasurements
    /\ OwnerHoldsLatest

\* A copy is an entry of a link map, hence a LinkState.
LEMMA CopyFacts ==
    ASSUME TypeOK
    PROVE  /\ Tables \subseteq Table
           /\ \A t \in Tables, k \in Link : t[k] # None => t[k] \in Copies
           /\ \A c \in Copies : \E t \in Tables, k \in Link : c = t[k]
           /\ Copies \subseteq LinkState
           /\ \A n \in Node : links[n] \in Tables
           /\ \A m \in msgs : m.states \in Tables
<1>1. Tables \subseteq Table
  BY DEF TypeOK, Tables, Message
<1>2. \A t \in Tables, k \in Link : t[k] # None => t[k] \in Copies
  BY DEF Copies
<1>3. \A c \in Copies : \E t \in Tables, k \in Link : c = t[k]
  BY DEF Copies
<1>4. Copies \subseteq LinkState
  BY <1>1 DEF Copies, Table
<1> QED
  BY <1>1, <1>2, <1>3, <1>4 DEF Tables

\* Every step but a new measurement only moves copies about: each entry of
\* each view and datagram was, under the same link, in one of them before.
OnlyMoves == \A t \in Tables', k \in Link : t[k] # None => \E u \in Tables : u[k] = t[k]

LEMMA CopiesOnlyMove ==
    ASSUME TypeOK, TypeOK',
           \/ \E n \in Node : \/ PruneStale(n)
                              \/ BroadcastLoop(n)
                              \/ FullSyncElapsed(n)
           \/ \E m \in msgs, keep \in BOOLEAN : Receive(m, keep)
           \/ Tick
           \/ UNCHANGED vars
    PROVE  OnlyMoves
<1> USE DEF OnlyMoves, Tables
<1>1. ASSUME NEW n \in Node, PruneStale(n) PROVE OnlyMoves
  BY <1>1 DEF PruneStale, TypeOK, Table
<1>2. ASSUME NEW n \in Node, NEW got \in SUBSET Neighbors[n], BroadcastSend(n, got)
      PROVE  OnlyMoves
  <2>1. \A m \in msgs' : m \in msgs \/ m.states = OutgoingStates(n)
    BY <1>2 DEF BroadcastSend
  <2> QED
    BY <1>2, <2>1, OutgoingFacts DEF BroadcastSend, state
<1>3. ASSUME NEW n \in Node,
             BroadcastNothing(n) \/ MarkBroadcast(n) \/ ResetTimer(n) \/ FullSyncElapsed(n)
      PROVE  OnlyMoves
  BY <1>3 DEF BroadcastNothing, MarkBroadcast, ResetTimer, FullSyncElapsed, state
<1>4. ASSUME NEW m \in msgs, NEW keep \in BOOLEAN, Receive(m, keep)
      PROVE  OnlyMoves
  <2>1. m.to \in Node /\ m.states \in Table /\ links[m.to] \in Table
    BY DEF TypeOK, Message
  <2>2. \A k \in Link : links'[m.to][k] \in {links[m.to][k], m.states[k]}
    BY <1>4, <2>1, MergedFacts DEF Receive, TypeOK
  <2>3. \A n \in Node : n # m.to => links'[n] = links[n]
    BY <1>4 DEF Receive, TypeOK
  <2>4. msgs' \subseteq msgs
    BY <1>4 DEF Receive
  <2> QED
    BY <2>1, <2>2, <2>3, <2>4
<1>5. CASE Tick
  BY <1>5 DEF Tick, state
<1>6. CASE UNCHANGED vars
  BY <1>6 DEF vars, state
<1> QED
  BY <1>1, <1>2, <1>3, <1>4, <1>5, <1>6 DEF BroadcastLoop

\* What holds of copies that only moved holds of them still, provided the
\* sequence generators and the clock do not run backwards.
LEMMA MovesKeepOrder ==
    ASSUME IInv, TypeOK', OnlyMoves,
           \A n \in Node : seqGen'[n] >= seqGen[n], now' >= now
    PROVE  /\ KeyedByLink'
           /\ Copies' \subseteq Copies
           /\ CopiesBounded'
           /\ SequenceOrdersMeasurements'
<1> USE DEF IInv
<1>1. KeyedByLink'
  BY DEF OnlyMoves, KeyedByLink
<1>2. Copies' \subseteq Copies
  BY DEF OnlyMoves, Copies
<1>3. CopiesBounded'
  <2> SUFFICES ASSUME NEW c \in Copies' PROVE CopyBounded(c)'
    BY DEF CopiesBounded
  <2>1. c \in LinkState /\ CopyBounded(c)
    BY <1>2, CopyFacts DEF CopiesBounded
  <2> QED
    BY <2>1 DEF CopyBounded, TypeOK, LinkState
<1>4. SequenceOrdersMeasurements'
  BY <1>2 DEF SequenceOrdersMeasurements
<1> QED
  BY <1>1, <1>2, <1>3, <1>4

-----------------------------------------------------------------------------
(* A new measurement *)

\* UpdateLocal adds one copy, above and after all copies of its link.
LEMMA MeasuringKeepsOrder ==
    ASSUME IInv, TypeOK',
           NEW n \in Node, NEW p \in Probed[n], NEW q \in Quality, UpdateLocal(n, p, q)
    PROVE  /\ KeyedByLink'
           /\ Copies' \subseteq Copies \cup {Measurement(n, p, q)}
           /\ CopiesBounded'
           /\ SequenceOrdersMeasurements'
<1> DEFINE new == Measurement(n, p, q)
           key == <<n, p>>
<1> USE DEF IInv
<1>1. /\ new \in LinkState /\ new.link = key /\ new.origin = n
      /\ new.seq = seqGen[n] + 1 /\ new.ts = now
      /\ key \in Link /\ key[1] = n
  BY MeasurementFacts, LinkFacts
<1> HIDE DEF new, key
<1>2. /\ links' = [links EXCEPT ![n][key] = new]
      /\ seqGen' = [seqGen EXCEPT ![n] = @ + 1]
      /\ msgs' = msgs /\ now' = now
  BY DEF UpdateLocal, new, key
<1>3. \A t \in Tables', k \in Link :
         t[k] # None => \/ \E u \in Tables : u[k] = t[k]
                        \/ k = key /\ t[k] = new
  <2> SUFFICES ASSUME NEW t \in Tables', NEW k \in Link, t[k] # None
               PROVE  (\E u \in Tables : u[k] = t[k]) \/ (k = key /\ t[k] = new)
    OBVIOUS
  <2>1. CASE t \in Tables
    BY <2>1
  <2>2. CASE \E i \in Node : t = links'[i]
    BY <2>2, <1>1, <1>2 DEF Tables, TypeOK, Table
  <2> QED
    BY <2>1, <2>2, <1>2 DEF Tables
<1>4. KeyedByLink'
  BY <1>1, <1>3 DEF KeyedByLink
<1>5. Copies' \subseteq Copies \cup {new}
  BY <1>3 DEF Copies
<1>6. \A c \in Copies : /\ c \in LinkState /\ CopyBounded(c) /\ c.ts <= new.ts
                        /\ c.link = new.link => c.seq < new.seq
  <2> SUFFICES ASSUME NEW c \in Copies
               PROVE  /\ c \in LinkState /\ CopyBounded(c) /\ c.ts <= new.ts
                      /\ c.link = new.link => c.seq < new.seq
    OBVIOUS
  <2>1. c \in LinkState /\ CopyBounded(c)
    BY CopyFacts DEF CopiesBounded
  <2> QED
    BY <2>1, <1>1 DEF CopyBounded, LinkState, TypeOK
<1>7. CopiesBounded'
  <2> SUFFICES ASSUME NEW c \in Copies' PROVE CopyBounded(c)'
    BY DEF CopiesBounded
  <2>1. CASE c \in Copies
    BY <2>1, <1>2, <1>6 DEF CopyBounded, LinkState, TypeOK
  <2>2. CASE c = new
    BY <2>2, <1>1, <1>2 DEF CopyBounded, TypeOK
  <2> QED
    BY <2>1, <2>2, <1>5
<1>8. SequenceOrdersMeasurements'
  <2> SUFFICES ASSUME NEW c \in Copies', NEW d \in Copies', c.link = d.link
               PROVE  (c.seq < d.seq => c.ts <= d.ts) /\ (c.seq = d.seq => c = d)
    BY DEF SequenceOrdersMeasurements
  <2>1. CASE c \in Copies /\ d \in Copies
    BY <2>1 DEF SequenceOrdersMeasurements
  <2>2. CASE c \in Copies /\ d = new
    BY <2>2, <1>1, <1>6 DEF LinkState
  <2>3. CASE c = new /\ d \in Copies
    BY <2>3, <1>1, <1>6 DEF LinkState
  <2>4. CASE c = new /\ d = new
    BY <2>4, <1>1 DEF LinkState
  <2> QED
    BY <2>1, <2>2, <2>3, <2>4, <1>5
<1> QED
  BY <1>4, <1>5, <1>7, <1>8 DEF new

-----------------------------------------------------------------------------
(* What happens to a node's own entry *)

\* The entry the measuring node itself holds for the link of copy c.
Own(c) == links[c.link[1]][c.link]

\* The entry of the measuring node, when there is one, is itself a copy, of the
\* same link and origin.
LEMMA OwnFacts ==
    ASSUME IInv, NEW c \in Copies
    PROVE  /\ c \in LinkState /\ c.link \in Link /\ c.link[1] \in Node
           /\ CopyBounded(c)
           /\ Own(c) # None => /\ Own(c) \in Copies /\ Own(c) \in LinkState
                               /\ Own(c).link = c.link
                               /\ Own(c).origin = c.link[1]
<1> USE DEF IInv
<1>1. c \in LinkState /\ c.link \in Link /\ c.link[1] \in Node /\ CopyBounded(c)
  BY CopyFacts, LinkFacts DEF LinkState, CopiesBounded
<1>2. ASSUME Own(c) # None
      PROVE  Own(c) \in Copies /\ Own(c) \in LinkState /\ Own(c).link = c.link
             /\ Own(c).origin = c.link[1]
  <2>1. Own(c) \in Copies /\ Own(c).link = c.link
    BY <1>1, <1>2, CopyFacts DEF Own, KeyedByLink
  <2> QED
    BY <2>1, CopyFacts DEF CopiesBounded, CopyBounded
<1> QED
  BY <1>1, <1>2

\* A stale owner entry means that every copy of the link is stale.
LEMMA OwnStaleAllStale ==
    ASSUME IInv, NEW c \in Copies, ~Stale(c)
    PROVE  Own(c) # None /\ Own(c).seq >= c.seq /\ ~Stale(Own(c))
<1>1. Own(c) # None /\ Own(c).seq >= c.seq
  BY DEF IInv, OwnerHoldsLatest, Own
<1>2. Own(c).ts >= c.ts
  BY <1>1, OwnFacts DEF IInv, SequenceOrdersMeasurements, LinkState
<1> QED
  BY <1>1, <1>2, OwnFacts, ConstantsAssumption
     DEF Stale, LinkState, IInv, TypeOK, StalenessAssumption

\* The owner keeps the lead when it measures its link again.
LEMMA MeasuringKeepsLead ==
    ASSUME IInv, TypeOK',
           NEW n \in Node, NEW p \in Probed[n], NEW q \in Quality, UpdateLocal(n, p, q)
    PROVE  OwnerHoldsLatest'
<1> DEFINE new == Measurement(n, p, q)
           key == <<n, p>>
<1>1. /\ new \in LinkState /\ new.link = key /\ new.origin = n
      /\ new.seq = seqGen[n] + 1
      /\ key \in Link /\ key[1] = n
  BY MeasurementFacts, LinkFacts DEF IInv
<1> HIDE DEF new, key
<1>2. /\ links' = [links EXCEPT ![n][key] = new]
      /\ msgs' = msgs /\ now' = now
  BY DEF UpdateLocal, new, key
<1>3. \A k \in Link : links'[k[1]][k] = IF k = key THEN new ELSE links[k[1]][k]
  BY <1>1, <1>2, LinkFacts DEF IInv, TypeOK, Table
<1> SUFFICES ASSUME NEW c \in Copies', ~Stale(c)'
             PROVE  Own(c)' # None /\ Own(c)'.seq >= c.seq
  BY DEF OwnerHoldsLatest, Own
<1>4. CASE c = new
  BY <1>1, <1>3, <1>4, ConstantsAssumption DEF Own, LinkState, NoneAssumption
<1>5. CASE c \in Copies
  <2>1. /\ Own(c) # None /\ Own(c).seq >= c.seq
        /\ c \in LinkState /\ c.link \in Link /\ CopyBounded(c)
    BY <1>2, <1>5, OwnFacts, OwnStaleAllStale DEF Stale
  <2>2. CASE c.link = key
    BY <1>1, <1>3, <2>1, <2>2, ConstantsAssumption
       DEF Own, CopyBounded, LinkState, NoneAssumption, IInv, TypeOK
  <2>3. CASE c.link # key
    BY <1>3, <2>1, <2>3 DEF Own
  <2> QED
    BY <2>2, <2>3
<1> QED
  BY <1>4, <1>5, MeasuringKeepsOrder DEF new

\* The owner keeps the lead when copies only move, provided its own entry stays
\* or gives way to a later one while it is fresh.
LEMMA MovesKeepLead ==
    ASSUME IInv, TypeOK', OnlyMoves, seqGen' = seqGen, now' \in Nat, now' >= now,
           \A k \in Link :
              LET own == links[k[1]][k]
              IN  (own # None /\ ~Stale(own)) =>
                     links'[k[1]][k] # None /\ links'[k[1]][k].seq >= own.seq
    PROVE  OwnerHoldsLatest'
<1> SUFFICES ASSUME NEW c \in Copies', ~Stale(c)'
             PROVE  Own(c)' # None /\ Own(c)'.seq >= c.seq
  BY DEF OwnerHoldsLatest, Own
<1>1. c \in Copies
  BY MovesKeepOrder DEF IInv, TypeOK
<1>2. ~Stale(c)
  <2>1. c.ts \in Nat
    BY <1>1, OwnFacts DEF LinkState
  <2> QED
    BY <2>1, ConstantsAssumption DEF Stale, IInv, TypeOK, StalenessAssumption
<1>3. /\ Own(c) # None /\ Own(c).seq >= c.seq /\ ~Stale(Own(c))
      /\ c \in LinkState /\ c.link \in Link /\ c.link[1] \in Node
      /\ Own(c) \in LinkState
  BY <1>1, <1>2, OwnFacts, OwnStaleAllStale
<1>4. Own(c)' # None /\ Own(c)'.seq >= Own(c).seq
  BY <1>3 DEF Own
<1>5. Own(c)' \in LinkState
  BY <1>3, <1>4 DEF Own, TypeOK, Table
<1> QED
  BY <1>3, <1>4, <1>5 DEF LinkState

\* A merge keeps every entry or takes a later one of the same link.
LEMMA MergeAdvances ==
    ASSUME IInv, NEW n \in Node, NEW u \in Tables, NEW k \in Link, links[n][k] # None
    PROVE  /\ Merged(links[n], u)[k] # None
           /\ Merged(links[n], u)[k].seq >= links[n][k].seq
           /\ Merged(links[n], u)[k].ts >= links[n][k].ts
<1> DEFINE old == links[n][k]
<1> USE DEF IInv
<1>1. old \in Copies /\ old \in LinkState /\ old.link = k /\ CopyBounded(old)
  BY CopyFacts DEF KeyedByLink, CopiesBounded
<1>2. CASE Merged(links[n], u)[k] = old
  BY <1>1, <1>2 DEF LinkState
<1>3. CASE Merged(links[n], u)[k] # old
  <2>1. /\ Merged(links[n], u)[k] = u[k] /\ u[k] # None /\ Accepts(old, u[k])
    BY <1>3 DEF Merged
  <2>2. u[k] \in Copies /\ u[k] \in LinkState /\ u[k].link = k /\ CopyBounded(u[k])
    BY <2>1, CopyFacts DEF KeyedByLink, CopiesBounded
  <2>3. u[k].seq > old.seq
    BY <1>1, <2>1, <2>2 DEF Accepts, CopyBounded
  <2>4. u[k].ts >= old.ts
    BY <1>1, <2>2, <2>3 DEF SequenceOrdersMeasurements, LinkState
  <2> QED
    BY <1>1, <2>1, <2>2, <2>3, <2>4 DEF LinkState
<1> QED
  BY <1>2, <1>3

-----------------------------------------------------------------------------
(* The invariant is inductive *)

LEMMA InvInit == Init => IInv
<1> SUFFICES ASSUME Init PROVE IInv
  OBVIOUS
<1>1. TypeOK
  BY TypeInit
<1>2. \A t \in Tables : t = EmptyTable
  BY DEF Init, Tables
<1>3. Copies = {}
  BY <1>2 DEF Copies, EmptyTable
<1> QED
  BY <1>1, <1>2, <1>3
     DEF IInv, KeyedByLink, EmptyTable, CopiesBounded, SequenceOrdersMeasurements, OwnerHoldsLatest

\* Steps that leave the views and the sequence generators alone.
Transport ==
    \/ \E n \in Node : BroadcastLoop(n) \/ FullSyncElapsed(n)
    \/ Tick
    \/ UNCHANGED vars

LEMMA TransportKeeps == Transport => /\ links' = links /\ seqGen' = seqGen
                                     /\ now' = now \/ now' = now + 1
BY DEF Transport, BroadcastLoop, BroadcastNothing, BroadcastSend, MarkBroadcast, ResetTimer,
       FullSyncElapsed, Tick, vars, state

LEMMA InvStep == IInv /\ [Next]_vars => IInv'
<1> SUFFICES ASSUME IInv, [Next]_vars PROVE IInv'
  OBVIOUS
<1>1. TypeOK /\ TypeOK'
  BY TypeStep DEF IInv
<1>2. ASSUME NEW n \in Node, NEW p \in Probed[n], NEW q \in Quality, UpdateLocal(n, p, q)
      PROVE  IInv'
  BY <1>1, <1>2, MeasuringKeepsOrder, MeasuringKeepsLead DEF IInv
<1>3. ASSUME NEW n \in Node, PruneStale(n) PROVE IInv'
  <2>1. OnlyMoves
    BY <1>1, <1>3, CopiesOnlyMove
  <2>2. seqGen' = seqGen /\ now' = now
    BY <1>3 DEF PruneStale
  <2>3. \A i \in Node, k \in Link :
           links'[i][k] = links[i][k] \/ (links[i][k] # None /\ Stale(links[i][k]))
    BY <1>1, <1>3 DEF PruneStale, TypeOK, Table
  <2>4. \A k \in Link :
           links[k[1]][k] # None /\ ~Stale(links[k[1]][k]) =>
              links'[k[1]][k] # None /\ links'[k[1]][k].seq >= links[k[1]][k].seq
    <3> SUFFICES ASSUME NEW k \in Link, links[k[1]][k] # None, ~Stale(links[k[1]][k])
                 PROVE  links'[k[1]][k] # None /\ links'[k[1]][k].seq >= links[k[1]][k].seq
      OBVIOUS
    <3>1. links[k[1]][k] \in LinkState /\ links'[k[1]][k] = links[k[1]][k]
      BY <1>1, <2>3, LinkFacts DEF TypeOK, Table
    <3> QED
      BY <3>1 DEF LinkState
  <2> QED
    BY <1>1, <2>1, <2>2, <2>4, MovesKeepOrder, MovesKeepLead DEF IInv, TypeOK
<1>4. ASSUME NEW m \in msgs, NEW keep \in BOOLEAN, Receive(m, keep) PROVE IInv'
  <2>1. OnlyMoves
    BY <1>1, <1>4, CopiesOnlyMove
  <2>2. seqGen' = seqGen /\ now' = now /\ m.to \in Node /\ m.states \in Tables
    BY <1>1, <1>4, CopyFacts DEF Receive, TypeOK, Message
  <2>3. \A i \in Node : links'[i] = IF i = m.to THEN Merged(links[i], m.states) ELSE links[i]
    BY <1>1, <1>4, <2>2 DEF Receive, TypeOK
  <2>4. \A i \in Node, k \in Link :
           links[i][k] # None => links'[i][k] # None /\ links'[i][k].seq >= links[i][k].seq
    <3> SUFFICES ASSUME NEW i \in Node, NEW k \in Link, links[i][k] # None
                 PROVE  links'[i][k] # None /\ links'[i][k].seq >= links[i][k].seq
      OBVIOUS
    <3>1. links[i][k] \in LinkState
      BY <1>1 DEF TypeOK, Table
    <3> QED
      BY <2>2, <2>3, <3>1, MergeAdvances DEF LinkState
  <2> QED
    BY <1>1, <2>1, <2>2, <2>4, LinkFacts, MovesKeepOrder, MovesKeepLead DEF IInv, TypeOK
<1>5. ASSUME Transport PROVE IInv'
  <2>1. OnlyMoves
    BY <1>1, <1>5, CopiesOnlyMove DEF Transport
  <2>2. /\ links' = links /\ seqGen' = seqGen
        /\ now' \in Nat /\ now' >= now /\ \A n \in Node : seqGen'[n] >= seqGen[n]
    BY <1>1, <1>5, TransportKeeps DEF TypeOK
  <2>3. \A k \in Link : links[k[1]][k] # None => links'[k[1]][k].seq >= links[k[1]][k].seq
    BY <1>1, <2>2, LinkFacts DEF TypeOK, Table, LinkState
  <2> QED
    BY <1>1, <2>1, <2>2, <2>3, MovesKeepOrder, MovesKeepLead DEF IInv
<1> QED
  BY <1>2, <1>3, <1>4, <1>5 DEF Next, Transport

THEOREM Invariance == Spec => []IInv
BY InvInit, InvStep, PTL DEF Spec

-----------------------------------------------------------------------------
(* The properties *)

\* In every behaviour, wherever copies of a link's measurements are, a higher
\* sequence number was measured no earlier and one number names one measurement:
\* comparing numbers, as MergeRemote does, compares ages.
THEOREM SequenceOrder == Spec => []SequenceOrdersMeasurements
BY Invariance, PTL DEF IInv

\* In every behaviour, while any copy of a link is fresh the node that measures
\* the link holds an entry at least as new: MergeRemote never lets an echo
\* overwrite it and PruneStale never removes it first.
THEOREM OwnerLeads == Spec => []OwnerHoldsLatest
BY Invariance, PTL DEF IInv

\* One step never makes a view older.
LEMMA ViewStep ==
    ASSUME IInv, Next, NEW n \in Node, NEW k \in Link, links[n][k] # None
    PROVE  IF links'[n][k] = None THEN Stale(links[n][k])
           ELSE links'[n][k].seq >= links[n][k].seq /\ links'[n][k].ts >= links[n][k].ts
<1> DEFINE Goal == IF links'[n][k] = None THEN Stale(links[n][k])
                   ELSE links'[n][k].seq >= links[n][k].seq /\ links'[n][k].ts >= links[n][k].ts
<1> USE DEF IInv
<1>1. links[n][k] \in LinkState /\ links[n][k].link = k /\ CopyBounded(links[n][k])
  BY CopyFacts DEF KeyedByLink, CopiesBounded
<1>2. CASE links'[n][k] = links[n][k]
  BY <1>1, <1>2 DEF LinkState
<1>3. ASSUME NEW i \in Node, NEW p \in Probed[i], NEW q \in Quality, UpdateLocal(i, p, q)
      PROVE  Goal
  <2>1. /\ Measurement(i, p, q) \in LinkState
        /\ Measurement(i, p, q).seq = seqGen[i] + 1 /\ Measurement(i, p, q).ts = now
        /\ <<i, p>> \in Link
    BY MeasurementFacts, LinkFacts
  <2>2. links'[n][k] # links[n][k] =>
           i = n /\ k = <<i, p>> /\ links'[n][k] = Measurement(i, p, q)
    BY <1>3, <2>1 DEF UpdateLocal, TypeOK, Table
  <2>3. CASE links'[n][k] # links[n][k]
    <3>1. k[1] = i
      BY <2>2, <2>3
    <3> QED
      BY <1>1, <2>1, <2>2, <2>3, <3>1, ConstantsAssumption
         DEF CopyBounded, LinkState, TypeOK, NoneAssumption
  <2> QED
    BY <1>2, <2>3
<1>4. ASSUME NEW i \in Node, PruneStale(i) PROVE Goal
  <2>1. links'[n][k] # links[n][k] => links'[n][k] = None /\ Stale(links[n][k])
    BY <1>4 DEF PruneStale, TypeOK, Table
  <2> QED
    BY <1>2, <2>1
<1>5. ASSUME NEW m \in msgs, NEW keep \in BOOLEAN, Receive(m, keep) PROVE Goal
  <2>1. m.to \in Node /\ m.states \in Tables
    BY CopyFacts DEF TypeOK, Message
  <2>2. links'[n][k] # links[n][k] => links'[n][k] = Merged(links[n], m.states)[k]
    BY <1>5, <2>1 DEF Receive, TypeOK
  <2> QED
    BY <1>2, <2>1, <2>2, MergeAdvances
<1>6. CASE Transport
  BY <1>2, <1>6, TransportKeeps
<1> QED
  BY <1>3, <1>4, <1>5, <1>6 DEF Next, Transport

\* In every behaviour, whatever is lost, duplicated or overtaken, an entry of a
\* view is replaced only by a later measurement and forgotten only when stale.
THEOREM ViewMonotone == Spec => ViewNeverGoesBack
<1>1. IInv /\ [Next]_vars =>
         [\A n \in Node, k \in Link :
             links[n][k] # None =>
                IF links'[n][k] = None THEN Stale(links[n][k])
                ELSE links'[n][k].seq >= links[n][k].seq
                     /\ links'[n][k].ts >= links[n][k].ts]_vars
  BY ViewStep
<1> QED
  BY <1>1, Invariance, PTL DEF Spec, ViewNeverGoesBack
-----------------------------------------------------------------------------
(* Gossip implements the register *)

\* What a merge takes over is around, files under its link and is later.
LEMMA MergeLearns ==
    ASSUME IInv, NEW n \in Node, NEW u \in Tables, NEW k \in Link,
           Merged(links[n], u)[k] # links[n][k]
    PROVE  /\ Merged(links[n], u)[k] \in Copies
           /\ Merged(links[n], u)[k].link = k
           /\ links[n][k] # None => Merged(links[n], u)[k].seq > links[n][k].seq
<1> USE DEF IInv
<1>1. Merged(links[n], u)[k] = u[k] /\ u[k] # None /\ Accepts(links[n][k], u[k])
  BY DEF Merged
<1>2. u[k] \in Copies /\ u[k].link = k /\ CopyBounded(u[k])
  BY <1>1, CopyFacts DEF KeyedByLink, CopiesBounded
<1>3. ASSUME links[n][k] # None PROVE u[k].seq > links[n][k].seq
  <2>1. links[n][k].link = k /\ CopyBounded(links[n][k])
    BY <1>3, CopyFacts DEF KeyedByLink, CopiesBounded
  <2> QED
    BY <1>1, <1>2, <1>3, <2>1 DEF Accepts, CopyBounded
<1> QED
  BY <1>1, <1>2, <1>3

LEMMA RegisterInit == Init => Register!Init
<1> SUFFICES ASSUME Init PROVE Register!Init
  OBVIOUS
<1>1. \A t \in Tables : t = EmptyTable
  BY DEF Init, Tables
<1>2. Copies = {}
  BY <1>1 DEF Copies, EmptyTable
<1> QED
  BY <1>2 DEF Init, Register!Init, EmptyTable

LEMMA RegisterStep == IInv /\ [Next]_vars => [Register!Next]_(Register!vars)
<1> SUFFICES ASSUME IInv, [Next]_vars PROVE Register!Next \/ UNCHANGED Register!vars
  OBVIOUS
<1>1. TypeOK /\ TypeOK'
  BY TypeStep DEF IInv
<1>2. ASSUME OnlyMoves PROVE Copies' \subseteq Copies
  BY <1>2 DEF OnlyMoves, Copies
<1>3. ASSUME NEW n \in Node, NEW p \in Probed[n], NEW q \in Quality, UpdateLocal(n, p, q)
      PROVE  Register!Next
  <2> DEFINE new == Measurement(n, p, q)
             key == <<n, p>>
  <2>1. /\ new \in LinkState /\ new.link = key /\ new.seq = seqGen[n] + 1
        /\ key \in Link /\ key[1] = n
    BY <1>1, MeasurementFacts, LinkFacts
  <2>2. new # None
    BY <2>1, ConstantsAssumption DEF NoneAssumption
  <2>3. Copies' \subseteq Copies \cup {new}
    BY <1>1, <1>3, MeasuringKeepsOrder
  <2>4. seqGen' = [seqGen EXCEPT ![n] = @ + 1] /\ links' = [links EXCEPT ![n][key] = new]
    BY <1>3 DEF UpdateLocal
  <2> HIDE DEF new, key
  <2>5. links'[n][key] = new
    BY <1>1, <2>1, <2>4 DEF TypeOK, Table
  <2>6. Register!Write(key)
    BY <2>1, <2>2, <2>3, <2>4, <2>5 DEF Register!Write
  <2> QED
    BY <2>1, <2>6 DEF Register!Next
<1>4. ASSUME NEW n \in Node, PruneStale(n) PROVE Register!Next
  <2>1. Copies' \subseteq Copies
    BY <1>1, <1>2, <1>4, CopiesOnlyMove
  <2>2. /\ seqGen' = seqGen
        /\ links' = [links EXCEPT ![n] = links'[n]]
        /\ \A k \in Link : links'[n][k] \in {links[n][k], None}
    BY <1>1, <1>4 DEF PruneStale, TypeOK, Table
  <2>3. Register!Forget(n)
    BY <2>1, <2>2 DEF Register!Forget
  <2> QED
    BY <2>3 DEF Register!Next
<1>5. ASSUME NEW m \in msgs, NEW keep \in BOOLEAN, Receive(m, keep) PROVE Register!Next
  <2>1. Copies' \subseteq Copies
    BY <1>1, <1>2, <1>5, CopiesOnlyMove
  <2>2. m.to \in Node /\ m.states \in Tables
    BY <1>1, CopyFacts DEF TypeOK, Message
  <2>3. seqGen' = seqGen /\ links' = [links EXCEPT ![m.to] = Merged(@, m.states)]
    BY <1>5 DEF Receive
  <2>4. links'[m.to] = Merged(links[m.to], m.states)
    BY <1>1, <2>2, <2>3 DEF TypeOK
  <2>5. \A k \in Link :
           links'[m.to][k] # links[m.to][k] =>
              /\ links'[m.to][k] \in Copies
              /\ links'[m.to][k].link = k
              /\ links[m.to][k] # None => links'[m.to][k].seq > links[m.to][k].seq
    BY <2>2, <2>4, MergeLearns
  <2>6. Register!Learn(m.to)
    BY <2>1, <2>3, <2>4, <2>5 DEF Register!Learn
  <2> QED
    BY <2>2, <2>6 DEF Register!Next
<1>6. ASSUME Transport PROVE Register!Next
  <2>1. Copies' \subseteq Copies
    BY <1>1, <1>2, <1>6, CopiesOnlyMove DEF Transport
  <2>2. links' = links /\ seqGen' = seqGen
    BY <1>6, TransportKeeps
  <2> QED
    BY <2>1, <2>2 DEF Register!Next, Register!Vanish
<1> QED
  BY <1>3, <1>4, <1>5, <1>6 DEF Next, Transport

\* The link maps of every behaviour are views of a register per link that only
\* the measuring node writes: what the merge rule, the pruning and the network
\* do to them is to move on to later versions or to forget.
THEOREM GossipIsRegister == Spec => ImplementsRegister
<1> QED
  BY RegisterInit, RegisterStep, Invariance, PTL
     DEF Spec, ImplementsRegister, Register!Spec

-----------------------------------------------------------------------------
(* What is left when routers restart (RestartSpec): the order of the numbers *)
(* is lost, who measured what is not.                                        *)

\* A copy comes from the node that measures its link and is not from the future.
FromItsOwner == \A c \in Copies : c.origin = c.link[1] /\ c.ts <= now

RestartInv == TypeOK /\ KeyedByLink /\ FromItsOwner

\* A step adds at most one copy, a measurement of now by the link's own node.
LEMMA RestartStep ==
    RestartInv /\ [Next \/ \E n \in Node : Restart(n)]_vars => RestartInv'
<1> SUFFICES ASSUME RestartInv, [Next \/ \E n \in Node : Restart(n)]_vars PROVE RestartInv'
  OBVIOUS
<1> USE DEF RestartInv
<1>1. ASSUME NEW n \in Node, Restart(n) PROVE TypeOK' /\ OnlyMoves /\ now' = now
  <2>1. EmptyTable \in Table
    BY DEF EmptyTable, Table
  <2>2. TypeOK'
    BY <1>1, <2>1 DEF Restart, TypeOK
  <2>3. OnlyMoves
    BY <1>1, <2>1 DEF Restart, OnlyMoves, Tables, TypeOK, EmptyTable
  <2> QED
    BY <1>1, <2>2, <2>3 DEF Restart
<1>2. [Next]_vars => TypeOK'
  BY TypeStep
<1>3. TypeOK'
  BY <1>1, <1>2
<1>4. now \in Nat /\ now' \in Nat
  BY <1>3 DEF TypeOK
<1>5. ASSUME OnlyMoves, now' >= now PROVE RestartInv'
  <2>1. KeyedByLink'
    BY <1>5 DEF OnlyMoves, KeyedByLink
  <2>2. Copies' \subseteq Copies
    BY <1>5 DEF OnlyMoves, Copies
  <2>3. \A c \in Copies : c.ts \in Nat
    BY CopyFacts DEF LinkState
  <2>4. FromItsOwner'
    BY <1>4, <1>5, <2>2, <2>3 DEF FromItsOwner
  <2> QED
    BY <1>3, <2>1, <2>4
<1>6. ASSUME NEW n \in Node, NEW p \in Probed[n], NEW q \in Quality, UpdateLocal(n, p, q)
      PROVE  RestartInv'
  <2> DEFINE new == Measurement(n, p, q)
             key == <<n, p>>
  <2>1. /\ new \in LinkState /\ new.link = key /\ new.origin = n /\ new.ts = now
        /\ key \in Link /\ key[1] = n
    BY MeasurementFacts, LinkFacts
  <2> HIDE DEF new, key
  <2>2. links' = [links EXCEPT ![n][key] = new] /\ msgs' = msgs /\ now' = now
    BY <1>6 DEF UpdateLocal, new, key
  <2>3. \A t \in Tables', k \in Link :
           t[k] # None => \/ \E u \in Tables : u[k] = t[k]
                          \/ k = key /\ t[k] = new
    <3> SUFFICES ASSUME NEW t \in Tables', NEW k \in Link, t[k] # None
                 PROVE  (\E u \in Tables : u[k] = t[k]) \/ (k = key /\ t[k] = new)
      OBVIOUS
    <3>1. CASE t \in Tables
      BY <3>1
    <3>2. CASE \E i \in Node : t = links'[i]
      BY <3>2, <2>1, <2>2 DEF Tables, TypeOK, Table
    <3> QED
      BY <3>1, <3>2, <2>2 DEF Tables
  <2>4. KeyedByLink'
    BY <2>1, <2>3 DEF KeyedByLink
  <2>5. Copies' \subseteq Copies \cup {new}
    BY <2>3 DEF Copies
  <2>6. FromItsOwner'
    BY <1>4, <2>1, <2>2, <2>5 DEF FromItsOwner
  <2> QED
    BY <1>3, <2>4, <2>6
<1>7. ASSUME NEW n \in Node, PruneStale(n) PROVE RestartInv'
  <2>1. OnlyMoves
    BY <1>3, <1>7, CopiesOnlyMove
  <2> QED
    BY <1>4, <1>5, <1>7, <2>1 DEF PruneStale
<1>8. ASSUME NEW m \in msgs, NEW keep \in BOOLEAN, Receive(m, keep) PROVE RestartInv'
  <2>1. OnlyMoves
    BY <1>3, <1>8, CopiesOnlyMove
  <2> QED
    BY <1>4, <1>5, <1>8, <2>1 DEF Receive
<1>9. CASE Transport
  <2>1. OnlyMoves
    BY <1>3, <1>9, CopiesOnlyMove DEF Transport
  <2> QED
    BY <1>4, <1>5, <1>9, <2>1, TransportKeeps
<1>10. ASSUME NEW n \in Node, Restart(n) PROVE RestartInv'
  BY <1>1, <1>4, <1>5, <1>10
<1> QED
  BY <1>6, <1>7, <1>8, <1>9, <1>10 DEF Next, Transport

LEMMA RestartAlways == RestartSpec => []RestartInv
<1>1. Init => RestartInv
  BY InvInit DEF IInv, CopiesBounded, CopyBounded, RestartInv, FromItsOwner
<1> QED
  BY <1>1, RestartStep, PTL DEF RestartSpec

\* However often routers restart, no copy of a measurement anywhere is filed
\* under another link, attributed to a node that did not measure it or dated in
\* the future.  So MergeRemote always compares sequence numbers: its comparison
\* of timestamps, which could tell old from new after a restart, never runs.
THEOREM RestartsMixNothingUp == RestartSpec => [](TypeOK /\ KeyedByLink /\ FromItsOwner)
<1>1. RestartInv => TypeOK /\ KeyedByLink /\ FromItsOwner
  BY DEF RestartInv
<1> QED
  BY <1>1, RestartAlways, PTL

\* What other routers know of a link only moves on to higher numbers.
OthersKeepHigherNumber ==
    [][\A n \in Node, k \in Link :
          k[1] # n /\ links[n][k] # None /\ links'[n][k] # None
             => links'[n][k].seq >= links[n][k].seq]_vars

\* A restart goes unnoticed: a router that knows a link from before its owner
\* restarted keeps that entry, and refuses every new measurement of the link,
\* until the owner has counted past it or the entry is pruned.
THEOREM RestartIsNotNoticed == RestartSpec => OthersKeepHigherNumber
<1>1. ASSUME RestartInv, Next \/ (\E n \in Node : Restart(n)),
             NEW n \in Node, NEW k \in Link,
             k[1] # n, links[n][k] # None, links'[n][k] # None
      PROVE  links'[n][k].seq >= links[n][k].seq
  <2> DEFINE Goal == links'[n][k].seq >= links[n][k].seq
  <2> USE <1>1 DEF RestartInv
  <2>1. links[n][k] \in LinkState /\ links[n][k].link = k /\ links[n][k].origin = k[1]
    BY CopyFacts DEF KeyedByLink, FromItsOwner
  <2>2. CASE links'[n][k] = links[n][k]
    BY <2>1, <2>2 DEF LinkState
  <2>3. ASSUME NEW i \in Node, NEW p \in Probed[i], NEW q \in Quality, UpdateLocal(i, p, q)
        PROVE  Goal
    <3>1. links' = [links EXCEPT ![i][<<i, p>>] = Measurement(i, p, q)] /\ k # <<n, p>>
      BY <2>3 DEF UpdateLocal
    <3>2. links'[n][k] = links[n][k]
      BY <3>1 DEF TypeOK, Table
    <3> QED
      BY <2>2, <3>2
  <2>4. ASSUME NEW i \in Node, PruneStale(i) PROVE Goal
    <3>1. links'[n][k] = links[n][k]
      BY <2>4 DEF PruneStale, TypeOK, Table
    <3> QED
      BY <2>2, <3>1
  <2>5. ASSUME NEW m \in msgs, NEW keep \in BOOLEAN, Receive(m, keep) PROVE Goal
    <3>1. m.to \in Node /\ m.states \in Tables /\ m.states \in Table
      BY CopyFacts DEF TypeOK, Message
    <3>2. CASE links'[n][k] # links[n][k]
      <4>1. m.to = n /\ links'[n] = Merged(links[n], m.states)
        BY <2>5, <3>1, <3>2 DEF Receive, TypeOK
      <4>2. links'[n][k] = m.states[k] /\ m.states[k] # None /\ Accepts(links[n][k], m.states[k])
        BY <3>2, <4>1 DEF Merged
      <4>3. m.states[k] \in LinkState /\ m.states[k].origin = k[1]
        BY <3>1, <4>2, CopyFacts DEF KeyedByLink, FromItsOwner
      <4> QED
        BY <2>1, <4>2, <4>3 DEF Accepts, LinkState
    <3> QED
      BY <2>2, <3>2
  <2>6. CASE Transport
    BY <2>2, <2>6, TransportKeeps
  <2>7. ASSUME NEW i \in Node, Restart(i) PROVE Goal
    <3>1. links'[n][k] \in {links[n][k], None}
      BY <2>7 DEF Restart, EmptyTable, TypeOK, Table
    <3> QED
      BY <2>2, <3>1
  <2> QED
    BY <2>3, <2>4, <2>5, <2>6, <2>7 DEF Next, Transport
<1>2. RestartInv /\ [Next \/ \E n \in Node : Restart(n)]_vars =>
         [\A n \in Node, k \in Link :
             k[1] # n /\ links[n][k] # None /\ links'[n][k] # None
                => links'[n][k].seq >= links[n][k].seq]_vars
  BY <1>1
<1> QED
  BY <1>2, RestartAlways, PTL DEF RestartSpec, OthersKeepHigherNumber
=============================================================================
