--------------------------- MODULE ConnPoolProofs ---------------------------
(***************************************************************************)
(* Proofs of the pool's safety properties for any number of workers and    *)
(* sockets.                                                                *)
(***************************************************************************)
EXTENDS ConnPool, FiniteSetTheorems, TLAPS

\* A connection between dial and put is open and belongs to one worker only:
\* it is neither in the pool nor in the hands of another.
OwnDialled ==
    \A w \in Worker : pc[w] = "put" =>
        /\ held[w] \in open
        /\ held[w] # cached
        /\ \A v \in Worker : v # w => held[v] # held[w]

IInv == TypeOK /\ CachedIsOpen /\ NoLeak /\ OwnDialled

LEMMA InitInv == Init => IInv
BY DEF Init, IInv, TypeOK, CachedIsOpen, NoLeak, OwnDialled

LEMMA NextInv == IInv /\ [Next]_vars => IInv'
<1> SUFFICES ASSUME IInv, [Next]_vars PROVE IInv'
  OBVIOUS
<1> USE ConnPoolAssumption DEF IInv, TypeOK, Goto, Hold, Return
<1>1. ASSUME NEW w \in Worker, Lookup(w) \/ SecondLookup(w) PROVE IInv'
  BY <1>1 DEF Lookup, SecondLookup, CachedIsOpen, NoLeak, OwnDialled
<1>2. ASSUME NEW w \in Worker, DialLocked(w) PROVE IInv'
  BY <1>2 DEF DialLocked, Fresh, CachedIsOpen, NoLeak, OwnDialled
<1>3. ASSUME NEW w \in Worker, WriteSucceeds(w) \/ Fail(w) PROVE IInv'
  BY <1>3 DEF WriteSucceeds, Fail, CachedIsOpen, NoLeak, OwnDialled
<1>4. ASSUME NEW w \in Worker, WriteFails(w) PROVE IInv'
  BY <1>4 DEF WriteFails, CachedIsOpen, NoLeak, OwnDialled
<1>5. ASSUME NEW w \in Worker, Evict(w) PROVE IInv'
  BY <1>5 DEF Evict, CachedIsOpen, NoLeak, OwnDialled
<1>6. ASSUME NEW w \in Worker, Redial(w) PROVE IInv'
  BY <1>6 DEF Redial, Fresh, CachedIsOpen, NoLeak, OwnDialled
<1>7. ASSUME NEW w \in Worker, Put(w) PROVE IInv'
  BY <1>7 DEF Put, CachedIsOpen, NoLeak, OwnDialled
<1>8. CASE Close
  BY <1>8 DEF Close, CachedIsOpen, NoLeak, OwnDialled
<1>9. CASE UNCHANGED vars
  BY <1>9 DEF vars, CachedIsOpen, NoLeak, OwnDialled
<1> QED
  BY <1>1, <1>2, <1>3, <1>4, <1>5, <1>6, <1>7, <1>8, <1>9 DEF Next, Send

\* The inductive invariant holds for every interleaving of the workers.
THEOREM Invariance == Spec => []IInv
<1> QED
  BY InitInv, NextInv, PTL DEF Spec

-----------------------------------------------------------------------------
(* Theorems *)

\* A worker never writes on no connection at all.
THEOREM TypeCorrect == Spec => []TypeOK
<1>1. IInv => TypeOK
  BY DEF IInv
<1> QED
  BY <1>1, Invariance, PTL

\* Whatever the workers close, the pool's connection is open.
THEOREM NothingClosedIsCached == Spec => []CachedIsOpen
<1>1. IInv => CachedIsOpen
  BY DEF IInv
<1> QED
  BY <1>1, Invariance, PTL

\* Whatever fails, no open socket is left behind.
THEOREM NoSocketLost == Spec => []NoLeak
<1>1. IInv => NoLeak
  BY DEF IInv
<1> QED
  BY <1>1, Invariance, PTL

\* The sockets of an address are bounded by the workers, whatever fails and
\* however often: one in the pool, and one that each worker has dialled again
\* but not put yet.  A burst of write errors cannot pile up open sockets.
THEOREM SocketsAreBounded ==
    ASSUME IsFiniteSet(Worker)
    PROVE  Spec => [](IsFiniteSet(open) /\ Cardinality(open) <= Cardinality(Worker) + 1)
<1> DEFINE inHand == {held[w] : w \in Worker}
<1>1. ASSUME NoLeak PROVE open \subseteq inHand \cup {cached}
  BY <1>1 DEF NoLeak
<1>2. IsFiniteSet(inHand) /\ Cardinality(inHand) <= Cardinality(Worker)
  <2>1. [w \in Worker |-> held[w]] \in Surjection(Worker, inHand)
    BY DEF Surjection
  <2> HIDE DEF inHand
  <2> QED
    BY <2>1, FS_Surjection
<1> HIDE DEF inHand
<1>3. /\ IsFiniteSet(inHand \cup {cached})
      /\ Cardinality(inHand \cup {cached}) <= Cardinality(Worker) + 1
  <2>1. Cardinality(inHand) \in Nat /\ Cardinality(Worker) \in Nat
    BY <1>2, FS_CardinalityType
  <2>2. /\ IsFiniteSet(inHand \cup {cached})
        /\ Cardinality(inHand \cup {cached}) \in {Cardinality(inHand), Cardinality(inHand) + 1}
    BY <1>2, FS_AddElement
  <2> QED
    BY <1>2, <2>1, <2>2
<1>4. NoLeak => IsFiniteSet(open) /\ Cardinality(open) <= Cardinality(Worker) + 1
  <2> SUFFICES ASSUME NoLeak
               PROVE  IsFiniteSet(open) /\ Cardinality(open) <= Cardinality(Worker) + 1
    OBVIOUS
  <2>1. /\ IsFiniteSet(open) /\ Cardinality(open) \in Nat
        /\ Cardinality(open) <= Cardinality(inHand \cup {cached})
        /\ Cardinality(inHand \cup {cached}) \in Nat
    BY <1>1, <1>3, FS_Subset, FS_CardinalityType
  <2> QED
    BY <1>3, <2>1, FS_CardinalityType
<1> QED
  BY <1>4, NoSocketLost, PTL
=============================================================================
