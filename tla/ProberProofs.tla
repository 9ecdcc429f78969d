---------------------------- MODULE ProberProofs ----------------------------
(***************************************************************************)
(* Proofs about the prober for every set of neighbours, window size and    *)
(* number of overlapping probes.                                           *)
(***************************************************************************)
EXTENDS Prober, FiniteSetTheorems, TLAPS

\* computeResult reads slots of the ring only.
LEMMA ReadOrderInRing ==
    ASSUME NEW w \in Nat, NEW i \in DOMAIN ReadOrder(w)
    PROVE  i \in 1..WindowSize /\ ReadOrder(w)[i] \in Slot
<1>1. WindowSize \in Nat \ {0}
  BY ProberAssumption
<1>2. i \in 1..(IF w < WindowSize THEN w ELSE WindowSize)
  BY DEF ReadOrder
<1>3. i \in 1..WindowSize
  BY <1>1, <1>2
<1>4. ReadOrder(w)[i] = IF w > WindowSize THEN (w - WindowSize + i - 1) % WindowSize ELSE i - 1
  BY <1>2 DEF ReadOrder
<1>5. \A x \in Int : x % WindowSize \in 0..WindowSize - 1
  BY <1>1
<1> QED
  BY <1>1, <1>3, <1>4, <1>5 DEF Slot

-----------------------------------------------------------------------------
(* The inductive invariant *)

Running == {ProbeOf(g) : g \in probes}

\* A slot that holds a success holds the RTT of a probe of this neighbour.
OwnRTTs ==
    \A n \in Neighbor : \A i \in Slot :
        history[n][i] => rtts[n][i] \in Probe /\ rtts[n][i].to = n

\* A number belongs to one neighbour: it is drawn once for all of them.
OneOwner ==
    /\ \A p, q \in Running \cup pings : p.seq = q.seq => p.to = q.to
    /\ \A p \in Running \cup pings : p.seq <= seqGen
    /\ \A n \in Neighbor : pendingSeq[n] <= seqGen
    /\ \A n \in Neighbor : \A p \in Running \cup pings : pendingSeq[n] = p.seq => p.to = n

IInv == TypeOK /\ AliveMeansHeard /\ OwnLatency /\ OwnRTTs /\ OneOwner

\* What the samples of a window are.
LEMMA SamplesFacts ==
    ASSUME NEW n \in Neighbor, NEW w \in Nat, NEW h \in [Slot -> BOOLEAN],
           NEW r \in [Slot -> Probe \cup {NoRTT}],
           \A i \in Slot : h[i] => r[i] \in Probe /\ r[i].to = n
    PROVE  /\ Samples(w, h, r) \in Average
           /\ \A i \in DOMAIN Samples(w, h, r) : Samples(w, h, r)[i].to = n
           /\ DOMAIN Samples(w, h, r) # {} => \E i \in Slot : h[i]
<1> DEFINE S == {j \in DOMAIN ReadOrder(w) : h[ReadOrder(w)[j]]}
<1>1. S \in SUBSET (1..WindowSize)
  BY ReadOrderInRing
<1>2. \A i \in S : ReadOrder(w)[i] \in Slot /\ h[ReadOrder(w)[i]]
  BY ReadOrderInRing
<1>3. Samples(w, h, r) = [i \in S |-> r[ReadOrder(w)[i]]]
  BY DEF Samples
<1>4. Samples(w, h, r) \in [S -> Probe]
  BY <1>2, <1>3
<1> HIDE DEF S
<1>5. Samples(w, h, r) \in Average
  BY <1>1, <1>4 DEF Average
<1>6. DOMAIN Samples(w, h, r) = S
  BY <1>3
<1>7. \A i \in S : Samples(w, h, r)[i].to = n
  BY <1>2, <1>3
<1> QED
  BY <1>2, <1>5, <1>6, <1>7

\* Recording an outcome keeps the window's parts of the invariant, if a success
\* carries the RTT of a probe of that neighbour.
LEMMA RecordInv ==
    ASSUME IInv, NEW n \in Neighbor, NEW ok \in BOOLEAN, NEW rtt \in Probe \cup {NoRTT},
           ok => rtt \in Probe /\ rtt.to = n,
           Record(n, ok, rtt)
    PROVE  /\ writeIdx' \in [Neighbor -> Nat]
           /\ history' \in [Neighbor -> [Slot -> BOOLEAN]]
           /\ rtts' \in [Neighbor -> [Slot -> Probe \cup {NoRTT}]]
           /\ alive' \in [Neighbor -> BOOLEAN]
           /\ latency' \in [Neighbor -> Average]
           /\ AliveMeansHeard' /\ OwnLatency' /\ OwnRTTs'
<1> DEFINE slot == writeIdx[n] % WindowSize
           h == [history[n] EXCEPT ![slot] = ok]
           r == [rtts[n] EXCEPT ![slot] = rtt]
           samples == Samples(writeIdx[n] + 1, h, r)
<1>1. /\ writeIdx \in [Neighbor -> Nat] /\ history \in [Neighbor -> [Slot -> BOOLEAN]]
      /\ rtts \in [Neighbor -> [Slot -> Probe \cup {NoRTT}]]
      /\ alive \in [Neighbor -> BOOLEAN] /\ latency \in [Neighbor -> Average]
  BY DEF IInv, TypeOK
<1>2. slot \in Slot
  <2>1. WindowSize \in Nat \ {0} /\ writeIdx[n] \in Nat
    BY <1>1, ProberAssumption
  <2> QED
    BY <2>1 DEF Slot
<1>3. /\ history' = [history EXCEPT ![n] = h] /\ rtts' = [rtts EXCEPT ![n] = r]
      /\ writeIdx' = [writeIdx EXCEPT ![n] = @ + 1]
      /\ latency' = [latency EXCEPT ![n] = IF DOMAIN samples = {} THEN @ ELSE samples]
  BY <1>1, <1>2 DEF Record
<1>4. PICK up \in IF ok THEN {TRUE} ELSE AliveAfter(alive[n], samples) :
         alive' = [alive EXCEPT ![n] = up]
  BY DEF Record
<1>5. h \in [Slot -> BOOLEAN] /\ r \in [Slot -> Probe \cup {NoRTT}]
  BY <1>1, <1>2
<1>6. \A i \in Slot : h[i] => r[i] \in Probe /\ r[i].to = n
  BY <1>1, <1>2 DEF IInv, OwnRTTs
<1>7. writeIdx[n] + 1 \in Nat
  BY <1>1
<1> HIDE DEF h, r
<1>8. /\ samples \in Average
      /\ \A i \in DOMAIN samples : samples[i].to = n
      /\ DOMAIN samples # {} => \E i \in Slot : h[i]
  BY <1>5, <1>6, <1>7, SamplesFacts
<1>9. ok => h[slot] = TRUE
  BY <1>1, <1>2 DEF h
<1> HIDE DEF samples, slot
<1>10. up \in BOOLEAN /\ (up => \E i \in Slot : h[i])
  BY <1>1, <1>2, <1>4, <1>8, <1>9 DEF AliveAfter
<1>11. AliveMeansHeard'
  BY <1>1, <1>3, <1>4, <1>10 DEF AliveMeansHeard, IInv
<1>12. OwnLatency'
  BY <1>1, <1>3, <1>8 DEF OwnLatency, IInv
<1>13. OwnRTTs'
  BY <1>1, <1>3, <1>6 DEF OwnRTTs, IInv
<1> QED
  BY <1>1, <1>3, <1>4, <1>5, <1>8, <1>10, <1>11, <1>12, <1>13

\* The goroutines keep their numbers while they move on.
LEMMA OneOwnerStable ==
    ASSUME OneOwner, (Running \cup pings)' \subseteq Running \cup pings,
           seqGen' = seqGen, pendingSeq' = pendingSeq
    PROVE  OneOwner'
BY DEF OneOwner

LEMMA InitInv == Init => IInv
<1> SUFFICES ASSUME Init PROVE IInv
  OBVIOUS
<1>1. MaxSeq \in Nat
  BY ProberAssumption
<1>2. [i \in {} |-> NoRTT] \in Average
  <2>1. [i \in {} |-> NoRTT] \in [{} -> Probe]
    OBVIOUS
  <2> QED
    BY <2>1 DEF Average
<1> DEFINE zero == [i \in {} |-> NoRTT]
<1>3. latency = [n \in Neighbor |-> zero]
  BY DEF Init
<1> HIDE DEF zero
<1>4. latency \in [Neighbor -> Average]
  BY <1>2, <1>3 DEF zero
<1>5. TypeOK
  <2>1. history \in [Neighbor -> [Slot -> BOOLEAN]] /\ rtts \in [Neighbor -> [Slot -> Probe \cup {NoRTT}]]
    BY DEF Init
  <2>2. responded \in [Neighbor -> BOOLEAN] /\ alive \in [Neighbor -> BOOLEAN]
    BY DEF Init
  <2>3. seqGen \in 0..MaxSeq /\ pendingSeq \in [Neighbor -> 0..MaxSeq] /\ writeIdx \in [Neighbor -> Nat]
    BY <1>1 DEF Init
  <2> QED
    BY <1>4, <2>1, <2>2, <2>3 DEF Init, TypeOK
<1>6. OwnLatency
  BY <1>3 DEF OwnLatency, zero
<1> QED
  BY <1>5, <1>6 DEF Init, IInv, AliveMeansHeard, OwnRTTs, OneOwner, Running

LEMMA NextInv == IInv /\ [Next]_vars => IInv'
<1> SUFFICES ASSUME IInv, [Next]_vars PROVE IInv'
  OBVIOUS
<1> USE DEF IInv
<1>1. ASSUME NEW p \in pings, RecordPong(p) PROVE IInv'
  <2>1. PICK n \in Neighbor : /\ pendingSeq[n] = p.seq
                              /\ responded' = [responded EXCEPT ![n] = TRUE]
                              /\ Record(n, TRUE, p)
    BY <1>1 DEF RecordPong
  <2>2. p \in Probe /\ p.to = n
    BY <2>1 DEF TypeOK, OneOwner
  <2>3. /\ writeIdx' \in [Neighbor -> Nat] /\ history' \in [Neighbor -> [Slot -> BOOLEAN]]
        /\ rtts' \in [Neighbor -> [Slot -> Probe \cup {NoRTT}]]
        /\ alive' \in [Neighbor -> BOOLEAN] /\ latency' \in [Neighbor -> Average]
        /\ AliveMeansHeard' /\ OwnLatency' /\ OwnRTTs'
    BY <2>1, <2>2, RecordInv
  <2>4. responded' \in [Neighbor -> BOOLEAN]
    <3>1. responded \in [Neighbor -> BOOLEAN]
      BY DEF TypeOK
    <3> QED
      BY <2>1, <3>1
  <2>6. outcomes' \subseteq [probe : Probe, ok : BOOLEAN]
    <3> DEFINE o == [probe |-> p, ok |-> TRUE]
    <3>1. o \in [probe : Probe, ok : BOOLEAN]
      BY <2>2
    <3>2. outcomes' = outcomes \cup {o}
      BY <1>1 DEF RecordPong
    <3> HIDE DEF o
    <3> QED
      BY <3>1, <3>2 DEF TypeOK
  <2>5. OneOwner'
    BY <1>1, OneOwnerStable DEF RecordPong, Running
  <2> QED
    BY <1>1, <2>3, <2>4, <2>5, <2>6 DEF RecordPong, TypeOK
<1>2. ASSUME NEW n \in Neighbor, Unresolved(n) PROVE IInv'
  <2>1. /\ writeIdx' \in [Neighbor -> Nat] /\ history' \in [Neighbor -> [Slot -> BOOLEAN]]
        /\ rtts' \in [Neighbor -> [Slot -> Probe \cup {NoRTT}]]
        /\ alive' \in [Neighbor -> BOOLEAN] /\ latency' \in [Neighbor -> Average]
        /\ AliveMeansHeard' /\ OwnLatency' /\ OwnRTTs'
    BY <1>2, RecordInv DEF Unresolved
  <2>2. OneOwner'
    BY <1>2, OneOwnerStable DEF Unresolved, Running
  <2> QED
    BY <1>2, <2>1, <2>2 DEF Unresolved, TypeOK
<1>3. ASSUME NEW n \in Neighbor, Assign(n) PROVE IInv'
  <2> DEFINE new == [to |-> n, seq |-> seqGen + 1, pc |-> "assigned"]
  <2>1. /\ seqGen' = seqGen + 1 /\ probes' = probes \cup {new}
        /\ UNCHANGED <<pendingSeq, responded, window, pings, outcomes, stopped>>
    BY <1>3 DEF Assign, NextSeq
  <2>2. seqGen \in 0..MaxSeq /\ seqGen < MaxSeq /\ MaxSeq \in Nat
    BY <1>3, ProberAssumption DEF Assign, TypeOK
  <2>3. new \in Goroutine
    BY <2>2 DEF Goroutine
  <2>4. TypeOK'
    BY <2>1, <2>2, <2>3 DEF TypeOK, window
  <2>5. Running' = Running \cup {[to |-> n, seq |-> seqGen + 1]}
    <3>1. ProbeOf(new) = [to |-> n, seq |-> seqGen + 1]
      BY DEF ProbeOf
    <3> HIDE DEF new
    <3> QED
      BY <2>1, <3>1 DEF Running
  <2>6. \A p \in Running \cup pings : p.seq \in 1..MaxSeq
    BY DEF Running, ProbeOf, TypeOK, Goroutine, Probe
  <2>7. \A m \in Neighbor : pendingSeq[m] \in 0..MaxSeq
    BY DEF TypeOK
  <2>8. OneOwner'
    BY <2>1, <2>2, <2>5, <2>6, <2>7 DEF OneOwner
  <2> QED
    BY <2>1, <2>4, <2>8 DEF AliveMeansHeard, OwnLatency, OwnRTTs, window
<1>4. ASSUME NEW g \in probes PROVE /\ g \in Goroutine /\ g.to \in Neighbor /\ g.seq \in 1..MaxSeq
                                    /\ ProbeOf(g) \in Probe /\ ProbeOf(g) \in Running
  BY DEF TypeOK, Goroutine, ProbeOf, Probe, Running
<1>5. ASSUME NEW g \in probes, NEW pc \in {"assigned", "registered", "waiting", "failing"},
             probes' = Moved(g, pc)
      PROVE  probes' \subseteq Goroutine /\ Running' = Running
  <2>1. [g EXCEPT !.pc = pc] \in Goroutine /\ ProbeOf([g EXCEPT !.pc = pc]) = ProbeOf(g)
    BY <1>4 DEF Goroutine, ProbeOf
  <2> QED
    BY <1>5, <2>1 DEF Moved, Running, TypeOK
<1>6. ASSUME NEW g \in probes, Register(g) PROVE IInv'
  <2>1. probes' \subseteq Goroutine /\ Running' = Running
    BY <1>5, <1>6 DEF Register
  <2>2. g.to \in Neighbor /\ g.seq \in 1..MaxSeq /\ ProbeOf(g) \in Running
        /\ ProbeOf(g).seq = g.seq /\ ProbeOf(g).to = g.to
    BY <1>4 DEF ProbeOf
  <2>3. TypeOK'
    BY <1>6, <2>1, <2>2 DEF Register, TypeOK, window
  <2>4. \A n \in Neighbor : pendingSeq'[n] = IF n = g.to THEN g.seq ELSE pendingSeq[n]
    BY <1>6 DEF Register, TypeOK
  <2>5. OneOwner'
    BY <1>6, <2>1, <2>2, <2>4 DEF Register, OneOwner
  <2> QED
    BY <1>6, <2>3, <2>5 DEF Register, AliveMeansHeard, OwnLatency, OwnRTTs, window
<1>7. ASSUME NEW g \in probes, Send(g) PROVE IInv'
  <2>1. probes' \subseteq Goroutine /\ Running' = Running
    BY <1>5, <1>7 DEF Send
  <2>2. OneOwner'
    BY <1>4, <1>7, <2>1, OneOwnerStable DEF Send
  <2> QED
    BY <1>4, <1>7, <2>1, <2>2 DEF Send, TypeOK, AliveMeansHeard, OwnLatency, OwnRTTs, window
<1>8. ASSUME NEW g \in probes, SendFails(g) PROVE IInv'
  <2>1. probes' \subseteq Goroutine /\ Running' = Running
    BY <1>5, <1>8 DEF SendFails
  <2>2. OneOwner'
    BY <1>8, <2>1, OneOwnerStable DEF SendFails
  <2> QED
    BY <1>8, <2>1, <2>2 DEF SendFails, TypeOK, AliveMeansHeard, OwnLatency, OwnRTTs, window
<1>9. ASSUME NEW g \in probes, Timeout(g) PROVE IInv'
  <2>1. probes' \subseteq Goroutine /\ Running' \subseteq Running
    <3>1. CASE responded[g.to]
      BY <1>9, <3>1 DEF Timeout, Running, TypeOK
    <3>2. CASE ~responded[g.to]
      BY <1>5, <1>9, <3>2 DEF Timeout
    <3> QED
      BY <3>1, <3>2
  <2>2. OneOwner'
    BY <1>9, <2>1, OneOwnerStable DEF Timeout
  <2> QED
    BY <1>9, <2>1, <2>2 DEF Timeout, TypeOK, AliveMeansHeard, OwnLatency, OwnRTTs, window
<1>10. ASSUME NEW g \in probes, RecordFailure(g) PROVE IInv'
  <2>1. /\ writeIdx' \in [Neighbor -> Nat] /\ history' \in [Neighbor -> [Slot -> BOOLEAN]]
        /\ rtts' \in [Neighbor -> [Slot -> Probe \cup {NoRTT}]]
        /\ alive' \in [Neighbor -> BOOLEAN] /\ latency' \in [Neighbor -> Average]
        /\ AliveMeansHeard' /\ OwnLatency' /\ OwnRTTs'
    BY <1>4, <1>10, RecordInv DEF RecordFailure
  <2>2. probes' \subseteq probes
    BY <1>10 DEF RecordFailure
  <2>3. OneOwner'
    BY <1>10, <2>2, OneOwnerStable DEF RecordFailure, Running
  <2>4. outcomes' \subseteq [probe : Probe, ok : BOOLEAN]
    <3> DEFINE o == [probe |-> ProbeOf(g), ok |-> FALSE]
    <3>1. o \in [probe : Probe, ok : BOOLEAN]
      BY <1>4
    <3>2. outcomes' = outcomes \cup {o}
      BY <1>10 DEF RecordFailure
    <3> HIDE DEF o
    <3> QED
      BY <3>1, <3>2 DEF TypeOK
  <2>5. probes' \subseteq Goroutine /\ pings' \subseteq Probe /\ seqGen' \in 0..MaxSeq
        /\ pendingSeq' \in [Neighbor -> 0..MaxSeq] /\ responded' \in [Neighbor -> BOOLEAN]
        /\ stopped' \in BOOLEAN
    BY <1>10, <2>2 DEF RecordFailure, TypeOK
  <2> QED
    BY <2>1, <2>3, <2>4, <2>5 DEF TypeOK
<1>11. ASSUME NEW g \in probes, Abandon(g) PROVE IInv'
  <2>1. OneOwner'
    BY <1>11, OneOwnerStable DEF Abandon, Running
  <2> QED
    BY <1>11, <2>1 DEF Abandon, TypeOK, AliveMeansHeard, OwnLatency, OwnRTTs, window
<1>12. ASSUME Stop \/ UNCHANGED vars PROVE IInv'
  <2>1. UNCHANGED <<seqGen, pendingSeq, responded, window, probes, pings, outcomes>>
        /\ stopped' \in BOOLEAN
    BY <1>12 DEF Stop, vars, TypeOK
  <2>2. OneOwner'
    BY <2>1, OneOwnerStable DEF Running
  <2> QED
    BY <2>1, <2>2 DEF TypeOK, AliveMeansHeard, OwnLatency, OwnRTTs, window
<1> QED
  BY <1>1, <1>2, <1>3, <1>6, <1>7, <1>8, <1>9, <1>10, <1>11, <1>12 DEF Next, ProbeSingle

\* The inductive invariant holds however PONGs are delayed, repeated or lost
\* and however many probes overlap.
THEOREM Invariance == Spec => []IInv
<1> QED
  BY InitInv, NextInv, PTL DEF Spec

-----------------------------------------------------------------------------
(* Theorems *)

\* The ring is only indexed inside its bounds, and a latency averages measured
\* RTTs only.
THEOREM TypeCorrect == Spec => []TypeOK
<1>1. IInv => TypeOK
  BY DEF IInv
<1> QED
  BY <1>1, Invariance, PTL

\* A neighbour reported alive has a success in its window, for every window size.
THEOREM AliveWasHeard == Spec => []AliveMeansHeard
<1>1. IInv => AliveMeansHeard
  BY DEF IInv
<1> QED
  BY <1>1, Invariance, PTL

\* Sequence numbers suffice to tell the neighbours apart: no RTT is ever
\* credited to another neighbour, whatever PONGs arrive and in whatever order.
THEOREM Attribution == Spec => []OwnLatency
<1>1. IInv => OwnLatency
  BY DEF IInv
<1> QED
  BY <1>1, Invariance, PTL

-----------------------------------------------------------------------------
(* Probes that do not overlap                                                *)

\* A neighbour with one probe at a time: the number of the running probe is
\* pending from its registration on, and newer than what is pending before.
Alone ==
    /\ IsFiniteSet(probes)
    /\ \A g, h \in probes : MaxProbes[g.to] = 1 /\ g.to = h.to => g = h
    /\ \A g \in probes : MaxProbes[g.to] = 1 =>
          IF g.pc = "assigned" THEN pendingSeq[g.to] < g.seq ELSE pendingSeq[g.to] = g.seq

LEMMA AloneKept ==
    ASSUME Alone, probes' \subseteq probes, pendingSeq' = pendingSeq
    PROVE  Alone'
<1>1. IsFiniteSet(probes')
  BY FS_Subset DEF Alone
<1> QED
  BY <1>1 DEF Alone

\* What is among the goroutines after one of them moved on.
LEMMA MovedOn ==
    ASSUME TypeOK, NEW g \in probes, NEW pc, probes' = Moved(g, pc), NEW h \in probes'
    PROVE  \/ h \in probes /\ h # g
           \/ h = [g EXCEPT !.pc = pc] /\ h.to = g.to /\ h.seq = g.seq /\ h.pc = pc
              /\ ProbeOf(h) = ProbeOf(g)
<1>1. g \in Goroutine
  BY DEF TypeOK
<1> QED
  BY <1>1 DEF Moved, Goroutine, ProbeOf

LEMMA AloneMoved ==
    ASSUME TypeOK, Alone, NEW g \in probes, NEW pc, pc # "assigned", probes' = Moved(g, pc),
           MaxProbes[g.to] = 1 => pendingSeq'[g.to] = g.seq,
           \A n : n # g.to => pendingSeq'[n] = pendingSeq[n]
    PROVE  Alone'
<1> DEFINE new == [g EXCEPT !.pc = pc]
<1>1. \A h \in probes' :
          \/ h \in probes /\ h # g
          \/ h = new /\ h.to = g.to /\ h.seq = g.seq /\ h.pc = pc
  BY MovedOn
<1>2. IsFiniteSet(probes')
  <2>1. IsFiniteSet(probes \ {g})
    BY FS_RemoveElement DEF Alone
  <2> HIDE DEF new
  <2>2. probes' = (probes \ {g}) \cup {new}
    BY DEF Moved, new
  <2> QED
    BY <2>1, <2>2, FS_AddElement
<1> HIDE DEF new
<1>3. ASSUME NEW h \in probes, h # g, MaxProbes[h.to] = 1 PROVE h.to # g.to
  BY <1>3 DEF Alone
<1>4. ASSUME NEW a \in probes', NEW b \in probes', MaxProbes[a.to] = 1, a.to = b.to PROVE a = b
  <2>1. CASE a \in probes /\ a # g /\ b \in probes /\ b # g
    BY <1>4, <2>1 DEF Alone
  <2>2. CASE (a = new /\ a.to = g.to) \/ (b = new /\ b.to = g.to)
    BY <1>1, <1>3, <1>4, <2>2
  <2> QED
    BY <1>1, <2>1, <2>2
<1>5. ASSUME NEW a \in probes', MaxProbes[a.to] = 1
      PROVE  IF a.pc = "assigned" THEN pendingSeq'[a.to] < a.seq ELSE pendingSeq'[a.to] = a.seq
  <2>1. CASE a \in probes /\ a # g
    BY <1>3, <1>5, <2>1 DEF Alone
  <2>2. CASE a.to = g.to /\ a.seq = g.seq /\ a.pc = pc
    BY <1>5, <2>2
  <2> QED
    BY <1>1, <2>1, <2>2
<1> QED
  BY <1>2, <1>4, <1>5 DEF Alone

LEMMA AloneAssigned ==
    ASSUME IInv, Alone, NEW n \in Neighbor, Assign(n)
    PROVE  Alone'
<1> DEFINE new == [to |-> n, seq |-> seqGen + 1, pc |-> "assigned"]
           same == {g \in probes : g.to = n}
<1>1. probes' = probes \cup {new} /\ pendingSeq' = pendingSeq
  BY DEF Assign, NextSeq
<1>2. IsFiniteSet(probes')
  <2> HIDE DEF new
  <2> QED
    BY <1>1, FS_AddElement DEF Alone
<1>3. MaxProbes[n] = 1 => same = {}
  <2>1. IsFiniteSet(same)
    BY FS_Subset DEF Alone
  <2>2. Cardinality(same) < MaxProbes[n]
    BY DEF Assign
  <2> HIDE DEF same
  <2>3. Cardinality(same) \in Nat
    BY <2>1, FS_CardinalityType
  <2> QED
    BY <2>1, <2>2, <2>3, FS_EmptySet
<1>4. pendingSeq[n] \in Nat /\ seqGen \in Nat /\ pendingSeq[n] <= seqGen
  BY ProberAssumption DEF IInv, TypeOK, OneOwner
<1>5. new.to = n /\ new.seq = seqGen + 1 /\ new.pc = "assigned"
  OBVIOUS
<1> HIDE DEF new
<1>6. \A a, b \in probes' : MaxProbes[a.to] = 1 /\ a.to = b.to => a = b
  BY <1>1, <1>3, <1>5 DEF Alone
<1>7. \A a \in probes' : MaxProbes[a.to] = 1 =>
          IF a.pc = "assigned" THEN pendingSeq'[a.to] < a.seq ELSE pendingSeq'[a.to] = a.seq
  BY <1>1, <1>4, <1>5 DEF Alone
<1> QED
  BY <1>2, <1>6, <1>7 DEF Alone

LEMMA AloneStep == IInv /\ Alone /\ [Next]_vars => Alone'
<1> SUFFICES ASSUME IInv, Alone, [Next]_vars PROVE Alone'
  OBVIOUS
<1>0. TypeOK
  BY DEF IInv
<1>1. ASSUME NEW p \in pings, RecordPong(p) PROVE Alone'
  BY <1>1, AloneKept DEF RecordPong
<1>2. ASSUME NEW n \in Neighbor, Unresolved(n) PROVE Alone'
  BY <1>2, AloneKept DEF Unresolved
<1>3. ASSUME NEW g \in probes, Register(g) PROVE Alone'
  <2>1. \A n : n # g.to => pendingSeq'[n] = pendingSeq[n]
    BY <1>0, <1>3 DEF Register, TypeOK
  <2>2. pendingSeq'[g.to] = g.seq
    BY <1>0, <1>3 DEF Register, TypeOK, Goroutine
  <2> QED
    BY <1>0, <1>3, <2>1, <2>2, AloneMoved DEF Register
<1>4. ASSUME NEW g \in probes, NEW pc \in {"registered", "waiting", "failing"},
             g.pc # "assigned", probes' = Moved(g, pc), pendingSeq' = pendingSeq
      PROVE  Alone'
  <2>1. MaxProbes[g.to] = 1 => pendingSeq'[g.to] = g.seq
    BY <1>4 DEF Alone
  <2> QED
    BY <1>0, <1>4, <2>1, AloneMoved
<1>5. ASSUME NEW g \in probes, Send(g) \/ SendFails(g) PROVE Alone'
  BY <1>4, <1>5 DEF Send, SendFails
<1>6. ASSUME NEW g \in probes, Timeout(g) PROVE Alone'
  <2>1. CASE responded[g.to]
    BY <1>6, <2>1, AloneKept DEF Timeout
  <2>2. CASE ~responded[g.to]
    BY <1>4, <1>6, <2>2 DEF Timeout
  <2> QED
    BY <2>1, <2>2
<1>7. ASSUME NEW g \in probes, RecordFailure(g) \/ Abandon(g) PROVE Alone'
  BY <1>7, AloneKept DEF RecordFailure, Abandon
<1>8. ASSUME Stop \/ UNCHANGED vars PROVE Alone'
  BY <1>8, AloneKept DEF Stop, vars
<1> QED
  BY <1>1, <1>2, <1>3, <1>5, <1>6, <1>7, <1>8, AloneAssigned DEF Next, ProbeSingle

LEMMA AloneInvariant == Spec => [](IInv /\ Alone)
<1>1. Init => Alone
  BY FS_EmptySet DEF Init, Alone
<1> QED
  BY <1>1, InitInv, NextInv, AloneStep, PTL DEF Spec

\* The flag that a probe looks at when its timer fires was raised by its own
\* PONG, as long as the probes of the neighbour do not overlap.
OwnFlag ==
    \A g \in probes :
        MaxProbes[g.to] = 1 /\ g.pc # "assigned" /\ responded[g.to] =>
            \E o \in outcomes : o.probe = ProbeOf(g)

OutcomeInv == NoOutcomeLost /\ OwnFlag

\* Where nothing but the place of a goroutine changes, and the probe of one that
\* ends has an outcome, the invariant is kept.
LEMMA OutcomesKept ==
    ASSUME OutcomeInv, outcomes \subseteq outcomes', pings' = pings, responded' = responded,
           ~stopped' => ~stopped,
           \A h \in probes' : \E g \in probes :
               ProbeOf(h) = ProbeOf(g) /\ h.to = g.to /\ (h.pc # "assigned" => g.pc # "assigned"),
           \A g \in probes : ~stopped' /\ MaxProbes[g.to] = 1 =>
               \/ \E h \in probes' : ProbeOf(h) = ProbeOf(g)
               \/ \E o \in outcomes' : o.probe = ProbeOf(g)
    PROVE  OutcomeInv'
<1>1. OwnFlag'
  BY DEF OutcomeInv, OwnFlag
<1>2. \A g \in probes : ProbeOf(g).to = g.to
  BY DEF ProbeOf
<1>3. NoOutcomeLost'
  BY <1>2 DEF OutcomeInv, NoOutcomeLost
<1> QED
  BY <1>1, <1>3 DEF OutcomeInv

LEMMA OutcomeStep == IInv /\ Alone /\ OutcomeInv /\ [Next]_vars => OutcomeInv'
<1> SUFFICES ASSUME IInv, Alone, OutcomeInv, [Next]_vars PROVE OutcomeInv'
  OBVIOUS
<1>0. TypeOK /\ OneOwner
  BY DEF IInv
<1>a. ASSUME NEW g \in probes
      PROVE  ProbeOf(g) \in Probe /\ ProbeOf(g) \in Running /\ ProbeOf(g).to = g.to /\ g.to \in Neighbor
  BY <1>0 DEF TypeOK, Goroutine, ProbeOf, Probe, Running
<1>1. ASSUME NEW p \in pings, RecordPong(p) PROVE OutcomeInv'
  <2>1. PICK n \in Neighbor : pendingSeq[n] = p.seq /\ responded' = [responded EXCEPT ![n] = TRUE]
    BY <1>1 DEF RecordPong
  <2>2. p \in Probe /\ p.to = n
    BY <1>0, <2>1 DEF TypeOK, OneOwner
  <2> DEFINE o == [probe |-> p, ok |-> TRUE]
  <2>3. o.probe = p /\ outcomes' = outcomes \cup {o}
    BY <1>1 DEF RecordPong
  <2> HIDE DEF o
  <2>4. UNCHANGED <<probes, pings, stopped, pendingSeq>>
    BY <1>1 DEF RecordPong
  <2>5. NoOutcomeLost'
    BY <2>3, <2>4 DEF OutcomeInv, NoOutcomeLost
  <2>6. ASSUME NEW g \in probes, MaxProbes[g.to] = 1, g.pc # "assigned", responded'[g.to]
        PROVE  \E x \in outcomes' : x.probe = ProbeOf(g)
    <3>1. CASE g.to = n
      <4>1. g.seq = p.seq
        BY <2>1, <2>6, <3>1 DEF Alone
      <4>2. ProbeOf(g) = p
        BY <2>2, <3>1, <4>1 DEF ProbeOf, Probe
      <4> QED
        BY <2>3, <4>2
    <3>2. CASE g.to # n
      <4>1. responded[g.to]
        BY <1>0, <1>a, <2>1, <2>6, <3>2 DEF TypeOK
      <4> QED
        BY <2>3, <2>6, <4>1 DEF OutcomeInv, OwnFlag
    <3> QED
      BY <3>1, <3>2
  <2>7. OwnFlag'
    BY <2>4, <2>6 DEF OwnFlag
  <2> QED
    BY <2>5, <2>7 DEF OutcomeInv
<1>2. ASSUME NEW n \in Neighbor, Unresolved(n) PROVE OutcomeInv'
  BY <1>2 DEF Unresolved, OutcomeInv, NoOutcomeLost, OwnFlag
<1>3. ASSUME NEW n \in Neighbor, Assign(n) PROVE OutcomeInv'
  <2> DEFINE new == [to |-> n, seq |-> seqGen + 1, pc |-> "assigned"]
  <2>1. new.pc = "assigned" /\ probes' = probes \cup {new}
        /\ UNCHANGED <<pendingSeq, responded, pings, outcomes, stopped>>
    BY <1>3 DEF Assign, NextSeq
  <2> HIDE DEF new
  <2> QED
    BY <2>1 DEF OutcomeInv, NoOutcomeLost, OwnFlag
<1>4. ASSUME NEW g \in probes, Register(g) PROVE OutcomeInv'
  <2>1. \A h \in probes' :
          \/ h \in probes /\ h # g
          \/ h.to = g.to /\ ProbeOf(h) = ProbeOf(g)
    BY <1>0, <1>4, MovedOn DEF Register
  <2>2. responded'[g.to] = FALSE /\ \A m \in Neighbor : m # g.to => responded'[m] = responded[m]
    BY <1>0, <1>4, <1>a DEF Register, TypeOK
  <2>3. \A h \in probes' : h.to \in Neighbor
    BY <1>a, <2>1
  <2>4. OwnFlag'
    BY <1>4, <2>1, <2>2, <2>3 DEF Register, OutcomeInv, OwnFlag
  <2>5. \E h \in probes' : ProbeOf(h) = ProbeOf(g)
    <3>1. ProbeOf([g EXCEPT !.pc = "registered"]) = ProbeOf(g)
      BY <1>0 DEF TypeOK, Goroutine, ProbeOf
    <3> QED
      BY <1>4, <3>1 DEF Register, Moved
  <2>6. \A h \in probes : h # g => h \in probes'
    BY <1>4 DEF Register, Moved
  <2>7. NoOutcomeLost'
    BY <1>4, <2>5, <2>6 DEF Register, OutcomeInv, NoOutcomeLost
  <2> QED
    BY <2>4, <2>7 DEF OutcomeInv
<1>5. ASSUME NEW g \in probes, NEW pc \in {"waiting", "failing"}, g.pc # "assigned",
             probes' = Moved(g, pc), UNCHANGED <<responded, outcomes, stopped>>,
             pings' = pings \/ pings' = pings \cup {ProbeOf(g)}
      PROVE  OutcomeInv'
  <2>1. \A h \in probes' : \E f \in probes :
          ProbeOf(h) = ProbeOf(f) /\ h.to = f.to /\ (h.pc # "assigned" => f.pc # "assigned")
    BY <1>0, <1>5, MovedOn
  <2>2. \A f \in probes : \E h \in probes' : ProbeOf(h) = ProbeOf(f)
    <3>1. ProbeOf([g EXCEPT !.pc = pc]) = ProbeOf(g)
      BY <1>0 DEF TypeOK, Goroutine, ProbeOf
    <3> QED
      BY <1>5, <3>1 DEF Moved
  <2>3. OwnFlag'
    BY <1>5, <2>1 DEF OutcomeInv, OwnFlag
  <2>4. NoOutcomeLost'
    BY <1>5, <2>2 DEF OutcomeInv, NoOutcomeLost
  <2> QED
    BY <2>3, <2>4 DEF OutcomeInv
<1>6. ASSUME NEW g \in probes, Send(g) \/ SendFails(g) PROVE OutcomeInv'
  BY <1>5, <1>6 DEF Send, SendFails
<1>7. ASSUME NEW g \in probes, Timeout(g) PROVE OutcomeInv'
  <2>1. CASE responded[g.to]
    <3>1. MaxProbes[g.to] = 1 => \E o \in outcomes : o.probe = ProbeOf(g)
      BY <1>7, <2>1 DEF Timeout, OutcomeInv, OwnFlag
    <3> QED
      BY <1>7, <2>1, <3>1, OutcomesKept DEF Timeout
  <2>2. CASE ~responded[g.to]
    BY <1>5, <1>7, <2>2 DEF Timeout
  <2> QED
    BY <2>1, <2>2
<1>8. ASSUME NEW g \in probes, RecordFailure(g) PROVE OutcomeInv'
  <2> DEFINE o == [probe |-> ProbeOf(g), ok |-> FALSE]
  <2>1. o.probe = ProbeOf(g) /\ outcomes' = outcomes \cup {o}
    BY <1>8 DEF RecordFailure
  <2> HIDE DEF o
  <2> QED
    BY <1>8, <2>1, OutcomesKept DEF RecordFailure
<1>9. ASSUME NEW g \in probes, Abandon(g) PROVE OutcomeInv'
  BY <1>9, OutcomesKept DEF Abandon
<1>10. ASSUME Stop PROVE OutcomeInv'
  BY <1>10, OutcomesKept DEF Stop
<1>11. ASSUME UNCHANGED vars PROVE OutcomeInv'
  BY <1>11, OutcomesKept DEF vars
<1> QED
  BY <1>1, <1>2, <1>3, <1>4, <1>6, <1>7, <1>8, <1>9, <1>10, <1>11 DEF Next, ProbeSingle

\* A probe that ended left an outcome, however late its PONG was, for every
\* neighbour whose probes do not overlap.
THEOREM OutcomesAreKept == Spec => []NoOutcomeLost
<1>1. Init => OutcomeInv
  BY DEF Init, OutcomeInv, NoOutcomeLost, OwnFlag
<1>2. OutcomeInv => NoOutcomeLost
  BY DEF OutcomeInv
<1> QED
  BY <1>1, <1>2, AloneInvariant, OutcomeStep, PTL DEF Spec

-----------------------------------------------------------------------------
(* The order of the window                                                   *)

LEMMA DivMod ==
    ASSUME NEW W \in Nat \ {0}, NEW x \in Int
    PROVE  x \div W \in Int /\ x = W * (x \div W) + (x % W) /\ x % W \in 0..W - 1
OBVIOUS

LEMMA SmallMod ==
    ASSUME NEW W \in Nat \ {0}, NEW x \in 0..W - 1
    PROVE  x % W = x
OBVIOUS

LEMMA SmallMultiple ==
    ASSUME NEW W \in Nat \ {0}, NEW q \in Int, 0 <= W * q, W * q < W
    PROVE  q = 0
<1>1. CASE q >= 1
  <2>1. W * q >= W * 1
    BY <1>1
  <2> QED
    BY <2>1
<1>2. CASE q <= -1
  <2>1. W * q <= W * (-1)
    BY <1>2
  <2> QED
    BY <2>1
<1> QED
  BY <1>1, <1>2

\* Outcomes less than a window apart are in different slots.
LEMMA DifferentSlots ==
    ASSUME NEW W \in Nat \ {0}, NEW j \in Nat, NEW k \in Nat, j <= k, k - j < W, j % W = k % W
    PROVE  j = k
<1> DEFINE a == j \div W
           b == k \div W
<1>1. a \in Int /\ b \in Int /\ j = W * a + (j % W) /\ k = W * b + (k % W)
  BY DivMod
<1>2. j % W \in Int /\ k % W \in Int
  BY DivMod
<1> HIDE DEF a, b
<1>3. k - j = W * b - W * a
  BY <1>1, <1>2
<1>4. W * b - W * a = W * (b - a)
  BY <1>1
<1>5. b - a = 0
  BY <1>1, <1>3, <1>4, SmallMultiple
<1> QED
  BY <1>1, <1>5

\* The outcomes that are still in the ring after w of them, by their number.
Recent(w) == {k \in Nat : k < w /\ w <= k + WindowSize}

\* Among the recent outcomes the RTTs are in the order of their probes, none of
\* which comes after the probe numbered top.
Ordered(w, h, r, top) ==
    /\ \A k \in Recent(w) : h[k % WindowSize] => r[k % WindowSize].seq <= top
    /\ \A j, k \in Recent(w) : j <= k /\ h[j % WindowSize] /\ h[k % WindowSize] =>
          r[j % WindowSize].seq <= r[k % WindowSize].seq

\* Recording a timeout, or the newest probe, keeps the order.
LEMMA OrderedRecord ==
    ASSUME NEW w \in Nat, NEW top \in Nat,
           NEW h \in [Slot -> BOOLEAN], NEW r \in [Slot -> Probe \cup {NoRTT}],
           Ordered(w, h, r, top), NEW ok \in BOOLEAN, NEW rtt, ok => rtt.seq = top
    PROVE  Ordered(w + 1, [h EXCEPT ![w % WindowSize] = ok], [r EXCEPT ![w % WindowSize] = rtt], top)
<1> DEFINE s == w % WindowSize
           h1 == [h EXCEPT ![s] = ok]
           r1 == [r EXCEPT ![s] = rtt]
<1>1. WindowSize \in Nat \ {0}
  BY ProberAssumption
<1>2. \A k \in Nat : k % WindowSize \in Slot
  BY <1>1, DivMod DEF Slot
<1>3. h1[s] = ok /\ r1[s] = rtt
  BY <1>2
<1>4. ASSUME NEW k \in Recent(w + 1), k # w
      PROVE  /\ k \in Recent(w) /\ k < w
             /\ h1[k % WindowSize] = h[k % WindowSize] /\ r1[k % WindowSize] = r[k % WindowSize]
  <2>1. k \in Nat /\ k < w /\ w - k < WindowSize /\ k \in Recent(w)
    BY <1>1, <1>4 DEF Recent
  <2>2. k % WindowSize # s
    <3> SUFFICES ASSUME k % WindowSize = w % WindowSize PROVE FALSE
      OBVIOUS
    <3>1. k \in Nat /\ k <= w /\ w - k < WindowSize
      BY <2>1
    <3>2. k = w
      BY <1>1, <3>1, DifferentSlots
    <3> QED
      BY <1>4, <3>2
  <2> QED
    BY <1>2, <2>1, <2>2
<1> HIDE DEF h1, r1
<1>5. ASSUME NEW k \in Recent(w + 1), h1[k % WindowSize] PROVE r1[k % WindowSize].seq <= top
  <2>1. CASE k = w
    BY <1>3, <1>5, <2>1
  <2>2. CASE k # w
    BY <1>4, <1>5, <2>2 DEF Ordered
  <2> QED
    BY <2>1, <2>2
<1>6. ASSUME NEW j \in Recent(w + 1), NEW k \in Recent(w + 1), j <= k,
             h1[j % WindowSize], h1[k % WindowSize]
      PROVE  r1[j % WindowSize].seq <= r1[k % WindowSize].seq
  <2>1. CASE k = w
    <3>1. r1[k % WindowSize].seq = top
      BY <1>3, <1>6, <2>1
    <3> QED
      BY <1>5, <1>6, <3>1
  <2>2. CASE k # w
    <3>1. j # w
      BY <1>4, <1>6, <2>2 DEF Recent
    <3> QED
      BY <1>4, <1>6, <2>2, <3>1 DEF Ordered
  <2> QED
    BY <2>1, <2>2
<1> QED
  BY <1>5, <1>6 DEF Ordered, h1, r1

\* Each slot computeResult reads belongs to a recent outcome, the oldest first.
LEMMA ReadOrderRecent ==
    ASSUME NEW w \in Nat, NEW i \in DOMAIN ReadOrder(w)
    PROVE  LET start == IF w > WindowSize THEN w - WindowSize ELSE 0
           IN  start + i - 1 \in Recent(w) /\ ReadOrder(w)[i] = (start + i - 1) % WindowSize
<1>1. WindowSize \in Nat \ {0}
  BY ProberAssumption
<1>2. i \in 1..(IF w < WindowSize THEN w ELSE WindowSize)
  BY DEF ReadOrder
<1>3. ReadOrder(w)[i] = IF w > WindowSize THEN (w - WindowSize + i - 1) % WindowSize ELSE i - 1
  BY <1>2 DEF ReadOrder
<1>4. CASE w > WindowSize
  BY <1>1, <1>2, <1>3, <1>4 DEF Recent
<1>5. CASE ~(w > WindowSize)
  <2>1. i - 1 \in 0..WindowSize - 1 /\ i - 1 \in Recent(w)
    BY <1>1, <1>2, <1>5 DEF Recent
  <2>2. (i - 1) % WindowSize = i - 1
    BY <1>1, <2>1, SmallMod
  <2> QED
    BY <1>1, <1>2, <1>3, <1>5, <2>1, <2>2
<1> QED
  BY <1>4, <1>5

LEMMA SamplesOrdered ==
    ASSUME NEW w \in Nat, NEW h, NEW r, NEW top, Ordered(w, h, r, top),
           NEW i \in DOMAIN Samples(w, h, r), NEW j \in DOMAIN Samples(w, h, r), i < j
    PROVE  Samples(w, h, r)[i].seq <= Samples(w, h, r)[j].seq
<1> DEFINE start == IF w > WindowSize THEN w - WindowSize ELSE 0
<1>1. /\ i \in DOMAIN ReadOrder(w) /\ h[ReadOrder(w)[i]] /\ Samples(w, h, r)[i] = r[ReadOrder(w)[i]]
      /\ j \in DOMAIN ReadOrder(w) /\ h[ReadOrder(w)[j]] /\ Samples(w, h, r)[j] = r[ReadOrder(w)[j]]
  BY DEF Samples
<1>2. /\ start + i - 1 \in Recent(w) /\ ReadOrder(w)[i] = (start + i - 1) % WindowSize
      /\ start + j - 1 \in Recent(w) /\ ReadOrder(w)[j] = (start + j - 1) % WindowSize
  BY <1>1, ReadOrderRecent
<1>3. start + i - 1 <= start + j - 1
  <2>1. i \in Int /\ j \in Int /\ start \in Int
    BY <1>1, ProberAssumption DEF ReadOrder
  <2> QED
    BY <2>1
<1> HIDE DEF start
<1> QED
  BY <1>1, <1>2, <1>3 DEF Ordered

OrderInv ==
    /\ \A n \in Neighbor : MaxProbes[n] = 1 =>
          Ordered(writeIdx[n], history[n], rtts[n], pendingSeq[n])
    /\ SamplesInOrder

LEMMA RecordOrder ==
    ASSUME TypeOK, OrderInv, NEW n \in Neighbor, NEW ok \in BOOLEAN, NEW rtt,
           ok => rtt.seq = pendingSeq[n], pendingSeq' = pendingSeq, Record(n, ok, rtt)
    PROVE  OrderInv'
<1> DEFINE slot == writeIdx[n] % WindowSize
           h == [history[n] EXCEPT ![slot] = ok]
           r == [rtts[n] EXCEPT ![slot] = rtt]
           samples == Samples(writeIdx[n] + 1, h, r)
<1>1. /\ writeIdx \in [Neighbor -> Nat] /\ history \in [Neighbor -> [Slot -> BOOLEAN]]
      /\ rtts \in [Neighbor -> [Slot -> Probe \cup {NoRTT}]]
      /\ latency \in [Neighbor -> Average] /\ pendingSeq[n] \in Nat
  BY ProberAssumption DEF TypeOK
<1>2. /\ history' = [history EXCEPT ![n] = h] /\ rtts' = [rtts EXCEPT ![n] = r]
      /\ writeIdx' = [writeIdx EXCEPT ![n] = @ + 1]
      /\ latency' = [latency EXCEPT ![n] = IF DOMAIN samples = {} THEN @ ELSE samples]
  BY <1>1 DEF Record
<1>3. MaxProbes[n] = 1 => Ordered(writeIdx[n] + 1, h, r, pendingSeq[n])
  BY <1>1, OrderedRecord DEF OrderInv
<1>4. MaxProbes[n] = 1 => \A i, j \in DOMAIN samples : i < j => samples[i].seq <= samples[j].seq
  <2>1. writeIdx[n] + 1 \in Nat
    BY <1>1
  <2> HIDE DEF h, r
  <2> QED
    BY <1>3, <2>1, SamplesOrdered
<1> HIDE DEF h, r, samples
<1>5. SamplesInOrder'
  BY <1>1, <1>2, <1>4 DEF OrderInv, SamplesInOrder
<1>6. \A m \in Neighbor : MaxProbes[m] = 1 =>
          Ordered(writeIdx'[m], history'[m], rtts'[m], pendingSeq'[m])
  BY <1>1, <1>2, <1>3 DEF OrderInv
<1> QED
  BY <1>5, <1>6 DEF OrderInv

LEMMA OrderStep == IInv /\ Alone /\ OrderInv /\ [Next]_vars => OrderInv'
<1> SUFFICES ASSUME IInv, Alone, OrderInv, [Next]_vars PROVE OrderInv'
  OBVIOUS
<1>0. TypeOK /\ OneOwner
  BY DEF IInv
<1>1. ASSUME NEW p \in pings, RecordPong(p) PROVE OrderInv'
  BY <1>0, <1>1, RecordOrder DEF RecordPong
<1>2. ASSUME NEW n \in Neighbor, Unresolved(n) PROVE OrderInv'
  BY <1>0, <1>2, RecordOrder DEF Unresolved
<1>3. ASSUME NEW g \in probes, RecordFailure(g) PROVE OrderInv'
  <2>1. g.to \in Neighbor
    BY <1>0 DEF TypeOK, Goroutine
  <2> QED
    BY <1>0, <1>3, <2>1, RecordOrder DEF RecordFailure
<1>4. ASSUME NEW g \in probes, Register(g) PROVE OrderInv'
  <2>1. /\ \A m \in Neighbor : m # g.to => pendingSeq'[m] = pendingSeq[m]
        /\ pendingSeq'[g.to] = g.seq /\ g.seq \in Nat /\ g.to \in Neighbor
    BY <1>0, <1>4 DEF Register, TypeOK, Goroutine
  <2>2. MaxProbes[g.to] = 1 => pendingSeq[g.to] < g.seq
    BY <1>4 DEF Register, Alone
  <2>3. pendingSeq[g.to] \in Nat
    BY <1>0, <2>1, ProberAssumption DEF TypeOK
  <2>4. MaxProbes[g.to] = 1 => Ordered(writeIdx[g.to], history[g.to], rtts[g.to], g.seq)
    <3> SUFFICES ASSUME MaxProbes[g.to] = 1, NEW k \in Recent(writeIdx[g.to]),
                        history[g.to][k % WindowSize]
                 PROVE  rtts[g.to][k % WindowSize].seq <= g.seq
      BY <2>1 DEF OrderInv, Ordered
    <3>1. rtts[g.to][k % WindowSize].seq <= pendingSeq[g.to]
      BY <2>1 DEF OrderInv, Ordered
    <3>2. k % WindowSize \in Slot
      BY DivMod, ProberAssumption DEF Recent, Slot
    <3>3. rtts[g.to][k % WindowSize].seq \in Nat
      BY <2>1, <3>2 DEF IInv, OwnRTTs, Probe
    <3> QED
      BY <2>1, <2>2, <2>3, <3>1, <3>3
  <2> QED
    BY <1>4, <2>1, <2>4 DEF Register, OrderInv, SamplesInOrder, window
<1>5. ASSUME UNCHANGED <<window, pendingSeq>> PROVE OrderInv'
  BY <1>5 DEF OrderInv, SamplesInOrder, window
<1>6. ASSUME NEW g \in probes, Send(g) \/ SendFails(g) \/ Timeout(g) \/ Abandon(g) PROVE OrderInv'
  BY <1>5, <1>6 DEF Send, SendFails, Timeout, Abandon
<1>7. ASSUME NEW n \in Neighbor, Assign(n) PROVE OrderInv'
  BY <1>5, <1>7 DEF Assign
<1>8. ASSUME Stop \/ UNCHANGED vars PROVE OrderInv'
  BY <1>5, <1>8 DEF Stop, vars
<1> QED
  BY <1>1, <1>2, <1>3, <1>4, <1>6, <1>7, <1>8 DEF Next, ProbeSingle

\* The latency averages RTTs from older to newer probes, for every window size
\* and over any number of rounds through the ring, where probes do not overlap.
THEOREM WindowInOrder == Spec => []SamplesInOrder
<1>1. Init => OrderInv
  BY DEF Init, OrderInv, SamplesInOrder, Ordered, Recent
<1>2. OrderInv => SamplesInOrder
  BY DEF OrderInv
<1> QED
  BY <1>1, <1>2, AloneInvariant, OrderStep, PTL DEF Spec
=============================================================================
