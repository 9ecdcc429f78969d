------------------------------- MODULE Prober -------------------------------
(***************************************************************************)
(* The prober of one router (metrics/probe.go): for every neighbour a      *)
(* ticker starts probeSingle goroutines, each of which registers a sequence*)
(* number, sends a PING and looks after a timeout whether listenLoop saw   *)
(* the PONG.  PINGs and PONGs are UDP datagrams: lost, late or duplicated. *)
(*                                                                         *)
(* An RTT is represented by the probe it measures; an averaged latency by  *)
(* the RTTs averaged, at their places in the window, 1 being the oldest.   *)
(***************************************************************************)
EXTENDS Integers, FiniteSets

CONSTANTS
    Neighbor,
    NoRTT,         \* the zero RTT of a timeout
    WindowSize,    \* ProbeConfig.WindowSize
    MaxProbes,     \* MaxProbes[n]: probes of n running at a time
    MaxSeq,        \* bound on seqGen
    MaxOutcomes    \* bound on the outcomes of one neighbour

ASSUME ProberAssumption ==
    /\ WindowSize \in Nat \ {0}
    /\ MaxProbes \in [Neighbor -> Nat \ {0}]
    /\ MaxSeq \in Nat /\ MaxOutcomes \in Nat

VARIABLES
    seqGen,       \* Prober.seqGen
    pendingSeq,   \* probeState.pendingSeq, .responded, .writeIdx of each neighbour
    responded,
    writeIdx,
    history,      \* history[n][i]: did the probe in slot i succeed?
    rtts,         \* rtts[n][i]: the probe whose RTT is in slot i, or NoRTT
    alive,        \* result.Alive
    latency,      \* result.LatencyMs
    probes,       \* the running probeSingle goroutines
    pings,        \* the PINGs that went out
    outcomes,     \* what was recorded for each probe (kept for the properties)
    stopped       \* stopCh is closed

window == <<writeIdx, history, rtts, alive, latency>>
vars == <<seqGen, pendingSeq, responded, window, probes, pings, outcomes, stopped>>

Probe == [to : Neighbor, seq : 1..MaxSeq]
Goroutine == [to : Neighbor, seq : 1..MaxSeq, pc : {"assigned", "registered", "waiting", "failing"}]
Slot == 0..WindowSize - 1

Average == UNION {[S -> Probe] : S \in SUBSET (1..WindowSize)}

ProbeOf(g) == [to |-> g.to, seq |-> g.seq]

-----------------------------------------------------------------------------
(* computeResult *)

\* Mutant: reads the ring from slot 0 on.
ReadOrder_FromSlotZero(w) ==
    [i \in 1..(IF w < WindowSize THEN w ELSE WindowSize) |-> i - 1]

\* The slots of the window from the oldest to the newest outcome.
ReadOrder(w) ==
    [i \in 1..(IF w < WindowSize THEN w ELSE WindowSize) |->
        IF w > WindowSize THEN (w - WindowSize + i - 1) % WindowSize ELSE i - 1]

\* Mutant: timeouts count with their zero RTT.
Samples_WithTimeouts(w, h, r) == [i \in DOMAIN ReadOrder(w) |-> r[ReadOrder(w)[i]]]

\* The RTTs that enter the average, by their place in the window.
Samples(w, h, r) ==
    [i \in {j \in DOMAIN ReadOrder(w) : h[ReadOrder(w)[j]]} |-> r[ReadOrder(w)[i]]]

\* Mutant: only an old LastSeen clears Alive.
AliveAfter_NoLossRule(was, samples) == {was, FALSE}

\* Total loss clears Alive, and so may the age of LastSeen, which is set as
\* soon as there is a sample.
AliveAfter(was, samples) == IF DOMAIN samples = {} THEN {FALSE} ELSE {was, FALSE}

\* One outcome enters the window of n: rtt is the measured probe, or NoRTT.
Record(n, ok, rtt) ==
    LET slot == writeIdx[n] % WindowSize
        samples == Samples(writeIdx[n] + 1, [history[n] EXCEPT ![slot] = ok], [rtts[n] EXCEPT ![slot] = rtt])
    IN  /\ history' = [history EXCEPT ![n][slot] = ok]
        /\ rtts' = [rtts EXCEPT ![n][slot] = rtt]
        /\ writeIdx' = [writeIdx EXCEPT ![n] = @ + 1]
        /\ latency' = [latency EXCEPT ![n] = IF DOMAIN samples = {} THEN @ ELSE samples]
        /\ \E up \in IF ok THEN {TRUE} ELSE AliveAfter(alive[n], samples) :
              alive' = [alive EXCEPT ![n] = up]

-----------------------------------------------------------------------------
(* listenLoop *)

\* A PONG of the PING p arrives.  recordPong looks for the neighbour whose
\* pending probe has its number, and leaves the number in place.
RecordPong(p) ==
    /\ ~stopped
    /\ \E n \in Neighbor :
        /\ pendingSeq[n] = p.seq
        /\ writeIdx[n] < MaxOutcomes
        /\ responded' = [responded EXCEPT ![n] = TRUE]
        /\ Record(n, TRUE, p)
    /\ outcomes' = outcomes \cup {[probe |-> p, ok |-> TRUE]}
    /\ UNCHANGED <<seqGen, pendingSeq, probes, pings, stopped>>

-----------------------------------------------------------------------------
(* probeLoop and probeSingle *)

Moved(g, pc) == (probes \ {g}) \cup {[g EXCEPT !.pc = pc]}

\* The neighbour's address cannot be resolved: a failure without a probe.
Unresolved(n) ==
    /\ ~stopped
    /\ writeIdx[n] < MaxOutcomes
    /\ Record(n, FALSE, NoRTT)
    /\ UNCHANGED <<seqGen, pendingSeq, responded, probes, pings, outcomes, stopped>>

\* Mutant: every neighbour has sequence numbers of its own.
NextSeq_PerNeighbor(n) == 1 + Cardinality({p \in pings : p.to = n})

NextSeq(n) == seqGen + 1

Assign(n) ==
    /\ ~stopped
    /\ seqGen < MaxSeq
    /\ Cardinality({g \in probes : g.to = n}) < MaxProbes[n]
    /\ seqGen' = seqGen + 1
    /\ probes' = probes \cup {[to |-> n, seq |-> NextSeq(n), pc |-> "assigned"]}
    /\ UNCHANGED <<pendingSeq, responded, window, pings, outcomes, stopped>>

\* Mutant: the flag of the probe before is left standing.
Register_FlagKept(g) ==
    /\ g.pc = "assigned"
    /\ pendingSeq' = [pendingSeq EXCEPT ![g.to] = g.seq]
    /\ probes' = Moved(g, "registered")
    /\ UNCHANGED <<seqGen, responded, window, pings, outcomes, stopped>>

Register(g) ==
    /\ g.pc = "assigned"
    /\ pendingSeq' = [pendingSeq EXCEPT ![g.to] = g.seq]
    /\ responded' = [responded EXCEPT ![g.to] = FALSE]
    /\ probes' = Moved(g, "registered")
    /\ UNCHANGED <<seqGen, window, pings, outcomes, stopped>>

Send(g) ==
    /\ g.pc = "registered" /\ ~stopped
    /\ pings' = pings \cup {ProbeOf(g)}
    /\ probes' = Moved(g, "waiting")
    /\ UNCHANGED <<seqGen, pendingSeq, responded, window, outcomes, stopped>>

SendFails(g) ==
    /\ g.pc = "registered"
    /\ probes' = Moved(g, "failing")
    /\ UNCHANGED <<seqGen, pendingSeq, responded, window, pings, outcomes, stopped>>

\* The timer fired: responded is read under the read lock, which is released
\* before recordFailure takes the lock again.
Timeout(g) ==
    /\ g.pc = "waiting"
    /\ probes' = IF responded[g.to] THEN probes \ {g} ELSE Moved(g, "failing")
    /\ UNCHANGED <<seqGen, pendingSeq, responded, window, pings, outcomes, stopped>>

RecordFailure(g) ==
    /\ g.pc = "failing"
    /\ Record(g.to, FALSE, NoRTT)
    /\ outcomes' = outcomes \cup {[probe |-> ProbeOf(g), ok |-> FALSE]}
    /\ probes' = probes \ {g}
    /\ UNCHANGED <<seqGen, pendingSeq, responded, pings, stopped>>

\* A waiting probe sees stopCh first.
Abandon(g) ==
    /\ g.pc = "waiting" /\ stopped
    /\ probes' = probes \ {g}
    /\ UNCHANGED <<seqGen, pendingSeq, responded, window, pings, outcomes, stopped>>

Stop ==
    /\ ~stopped
    /\ stopped' = TRUE
    /\ UNCHANGED <<seqGen, pendingSeq, responded, window, probes, pings, outcomes>>

-----------------------------------------------------------------------------
Init ==
    /\ seqGen = 0
    /\ pendingSeq = [n \in Neighbor |-> 0]
    /\ responded = [n \in Neighbor |-> FALSE]
    /\ writeIdx = [n \in Neighbor |-> 0]
    /\ history = [n \in Neighbor |-> [i \in Slot |-> FALSE]]
    /\ rtts = [n \in Neighbor |-> [i \in Slot |-> NoRTT]]
    /\ alive = [n \in Neighbor |-> FALSE]
    /\ latency = [n \in Neighbor |-> [i \in {} |-> NoRTT]]
    /\ probes = {} /\ pings = {} /\ outcomes = {}
    /\ stopped = FALSE

ProbeSingle(g) ==
    \/ Register(g) \/ Send(g) \/ SendFails(g)
    \/ Timeout(g) \/ RecordFailure(g) \/ Abandon(g)

Next ==
    \/ \E p \in pings : RecordPong(p)
    \/ \E n \in Neighbor : Unresolved(n) \/ Assign(n)
    \/ \E g \in probes : ProbeSingle(g)
    \/ Stop

Spec == Init /\ [][Next]_vars

-----------------------------------------------------------------------------
(* Properties *)

\* The type of the state; in particular a latency averages measured RTTs only.
TypeOK ==
    /\ seqGen \in 0..MaxSeq
    /\ pendingSeq \in [Neighbor -> 0..MaxSeq]
    /\ responded \in [Neighbor -> BOOLEAN]
    /\ writeIdx \in [Neighbor -> Nat]
    /\ history \in [Neighbor -> [Slot -> BOOLEAN]]
    /\ rtts \in [Neighbor -> [Slot -> Probe \cup {NoRTT}]]
    /\ alive \in [Neighbor -> BOOLEAN]
    /\ latency \in [Neighbor -> Average]
    /\ probes \subseteq Goroutine
    /\ pings \subseteq Probe
    /\ outcomes \subseteq [probe : Probe, ok : BOOLEAN]
    /\ stopped \in BOOLEAN

\* A neighbour reported alive answered a probe that is still in its window:
\* once every outcome of the window is a timeout it is reported dead, whatever
\* PONGs were late or duplicated before.
AliveMeansHeard ==
    \A n \in Neighbor : alive[n] => \E i \in Slot : history[n][i]

\* The latency of a neighbour averages RTTs of its own probes, although
\* recordPong never looks at the address a PONG came from.
OwnLatency ==
    \A n \in Neighbor : \A i \in DOMAIN latency[n] : latency[n][i].to = n

\* The average runs from older to newer probes, so that the newest has the most
\* weight: over the wrap of the ring and with late PONGs, as long as the probes
\* of the neighbour do not overlap.
SamplesInOrder ==
    \A n \in Neighbor : MaxProbes[n] = 1 =>
        \A i, j \in DOMAIN latency[n] : i < j => latency[n][i].seq <= latency[n][j].seq

\* Unless the prober is stopped, a probe that ended left an outcome in the
\* window, as long as the probes of the neighbour do not overlap.
NoOutcomeLost ==
    \A p \in pings : ~stopped /\ MaxProbes[p.to] = 1 =>
        \/ \E g \in probes : ProbeOf(g) = p
        \/ \E o \in outcomes : o.probe = p

-----------------------------------------------------------------------------
(* What the comments say and the code does not do *)

\* probeSingle "records exactly one outcome (success or failure) - never both".
NeverBoth ==
    \A p \in pings :
        ~({[probe |-> p, ok |-> TRUE], [probe |-> p, ok |-> FALSE]} \subseteq outcomes)
=============================================================================
