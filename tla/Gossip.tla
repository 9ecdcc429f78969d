------------------------------- MODULE Gossip -------------------------------
(***************************************************************************)
(* The link-state gossip of the routers: gossip/state.go (TopologyState),  *)
(* gossip/staleness.go (pruning) and the four loops of gossip/gossip.go    *)
(* (GossipNode): metricsLoop, broadcastLoop, receiveLoop and pruneLoop.    *)
(*                                                                         *)
(* Each step below is one critical section of TopologyState.mu, so the     *)
(* loops of one node interleave exactly as the goroutines can.  A datagram *)
(* may be lost, duplicated, delayed and overtaken by a later one.          *)
(*                                                                         *)
(* Abstractions: a measurement (latency, load, loss) is a member of        *)
(* Quality, two different members differing by more than the thresholds of *)
(* significantChange; time is a discrete clock that all nodes share; the   *)
(* broadcast timers are replaced by the freedom to fire at any time, and   *)
(* "FullSyncIntervalMs have passed since lastFullSync" by a flag.          *)
(***************************************************************************)
EXTENDS Integers, FiniteSets

CONSTANTS
    Node,          \* the routers that run a GossipNode
    Neighbors,     \* Neighbors[n]: the gossiping neighbours in n's configuration
    Probed,        \* Probed[n]: neighbours n measures; {} when its collector is nil
    Quality,       \* what a probe can report of a link
    None,          \* absence of an entry in the links map
    MaxStaleness,  \* GossipConfig.MaxStalenessMs, in ticks
    MaxSeq,        \* bound: measurements per node
    MaxTime,       \* bound: ticks of the clock
    MaxInFlight    \* bound: datagrams in flight from one node to another

Link == UNION {{n} \X Probed[n] : n \in Node}

LinkState == [link : Link, origin : Node, seq : Nat, ts : Nat, quality : Quality]

Table == [Link -> LinkState \cup {None}]

Message == [from : Node, to : Node, states : Table]

NeighborsAssumption == Neighbors \in [Node -> SUBSET Node]
NoneAssumption == None \notin LinkState
StalenessAssumption == MaxStaleness \in Nat

ASSUME ConstantsAssumption ==
    NeighborsAssumption /\ NoneAssumption /\ StalenessAssumption

VARIABLES
    links,          \* links[n]: TopologyState.links of node n
    lastBroadcast,  \* lastBroadcast[n]: TopologyState.lastBroadcast
    seqGen,         \* seqGen[n]: TopologyState.seqGen
    hasChanges,     \* hasChanges[n]: TopologyState.hasChanges
    phase,          \* phase[n]: where broadcastLoop stands; "fast" or "stable"
                    \* while it waits for its timer, set to that interval
    fullSyncDue,    \* fullSyncDue[n]: lastFullSync is FullSyncIntervalMs ago
    msgs,           \* datagrams in the network
    now             \* the clock

state == <<links, lastBroadcast, seqGen, hasChanges>>
loop == <<phase, fullSyncDue>>
vars == <<state, loop, msgs, now>>

EmptyTable == [k \in Link |-> None]

Init ==
    /\ links = [n \in Node |-> EmptyTable]
    /\ lastBroadcast = [n \in Node |-> EmptyTable]
    /\ seqGen = [n \in Node |-> 0]
    /\ hasChanges = [n \in Node |-> TRUE]
    /\ phase = [n \in Node |-> "fast"]
    /\ fullSyncDue = [n \in Node |-> TRUE]
    /\ msgs = {}
    /\ now = 0

Stale(c) == now - c.ts > MaxStaleness

-----------------------------------------------------------------------------
(* TopologyState *)

\* Mutant: the number is taken one too low.
Measurement_SeqTooLow(n, p, q) ==
    [link |-> <<n, p>>, origin |-> n, seq |-> seqGen[n] - 1, ts |-> now, quality |-> q]

Measurement(n, p, q) ==
    [link |-> <<n, p>>, origin |-> n, seq |-> seqGen[n] + 1, ts |-> now, quality |-> q]

\* Mutant: a repeated measurement of a known link does not advance seqGen.
UpdateLocal_SeqNotAdvanced(n, p, q) ==
    /\ seqGen[n] < MaxSeq
    /\ seqGen' = IF links[n][<<n, p>>] = None THEN [seqGen EXCEPT ![n] = @ + 1] ELSE seqGen
    /\ links' = [links EXCEPT ![n][<<n, p>>] = Measurement(n, p, q)]
    /\ hasChanges' = [hasChanges EXCEPT ![n] = TRUE]
    /\ UNCHANGED <<lastBroadcast, loop, msgs, now>>

\* metricsLoop: updateFromMetrics calls UpdateLocal once per probed neighbour.
UpdateLocal(n, p, q) ==
    /\ seqGen[n] < MaxSeq
    /\ seqGen' = [seqGen EXCEPT ![n] = @ + 1]
    /\ links' = [links EXCEPT ![n][<<n, p>>] = Measurement(n, p, q)]
    /\ hasChanges' = [hasChanges EXCEPT ![n] =
                         \/ @
                         \/ links[n][<<n, p>>] = None
                         \/ links[n][<<n, p>>].quality # q]
    /\ UNCHANGED <<lastBroadcast, loop, msgs, now>>

\* Mutant: whatever a neighbour says of a link wins.
Accepts_Anything(existing, incoming) == existing = None \/ incoming # existing

Accepts(existing, incoming) ==
    \/ existing = None
    \/ incoming.origin = existing.origin /\ incoming.seq > existing.seq
    \/ incoming.origin # existing.origin /\ incoming.ts > existing.ts

Merged(table, states) ==
    [k \in Link |-> IF states[k] # None /\ Accepts(table[k], states[k])
                    THEN states[k] ELSE table[k]]

\* receiveLoop: decode one datagram and MergeRemote.  With keep the network
\* holds on to the datagram and will deliver it again.
Receive(m, keep) ==
    /\ links' = [links EXCEPT ![m.to] = Merged(@, m.states)]
    /\ hasChanges' = [hasChanges EXCEPT ![m.to] =
                         @ \/ Merged(links[m.to], m.states) # links[m.to]]
    /\ msgs' = IF keep THEN msgs ELSE msgs \ {m}
    /\ UNCHANGED <<lastBroadcast, seqGen, loop, now>>

\* Mutant: an entry exactly MaxStaleness old is pruned as well.
PruneStale_OneTickEarly(n) ==
    /\ links' = [links EXCEPT ![n] =
                    [k \in Link |-> IF @[k] # None /\ now - @[k].ts >= MaxStaleness
                                    THEN None ELSE @[k]]]
    /\ links' # links
    /\ UNCHANGED <<lastBroadcast, seqGen, hasChanges, loop, msgs, now>>

\* pruneLoop
PruneStale(n) ==
    /\ \E k \in Link : links[n][k] # None /\ Stale(links[n][k])
    /\ links' = [links EXCEPT ![n] =
                    [k \in Link |-> IF @[k] # None /\ Stale(@[k]) THEN None ELSE @[k]]]
    /\ UNCHANGED <<lastBroadcast, seqGen, hasChanges, loop, msgs, now>>

ChangedStates(n) ==
    [k \in Link |->
        IF /\ links[n][k] # None
           /\ \/ lastBroadcast[n][k] = None
              \/ links[n][k].seq # lastBroadcast[n][k].seq
              \/ links[n][k].quality # lastBroadcast[n][k].quality
        THEN links[n][k] ELSE None]

-----------------------------------------------------------------------------
(* broadcastLoop: broadcast() takes the snapshot and sends it, then marks,   *)
(* then the loop picks its next interval; the locks are released in between. *)

\* Mutant: every broadcast is a delta.
OutgoingStates_DeltaOnly(n) == ChangedStates(n)

OutgoingStates(n) == IF fullSyncDue[n] THEN links[n] ELSE ChangedStates(n)

\* The timer fires and there is nothing to send: broadcast() returns early.
BroadcastNothing(n) ==
    /\ phase[n] \in {"fast", "stable"}
    /\ OutgoingStates(n) = EmptyTable
    /\ fullSyncDue' = [fullSyncDue EXCEPT ![n] = FALSE]
    /\ phase' = [phase EXCEPT ![n] = "interval"]
    /\ UNCHANGED <<state, msgs, now>>

\* The timer fires; the neighbours in got will receive the datagram, the sends
\* to the others fail or are lost (write errors are ignored).
BroadcastSend(n, got) ==
    /\ phase[n] \in {"fast", "stable"}
    /\ OutgoingStates(n) # EmptyTable
    /\ msgs' = msgs \cup {[from |-> n, to |-> p, states |-> OutgoingStates(n)] : p \in got}
    /\ \A p \in got : Cardinality({m \in msgs' : m.from = n /\ m.to = p}) <= MaxInFlight
    /\ fullSyncDue' = [fullSyncDue EXCEPT ![n] = FALSE]
    /\ phase' = [phase EXCEPT ![n] = "mark"]
    /\ UNCHANGED <<state, now>>

MarkBroadcast(n) ==
    /\ phase[n] = "mark"
    /\ lastBroadcast' = [lastBroadcast EXCEPT ![n] = links[n]]
    /\ hasChanges' = [hasChanges EXCEPT ![n] = FALSE]
    /\ phase' = [phase EXCEPT ![n] = "interval"]
    /\ UNCHANGED <<links, seqGen, fullSyncDue, msgs, now>>

ResetTimer(n) ==
    /\ phase[n] = "interval"
    /\ phase' = [phase EXCEPT ![n] = IF hasChanges[n] THEN "fast" ELSE "stable"]
    /\ UNCHANGED <<state, fullSyncDue, msgs, now>>

\* FullSyncIntervalMs have passed since the last full synchronisation.
FullSyncElapsed(n) ==
    /\ ~fullSyncDue[n]
    /\ fullSyncDue' = [fullSyncDue EXCEPT ![n] = TRUE]
    /\ UNCHANGED <<state, phase, msgs, now>>

Tick ==
    /\ now < MaxTime
    /\ now' = now + 1
    /\ UNCHANGED <<state, loop, msgs>>

BroadcastLoop(n) ==
    \/ BroadcastNothing(n)
    \/ \E got \in SUBSET Neighbors[n] : BroadcastSend(n, got)
    \/ MarkBroadcast(n)
    \/ ResetTimer(n)

Next ==
    \/ \E n \in Node :
        \/ \E p \in Probed[n], q \in Quality : UpdateLocal(n, p, q)
        \/ PruneStale(n)
        \/ BroadcastLoop(n)
        \/ FullSyncElapsed(n)
    \/ \E m \in msgs, keep \in BOOLEAN : Receive(m, keep)
    \/ Tick

Spec == Init /\ [][Next]_vars

-----------------------------------------------------------------------------
(* Fairness: the goroutines run, the full-sync interval keeps elapsing, and  *)
(* the network is fair-lossy: of the full synchronisations n keeps sending,  *)
(* infinitely many reach each neighbour, and what reached it is read.        *)

FullSyncReaches(n, p) ==
    /\ fullSyncDue[n]
    /\ \E got \in SUBSET Neighbors[n] : p \in got /\ BroadcastSend(n, got)

ReadDatagram(n, p) ==
    \E m \in msgs : m.from = n /\ m.to = p /\ Receive(m, FALSE)

Fairness ==
    /\ \A n \in Node :
        /\ WF_vars(BroadcastLoop(n))
        /\ WF_vars(FullSyncElapsed(n))
    /\ \A n \in Node : \A p \in Neighbors[n] :
        /\ SF_vars(FullSyncReaches(n, p))
        /\ WF_vars(ReadDatagram(n, p))

FairSpec == Spec /\ Fairness

-----------------------------------------------------------------------------
(* Properties *)

\* The type of the state: every link map holds entries of its own link, and
\* every counter is a natural number.
TypeOK ==
    /\ links \in [Node -> Table]
    /\ lastBroadcast \in [Node -> Table]
    /\ seqGen \in [Node -> Nat]
    /\ hasChanges \in [Node -> BOOLEAN]
    /\ phase \in [Node -> {"fast", "stable", "mark", "interval"}]
    /\ fullSyncDue \in [Node -> BOOLEAN]
    /\ msgs \subseteq Message
    /\ now \in Nat

\* Every copy of a measurement that a link map or a datagram holds.
Tables == {links[n] : n \in Node} \cup {m.states : m \in msgs}

Copies == (UNION {{t[k] : k \in Link} : t \in Tables}) \ {None}

\* The sequence number orders the measurements of a link, wherever copies of
\* them are: a higher number was measured no earlier, and one number names one
\* measurement.  MergeRemote compares nothing but the number (state.go:154), so
\* this is what makes "newer" there mean newer.
SequenceOrdersMeasurements ==
    \A c, d \in Copies :
        c.link = d.link => /\ c.seq < d.seq => c.ts <= d.ts
                           /\ c.seq = d.seq => c = d

\* No copy of a link is ahead of the node that measures it: while any copy is
\* fresh, that node itself holds an entry at least as new.  So its own
\* measurement is never replaced by an older echo of it, and not pruned while
\* others still route by it.
OwnerHoldsLatest ==
    \A c \in Copies :
        ~Stale(c) => LET own == links[c.link[1]][c.link]
                     IN  own # None /\ own.seq >= c.seq

\* No step of any node makes a view older: an entry is replaced only by a later
\* measurement, whatever order datagrams arrive in and however often, and is
\* forgotten only when stale.
ViewNeverGoesBack ==
    [][\A n \in Node, k \in Link :
          links[n][k] # None =>
             IF links'[n][k] = None THEN Stale(links[n][k])
             ELSE links'[n][k].seq >= links[n][k].seq /\ links'[n][k].ts >= links[n][k].ts]_vars

\* Gossip propagates: what a node measured of a link reaches the view of every
\* other node (or something newer does) unless it goes stale first, although
\* datagrams are lost and a change made between the snapshot and MarkBroadcast
\* is in no delta (the periodic full synchronisation is what repairs both).
Propagation ==
    \A k \in Link, s \in 1..MaxSeq : \A n \in Node \ {k[1]} :
        (links[k[1]][k] # None /\ links[k[1]][k].seq = s)
            ~> \/ links[n][k] # None /\ links[n][k].seq >= s
               \/ links[k[1]][k] = None
               \/ Stale(links[k[1]][k])
-----------------------------------------------------------------------------
(* Refinement: the link maps are views of a versioned register per link *)

Register == INSTANCE LinkRegister WITH
                view <- links, counter <- seqGen, around <- Copies

\* Gossip implements the register: whatever is lost, repeated or overtaken on
\* the wire and however the loops interleave, a link map changes only by the
\* owner's next measurement, by a later version of a link that somebody still
\* has, or by forgetting; no step invents a version or mixes up two links.
ImplementsRegister == Register!Spec
=============================================================================
