# Verification of the Smart Packet Protocol

TLA+ models of the Smart Packet Protocol (SPP) routers, the TLC configurations
that model-check them on small instances, and proofs, checked by TLAPS, of what
matters most for instances of every size. Line numbers refer to the files under
`src/` at the commit this directory is kept beside.

    tlc -config GossipSafety.cfg MCGossip.tla      # one run of the table below
    tlapm GossipProofs.tla                         # all proofs of one module

`PROJECT.json` is the machine-readable index: components, runs, the source lines
every definition models, hazards, findings, theorems, and for every property a
plausible bug (a *mutant*) that TLC reports when it is put in the model.

## 1. Inventory

### The system

SPP routes UDP packets that carry their own path and, in full mode, their own
map of the network. A **router** process probes its neighbours, gossips the
measurements to the others, and forwards packets, rerouting those whose map no
longer agrees with what it measures. A **sender** asks a router for its map,
computes a path and sends packets along it; a **receiver** prints what arrives.

| Component | Source | State | Operations |
|---|---|---|---|
| Topology state | `gossip/state.go`, `staleness.go` | `links`, `lastBroadcast`, `seqGen`, `hasChanges`, under one RW lock | `UpdateLocal`, `MergeRemote`, `PruneStale`, `GetAllStates`, `GetChangedStates`, `MarkBroadcast`, `GetFreshLinks`, `CheckDivergence` |
| Gossip node | `gossip/gossip.go` | its topology state, `lastFullSync`, the broadcast timer | four goroutines: metrics, broadcast, receive, prune; `MAP_REQUEST` |
| Smart packet | `packet/packet.go` | `PlannedPath`, `HopIndex`, `HopCount`, `VisitedNodes`, `MiniMap`, flags | `LogHop`, `NextHop`, `UpdatePath`, `ShouldReroute`, `Reroute`, `ForceForward`, their light twins, `IsExpired`, `DetectLoop` |
| Router worker | `cmd/router/main.go` | work channel, reroute cooldown per destination | receive loop; per packet: hop budget, stamp, reroute, loop detection, forward, count |
| Router process | `cmd/router/main.go` | the signal channel, readiness | shutdown handler, readiness updater, HTTP server |
| Path computation | `packet/dijkstra.go` | none | weights by intent, `Dijkstra`, OSPF-like graph |
| Wire format | `packet/wire.go`, `nodeid.go`, `serialize.go` | id table | encode and decode, with names or compact ids |
| Prober | `metrics/probe.go` | per neighbour a ring of outcomes, `pendingSeq`, `responded`, the result; `seqGen` | a goroutine per probe, `listenLoop`, `computeResult`, `Stop` |
| Collector, system metrics | `metrics/collector.go`, `system.go` | last snapshot, previous counters | a periodic snapshot |
| Connection pool | `connpool/pool.go` | address to socket, under one RW lock | `Send` (look up, dial, write, evict, redial, put), `Close` |
| Prometheus metrics | `prommetrics/prommetrics.go` | counters (atomic), a map of counters under an RW lock, a histogram (atomic, its sum under a mutex), gauges, readiness | `Inc`, `Observe`, `SetReady`, scrape |
| Sender, receiver, demo | `cmd/sender`, `cmd/receiver`, `main.go` | counters | send or print |

### How they interact

The collector copies the prober's results; the metrics loop writes the copy
into the topology state (`UpdateLocal`); the broadcast loop sends the topology
state to the neighbours, whose receive loops merge it. The data plane reads the
collector (for the stamp) and the topology state (for a reroute or a forced hop of
a light packet) and sends through the pool. All of these are separate goroutines:
what they share is behind locks (`TopologyState.mu`, `Prober.mu`, `UDPPool.mu`),
which are released between the steps of one operation. The workers of a router
also share a channel, the cooldown table (a `sync.Map`) and the metrics registry,
which is read by the HTTP server's goroutine while they count. The shutdown handler
and the readiness updater receive from one signal channel. Between processes
there are UDP datagrams only.

### What is hard

* **Concurrency**: the snapshot of a broadcast and its `MarkBroadcast` are two
  critical sections; a probe reads `responded` and records its failure in two;
  a send looks up, evicts, dials and puts in four; a worker reads the cooldown
  before a reroute and stores it after; an observation updates a histogram
  bucket by bucket. Something else may come between.
* **Blocking**: a full work channel stops the receive loop, a scrape holds the lock that
  a worker needs for a new drop reason, two goroutines compete for one signal.
* **Delivery**: gossip, PINGs, PONGs and packets are lost, duplicated, late and
  reordered; send errors are ignored in the gossip loop.
* **Ordering and staleness**: measurements carry a sequence number of their
  node and a time; nodes prune by age, at moments of their own.
* **Restart**: a process starts with an empty state and numbers from 1 again.
* **Mixed formats**: node id maps are configured node by node, so a packet may
  change format at every hop, and is rounded each time it becomes compact.
* **Routing on disagreeing views**: each router reroutes by its own view, and
  only loop detection, forced hops and the hop budget keep a packet from circling.

### What makes each component correct

* Topology state: sequence numbers order measurements, a view never goes back,
  the node that measures a link knows it best, everything spreads.
* Packet and worker: no unmarked revisit, the packet is where its plan says,
  healthy packets are not dropped, baselines keep their path, every packet ends.
* Prober: results come from answered probes of that neighbour, in the right
  order; every probe has an outcome and, as the comment says, only one.
* Pool: no closed socket is handed out and no socket is leaked.
* Wire format: whatever a node accepts it reads as it was written, metrics to within
  their precision; nodes that are configured alike understand each other, but for what is
  larger than a decoder takes.
* Path computation: the answer is a cheapest path for this packet, and there is none
  only if there is no path.
* Router process: no packet drops out of the counts, a scrape is off by no more than what
  the workers are doing, reroutes come in bounded bursts, nothing blocks for good,
  and the process can be stopped.

`PROJECT.json` lists 40 places where these can go wrong (`hazards`), each with its
line and the properties that watch it, or why none does yet.

## 2. Modules

| Module | What it is |
|---|---|
| `LinkRegister` | abstract: what gossip promises, a single-writer register per link |
| `Gossip` | the topology state of every node and the loops of `GossipNode`, with the network between; implements `LinkRegister` |
| `GossipClaims` | `Gossip` with restarts of the router process |
| `PacketWalk` | abstract: what the network does with one packet, a bounded walk |
| `Forwarding` | one packet from the sender to its end, through the worker of each router; implements `PacketWalk` |
| `Dijkstra` | link weights, graph builders and the shortest-path search, one turn of its loops at a time |
| `Histogram` | abstract: a histogram that takes each observation at once |
| `Registry` | the metrics registry: counters, labelled counters, histogram and scrape; its histogram implements `Histogram` |
| `Lifecycle` | the signal channel, the shutdown handler and the readiness updater |
| `Router` | the router process: receive loop, work channel and workers, composed with `Registry` and `Lifecycle` |
| `Prober` | the prober of one router |
| `ConnPool` | the pool at one address, shared by the workers |
| `Wire` | one packet encoded, sent, decoded, changed and encoded again by nodes of any configuration |
| `MCGossip`, `MCForwarding`, `MCDijkstra`, `MCRouter`, `MCProber`, `MCConnPool`, `MCWire` | the instances that TLC checks |
| `GossipProofs`, `ForwardingProofs`, `DijkstraProofs`, `RouterProofs`, `HistogramProofs`, `ProberProofs`, `ConnPoolProofs`, `WireProofs` | the proofs |

Definitions called `X_Something` directly before `X` are mutants: `X` as a
plausible bug would have it. No specification uses them.

### Gossip

| Model | Code |
|---|---|
| `links[n]`, `lastBroadcast[n]`, `seqGen[n]`, `hasChanges[n]` | the fields of `TopologyState`; `None` is an absent key |
| `UpdateLocal(n, p, q)` | one `UpdateLocal` call of `updateFromMetrics` |
| `Receive(m, keep)` | one datagram through `receiveLoop` and `MergeRemote`; `keep` leaves it in the network to be delivered again |
| `PruneStale(n)` | one tick of `pruneLoop` that finds something |
| `BroadcastNothing`, `BroadcastSend`, `MarkBroadcast`, `ResetTimer` | one turn of `broadcastLoop`, split where the lock is released; `phase` says where the loop stands |
| `FullSyncElapsed`, `Tick` | `FullSyncIntervalMs` have passed; the clock advances |
| `GossipClaims!Restart(n)` | the process is killed and started again |

A step is one critical section of `TopologyState.mu`. `BroadcastSend` chooses
the set of neighbours the datagram will reach: the other sends failed or were lost.
A datagram left in `msgs` may be delivered at any later time, so it can be
overtaken. Merging happens in one step because `MergeRemote` holds the lock
throughout; the entries of one message have distinct links, so their order does
not matter. A measurement is a member of `Quality`; two different members
differ by more than the thresholds of `significantChange`. All nodes read one
clock: the code compares `Timestamp`s across nodes and so relies on that as well.

`LinkRegister` says what remains of this for those who read the views: node `n`'s entry
of a link is nothing or something the measuring node wrote; only that node writes, under
ever higher numbers; a view only learns versions that somebody still holds and that are
later than its own, or forgets. `Gossip` implements it with `view` as `links`, `counter`
as `seqGen` and `around` as the copies in views and datagrams (`ImplementsRegister`):
`UpdateLocal` is a `Write`, `Receive` a `Learn`, `PruneStale` a `Forget`, and what the
broadcast loop does is invisible but for copies that vanish. What is *not*
promised can be read off as well: after forgetting, a view may learn an older version
again. In the code it does: `MergeRemote` accepts an unknown link of any age, so two
routers that prune at different times can hand a dead link back to each other.

### Forwarding

| Model | Code |
|---|---|
| `packet` | the fields of `SmartPacket` that routing reads (`path` is `PlannedPath`, `light` is `LightMode`; indices of sequences start at 1, `hopIndex` at 0 as in the code) |
| `LogHop`, `NextHop`, `RemainingPath`, `IsExpired`, `DetectLoop`, `RerouteTo`, `ForceForward` | the methods of that name; the light twins do the same on the router's view and leave `miniMap` alone |
| `Expire(n)`, `DropNoNeighbor(n)`, `Forward(n)` | the three ways through one iteration of the worker, all of its steps 1 to 6 in each |
| `AfterReroute`, `Choices`, `Decisions` | step 3; steps 4 and 5; all of steps 2 to 5 |
| `stamp` | the neighbour whose latency is in the last `HopRecord` (`None`: a latency of 0) |
| `Lose` | the datagram is lost, or was not encoded or not sent |
| `Init` | the packets the sender builds: full, light, or fixed (static path and OSPF) |

Two things a packet shares with others are nondeterministic. **Views**: every
look at a router's gossip view returns some member of `Views`, a different one at
each look if need be; two routers need not agree, nor a router with itself a moment
later, which is all that gossip promises. **Cooldown and divergence**: a
reroute that the code could do may happen or be suppressed. **Weights** are
abstract: `Dijkstra` may answer any simple path of the view, and forced forwarding
any link of the class it picks the lightest from. So what is shown holds for every
intent and weight configuration. That `dijkstraCore` answers such a path and answers
one if there is one is part of `Optimal` in module `Dijkstra`, where weights are not
negative. The link from the sender to the first router, which the sender adds
to the map, is left out: no router's code looks at links out of the sender.

`PacketWalk` is the packet without plan, maps and indices: `at`, `visited`, `hops`,
`forced`, `status`. A step is a `Hop` to a configured neighbour, which is new unless the
packet was forced, a `Strand`, an `Expire` exactly at the budget, or a `Lose`.
`Forwarding` implements it with `hops` as `hopCount` and `forced` as `degraded`
(`ImplementsWalk`), so that whoever reasons about a network of routers need
not know of plans at all.

Worth knowing when reading the code: a packet that is on its plan has itself at
`PlannedPath[HopIndex+1]` when `NextHop` is first called (`main.go:328`), so the stamped
latency is 0; this is what `forwarding_stamp` shows.

### Dijkstra

| Model | Code |
|---|---|
| `links`, `intent`, `builder`, `exclude` | the arguments: the link list, the `IntentHeader`, which function built the graph, the nodes to avoid |
| `CalculateWeight`, `OSPFWeight`, `LinkWeight` | `calculateWeightWithConfig`, the weight in `BuildOSPFGraph`, the weight each builder gives an edge |
| `Config` | the `WeightConfig`; `DefaultWeightConfig` is the one the programs use |
| `dist`, `prev`, `unvisited`, `current`, `path` | the variables of `dijkstraCore`; `Inf` is -1 |
| `Settle(u)` | one turn of the search: `u` was found nearest, its edges are relaxed, it is deleted |
| `EndSearch`, `WalkBack`, `Return` | the two `break`s and the empty map; one turn of the walk over `prev`; the test of the first node |

The scan for the nearest node runs over a Go map, whose order is random: among equally near
nodes `Settle` may take any. Milliseconds and percents are whole numbers, multipliers are in
tenths and weights in hundredths, so sums are exact where the code's floating point rounds.
The link list has one link per pair of nodes, as `GetFreshLinks` and the sender's map
have it. `BuildGraphForDest` takes links into the destination as free of loss because the
receiver answers no probes; its comment (`dijkstra.go:153`) says they "always show 100%
loss", though before the first timeout they show 0 ms and 0 %.

### Router, Registry and Lifecycle

| Model | Code |
|---|---|
| `rx`, `queued` | the receive loop holds a datagram; the number of datagrams in `workCh` |
| `pc[w]`, `pkt[w]`, `ok[w]` | the worker's place in its loop, its packet's destination and priority, `cooldownOk` |
| `cooling`, `burst` | destinations whose last reroute is younger than the cooldown; for the property, the non-critical reroutes since the destination last was not cooling |
| `CheckCooldown`, `Reroute`, `StartCooldown`, `CountReroute` | step 3: the load from `lastRerouteByDest`, the reroute, the store, the counter, with other workers between |
| `Expire`, `DropUnsendable`, `SendFails`, `DecodeError`, `Forward`, `ObserveLatency` | the ways out of an iteration |
| `call[w]` | the registry call a worker is in: `LabeledCounter.Inc` and `Histogram.Observe` take several steps |
| `FindCounter`, `MakeCounter`, `AddToCounter` | the look under the read lock, the second look and the creation under the write lock, the atomic add |
| `CountBucket`, `CountTotal`, `ReadSum`, `StoreSum` | one atomic add each, then the sum under the mutex |
| `Scrape...` | one read of `Handler` each; `GetAll` keeps the read lock, so that no counter is made meanwhile |
| `at`, `first`, `sigCh` | where the handler and the updater are, who has waited longest, the buffer of the signal channel |
| `Signal`, `TakeSignal`, `Park`, `Tick`, `SetReady`, `Exit` | delivery by the runtime, the two receives, the ticker, what `/readyz` answers, `os.Exit` |

What a worker decides for a packet is a choice here (`Forwarding` has it); what the
workers share is exact. `left` is the budget of what the environment still does, named in
`MCRouter`: packets of given kinds, reroutes, drops, latencies, scrapes, signals, changes
of freshness. Scrapes come one at a time: they only read, so one does not
disturb another, and while `GetAll` runs in one of them no counter can be made in any case.
A latency is the index of the first bucket that holds it. `Stop` of the gossip node
and of the collector block nobody and so are one step with `Exit`; deferred calls such as
`pool.Close()` never run, because `os.Exit` does not run them.

`Histogram` is the histogram as its readers think of it: one step per observation. The
registry implements it (`ImplementsHistogram`) when the observations that are still inside
`Observe` are left out: `observed[i]` is bucket `i` less the workers that have counted their
value in it and have not stored the sum (`Completed`), so an observation takes effect at
`StoreSum`, and `CountBucket`, `CountTotal`, `ReadSum` are invisible. A scrape may fall among
those, which is why it can see a skewed histogram; `SkewBounded` says how skewed.

What the model shows of the code without being a finding: a `WorkerCount` below 0 starts no worker,
because `main.go:124` replaces only 0 by the default, and the channel then fills up for good (`NoDeadlock`
has a worker as its hypothesis); a start-up signal that the readiness
updater receives is swallowed, and `/readyz` keeps its last answer for good; only the second
signal certainly stops the router. Failed sends and undecodable datagrams are in no counter.
`main.go:46` calls the cooldown "the minimum time (in ms) between consecutive reroute actions";
it is kept per destination, with several workers a burst of up to `WorkerCount` comes first, and
critical packets do not look at it.

### Prober

`probes` holds the `probeSingle` goroutines with their place in the function:
`assigned` (has a number), `registered` (is pending), `waiting`, `failing` (saw
`responded` false and has not locked again). `pings` are the PINGs that went out;
`RecordPong(p)` may happen at any time after that, also repeatedly: late and
duplicated PONGs. An RTT is represented by the probe it measures, and a latency
by the RTTs in the average at their places in the window, so that `OwnLatency`
and `SamplesInOrder` can say where each came from. `Alive` is cleared when
nothing in the window succeeded, and may also be cleared by the age of `LastSeen`,
which is left open. `outcomes` records, for the properties only, what was
recorded of each probe.

### ConnPool

One step per critical section of `UDPPool.mu` and per system call outside it.
`pc` is a worker's place in `Send`; `held` is its variable `conn`. A write on a
socket that another worker closed fails; one on an open socket may fail (the
5 ms deadline). Resolving, dialling and the second write may fail, in which case
`Send` returns an error. A socket is a member of `Conn`; one that is closed and that
nobody refers to may be dialled anew.

### Wire

| Model | Code |
|---|---|
| `idMap[n]` | the `NodeIDMap` of node `n`'s configuration; `Table(n)` is its `NodeIDTable` |
| `frame` | the datagram in flight and where it goes |
| `truth` | for the properties only: the packet as it would be had no encoding changed it |
| `EncodeWire`, `EncodeWireWithIDs`, `DecodeWire`, `DecodeWireWithIDs`, `EncodeMetricU16`, `DecodeMetricU16`, `ToID`, `ToName` | the functions of these names |
| `Encodable`, `Decodable`, `WellFormed`, `WithinLimits` | the conditions under which those return no error |
| `Views` | what a router's fresh links may make of a reroute: the path, the first link's latency, the number of the other links |
| `StringHeaderLen`, `CompactHeaderLen` | the length of the variable header, byte for byte |
| `Send`, `Forward`, `ForwardForced`, `ForwardRerouted`, `ForwardReroutedForced`, `Expire`, `Deliver`, `Refuse` | the sender, the iterations of a router's worker, the receiver |

Where a packet goes is left open: `Forwarding` has that. A frame is a record of its
format, its flags, its header fields as they are written, and the 16-bit length that the
fixed header states. A header whose length does not fit is read cut off, which the
CRC detects; the model has it refused. A metric is a whole number of thousandths; a
compact one, of hundredths, rounded down. Floating point loses one more: for 4,586 of the
65,536 values `k`, `float64(k)/100*100` truncates to `k - 1`, and a metric that decoded to
such a `k` is encoded as `k - 1`; these values are the constant `Inexact`. So a metric that
is encoded compactly at every hop may sink by a hundredth at each (0.58, 0.57, 0.56)
although `wire.go:463` speaks of 0.01 ms precision; `MetricsClose` is the bound. Node id
maps may lack nodes or be empty but do not contradict each other (`Agree`): that is
left to whoever writes the configurations, nothing in the code checks it.
`SourceNode`, "for ACK routing" in `packet.go:199`, is in neither format.

A reroute installs the path it found, whichever it is, and all of the router's fresh
links as the packet's map (`packet.go:405-408`), and no encoder looks at the limits that
decoders have. So a packet may become too large on its way, in three ways that the model has:

* A view of 4,097 links or more, which with compact ids (10 bytes a link) fits a datagram up to
  about 6,500: the router sends the packet, and the next node refuses it (`wire.go:374`, `775`).
  The same holds for a path of more than 512 nodes (`352`, `753`).
* A name of more than 1 KiB, which `appendString` (`wire.go:211`) writes and `readStr` (`307`)
  refuses; only in strings.
* A header of more than 65,535 bytes, from about 1,720 links with short names in strings: its
  length wraps (`wire.go:644`). Such a frame exceeds the largest UDP datagram (65,507 bytes),
  `Write` fails, and no decoder sees it.

`RefusedForSizeOnly` says that between nodes that are configured alike the first two are the
only reasons for which a packet is refused. The names of a map's other links are not modelled:
what a table *lacks* shows in the first link, the path and the log.

## 3. Runs

| Run | Expect | Properties | Instance |
|---|---|---|---|
| `gossip_safety` | pass | `TypeOK`, `SequenceOrdersMeasurements`, `OwnerHoldsLatest`, `ViewNeverGoesBack`, `ImplementsRegister` | 2 nodes, 1 link, 2 measurements of 2 qualities, 1 tick, 2 datagrams in flight each way |
| `gossip_propagation` | pass | `Propagation` | chain of 3 nodes, 2 measurements |
| `forwarding` | pass | `TypeOK`, `RevisitOnlyDegraded`, `OnPlanUnlessDegraded`, `UndegradedNotDropped`, `FixedPathKept`, `Terminates`, `ImplementsWalk` | 4 routers in a ring with a chord, 16 views, 6 hops |
| `dijkstra` | pass | `TypeOK`, `Optimal`, `Certified`, `SettledStays`, `Terminates` | 4 nodes, 7 possible links of 2 qualities, 3 intents, 3 builders, with and without exclusion |
| `router` | pass | `TypeOK`, `Accounted`, `BurstBounded`, `ScrapeAccounts`, `HistogramConsistent`, `SkewBounded`, `ImplementsHistogram` | 2 workers, channel of 1, 3 packets, 2 buckets, 6 budgets |
| `router_liveness` | pass | `Drains`, `SecondSignalStops`, `ReadinessFollows` | the same with 3 budgets |
| `prober` | pass | `TypeOK`, `AliveMeansHeard`, `OwnLatency`, `SamplesInOrder`, `NoOutcomeLost` | 2 neighbours (1 and 2 probes at a time), window 2, 3 probes, 3 outcomes each |
| `connpool` | pass | `TypeOK`, `CachedIsOpen`, `NoLeak` | 3 workers, 4 sockets, both symmetric |
| `wire` | pass | `TypeOK`, `NothingMisread`, `MetricsClose`, `RefusedForSizeOnly` | 4 nodes in 8 configurations, 5 packets, 8 views of 1 to 6,601 links, 3 hops |
| `gossip_restart`, `forwarding_stamp`, `prober_both` | violation | one claim each, see section 6 | the smallest instances that show it |

**What the properties say.** `SequenceOrdersMeasurements`: of two copies of a
link, in any view or datagram, the one with the higher number was measured no
earlier, and equal numbers mean equal copies. `OwnerHoldsLatest`: while any copy
of a link is fresh, the node that measures it holds one at least as new.
`ViewNeverGoesBack`: no step replaces an entry by an older one or forgets a fresh
one. `Propagation`: what a node measures reaches every view, or something newer
does, unless it goes stale first. `RevisitOnlyDegraded`: more hops than
visited routers implies `Degraded`. `OnPlanUnlessDegraded`: the
router a packet is sent to is the next one of the plan in the packet.
`UndegradedNotDropped`: a packet that was never forced is neither expired nor
without a neighbour to go to. `FixedPathKept`: static and OSPF packets keep
their path. `Terminates`: every packet ends, and every computation of a path. `ImplementsRegister`,
`ImplementsWalk` and `ImplementsHistogram`: every step is one of the abstract specification or invisible to it.
`Optimal`: the answer of `dijkstraCore` is a simple path over known links around the excluded
nodes, none of which is cheaper, and it is empty only if there is no such path. `Certified`:
in every state the distances account for every edge out of a settled node, every predecessor
for its node's distance, and no unvisited node is nearer than a settled one.
`SettledStays`: what is settled keeps its distance and predecessor, though the code
relaxes into settled nodes too. `Accounted`: received is forwarded plus dropped plus failed sends
plus what workers have in hand, so no increment is lost. `BurstBounded`: at most one
non-critical reroute per worker to a destination before its cooldown ends. `ScrapeAccounts`:
what a scrape shows as received it also shows as forwarded or dropped, but for a packet per worker
and failed sends, because it reads `received` first. `HistogramConsistent`: when no worker is in
`Observe`, buckets, count and sum tell the same story. `SkewBounded`: a scrape in the middle shows
a histogram that is cumulative up to one observation per worker. `Drains`: what
arrived is worked off, or the process has ended. `SecondSignalStops`: two signals
that the channel accepted end the process, whoever received the first. `ReadinessFollows`:
again and again `/readyz` agrees with the view, unless a signal ended the updater. `AliveMeansHeard`, `OwnLatency`,
`SamplesInOrder`, `NoOutcomeLost`, `CachedIsOpen` and `NoLeak` are stated with
their comments in the modules. `NothingMisread`: a node that accepts a packet reads
the names, counters and flags that its predecessors wrote. `MetricsClose`: a metric
sinks by at most a hundredth per encoding, and a clamped one stays very large.
`RefusedForSizeOnly`: among nodes that all have complete id maps or none, no encoder
refuses a packet, and a decoder only one with a map, a path or names above its limits; never
for the number of its hops, and never for a header length that wrapped.

**What they leave out.** `NoOutcomeLost` and `SamplesInOrder` are about neighbours whose probes do
not overlap; of overlapping ones the code does lose outcomes (`probe.go:328`). `FixedPathKept` is
about static and OSPF packets that are not light: one that is configured to be both is rerouted by
`main.go:359`, and is not called fixed here. `ScrapeAccounts` allows a packet per worker, so three
packets are needed to make it bite: in the run one of three is dropped or fails to be sent while the
workers have the others in hand, and `ScrapeIsExplained` proves it for any number.

**Why the bounds are enough.** Links do not interact in `Gossip` (every operation
is entry by entry, apart from the flags), so one link that one node measures
and another repeats back is where the echo, the reordering and the pruning race
happen; two measurements make an old and a new copy, two
datagrams per direction let one overtake another, and one tick beyond
`MaxStaleness = 0` makes entries stale. The chain is the shortest network in
which a measurement travels by relay. The four routers of `Forwarding` have two
disjoint ways and a chord, so reroutes can turn a packet back; six hops are more
than four routers and force the budget to bite for circling packets. A window of 2
with 3 outcomes wraps the ring; two neighbours draw from one sequence
generator. Three workers are one more than a race on `evict` and `put` needs, and
four sockets are all that can be referred to at once. The square of `dijkstra` has two ways
to the destination with links between them in both directions, a link back into the start and one
whose loss only some intents mind, so that a node is reached on a worse way first, improved, and
reached again when settled; the proof has any graph. Two workers are enough for every race of
`Router` (each is between two: for a new counter, the cooldown, the mutex); a third packet finds the
channel full and both workers busy; two buckets have a value below, between and above them. Each
budget lets one part of the environment meet the workers; the proofs allow all budgets
at once. The configurations of `wire` are
those with names, with ids, with a node of the other kind, with maps that lack a node on
the route, and with the reserved id 0; its packets are light, carry a metric that floating
point rounds, one that is exact and one that is too large, or fill the largest datagram
but for one hop. Views have one link, as many as a decoder takes (4,096), one more, or 6,601:
the middle two wrap the header's length in strings, the last in ids. The safety run of `Router`
takes its workers as symmetric: no definition tells one from the other, and none of its
properties is about liveness. The proofs remove these bounds
for the safety properties they cover.

`CHECK_DEADLOCK FALSE` is set where the bounds stop the system (`MaxSeq`,
`MaxTime`, `MaxOutcomes`) or where it ends (a packet is delivered or dropped, a path is
returned, the process exits). For `Router`, `Drains` takes its place. `ConnPool`
has no bounds and does not end, so TLC checks it for deadlock, which says little: `Close` and
`Fail` are nearly always possible.

**Fairness.** Gossip: the broadcast loop and the full-sync interval keep going (weak
fairness; a goroutine with a timer). The network is fair-lossy: a full synchronisation
that is sent again and again reaches a given neighbour again and again (strong
fairness of `FullSyncReaches`), and a datagram that arrived is read. Nothing
is assumed of deltas, of any single datagram, or of the measuring. Without
full synchronisations the property is false, which its mutant shows. Forwarding: a
worker handles the packet its router received (weak fairness); `Lose` is not
fair. Dijkstra: a function that runs goes on running. Router: each worker, the receive
loop's send, a scrape that began, the handler and the updater are goroutines that the Go
scheduler runs when they can run (weak fairness each; a worker that waits for the mutex gets
it because `sync.Mutex` hands it over to starving waiters, and in these instances weak
fairness is enough). The ticker is a case of its own: the updater waits for it in a `select`
that a signal may interrupt, so `Tick` is strongly fair. Arrivals, signals, scrapes, cooldowns and
changes of the view are not fair: nothing promises them. The prober, the pool and the wire format are checked for safety
only.

## 4. Proofs

| Module | Theorems | Assumptions |
|---|---|---|
| `GossipProofs` | `TypeCorrect`, `SequenceOrder`, `OwnerLeads`, `ViewMonotone`, `GossipIsRegister`; with restarts `RestartsMixNothingUp`, `RestartIsNotNoticed` | `ConstantsAssumption`: neighbours are nodes, `None` is no entry, `MaxStaleness` is a natural number |
| `ForwardingProofs` | `TypeCorrect`, `RevisitsAreForced`, `StaysOnPlan`, `PlanIsEnough`, `FixedPathsStay`, `PacketsWalk`, `EveryHopCounts`, `NeverStranded` | `ForwardingAssumption`: configuration names routers and the destination, views contain measured links only, `MaxHops` fits a byte; `PlanIsEnough` also `MaxHops >= Cardinality(Router)`; `NeverStranded` also that there is a view, if only an empty one |
| `DijkstraProofs` | `TypeCorrect`, `AlwaysCertified`, `SettledForGood`, `CheapestPath`, `EveryTurnIsProgress`, `NeverStuck` | `DijkstraAssumption`: finitely many nodes, metrics and multipliers are natural numbers, a hop penalty above 0, the start is not the destination |
| `RouterProofs` | `TypeCorrect`, `BurstIsBounded`, `NothingUncounted`, `ScrapeIsExplained`, `SkewIsBounded`, `SecondSignalNotLost`, `NoDeadlock` | `RegistryAssumption`, `RouterAssumption`: finitely many workers; budgets of any size; `NoDeadlock` also a worker, room in the channel, and that a packet has some kind and some latency |
| `HistogramProofs` | `RegistryIsHistogram`, `HistogramIsConsistent` | the same, without those of `NoDeadlock` |
| `ProberProofs` | `TypeCorrect`, `AliveWasHeard`, `Attribution`, `OutcomesAreKept`, `WindowInOrder` | `ProberAssumption`: a window of at least one slot |
| `ConnPoolProofs` | `TypeCorrect`, `NothingClosedIsCached`, `NoSocketLost`, `SocketsAreBounded` | `None` is no socket; `SocketsAreBounded` also finitely many workers |
| `WireProofs` | `TypeCorrect`, `ReadsAsWritten`, `DriftIsBounded`, `RefusedForSize` | `WireAssumption`: id maps assign 16-bit ids and do not contradict each other, packets start without hops and with a path, the path of a reroute has at least two nodes, metrics are not negative, `MaxHops` fits a byte; maps, paths and names of any size |

Each proof is by an inductive invariant `IInv`, with lemmas for what the
operators return, a step per action of `Next`, and a last step that puts the
temporal formula together.

* **Gossip.** The properties are not inductive: they say nothing of a copy's origin
  or of numbers not handed out yet. `IInv` adds that every copy is filed under its
  link, has the measuring node as origin, a number at most that node's `seqGen`
  and a time not in the future. `CopiesOnlyMove` shows that only `UpdateLocal`
  makes a copy that was not there before; `MeasuringKeepsOrder` shows the new copy
  comes after all others of its link; `MovesKeepLead` and `OwnStaleAllStale` keep
  the owner in the lead when it merges and when it prunes. `ViewMonotone` is then
  a fact about one step (`ViewStep`). `GossipIsRegister` uses the same invariant: `RegisterStep` maps
  each action to one of the register's, and `MergeLearns` has the work of it, that a merge
  takes link by link only versions that are later than the view's. With restarts the order of the
  numbers is lost (finding 1), and the proofs say what is left: `RestartInv` is who measured what.
  Since every copy of a link has the same origin, `MergeRemote` never gets to compare timestamps,
  which would tell old from new; and a router that knows the link from before refuses
  every lower number until the entry is pruned (`RestartIsNotNoticed`).
* **Forwarding.** `IInv` has two halves. `WellPlanned`: from its second node on,
  the plan leads from routers to configured neighbours and ends at the destination;
  this holds always. `OnTrack`: until it is degraded, the packet is addressed to
  the next node of its plan, which it has not visited, and has counted one hop per
  visited router. Reroutes are the interesting case: a new plan may lead through
  visited routers, and it is loop detection that keeps `OnTrack` from being wrong.
  `PlanIsEnough` follows because a packet that expired has visited `MaxHops`
  different routers and stands before yet another one. `FixedPathsStay` has an invariant of its own
  (`FixedInv`): a fixed packet's path has no node twice and the visited routers are its
  travelled prefix, so loop detection never fires; and its map is empty, so it is never
  rerouted. `PacketsWalk` reads off the walk from `IInv`: `DecisionWalks` shows that every decision
  of a worker goes to a configured neighbour, and to a new one unless it degrades the packet.
  `EveryHopCounts` has the variant `BudgetLeft`, what is left of the hop budget while in flight.
* **Dijkstra.** `SearchInv` is `Certified` with the types and with the start at distance 0:
  settling the nearest node keeps it because no weight is negative. `WalkInv` adds
  that the walked part of the path is a chain of predecessors whose distances strictly
  decrease (this is where the hop penalty must be above 0), so it has no node twice;
  `OptInv` that what is still unvisited is no nearer than the destination. `CheapestPath` then compares:
  along any other path the distance grows by at most the weight of each link, by induction over
  the path, written as a smallest counterexample because induction theorems with operator
  parameters cannot be instantiated. `EveryTurnIsProgress` has the variant `StepsLeft`: unvisited nodes
  while searching, and nodes not yet on the path while walking, which is a natural number
  because a chain has no node twice.
* **Router.** Four invariants above `TypeInv`. `BurstInv`: the burst of a destination
  plus the workers that have seen it not cooling is at most the number of workers. `AccountInv`:
  `Accounted`, and a worker that is about to add has the counter that is in the map; the second
  look under the write lock is what keeps that true. `ScrapeInv`: the same account for the part of
  the sample that was read. `CumulativeInv` and `SkewInv`: a bucket exceeds the next one by at
  most the workers between the two. `SignalInv`: every accepted signal is in the channel or
  was taken, and each goroutine takes at most one (`Took`), because it then returns or stops.
  `MutexInv`: who holds the mutex is about to store the sum, for which nothing else is needed; and a
  scrape that waits for it has released the read lock, so the wait has no circle.
* **Histogram.** The refinement needs `SumHeld`: who has read the sum and not written it back
  holds the mutex, and the sum is still what was read. Each registry step is then an `Observe` of
  the abstract histogram or changes nothing of `Completed`. `HistogramIsConsistent` is a
  consequence: `Explained`, that the buckets are cumulative and that some weighting function of
  theirs ends in the sum, is an invariant of the *abstract* histogram, which has one action; and
  when nobody is inside `Observe`, `Completed` is what is in the buckets. That the recursive
  function in the property is that weighting function is shown by the smallest place at which
  two such functions would differ (`RecursionUnique`).
* **Prober.** `IInv` adds that a slot marked successful holds an RTT of a probe of
  this neighbour (`OwnRTTs`) and that a number belongs to one neighbour among
  pending, running and sent probes (`OneOwner`). Where probes do not overlap, `Alone`: the
  number of the running probe is pending from its registration on, and newer than what was
  pending before. It makes two more invariants inductive: `OwnFlag`, that a raised flag
  was raised by the running probe's own PONG, so that a timer that finds it may leave without
  an outcome; and `Ordered`, that the outcomes still in the ring are in the order of
  their probes, which needs that outcomes less than a window apart are in different slots.
* **ConnPool.** `IInv` adds that a socket between `dial` and `put` is open, not in
  the pool and in one worker's hands only (`OwnDialled`).
* **Wire.** `IInv` says that the frame in flight is some node's encoding of a packet
  that is *alike* the true one: equal in all but metrics (`Faithful`). `NameRoundTrip`
  shows that an id written by one node's table is read as the same name by any table
  that does not contradict it, `StringRoundTrip` and `RoundTrip` that decoding gives
  back an alike packet, `LogHopKeeps`, `RerouteKeeps` and `DegradeKeeps` that what a
  router does to alike packets leaves them alike. `CloseInv` adds to it how far the metrics have
  drifted: `hopCount` encodings for the map, `hopCount - i` for the record that hop `i` wrote
  (`MetricLoss` is what one encoding costs). `RefuseInv` adds `Counted`: the log and the
  visited nodes are no more than the hops, which are counted in a byte; and that the frame in
  flight fits a datagram, so that its length was not truncated (`HeaderLengths`, `SameIDs`). So a
  frame that is refused holds a packet that is not `Small` (`AlwaysDecodable`), and then neither is
  the true one.

**Only model-checked.** `Propagation`, both `Terminates`, `Drains`, `SecondSignalStops` and
`ReadinessFollows`: liveness under fairness, which TLAPS does not handle here. What can be said
of them without fairness is proved. For `Terminates` in both modules, that every step lowers a variant and that
until the end there is a step to take; these theorems state the guards (`MayGoOn`, `MayHandle`) because
`ENABLED` is out of reach. For `Drains`, that nobody waits for a waiter, and for `SecondSignalStops`, that
the second signal is kept for the handler. Every invariant and action property of the passing
runs, and each refinement, is a theorem. No module with a proof declares a `RECURSIVE` operator, and induction
over data is done by smallest counterexamples.

## 5. Not modelled

* The codec of gossip messages and the gob format of `serialize.go`, which no program sends; frames
  that are altered in transit. Fields that are copied unchanged (intent, timestamp, payload).
* `BuildGraphWithPenalties`, which no program calls; negative weights (a clock step
  backwards can make a latency negative, and then the walk over `prev` need not end).
* Metric values in `Forwarding`, penalties by age, thresholds of divergence: abstracted.
* The gauges and the text format of a scrape; signals before `signal.Notify`; start-up.
* `MAP_REQUEST` and the sender's retries: read-only for the router.
* Collector, system metrics, receiver statistics: single goroutines that copy or
  compute numbers which the models leave open.
* The demo, scripts, configurations and tests.

## 6. Findings

Each is a statement of a comment that the code does not meet; `PROJECT.json` quotes the lines.

1. `gossip_restart`: sequence numbers start over when a router restarts, so its
   new measurements are refused and its neighbours' old echoes overwrite them.
2. `forwarding_stamp`: the "specific next-hop neighbor's latency" is looked up
   before the hop index moves, so it is that of the router itself.
3. `prober_both`: a late PONG is recorded beside the failure of the same probe.

Smaller observations are made where the models are described in section 2. Two more concern code that
the models have as it is: `broadcastLoop` asks `HasChanges` after the broadcast has cleared it
(`gossip.go:234`), so its interval is practically always the stable one; `evict` goes by address
(`pool.go:133`) and may close the fresh connection that another worker has just put there, which costs
that worker a redial and, as `CachedIsOpen` and `NoLeak` say, nothing worse.

## 7. Plan

Done: the modules, runs and proofs of sections 2 to 4. In order of importance, what comes next:

1. **Gossip below Forwarding**: the registers of two or three routers in place of `Views`,
   so that reroutes follow measurements that spread.
2. **Prober below Gossip**: what is advertised of a neighbour that never answered.
3. **System metrics**: counters that go back, and the load they make of it.
