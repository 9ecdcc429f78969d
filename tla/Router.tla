------------------------------- MODULE Router -------------------------------
(***************************************************************************)
(* The router process of cmd/router/main.go as a whole: the receive loop,  *)
(* the bounded work channel, the workers that share the reroute cooldowns  *)
(* and the metrics registry, a scrape of the registry, and the goroutines  *)
(* of Lifecycle.                                                           *)
(*                                                                         *)
(* What happens to one packet is Forwarding's subject; here a decision of  *)
(* the worker is a choice, and what the workers share is exact.            *)
(***************************************************************************)
EXTENDS Registry, Lifecycle

CONSTANTS
    Dest,       \* destinations of packets
    ChanSize,   \* DefaultWorkerChanSize
    Budgets     \* what the environment may do in a behaviour

\* packets that arrive, of which kinds; reroutes, loops, packets dropped or lost;
\* latencies measured; scrapes, signals and changes of the view's freshness.
Kind == [dest : Dest, critical : BOOLEAN]

Budget ==
    [packets : Nat, kinds : SUBSET Kind, reroutes : Nat, loops : Nat, drops : Nat,
     latencies : SUBSET Latency, scrapes : Nat, signals : Nat, changes : Nat]

ASSUME RouterAssumption == ChanSize \in Nat /\ None \notin Dest /\ Budgets \subseteq Budget

VARIABLES
    rx,       \* the receive loop holds a datagram
    queued,   \* datagrams in workCh
    pc, pkt,  \* each worker's step and packet
    ok,       \* each worker's cooldownOk
    cooling,  \* lastRerouteByDest: the destinations whose cooldown runs
    burst,    \* non-critical reroutes since the destination last was not cooling
    unsent    \* packets lost by a failed pool.Send

workers == <<rx, queued, pc, pkt, ok, cooling, burst, unsent>>
vars == <<registry, lifecycle, left, workers>>

NoPacket == [dest |-> None, critical |-> FALSE]

Init ==
    /\ RegistryInit /\ LifecycleInit
    /\ left \in Budgets
    /\ rx = 0 /\ queued = 0
    /\ pc = [w \in Worker |-> "idle"] /\ pkt = [w \in Worker |-> NoPacket]
    /\ ok = [w \in Worker |-> FALSE]
    /\ cooling = {} /\ burst = [d \in Dest |-> 0] /\ unsent = 0

\* One of the budget's x is used up.
Spend(x) == left[x] > 0 /\ left' = [left EXCEPT ![x] = @ - 1]

Goto(w, step) == pc' = [pc EXCEPT ![w] = step]

\* The worker is done with its packet, but for the registry call it makes.
Finish(w) ==
    /\ Goto(w, "idle")
    /\ pkt' = [pkt EXCEPT ![w] = NoPacket]
    /\ ok' = [ok EXCEPT ![w] = FALSE]

-----------------------------------------------------------------------------
(* The receive loop *)

Arrive ==
    /\ rx = 0 /\ Spend("packets")
    /\ rx' = 1
    /\ UNCHANGED <<registry, lifecycle, queued, pc, pkt, ok, cooling, burst, unsent>>

\* Mutant: the channel is not bounded.
Dispatch_Unbounded ==
    /\ rx = 1
    /\ rx' = 0 /\ queued' = queued + 1
    /\ UNCHANGED <<registry, lifecycle, left, pc, pkt, ok, cooling, burst, unsent>>

\* An unbuffered channel (ChanSize = 0) would need a worker that waits.
Dispatch ==
    /\ rx = 1 /\ queued < ChanSize
    /\ rx' = 0 /\ queued' = queued + 1
    /\ UNCHANGED <<registry, lifecycle, left, pc, pkt, ok, cooling, burst, unsent>>

-----------------------------------------------------------------------------
(* A worker *)

FromChannel(w) ==
    /\ pc[w] = "idle" /\ call[w] = NoCall /\ queued > 0
    /\ queued' = queued - 1

\* A datagram that is no packet is counted nowhere.
DecodeError(w) ==
    /\ FromChannel(w) /\ Spend("drops")
    /\ UNCHANGED <<registry, lifecycle, rx, pc, pkt, ok, cooling, burst, unsent>>

Receive(w) ==
    /\ FromChannel(w)
    /\ \E k \in left.kinds : pkt' = [pkt EXCEPT ![w] = k]
    /\ received' = received + 1
    /\ Goto(w, "received")
    /\ UNCHANGED <<forwarded, reroutes, loops, labelled, histogram, call, scraping, lifecycle,
                   left, rx, ok, cooling, burst, unsent>>

Drop(w, reason) ==
    /\ Spend("drops")
    /\ Finish(w)
    /\ IncDropped(w, reason)
    /\ UNCHANGED <<plain, labelled, histogram, scraping, lifecycle,
                   rx, queued, cooling, burst, unsent>>

Expire(w) == pc[w] = "received" /\ Drop(w, "expired")

\* Mutant: the cooldown is not looked up.
CheckCooldown_Skipped(w) ==
    /\ pc[w] = "received"
    /\ ok' = [ok EXCEPT ![w] = TRUE]
    /\ Goto(w, "checked")
    /\ UNCHANGED <<registry, lifecycle, left, rx, queued, pkt, cooling, burst, unsent>>

CheckCooldown(w) ==
    /\ pc[w] = "received"
    /\ ok' = [ok EXCEPT ![w] = pkt[w].critical \/ pkt[w].dest \notin cooling]
    /\ Goto(w, "checked")
    /\ UNCHANGED <<registry, lifecycle, left, rx, queued, pkt, cooling, burst, unsent>>

\* Conditions diverged and the view has fresh links: the packet gets a new path.
Reroute(w) ==
    /\ pc[w] = "checked" /\ ok[w] /\ fresh /\ Spend("reroutes")
    /\ Goto(w, "rerouted")
    /\ UNCHANGED <<registry, lifecycle, rx, queued, pkt, ok, cooling, burst, unsent>>

StartCooldown(w) ==
    /\ pc[w] = "rerouted"
    /\ cooling' = cooling \cup {pkt[w].dest}
    /\ burst' = [burst EXCEPT ![pkt[w].dest] = @ + IF pkt[w].critical THEN 0 ELSE 1]
    /\ Goto(w, "stored")
    /\ UNCHANGED <<registry, lifecycle, left, rx, queued, pkt, ok, unsent>>

CountReroute(w) ==
    /\ pc[w] = "stored"
    /\ reroutes' = reroutes + 1
    /\ Goto(w, "route")
    /\ UNCHANGED <<received, forwarded, loops, labelled, histogram, call, scraping, lifecycle,
                   left, rx, queued, pkt, ok, cooling, burst, unsent>>

NoReroute(w) ==
    /\ pc[w] = "checked"
    /\ Goto(w, "route")
    /\ UNCHANGED <<registry, lifecycle, left, rx, queued, pkt, ok, cooling, burst, unsent>>

CountLoop(w) ==
    /\ pc[w] = "route" /\ Spend("loops")
    /\ loops' = loops + 1
    /\ Goto(w, "forced")
    /\ UNCHANGED <<received, forwarded, reroutes, labelled, histogram, call, scraping, lifecycle,
                   rx, queued, pkt, ok, cooling, burst, unsent>>

\* No such neighbour, or the packet cannot be encoded.
DropUnsendable(w) ==
    /\ pc[w] \in {"route", "forced"}
    /\ \E reason \in {"no_neighbor", "encode_error"} : Drop(w, reason)

SendFails(w) ==
    /\ pc[w] \in {"route", "forced"} /\ Spend("drops")
    /\ unsent' = unsent + 1
    /\ Finish(w)
    /\ UNCHANGED <<registry, lifecycle, rx, queued, cooling, burst>>

Forward(w) ==
    /\ pc[w] \in {"route", "forced"}
    /\ forwarded' = forwarded + 1
    /\ Goto(w, "forwarded")
    /\ UNCHANGED <<received, reroutes, loops, labelled, histogram, call, scraping, lifecycle,
                   left, rx, queued, pkt, ok, cooling, burst, unsent>>

ObserveLatency(w) ==
    /\ pc[w] = "forwarded"
    /\ Finish(w)
    /\ \E v \in left.latencies : Observe(w, v)
    /\ UNCHANGED <<plain, labelled, histogram, scraping, lifecycle, left,
                   rx, queued, cooling, burst, unsent>>

InRegistry(w) == Count(w) /\ UNCHANGED <<lifecycle, left, workers>>

Work(w) ==
    \/ DecodeError(w) \/ Receive(w) \/ Expire(w) \/ CheckCooldown(w)
    \/ Reroute(w) \/ StartCooldown(w) \/ CountReroute(w) \/ NoReroute(w)
    \/ CountLoop(w) \/ DropUnsendable(w) \/ SendFails(w) \/ Forward(w) \/ ObserveLatency(w)
    \/ InRegistry(w)

-----------------------------------------------------------------------------
(* The rest of the process *)

\* RerouteCooldownMs have passed since the last reroute to d.
CooldownEnds(d) ==
    /\ d \in cooling
    /\ cooling' = cooling \ {d}
    /\ burst' = [burst EXCEPT ![d] = 0]
    /\ UNCHANGED <<registry, lifecycle, left, rx, queued, pc, pkt, ok, unsent>>

StartScrape ==
    /\ scrape.at \in {"none", "done"} /\ Spend("scrapes")
    /\ scrape' = [at |-> "received"] /\ sample' = NoSample
    /\ UNCHANGED <<plain, labelled, histogram, call, lifecycle, workers>>

Scraping == Scrape /\ UNCHANGED <<lifecycle, left, workers>>

Environment == Signal \/ FreshnessChanges

Other(A) == A /\ UNCHANGED <<registry, workers>>

Step ==
    \/ Arrive \/ Dispatch
    \/ \E w \in Worker : Work(w)
    \/ \E d \in Dest : CooldownEnds(d)
    \/ StartScrape \/ Scraping
    \/ Other(Handler) \/ Other(Updater) \/ Other(Tick) \/ Other(Environment)

\* os.Exit ends all goroutines where they are.
Next == Running /\ Step

Spec == Init /\ [][Next]_vars

\* The Go scheduler runs what can run, a freed mutex goes to a waiter and the
\* ticker ticks.
Fairness ==
    /\ \A w \in Worker : WF_vars(Running /\ Work(w))
    /\ WF_vars(Running /\ Dispatch) /\ WF_vars(Running /\ Scraping)
    /\ WF_vars(Running /\ Other(Handler))
    /\ WF_vars(Running /\ Other(Updater))
    /\ SF_vars(Running /\ Other(Tick))

FairSpec == Spec /\ Fairness

-----------------------------------------------------------------------------
(* Properties *)

\* The types of the registry, the lifecycle and the workers.
TypeOK ==
    /\ RegistryTypeOK
    /\ LifecycleTypeOK
    /\ rx \in 0..1 /\ queued \in 0..ChanSize
    /\ pc \in [Worker -> {"idle", "received", "checked", "rerouted", "stored",
                          "route", "forced", "forwarded"}]
    /\ pkt \in [Worker -> Kind \cup {NoPacket}]
    /\ ok \in [Worker -> BOOLEAN]
    /\ cooling \subseteq Dest /\ burst \in [Dest -> Nat] /\ unsent \in Nat

CountingDrop == {w \in Worker : call[w].at \in {"find", "make", "add"}}

Handling == {w \in Worker :
                pc[w] \in {"received", "checked", "rerouted", "stored", "route", "forced"}}

DroppedTotal == Shown("expired") + Shown("no_neighbor") + Shown("encode_error")

\* Every packet received is forwarded, dropped for a counted reason, lost by a
\* failed send, which no counter shows, or in the hands of a worker: no
\* increment is lost, also when two workers meet a new reason at once.
Accounted ==
    received = forwarded + DroppedTotal + unsent
                 + Cardinality(Handling) + Cardinality(CountingDrop)

\* The cooldown is read before the reroute and stored after it: while it runs,
\* as many non-critical packets as there are workers may have been rerouted to
\* one destination, and never more.
BurstBounded == \A d \in Dest : burst[d] <= Cardinality(Worker)

SampleDropped ==
    sample.dropped["expired"] + sample.dropped["no_neighbor"] + sample.dropped["encode_error"]

\* A scrape reads what came in before what went out: of what it shows as
\* received only one packet per worker and the failed sends are missing.
ScrapeAccounts ==
    scrape.at = "done" =>
        sample.received <= sample.forwarded + SampleDropped + unsent + Cardinality(Worker)

Drained ==
    /\ rx = 0 /\ queued = 0
    /\ \A w \in Worker : pc[w] = "idle" /\ call[w] = NoCall

\* The receive loop blocked on a full channel, the workers and the locks of the
\* registry never stop each other for good: what has arrived is worked off.
Drains == []<>(Drained \/ ~Running)
=============================================================================
