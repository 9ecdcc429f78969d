---------------------------- MODULE RouterProofs ----------------------------
(***************************************************************************)
(* Proofs about the router process for any number of workers, of packets,  *)
(* destinations and buckets, and any size of the work channel.             *)
(***************************************************************************)
EXTENDS Router, FiniteSetTheorems, TLAPS

-----------------------------------------------------------------------------
(* The inductive invariant: types *)

\* What a worker may be doing in the registry.
Calls ==
    {NoCall}
    \cup [at : {"find", "make"}, reason : Reason]
    \cup [at : {"add"}, reason : Reason, counter : Worker]
    \cup [at : {"bucket"}, value : Latency, next : 1..Buckets]
    \cup [at : {"total", "lock"}, value : Latency, next : Nat]
    \cup [at : {"store"}, value : Latency, current : Nat]

\* How far a scrape may be.
Scrapes ==
    [at : {"none", "received", "forwarded", "sum", "done"}]
    \cup [at : {"dropped"}, left : SUBSET Reason]
    \cup [at : {"bucket"}, next : 1..Buckets + 1]

Samples ==
    [received : Nat, forwarded : Nat, dropped : [Reason -> Nat],
     bucket : [1..Buckets -> Nat], inf : Nat, count : Nat]

RegistryInv ==
    /\ RegistryTypeOK
    /\ call \in [Worker -> Calls]
    /\ scrape \in Scrapes
    /\ sample \in Samples

WorkersInv ==
    /\ rx \in 0..1 /\ queued \in 0..ChanSize
    /\ pc \in [Worker -> {"idle", "received", "checked", "rerouted", "stored",
                          "route", "forced", "forwarded"}]
    /\ pkt \in [Worker -> Kind \cup {NoPacket}]
    /\ ok \in [Worker -> BOOLEAN]
    /\ cooling \subseteq Dest /\ burst \in [Dest -> Nat] /\ unsent \in Nat
    /\ \A w \in Worker : pc[w] \in {"received", "checked", "rerouted", "stored"} => pkt[w] \in Kind

TypeInv == RegistryInv /\ WorkersInv /\ LifecycleTypeOK /\ left \in Budget

LEMMA FiniteWorker == IsFiniteSet(Worker)
BY RegistryAssumption

LEMMA InitType == Init => TypeInv
<1> SUFFICES ASSUME Init PROVE TypeInv
  OBVIOUS
<1> USE RegistryAssumption, RouterAssumption DEF Init
<1>1. RegistryInv
  BY DEF RegistryInit, RegistryInv, RegistryTypeOK, NoCall, Calls, Scrapes, Samples, NoSample
<1>2. WorkersInv
  BY DEF WorkersInv
<1>3. LifecycleTypeOK
  <2>1. /\ DOMAIN at = Goroutine /\ \A g \in Goroutine : at[g] = "select"
        /\ first = "nobody" /\ sigCh = 0 /\ accepted = 0 /\ fresh = FALSE /\ ready = FALSE
    BY DEF LifecycleInit
  <2>2. at["handler"] = "select" /\ at["updater"] = "select"
    BY <2>1 DEF Goroutine
  <2>3. fresh \in BOOLEAN /\ ready \in BOOLEAN
    BY <2>1
  <2> QED
    BY <2>1, <2>2, <2>3 DEF LifecycleTypeOK
<1>4. left \in Budget
  OBVIOUS
<1> QED
  BY <1>1, <1>2, <1>3, <1>4 DEF TypeInv

\* A call is what its step says it is.
LEMMA CallAt ==
    ASSUME TypeInv, NEW w \in Worker
    PROVE  /\ call[w].at \in {"find", "make"} =>
                 call[w] \in [at : {"find", "make"}, reason : Reason]
           /\ call[w].at = "add" =>
                 call[w] \in [at : {"add"}, reason : Reason, counter : Worker]
           /\ call[w].at = "bucket" =>
                 call[w] \in [at : {"bucket"}, value : Latency, next : 1..Buckets]
           /\ call[w].at \in {"total", "lock"} =>
                 call[w] \in [at : {"total", "lock"}, value : Latency, next : Nat]
           /\ call[w].at = "store" =>
                 call[w] \in [at : {"store"}, value : Latency, current : Nat]
BY DEF TypeInv, RegistryInv, Calls, NoCall

LEMMA ScrapeAt ==
    ASSUME TypeInv
    PROVE  /\ scrape.at = "dropped" => scrape \in [at : {"dropped"}, left : SUBSET Reason]
           /\ scrape.at = "bucket" => scrape \in [at : {"bucket"}, next : 1..Buckets + 1]
BY DEF TypeInv, RegistryInv, Scrapes

\* The steps inside the registry keep its types.
LEMMA CountType ==
    ASSUME TypeInv, NEW w \in Worker, Count(w)
    PROVE  RegistryInv'
<1> USE RegistryAssumption, CallAt
    DEF TypeInv, RegistryInv, RegistryTypeOK, plain, labelled, histogram, scraping
<1>1. CASE FindCounter(w)
  <2>1. call[w] \in [at : {"find", "make"}, reason : Reason]
    BY <1>1 DEF FindCounter
  <2>2. call'[w] \in Calls
    BY <1>1, <2>1 DEF FindCounter, Adding, Calls
  <2> QED
    BY <1>1, <2>2 DEF FindCounter
<1>2. CASE MakeCounter(w)
  <2>1. call[w] \in [at : {"find", "make"}, reason : Reason]
    BY <1>2 DEF MakeCounter
  <2>2. call'[w] \in Calls
    BY <1>2, <2>1 DEF MakeCounter, Adding, Calls
  <2>3. call' \in [Worker -> Calls]
    BY <1>2, <2>2 DEF MakeCounter
  <2>4. CASE counters[call[w].reason] # None
    BY <1>2, <2>3, <2>4 DEF MakeCounter
  <2>5. CASE counters[call[w].reason] = None
    <3>1. /\ counters' = [counters EXCEPT ![call[w].reason] = w]
          /\ tally' = [tally EXCEPT ![call[w].reason][w] = 0]
      BY <1>2, <2>5 DEF MakeCounter
    <3>2. counters' \in [Reason -> Worker \cup {None}] /\ tally' \in [Reason -> [Worker -> Nat]]
      BY <2>1, <3>1
    <3> QED
      BY <1>2, <2>3, <3>2 DEF MakeCounter
  <2> QED
    BY <2>4, <2>5
<1>3. CASE AddToCounter(w)
  <2>1. call[w] \in [at : {"add"}, reason : Reason, counter : Worker]
    BY <1>3 DEF AddToCounter
  <2> QED
    BY <1>3, <2>1 DEF AddToCounter, Calls
<1>4. CASE CountBucket(w)
  <2>1. call[w] \in [at : {"bucket"}, value : Latency, next : 1..Buckets]
    BY <1>4 DEF CountBucket
  <2>2. call'[w] \in Calls
    BY <1>4, <2>1 DEF CountBucket, Observing, Calls, Latency
  <2> QED
    BY <1>4, <2>1, <2>2 DEF CountBucket
<1>5. CASE CountTotal(w)
  <2>1. call[w] \in [at : {"total", "lock"}, value : Latency, next : Nat]
    BY <1>5 DEF CountTotal
  <2>2. call'[w] \in Calls
    BY <1>5, <2>1 DEF CountTotal, Calls
  <2> QED
    BY <1>5, <2>2 DEF CountTotal
<1>6. CASE ReadSum(w)
  <2>1. call[w] \in [at : {"total", "lock"}, value : Latency, next : Nat]
    BY <1>6 DEF ReadSum
  <2>2. call'[w] \in Calls
    BY <1>6, <2>1 DEF ReadSum, Calls
  <2> QED
    BY <1>6, <2>2 DEF ReadSum
<1>7. CASE StoreSum(w)
  <2>1. call[w] \in [at : {"store"}, value : Latency, current : Nat]
    BY <1>7 DEF StoreSum
  <2> QED
    BY <1>7, <2>1 DEF StoreSum, Calls, Latency
<1> QED
  BY <1>1, <1>2, <1>3, <1>4, <1>5, <1>6, <1>7 DEF Count

LEMMA ScrapeType ==
    ASSUME TypeInv, Scrape
    PROVE  RegistryInv'
<1> USE RegistryAssumption, ScrapeAt
    DEF TypeInv, RegistryInv, RegistryTypeOK, counting, plain, labelled, histogram
<1>1. CASE ScrapeReceived
  BY <1>1 DEF ScrapeReceived, Scrapes, Samples
<1>2. CASE ScrapeForwarded
  BY <1>2 DEF ScrapeForwarded, Scrapes, Samples
<1>3. ASSUME NEW r \in Reason, ScrapeDropped(r) PROVE RegistryInv'
  <2>1. scrape' \in Scrapes
    BY <1>3 DEF ScrapeDropped, Scrapes
  <2>2. Shown(r) \in Nat
    BY DEF Shown
  <2>3. sample' \in Samples
    BY <1>3, <2>2 DEF ScrapeDropped, Samples
  <2> QED
    BY <1>3, <2>1, <2>3 DEF ScrapeDropped
<1>4. CASE ScrapeUnlock
  BY <1>4 DEF ScrapeUnlock, Scrapes
<1>5. CASE ScrapeBucket
  <2>1. scrape' \in Scrapes
    BY <1>5 DEF ScrapeBucket, Scrapes
  <2>2. sample' \in Samples
    BY <1>5 DEF ScrapeBucket, Samples
  <2> QED
    BY <1>5, <2>1, <2>2 DEF ScrapeBucket
<1>6. CASE ScrapeInf
  BY <1>6 DEF ScrapeInf, Scrapes, Samples
<1>7. CASE ScrapeCount
  BY <1>7 DEF ScrapeCount, Scrapes, Samples
<1> QED
  BY <1>1, <1>2, <1>3, <1>4, <1>5, <1>6, <1>7 DEF Scrape

\* What the goroutines and the runtime do to the signal channel.
LEMMA LifecycleType ==
    ASSUME TypeInv, Handler \/ Updater \/ Tick \/ Environment
    PROVE  LifecycleTypeOK' /\ left' \in Budget
<1> USE DEF TypeInv, LifecycleTypeOK, Goroutine
<1>1. ASSUME NEW g \in Goroutine, TakeSignal(g) PROVE LifecycleTypeOK' /\ left' = left
  BY <1>1 DEF TakeSignal, OnSignal
<1>2. ASSUME NEW g \in Goroutine, Park(g) PROVE LifecycleTypeOK' /\ left' = left
  BY <1>2 DEF Park
<1>3. CASE Exit
  BY <1>3 DEF Exit
<1>4. CASE Tick
  BY <1>4 DEF Tick, Behind, Peer
<1>5. CASE SetReady
  BY <1>5 DEF SetReady
<1>6. CASE Signal
  <2>1. left' \in Budget
    BY <1>6 DEF Signal, Budget
  <2> QED
    BY <1>6, <2>1 DEF Signal, OnSignal, Behind, Peer
<1>7. CASE FreshnessChanges
  BY <1>7 DEF FreshnessChanges, Budget
<1> QED
  BY <1>1, <1>2, <1>3, <1>4, <1>5, <1>6, <1>7 DEF Handler, Updater, Environment

LEMMA SpendType ==
    ASSUME TypeInv,
           NEW x \in {"packets", "reroutes", "loops", "drops", "scrapes"}, Spend(x)
    PROVE  left' \in Budget
BY DEF TypeInv, Spend, Budget

\* The steps of a worker outside the registry.
LEMMA WorkType ==
    ASSUME TypeInv, NEW w \in Worker, Work(w), ~InRegistry(w)
    PROVE  RegistryInv' /\ WorkersInv' /\ left' \in Budget /\ UNCHANGED lifecycle
<1> USE RegistryAssumption, RouterAssumption, SpendType
    DEF registry, plain, labelled, histogram, scraping, TypeInv, Goto, Finish
<1> DEFINE Good == RegistryInv' /\ WorkersInv' /\ left' \in Budget /\ UNCHANGED lifecycle
<1>1. CASE DecodeError(w)
  BY <1>1 DEF DecodeError, FromChannel, WorkersInv, RegistryInv, RegistryTypeOK
<1>2. CASE Receive(w)
  <2>1. RegistryInv'
    BY <1>2 DEF Receive, RegistryInv, RegistryTypeOK
  <2>2. WorkersInv'
    BY <1>2 DEF Receive, FromChannel, WorkersInv, Budget
  <2> QED
    BY <1>2, <2>1, <2>2 DEF Receive
<1>3. ASSUME NEW r \in Reason, Drop(w, r), pc[w] # "idle" PROVE Good
  <2>1. call' \in [Worker -> Calls]
    BY <1>3 DEF Drop, IncDropped, Calls, RegistryInv
  <2>2. RegistryInv'
    BY <1>3, <2>1 DEF Drop, RegistryInv, RegistryTypeOK
  <2>3. WorkersInv'
    BY <1>3 DEF Drop, WorkersInv
  <2> QED
    BY <1>3, <2>2, <2>3 DEF Drop
<1>4. CASE CheckCooldown(w)
  BY <1>4 DEF CheckCooldown, WorkersInv, RegistryInv, RegistryTypeOK
<1>5. CASE Reroute(w) \/ NoReroute(w)
  BY <1>5 DEF Reroute, NoReroute, WorkersInv, RegistryInv, RegistryTypeOK
<1>6. CASE StartCooldown(w)
  <2>1. pkt[w].dest \in Dest
    BY <1>6 DEF StartCooldown, WorkersInv, Kind
  <2>2. WorkersInv'
    BY <1>6, <2>1 DEF StartCooldown, WorkersInv
  <2> QED
    BY <1>6, <2>2 DEF StartCooldown, RegistryInv, RegistryTypeOK
<1>7. CASE CountReroute(w)
  BY <1>7 DEF CountReroute, WorkersInv, RegistryInv, RegistryTypeOK
<1>8. CASE CountLoop(w)
  BY <1>8 DEF CountLoop, WorkersInv, RegistryInv, RegistryTypeOK
<1>9. CASE SendFails(w)
  BY <1>9 DEF SendFails, WorkersInv, RegistryInv, RegistryTypeOK
<1>10. CASE Forward(w)
  BY <1>10 DEF Forward, WorkersInv, RegistryInv, RegistryTypeOK
<1>11. CASE ObserveLatency(w)
  <2>1. PICK v \in Latency : Observe(w, v)
    BY <1>11 DEF ObserveLatency, Budget
  <2>2. Observing(v, v) \in Calls
    BY DEF Observing, Calls, Latency
  <2>3. call' \in [Worker -> Calls]
    BY <2>1, <2>2 DEF Observe, RegistryInv
  <2>4. RegistryInv'
    BY <1>11, <2>3 DEF ObserveLatency, RegistryInv, RegistryTypeOK
  <2>5. WorkersInv'
    BY <1>11 DEF ObserveLatency, WorkersInv
  <2> QED
    BY <1>11, <2>4, <2>5 DEF ObserveLatency
<1> QED
  BY <1>1, <1>2, <1>3, <1>4, <1>5, <1>6, <1>7, <1>8, <1>9, <1>10, <1>11
     DEF Work, Expire, DropUnsendable, Reason

LEMMA TypeStep == TypeInv /\ [Next]_vars => TypeInv'
<1> SUFFICES ASSUME TypeInv, [Next]_vars PROVE TypeInv'
  OBVIOUS
<1> USE DEF TypeInv
<1>1. CASE UNCHANGED <<registry, workers>>
           /\ (Handler \/ Updater \/ Tick \/ Environment)
  BY <1>1, LifecycleType
     DEF registry, workers, RegistryInv, RegistryTypeOK, WorkersInv
<1>2. CASE Arrive \/ Dispatch
  <2>1. WorkersInv' /\ left' \in Budget
    BY <1>2, RouterAssumption, SpendType DEF Arrive, Dispatch, WorkersInv
  <2> QED
    BY <1>2, <2>1 DEF Arrive, Dispatch, registry, lifecycle, RegistryInv, RegistryTypeOK,
                      LifecycleTypeOK
<1>3. ASSUME NEW w \in Worker, Work(w), ~InRegistry(w) PROVE TypeInv'
  BY <1>3, WorkType DEF lifecycle, LifecycleTypeOK
<1>4. ASSUME NEW w \in Worker, InRegistry(w) PROVE TypeInv'
  BY <1>4, CountType DEF InRegistry, lifecycle, workers, LifecycleTypeOK, WorkersInv
<1>5. ASSUME NEW d \in Dest, CooldownEnds(d) PROVE TypeInv'
  BY <1>5 DEF CooldownEnds, registry, lifecycle, RegistryInv, RegistryTypeOK, WorkersInv,
              LifecycleTypeOK
<1>6. CASE StartScrape
  <2>1. RegistryInv'
    BY <1>6 DEF StartScrape, plain, labelled, histogram, RegistryInv, RegistryTypeOK,
                Scrapes, Samples, NoSample
  <2> QED
    BY <1>6, <2>1, SpendType DEF StartScrape, lifecycle, workers, WorkersInv,
                                 LifecycleTypeOK
<1>7. CASE Scraping
  BY <1>7, ScrapeType DEF Scraping, lifecycle, workers, LifecycleTypeOK, WorkersInv
<1>8. CASE UNCHANGED vars
  BY <1>8 DEF vars, registry, lifecycle, workers, RegistryInv, RegistryTypeOK, WorkersInv,
              LifecycleTypeOK
<1> QED
  BY <1>1, <1>2, <1>3, <1>4, <1>5, <1>6, <1>7, <1>8 DEF Next, Step, Other

\* Everything the process holds keeps its type, whatever the interleaving.
THEOREM TypeCorrect == Spec => []TypeOK
<1>1. TypeInv => TypeOK
  BY DEF TypeInv, RegistryInv, WorkersInv, TypeOK
<1> QED
  BY <1>1, InitType, TypeStep, PTL DEF Spec

-----------------------------------------------------------------------------
(* Counting workers *)

LEMMA CardNat ==
    ASSUME NEW S, S \subseteq Worker
    PROVE  IsFiniteSet(S) /\ Cardinality(S) \in Nat /\ Cardinality(S) <= Cardinality(Worker)
BY FiniteWorker, FS_Subset, FS_CardinalityType

LEMMA CardAdd ==
    ASSUME NEW S, S \subseteq Worker, NEW w \in Worker, w \notin S
    PROVE  Cardinality(S \cup {w}) = Cardinality(S) + 1
BY CardNat, FS_AddElement

LEMMA CardRemove ==
    ASSUME NEW S, S \subseteq Worker, NEW w \in S
    PROVE  Cardinality(S \ {w}) = Cardinality(S) - 1
BY CardNat, FS_RemoveElement

LEMMA CardDisjoint ==
    ASSUME NEW S, NEW T, S \subseteq Worker, T \subseteq Worker, S \cap T = {}
    PROVE  Cardinality(S) + Cardinality(T) <= Cardinality(Worker)
<1>1. Cardinality(S \cup T) = Cardinality(S) + Cardinality(T) - Cardinality(S \cap T)
  BY CardNat, FS_Union
<1>2. Cardinality(S \cap T) = 0
  BY FS_EmptySet
<1> QED
  BY <1>1, <1>2, CardNat

-----------------------------------------------------------------------------
(* Reroutes while a cooldown runs *)

\* Workers that found the cooldown of d over and may still use that.
Users(d) == {w \in Worker :
    pc[w] \in {"checked", "rerouted"} /\ ok[w] /\ ~pkt[w].critical /\ pkt[w].dest = d}

BurstInv ==
    /\ \A w \in Worker : pc[w] = "rerouted" => ok[w]
    /\ \A d \in Dest :
          /\ d \notin cooling => burst[d] = 0
          /\ burst[d] + Cardinality(Users(d)) <= Cardinality(Worker)

LEMMA InitBurst == Init => BurstInv
<1> SUFFICES ASSUME Init PROVE BurstInv
  OBVIOUS
<1>1. \A d \in Dest : Users(d) = {}
  BY DEF Init, Users
<1> QED
  BY <1>1, FS_EmptySet, CardNat DEF Init, BurstInv

\* A step that starts no cooldown and adds no user keeps the invariant.
LEMMA BurstKept ==
    ASSUME TypeInv, BurstInv, UNCHANGED <<cooling, burst>>,
           \A w \in Worker : pc'[w] = "rerouted" => ok'[w],
           \A d \in Dest : Users(d)' \subseteq Users(d)
    PROVE  BurstInv'
<1> SUFFICES ASSUME NEW d \in Dest
             PROVE  burst[d] + Cardinality(Users(d)') <= Cardinality(Worker)
  BY DEF BurstInv
<1>1. IsFiniteSet(Users(d)) /\ Cardinality(Users(d)) \in Nat
  BY CardNat DEF Users
<1>2. Cardinality(Users(d)') <= Cardinality(Users(d)) /\ Cardinality(Users(d)') \in Nat
  BY <1>1, FS_Subset, FS_CardinalityType
<1>3. burst[d] \in Nat /\ Cardinality(Worker) \in Nat
  BY CardNat DEF TypeInv, WorkersInv
<1> QED
  BY <1>1, <1>2, <1>3 DEF BurstInv

LEMMA BurstStep == TypeInv /\ BurstInv /\ [Next]_vars => BurstInv'
<1> SUFFICES ASSUME TypeInv, BurstInv, [Next]_vars PROVE BurstInv'
  OBVIOUS
<1> DEFINE N == Cardinality(Worker)
<1>1. N \in Nat /\ \A d \in Dest : Cardinality(Users(d)) \in Nat /\ burst[d] \in Nat
  BY CardNat DEF Users, TypeInv, WorkersInv
<1>2. CASE UNCHANGED <<pc, pkt, ok, cooling, burst>>
  BY <1>2, BurstKept DEF Users, BurstInv
<1>3. ASSUME NEW w \in Worker, UNCHANGED <<cooling, burst>>,
             \E step \in {"idle", "received", "stored", "route", "forced", "forwarded"} : Goto(w, step),
             \A v \in Worker \ {w} : pkt'[v] = pkt[v] /\ ok'[v] = ok[v]
      PROVE  BurstInv'
  <2>1. PICK step \in {"idle", "received", "stored", "route", "forced", "forwarded"} : Goto(w, step)
    BY <1>3
  <2>2. pc'[w] = step /\ \A v \in Worker \ {w} : pc'[v] = pc[v]
    BY <2>1 DEF Goto, TypeInv, WorkersInv
  <2>3. \A v \in Worker : pc'[v] = "rerouted" => ok'[v]
    BY <1>3, <2>2 DEF BurstInv
  <2>4. \A d \in Dest : Users(d)' \subseteq Users(d)
    BY <1>3, <2>2 DEF Users
  <2> QED
    BY <1>3, <2>3, <2>4, BurstKept
<1>4. ASSUME NEW w \in Worker, CheckCooldown(w) PROVE BurstInv'
  <2>1. \A v \in Worker : pc'[v] = "rerouted" => ok'[v]
    BY <1>4 DEF CheckCooldown, Goto, BurstInv, TypeInv, WorkersInv
  <2>2. SUFFICES ASSUME NEW d \in Dest PROVE burst[d] + Cardinality(Users(d)') <= N
    BY <1>4, <2>1 DEF CheckCooldown, BurstInv
  <2>3. CASE d \in cooling
    <3>1. Users(d)' \subseteq Users(d)
      BY <1>4, <2>3 DEF CheckCooldown, Goto, Users, TypeInv, WorkersInv
    <3>2. Cardinality(Users(d)') <= Cardinality(Users(d)) /\ Cardinality(Users(d)') \in Nat
      BY <3>1, CardNat, FS_Subset, FS_CardinalityType DEF Users
    <3> QED
      BY <1>1, <3>2 DEF BurstInv
  <2>4. CASE d \notin cooling
    <3>1. Users(d)' \subseteq Worker
      BY DEF Users
    <3> QED
      BY <2>4, <3>1, <1>1, CardNat DEF BurstInv
  <2> QED
    BY <2>3, <2>4
<1>5. ASSUME NEW w \in Worker, Reroute(w) PROVE BurstInv'
  <2>1. \A d \in Dest : Users(d)' = Users(d)
    BY <1>5 DEF Reroute, Goto, Users, TypeInv, WorkersInv
  <2>2. \A v \in Worker : pc'[v] = "rerouted" => ok'[v]
    BY <1>5 DEF Reroute, Goto, BurstInv, TypeInv, WorkersInv
  <2> QED
    BY <1>5, <2>1, <2>2, BurstKept DEF Reroute
<1>6. ASSUME NEW w \in Worker, StartCooldown(w) PROVE BurstInv'
  <2>1. ok[w] /\ pkt[w] \in Kind
    BY <1>6 DEF StartCooldown, BurstInv, TypeInv, WorkersInv
  <2>2. \A v \in Worker : pc'[v] = "rerouted" => ok'[v]
    BY <1>6 DEF StartCooldown, Goto, BurstInv, TypeInv, WorkersInv
  <2>3. \A d \in Dest : Users(d)' = Users(d) \ {w}
    BY <1>6 DEF StartCooldown, Goto, Users, TypeInv, WorkersInv
  <2>4. cooling' = cooling \cup {pkt[w].dest} /\ pkt[w].dest \in Dest
    BY <1>6, <2>1 DEF StartCooldown, Kind
  <2>5. SUFFICES ASSUME NEW d \in Dest
                 PROVE  /\ d \notin cooling' => burst'[d] = 0
                        /\ burst'[d] + Cardinality(Users(d)') <= N
    BY <2>2 DEF BurstInv
  <2>6. CASE pkt[w].dest = d /\ ~pkt[w].critical
    <3>1. w \in Users(d)
      BY <1>6, <2>1, <2>6 DEF StartCooldown, Users
    <3>2. Cardinality(Users(d)') = Cardinality(Users(d)) - 1
      BY <2>3, <3>1, CardRemove DEF Users
    <3>3. burst'[d] = burst[d] + 1
      BY <1>6, <2>6 DEF StartCooldown, TypeInv, WorkersInv
    <3> QED
      BY <2>4, <2>6, <3>2, <3>3, <1>1 DEF BurstInv
  <2>7. CASE ~(pkt[w].dest = d /\ ~pkt[w].critical)
    <3>1. w \notin Users(d)
      BY <2>7 DEF Users
    <3>2. Users(d)' = Users(d)
      BY <2>3, <3>1
    <3>3. burst'[d] = burst[d]
      <4>1. CASE pkt[w].dest # d
        BY <1>6, <4>1 DEF StartCooldown, TypeInv, WorkersInv
      <4>2. CASE pkt[w].dest = d /\ pkt[w].critical
        BY <1>6, <4>2, <1>1 DEF StartCooldown, TypeInv, WorkersInv
      <4> QED
        BY <2>7, <4>1, <4>2
    <3> QED
      BY <2>4, <3>2, <3>3 DEF BurstInv
  <2> QED
    BY <2>6, <2>7
<1>7. ASSUME NEW e \in Dest, CooldownEnds(e) PROVE BurstInv'
  <2>1. \A d \in Dest : Users(d)' = Users(d)
    BY <1>7 DEF CooldownEnds, Users
  <2>2. \A d \in Dest : burst'[d] = IF d = e THEN 0 ELSE burst[d]
    BY <1>7 DEF CooldownEnds, TypeInv, WorkersInv
  <2>3. \A d \in Dest : Cardinality(Users(d)) <= N
    BY CardNat DEF Users
  <2> QED
    BY <1>7, <2>1, <2>2, <2>3, <1>1 DEF CooldownEnds, BurstInv
<1> QED
  <2>1. ASSUME NEW w \in Worker, Work(w) PROVE BurstInv'
    <3>1. CASE DecodeError(w) \/ InRegistry(w)
      BY <3>1, <1>2 DEF DecodeError, InRegistry, workers
    <3>2. CASE Receive(w)
      BY <3>2, <1>3 DEF Receive, TypeInv, WorkersInv
    <3>3. CASE Expire(w) \/ DropUnsendable(w)
      BY <3>3, <1>3 DEF Expire, DropUnsendable, Drop, Finish, TypeInv, WorkersInv
    <3>4. CASE SendFails(w)
      BY <3>4, <1>3 DEF SendFails, Finish, TypeInv, WorkersInv
    <3>5. CASE ObserveLatency(w)
      BY <3>5, <1>3 DEF ObserveLatency, Finish, TypeInv, WorkersInv
    <3>6. CASE CountReroute(w)
      BY <3>6, <1>3 DEF CountReroute
    <3>7. CASE NoReroute(w)
      BY <3>7, <1>3 DEF NoReroute
    <3>8. CASE CountLoop(w)
      BY <3>8, <1>3 DEF CountLoop
    <3>9. CASE Forward(w)
      BY <3>9, <1>3 DEF Forward
    <3> QED
      BY <2>1, <3>1, <3>2, <3>3, <3>4, <3>5, <3>6, <3>7, <3>8, <3>9, <1>4, <1>5, <1>6 DEF Work
  <2>2. CASE Arrive \/ Dispatch \/ StartScrape \/ Scraping
    BY <2>2, <1>2 DEF Arrive, Dispatch, StartScrape, Scraping, workers
  <2>3. CASE UNCHANGED workers
    BY <2>3, <1>2 DEF workers
  <2> QED
    BY <1>7, <2>1, <2>2, <2>3 DEF Next, Step, Other, vars

\* While a cooldown runs, as many packets as there are workers may have been
\* rerouted to the destination, and never more: the worker reads the cooldown
\* before the reroute and stores it after.
THEOREM BurstIsBounded == Spec => []BurstBounded
<1>1. TypeInv /\ BurstInv => BurstBounded
  <2> SUFFICES ASSUME TypeInv, BurstInv, NEW d \in Dest PROVE burst[d] <= Cardinality(Worker)
    BY DEF BurstBounded
  <2>1. Cardinality(Users(d)) \in Nat /\ Cardinality(Worker) \in Nat /\ burst[d] \in Nat
    BY CardNat DEF Users, TypeInv, WorkersInv
  <2> QED
    BY <2>1 DEF BurstInv
<1> QED
  BY <1>1, InitType, TypeStep, InitBurst, BurstStep, PTL DEF Spec

-----------------------------------------------------------------------------
(* Every packet is accounted for *)

\* A worker with a packet is not in the registry, and one that adds to a drop
\* counter has the counter that the registry shows.
AccountInv ==
    /\ Accounted
    /\ \A w \in Worker : pc[w] # "idle" => call[w] = NoCall
    /\ \A w \in Worker : call[w].at = "add" => counters[call[w].reason] = call[w].counter

LEMMA InitAccount == Init => AccountInv
<1> SUFFICES ASSUME Init PROVE AccountInv
  OBVIOUS
<1>1. Handling = {} /\ CountingDrop = {}
  BY DEF Init, RegistryInit, Handling, CountingDrop, NoCall
<1>2. DroppedTotal = 0
  BY DEF Init, RegistryInit, DroppedTotal, Shown, Reason
<1> QED
  BY <1>1, <1>2, FS_EmptySet
     DEF Init, RegistryInit, AccountInv, Accounted, NoCall

LEMMA CountNat ==
    ASSUME TypeInv
    PROVE  /\ \A r \in Reason : Shown(r) \in Nat
           /\ DroppedTotal \in Nat /\ received \in Nat /\ forwarded \in Nat /\ unsent \in Nat
           /\ Handling \subseteq Worker /\ CountingDrop \subseteq Worker
           /\ Cardinality(Handling) \in Nat /\ Cardinality(CountingDrop) \in Nat
<1> USE DEF TypeInv, RegistryInv, RegistryTypeOK, WorkersInv, Reason
<1>1. \A r \in Reason : Shown(r) \in Nat
  BY DEF Shown
<1>2. DroppedTotal \in Nat
  BY <1>1 DEF DroppedTotal
<1>3. Handling \subseteq Worker /\ CountingDrop \subseteq Worker
  BY DEF Handling, CountingDrop
<1> QED
  BY <1>1, <1>2, <1>3, CardNat

\* The steps of a worker on its packet.
LEMMA WorkAccount ==
    ASSUME TypeInv, AccountInv, NEW w \in Worker, Work(w), ~InRegistry(w)
    PROVE  AccountInv'
<1> USE DEF plain, labelled, histogram, scraping, TypeInv, Goto, Finish
<1>1. CASE DecodeError(w)
  <2>1. Handling' = Handling /\ CountingDrop' = CountingDrop
    BY <1>1 DEF DecodeError, registry, Handling, CountingDrop
  <2> QED
    BY <1>1, <2>1 DEF DecodeError, registry, AccountInv, Accounted, DroppedTotal, Shown
<1>2. CASE Receive(w)
  <2>1. Handling' = Handling \cup {w} /\ w \notin Handling /\ CountingDrop' = CountingDrop
    BY <1>2 DEF Receive, FromChannel, WorkersInv, Handling, CountingDrop
  <2>2. Cardinality(Handling') = Cardinality(Handling) + 1
    BY <2>1, CardAdd, CountNat
  <2>3. DroppedTotal' = DroppedTotal
    BY <1>2 DEF Receive, DroppedTotal, Shown
  <2>4. Accounted'
    BY <1>2, <2>1, <2>2, <2>3, CountNat DEF Receive, AccountInv, Accounted
  <2> QED
    BY <1>2, <2>4 DEF Receive, FromChannel, WorkersInv, AccountInv
<1>3. ASSUME NEW r \in Reason, Drop(w, r), w \in Handling PROVE AccountInv'
  <2>1. Handling' = Handling \ {w}
    BY <1>3 DEF Drop, WorkersInv, Handling
  <2>2. call[w] = NoCall
    BY <1>3 DEF AccountInv, Handling
  <2>3. CountingDrop' = CountingDrop \cup {w} /\ w \notin CountingDrop
    BY <1>3, <2>2 DEF Drop, IncDropped, RegistryInv, CountingDrop, NoCall
  <2>4. /\ Cardinality(Handling') = Cardinality(Handling) - 1
        /\ Cardinality(CountingDrop') = Cardinality(CountingDrop) + 1
    BY <1>3, <2>1, <2>3, CardAdd, CardRemove, CountNat
  <2>5. DroppedTotal' = DroppedTotal
    BY <1>3 DEF Drop, DroppedTotal, Shown
  <2>6. Accounted'
    BY <1>3, <2>4, <2>5, CountNat DEF Drop, AccountInv, Accounted
  <2> QED
    BY <1>3, <2>6 DEF Drop, IncDropped, WorkersInv, RegistryInv, AccountInv
<1>4. CASE CheckCooldown(w) \/ Reroute(w) \/ StartCooldown(w) \/ NoReroute(w)
  <2>1. Handling' = Handling /\ CountingDrop' = CountingDrop
    BY <1>4 DEF CheckCooldown, Reroute, StartCooldown, NoReroute, WorkersInv, registry,
                Handling, CountingDrop
  <2> QED
    BY <1>4, <2>1 DEF CheckCooldown, Reroute, StartCooldown, NoReroute, WorkersInv, registry,
                      AccountInv, Accounted, DroppedTotal, Shown
<1>5. CASE CountReroute(w) \/ CountLoop(w)
  <2>1. Handling' = Handling /\ CountingDrop' = CountingDrop
    BY <1>5 DEF CountReroute, CountLoop, WorkersInv, Handling, CountingDrop
  <2> QED
    BY <1>5, <2>1 DEF CountReroute, CountLoop, WorkersInv, AccountInv, Accounted,
                      DroppedTotal, Shown
<1>6. CASE SendFails(w)
  <2>1. Handling' = Handling \ {w} /\ w \in Handling /\ CountingDrop' = CountingDrop
    BY <1>6 DEF SendFails, WorkersInv, registry, Handling, CountingDrop
  <2>2. Cardinality(Handling') = Cardinality(Handling) - 1
    BY <2>1, CardRemove, CountNat
  <2>3. DroppedTotal' = DroppedTotal
    BY <1>6 DEF SendFails, registry, DroppedTotal, Shown
  <2>4. Accounted'
    BY <1>6, <2>1, <2>2, <2>3, CountNat DEF SendFails, registry, AccountInv, Accounted
  <2> QED
    BY <1>6, <2>4 DEF SendFails, registry, WorkersInv, AccountInv
<1>7. CASE Forward(w)
  <2>1. Handling' = Handling \ {w} /\ w \in Handling /\ CountingDrop' = CountingDrop
    BY <1>7 DEF Forward, WorkersInv, Handling, CountingDrop
  <2>2. Cardinality(Handling') = Cardinality(Handling) - 1
    BY <2>1, CardRemove, CountNat
  <2>3. DroppedTotal' = DroppedTotal
    BY <1>7 DEF Forward, DroppedTotal, Shown
  <2>4. Accounted'
    BY <1>7, <2>1, <2>2, <2>3, CountNat DEF Forward, AccountInv, Accounted
  <2> QED
    BY <1>7, <2>4 DEF Forward, WorkersInv, AccountInv
<1>8. CASE ObserveLatency(w)
  <2>1. PICK v \in Latency : Observe(w, v)
    BY <1>8 DEF ObserveLatency, Budget
  <2>2. Observing(v, v).at \in {"bucket", "total"}
    BY DEF Observing
  <2>3. call[w] = NoCall
    BY <1>8 DEF ObserveLatency, AccountInv
  <2>4. CountingDrop' = CountingDrop
    BY <2>1, <2>2, <2>3 DEF Observe, RegistryInv, CountingDrop, NoCall
  <2>5. Handling' = Handling
    BY <1>8 DEF ObserveLatency, WorkersInv, Handling
  <2>6. Accounted'
    BY <1>8, <2>4, <2>5 DEF ObserveLatency, AccountInv, Accounted, DroppedTotal, Shown
  <2> QED
    BY <1>8, <2>1, <2>2, <2>6 DEF ObserveLatency, Observe, WorkersInv, RegistryInv, AccountInv
<1> QED
  BY <1>1, <1>2, <1>3, <1>4, <1>5, <1>6, <1>7, <1>8
     DEF Work, Expire, DropUnsendable, Reason, Handling

\* The steps inside the registry: the drop counter grows when its caller leaves.
LEMMA CountAccount ==
    ASSUME TypeInv, AccountInv, NEW w \in Worker, InRegistry(w)
    PROVE  AccountInv'
<1> USE CallAt DEF plain, labelled, histogram, scraping, TypeInv
<1>1. pc[w] = "idle" /\ UNCHANGED workers
  <2>1. call[w].at # "none"
    BY DEF InRegistry, Count, FindCounter, MakeCounter, AddToCounter, CountBucket, CountTotal,
           ReadSum, StoreSum
  <2> QED
    BY <2>1 DEF AccountInv, InRegistry, NoCall
<1>2. Handling' = Handling /\ pc' = pc /\ unsent' = unsent
  BY <1>1 DEF workers, Handling
<1>3. CASE FindCounter(w)
  <2>1. call[w] \in [at : {"find", "make"}, reason : Reason]
    BY <1>3 DEF FindCounter
  <2>2. /\ call'[w].at \in {"add", "make"}
        /\ call'[w].at = "add" => counters[call'[w].reason] = call'[w].counter
    BY <1>3, <2>1 DEF FindCounter, Adding, RegistryInv
  <2>3. \A v \in Worker \ {w} : call'[v] = call[v]
    BY <1>3 DEF FindCounter, RegistryInv
  <2>4. CountingDrop' = CountingDrop
    BY <1>3, <2>2, <2>3 DEF FindCounter, CountingDrop
  <2>5. Accounted'
    BY <1>2, <1>3, <2>4 DEF FindCounter, AccountInv, Accounted, DroppedTotal, Shown
  <2> QED
    BY <1>1, <1>2, <1>3, <2>2, <2>3, <2>5 DEF FindCounter, AccountInv
<1>4. CASE MakeCounter(w)
  <2>1. PICK r \in Reason : r = call[w].reason
    BY <1>4 DEF MakeCounter
  <2>2. /\ call'[w].at = "add" /\ call'[w].reason = r /\ call'[w].counter = counters'[r]
        /\ counters[r] # None => UNCHANGED labelled
        /\ counters[r] = None => /\ counters' = [counters EXCEPT ![r] = w]
                                 /\ tally' = [tally EXCEPT ![r][w] = 0]
    BY <1>4, <2>1 DEF MakeCounter, Adding, RegistryInv, RegistryTypeOK
  <2>3. \A v \in Worker \ {w} : call'[v] = call[v]
    BY <1>4 DEF MakeCounter, RegistryInv
  <2>4. CountingDrop' = CountingDrop
    BY <1>4, <2>2, <2>3 DEF MakeCounter, CountingDrop
  <2>5. \A q \in Reason : Shown(q)' = Shown(q)
    <3>1. CASE counters[r] # None
      BY <2>2, <3>1 DEF Shown
    <3>2. CASE counters[r] = None
      <4>1. /\ counters' = [counters EXCEPT ![r] = w]
            /\ tally' = [tally EXCEPT ![r][w] = 0]
            /\ counters \in [Reason -> Worker \cup {None}] /\ tally \in [Reason -> [Worker -> Nat]]
        BY <2>2, <3>2 DEF RegistryInv, RegistryTypeOK
      <4>2. Shown(r) = 0 /\ Shown(r)' = 0
        BY <2>1, <3>2, <4>1, RegistryAssumption DEF Shown
      <4>3. ASSUME NEW q \in Reason, q # r PROVE Shown(q)' = Shown(q)
        BY <2>1, <4>1, <4>3 DEF Shown
      <4> QED
        BY <4>2, <4>3
    <3> QED
      BY <3>1, <3>2
  <2>6. DroppedTotal' = DroppedTotal
    BY <2>5 DEF DroppedTotal, Reason
  <2>7. \A v \in Worker \ {w} : call[v].at = "add" => counters'[call[v].reason] = counters[call[v].reason]
    <3> SUFFICES ASSUME NEW v \in Worker \ {w}, call[v].at = "add"
                 PROVE  counters'[call[v].reason] = counters[call[v].reason]
      OBVIOUS
    <3>1. call[v].reason \in Reason /\ counters[call[v].reason] # None
      BY RegistryAssumption DEF AccountInv
    <3> QED
      BY <2>1, <2>2, <3>1 DEF RegistryInv, RegistryTypeOK
  <2>8. Accounted'
    BY <1>2, <1>4, <2>4, <2>6 DEF MakeCounter, AccountInv, Accounted
  <2> QED
    BY <1>1, <1>2, <2>2, <2>3, <2>7, <2>8 DEF AccountInv
<1>5. CASE AddToCounter(w)
  <2> DEFINE r == call[w].reason
  <2>1. r \in Reason /\ call[w].counter \in Worker /\ counters[r] = call[w].counter
    BY <1>5 DEF AddToCounter, AccountInv
  <2>2. \A q \in Reason : Shown(q)' = IF q = r THEN Shown(q) + 1 ELSE Shown(q)
    BY <1>5, <2>1, RegistryAssumption DEF AddToCounter, Shown, RegistryInv, RegistryTypeOK
  <2>3. DroppedTotal' = DroppedTotal + 1
    BY <2>1, <2>2, CountNat DEF DroppedTotal, Reason
  <2>4. CountingDrop' = CountingDrop \ {w} /\ w \in CountingDrop
    BY <1>5 DEF AddToCounter, CountingDrop, RegistryInv, NoCall
  <2>5. Cardinality(CountingDrop') = Cardinality(CountingDrop) - 1
    BY <2>4, CardRemove, CountNat
  <2>6. Accounted'
    BY <1>2, <1>5, <2>3, <2>5, CountNat DEF AddToCounter, AccountInv, Accounted
  <2> QED
    BY <1>1, <1>2, <1>5, <2>6 DEF AddToCounter, AccountInv, RegistryInv, NoCall
<1>6. CASE CountBucket(w) \/ CountTotal(w) \/ ReadSum(w) \/ StoreSum(w)
  <2>1. /\ call[w].at \in {"bucket", "total", "lock", "store"}
        /\ call'[w].at \in {"bucket", "total", "lock", "store", "none"}
    BY <1>6 DEF CountBucket, CountTotal, ReadSum, StoreSum, Observing, RegistryInv, NoCall
  <2>2. \A v \in Worker \ {w} : call'[v] = call[v]
    BY <1>6 DEF CountBucket, CountTotal, ReadSum, StoreSum, RegistryInv
  <2>3. CountingDrop' = CountingDrop
    BY <2>1, <2>2 DEF CountingDrop
  <2>4. UNCHANGED <<received, forwarded, counters, tally>>
    BY <1>6 DEF CountBucket, CountTotal, ReadSum, StoreSum
  <2>5. Accounted'
    BY <1>2, <2>3, <2>4 DEF AccountInv, Accounted, DroppedTotal, Shown
  <2> QED
    BY <1>1, <1>2, <2>1, <2>2, <2>4, <2>5 DEF AccountInv
<1> QED
  BY <1>3, <1>4, <1>5, <1>6 DEF InRegistry, Count

LEMMA AccountStep == TypeInv /\ AccountInv /\ [Next]_vars => AccountInv'
<1> SUFFICES ASSUME TypeInv, AccountInv, [Next]_vars PROVE AccountInv'
  OBVIOUS
<1>1. CASE UNCHANGED <<received, forwarded, counters, tally, call, pc, unsent>>
  BY <1>1 DEF AccountInv, Accounted, DroppedTotal, Shown, Handling, CountingDrop
<1>2. CASE Arrive \/ Dispatch \/ StartScrape \/ Scraping
  BY <1>2, <1>1
     DEF Arrive, Dispatch, StartScrape, Scraping, workers, registry, plain, labelled, counting,
         Scrape, ScrapeReceived, ScrapeForwarded, ScrapeDropped, ScrapeUnlock, ScrapeBucket,
         ScrapeInf, ScrapeCount
<1>3. ASSUME NEW d \in Dest, CooldownEnds(d) PROVE AccountInv'
  BY <1>3, <1>1 DEF CooldownEnds, registry
<1>4. CASE UNCHANGED <<registry, workers>>
  BY <1>4, <1>1 DEF registry, workers
<1> QED
  BY <1>2, <1>3, <1>4, WorkAccount, CountAccount DEF Next, Step, Other, vars

\* No packet that was received drops out of the books, for any number of workers
\* that count at once.
THEOREM NothingUncounted == Spec => []Accounted
<1>1. AccountInv => Accounted
  BY DEF AccountInv
<1> QED
  BY <1>1, InitType, TypeStep, InitAccount, AccountStep, PTL DEF Spec

-----------------------------------------------------------------------------
(* What a scrape shows *)

\* What the finished sample says, or will say if nothing more is counted.
Part(r) == IF scrape.at = "dropped" /\ r \in scrape.left THEN Shown(r) ELSE sample.dropped[r]

PartTotal == Part("expired") + Part("no_neighbor") + Part("encode_error")

\* The account of the sample so far.  No counter is made while GetAll runs.
ScrapeInv ==
    /\ scrape.at \in {"received", "forwarded"} => \A r \in Reason : sample.dropped[r] = 0
    /\ scrape.at = "forwarded" => sample.received <= received
    /\ scrape.at \in {"dropped", "bucket", "sum", "done"} =>
          sample.received <= sample.forwarded + PartTotal + unsent + Cardinality(Worker)

LEMMA PartNat ==
    ASSUME TypeInv
    PROVE  (\A r \in Reason : Part(r) \in Nat) /\ PartTotal \in Nat
<1>1. \A r \in Reason : Part(r) \in Nat
  BY CountNat DEF Part, TypeInv, RegistryInv, Samples
<1> QED
  BY <1>1 DEF PartTotal, Reason

LEMMA InitScrape == Init => ScrapeInv
BY DEF Init, RegistryInit, ScrapeInv

\* A step that is none of the scrape's: counters only grow.
LEMMA ScrapeKept ==
    ASSUME TypeInv, ScrapeInv, UNCHANGED <<scrape, sample>>,
           received' \in Nat, received <= received', unsent' \in Nat, unsent <= unsent',
           scrape.at = "dropped" =>
              \A r \in scrape.left : Shown(r)' \in Nat /\ Shown(r) <= Shown(r)'
    PROVE  ScrapeInv'
<1>1. sample.received \in Nat /\ sample.forwarded \in Nat /\ Cardinality(Worker) \in Nat
        /\ received \in Nat /\ unsent \in Nat
  BY CardNat, CountNat DEF TypeInv, RegistryInv, Samples
<1>2. \A r \in Reason : Part(r) \in Nat /\ Part(r)' \in Nat /\ Part(r) <= Part(r)'
  BY PartNat DEF Part
<1>3. PartTotal \in Nat /\ PartTotal' \in Nat /\ PartTotal <= PartTotal'
  BY <1>2 DEF PartTotal, Reason
<1> QED
  BY <1>1, <1>3 DEF ScrapeInv

LEMMA ScrapeInvStep == TypeInv /\ AccountInv /\ ScrapeInv /\ [Next]_vars => ScrapeInv'
<1> SUFFICES ASSUME TypeInv, AccountInv, ScrapeInv, [Next]_vars PROVE ScrapeInv'
  OBVIOUS
<1>n. /\ received \in Nat /\ forwarded \in Nat /\ unsent \in Nat /\ Cardinality(Worker) \in Nat
      /\ sample.received \in Nat /\ sample.forwarded \in Nat /\ PartTotal \in Nat
      /\ \A r \in Reason : Shown(r) \in Nat
  BY CardNat, CountNat, PartNat DEF TypeInv, RegistryInv, Samples
<1>1. CASE UNCHANGED <<received, unsent, counters, tally, scrape, sample>>
  <2>1. \A r \in Reason : Shown(r)' = Shown(r)
    BY <1>1 DEF Shown
  <2>2. scrape.at = "dropped" => scrape.left \subseteq Reason
    BY ScrapeAt
  <2> QED
    BY <1>1, <1>n, <2>1, <2>2, ScrapeKept
<1>2. ASSUME NEW w \in Worker, Receive(w) \/ SendFails(w) PROVE ScrapeInv'
  <2>1. UNCHANGED <<counters, tally, scrape, sample>>
    BY <1>2 DEF Receive, SendFails, registry, labelled, scraping
  <2>2. received' \in {received, received + 1} /\ unsent' \in {unsent, unsent + 1}
    BY <1>2 DEF Receive, SendFails, registry
  <2>3. \A r \in Reason : Shown(r)' = Shown(r)
    BY <2>1 DEF Shown
  <2>4. scrape.at = "dropped" => scrape.left \subseteq Reason
    BY ScrapeAt
  <2> QED
    BY <1>n, <2>1, <2>2, <2>3, <2>4, ScrapeKept
<1>3. ASSUME NEW w \in Worker, MakeCounter(w), UNCHANGED workers PROVE ScrapeInv'
  BY <1>3, <1>n, ScrapeKept DEF MakeCounter, plain, scraping, workers
<1>4. ASSUME NEW w \in Worker, AddToCounter(w), UNCHANGED workers PROVE ScrapeInv'
  <2>1. PICK s \in Reason : s = call[w].reason /\ call[w].counter \in Worker
    BY <1>4, CallAt DEF AddToCounter
  <2>2. \A r \in Reason : Shown(r)' \in {Shown(r), Shown(r) + 1}
    BY <1>4, <2>1 DEF AddToCounter, Shown, TypeInv, RegistryInv, RegistryTypeOK
  <2>3. scrape.at = "dropped" => scrape.left \subseteq Reason
    BY ScrapeAt
  <2>4. UNCHANGED <<received, unsent, scrape, sample>>
    BY <1>4 DEF AddToCounter, plain, scraping, workers
  <2> QED
    BY <1>n, <2>2, <2>3, <2>4, ScrapeKept
<1>5. CASE StartScrape
  BY <1>5 DEF StartScrape, NoSample, ScrapeInv
<1>6. CASE Scraping
  <2>0. UNCHANGED <<received, forwarded, unsent, counters, tally>> /\ \A r \in Reason : Shown(r)' = Shown(r)
    BY <1>6 DEF Scraping, Scrape, ScrapeReceived, ScrapeForwarded, ScrapeDropped, ScrapeUnlock,
                ScrapeBucket, ScrapeInf, ScrapeCount, counting, plain, labelled, workers, Shown
  <2>1. CASE ScrapeReceived
    BY <1>n, <2>0, <2>1 DEF ScrapeReceived, ScrapeInv, TypeInv, RegistryInv, Samples
  <2>2. CASE ScrapeForwarded
    <3>1. /\ sample'.received = sample.received /\ sample'.forwarded = forwarded
          /\ sample'.dropped = sample.dropped
          /\ scrape'.at = "dropped" /\ scrape'.left = {r \in Reason : counters[r] # None}
      BY <2>2 DEF ScrapeForwarded, TypeInv, RegistryInv, Samples
    <3>2. \A r \in Reason : Part(r)' = Shown(r)
      <4> SUFFICES ASSUME NEW r \in Reason PROVE Part(r)' = Shown(r)
        OBVIOUS
      <4>1. CASE counters[r] # None
        BY <2>0, <3>1, <4>1 DEF Part
      <4>2. CASE counters[r] = None
        BY <2>2, <3>1, <4>2 DEF Part, Shown, ScrapeForwarded, ScrapeInv
      <4> QED
        BY <4>1, <4>2
    <3>3. PartTotal' = DroppedTotal
      BY <3>2 DEF PartTotal, DroppedTotal, Reason
    <3>4. Cardinality(Handling) + Cardinality(CountingDrop) <= Cardinality(Worker)
      <4>1. Handling \cap CountingDrop = {}
        BY DEF AccountInv, Handling, CountingDrop, NoCall
      <4> QED
        BY <4>1, CardDisjoint, CountNat
    <3>5. sample.received <= received
      BY <2>2 DEF ScrapeForwarded, ScrapeInv
    <3>6. sample.received <= forwarded + DroppedTotal + unsent + Cardinality(Worker)
      BY <3>4, <3>5, <1>n, CountNat DEF AccountInv, Accounted
    <3> QED
      BY <2>0, <3>1, <3>3, <3>6 DEF ScrapeInv
  <2>3. ASSUME NEW s \in Reason, ScrapeDropped(s) PROVE ScrapeInv'
    <3>1. scrape \in [at : {"dropped"}, left : SUBSET Reason]
      BY <2>3, ScrapeAt DEF ScrapeDropped
    <3>2. /\ scrape'.at = "dropped" /\ scrape'.left = scrape.left \ {s}
          /\ sample'.received = sample.received /\ sample'.forwarded = sample.forwarded
          /\ sample'.dropped = [sample.dropped EXCEPT ![s] = Shown(s)]
      BY <2>3, <3>1 DEF ScrapeDropped, TypeInv, RegistryInv, Samples
    <3>3. s \in scrape.left /\ scrape.at = "dropped" /\ sample.dropped \in [Reason -> Nat]
      BY <2>3 DEF ScrapeDropped, TypeInv, RegistryInv, Samples
    <3>4. \A r \in Reason : Part(r)' = Part(r)
      <4> SUFFICES ASSUME NEW r \in Reason PROVE Part(r)' = Part(r)
        OBVIOUS
      <4>1. CASE r = s
        BY <3>2, <3>3, <4>1 DEF Part
      <4>2. CASE r # s
        BY <2>0, <3>2, <3>3, <4>2 DEF Part
      <4> QED
        BY <4>1, <4>2
    <3>5. PartTotal' = PartTotal
      BY <3>4 DEF PartTotal, Reason
    <3> QED
      BY <2>0, <3>2, <3>3, <3>5 DEF ScrapeInv
  <2>4. CASE ScrapeUnlock \/ ScrapeBucket \/ ScrapeInf \/ ScrapeCount
    <3>1. /\ scrape.at \in {"dropped", "bucket", "sum"} /\ scrape'.at \in {"bucket", "sum", "done"}
          /\ scrape.at = "dropped" => scrape.left = {}
      BY <2>4, ScrapeAt DEF ScrapeUnlock, ScrapeBucket, ScrapeInf, ScrapeCount
    <3>2. /\ sample'.received = sample.received /\ sample'.forwarded = sample.forwarded
          /\ sample'.dropped = sample.dropped
      BY <2>4 DEF ScrapeUnlock, ScrapeBucket, ScrapeInf, ScrapeCount, TypeInv, RegistryInv, Samples
    <3>3. PartTotal' = PartTotal
      BY <3>1, <3>2 DEF PartTotal, Part
    <3> QED
      BY <2>0, <3>1, <3>2, <3>3 DEF ScrapeInv
  <2> QED
    BY <1>6, <2>1, <2>2, <2>3, <2>4 DEF Scraping, Scrape
<1> QED
  <2>1. ASSUME NEW w \in Worker, Work(w), ~InRegistry(w), ~Receive(w), ~SendFails(w)
        PROVE  ScrapeInv'
    BY <1>1, <2>1
       DEF Work, DecodeError, Expire, CheckCooldown, Reroute, StartCooldown, CountReroute,
           NoReroute, CountLoop, DropUnsendable, Drop, Forward, ObserveLatency,
           registry, plain, labelled, histogram, scraping
  <2>2. ASSUME NEW w \in Worker, InRegistry(w) PROVE ScrapeInv'
    BY <1>1, <1>3, <1>4, <2>2
       DEF InRegistry, Count, FindCounter, CountBucket, CountTotal, ReadSum, StoreSum,
           plain, labelled, scraping, workers
  <2>3. CASE Arrive \/ Dispatch
    BY <1>1, <2>3 DEF Arrive, Dispatch, registry, plain, labelled, scraping
  <2>4. ASSUME NEW d \in Dest, CooldownEnds(d) PROVE ScrapeInv'
    BY <1>1, <2>4 DEF CooldownEnds, registry, plain, labelled, scraping
  <2>5. CASE UNCHANGED <<registry, workers>>
    BY <1>1, <2>5 DEF registry, plain, labelled, scraping, workers
  <2> QED
    BY <1>2, <1>5, <1>6, <2>1, <2>2, <2>3, <2>4, <2>5 DEF Next, Step, Other, vars

\* A scrape never shows more received packets than it can explain: all but one
\* per worker are forwarded, dropped or lost by a failed send.
THEOREM ScrapeIsExplained == Spec => []ScrapeAccounts
<1>1. TypeInv /\ ScrapeInv => ScrapeAccounts
  BY DEF ScrapeInv, ScrapeAccounts, PartTotal, Part, SampleDropped
<1> QED
  BY <1>1, InitType, TypeStep, InitAccount, AccountStep, InitScrape, ScrapeInvStep, PTL DEF Spec

-----------------------------------------------------------------------------
(* The histogram *)

\* Workers that have counted their observation in bucket i and not in the next.
Between(i) == {w \in Worker :
    call[w].at \in {"bucket", "total"} /\ call[w].value <= i /\ call[w].next = i + 1}

\* The buckets are cumulative but for the observations that are being counted.
CumulativeInv ==
    /\ \A w \in Worker : call[w].at = "bucket" => call[w].value <= call[w].next
    /\ \A w \in Worker : call[w].at = "total" => call[w].next = Buckets + 1
    /\ \A i \in 1..Buckets : UpTo(i) <= UpTo(i + 1) + Cardinality(Between(i))

LEMMA InitCumulative == Init => CumulativeInv
<1> SUFFICES ASSUME Init PROVE CumulativeInv
  OBVIOUS
<1>1. \A i \in 1..Buckets : UpTo(i) = 0 /\ UpTo(i + 1) = 0
  BY RegistryAssumption DEF Init, RegistryInit, UpTo
<1>2. \A i \in 1..Buckets : Between(i) = {}
  BY DEF Init, RegistryInit, Between, NoCall
<1>3. \A w \in Worker : call[w].at = "none"
  BY DEF Init, RegistryInit, NoCall
<1>4. \A i \in 1..Buckets : UpTo(i) <= UpTo(i + 1) + Cardinality(Between(i))
  BY <1>1, <1>2, FS_EmptySet
<1> QED
  BY <1>3, <1>4 DEF CumulativeInv

LEMMA UpToNat ==
    ASSUME TypeInv, NEW i \in 1..Buckets
    PROVE  /\ UpTo(i) \in Nat /\ UpTo(i + 1) \in Nat
           /\ Between(i) \subseteq Worker /\ Cardinality(Between(i)) \in Nat
<1>1. UpTo(i) \in Nat /\ UpTo(i + 1) \in Nat
  BY RegistryAssumption DEF UpTo, TypeInv, RegistryInv, RegistryTypeOK
<1>2. Between(i) \subseteq Worker
  BY DEF Between
<1> QED
  BY <1>1, <1>2, CardNat

\* A step that neither counts an observation nor changes who is counting one.
LEMMA CumulativeKept ==
    ASSUME CumulativeInv, UNCHANGED <<buckets, total>>,
           \A w \in Worker : \/ call'[w] = call[w]
                            \/ /\ call[w].at \notin {"bucket", "total"}
                               /\ call'[w].at \notin {"bucket", "total"}
    PROVE  CumulativeInv'
<1>1. \A i \in 1..Buckets : Between(i)' = Between(i) /\ UpTo(i)' = UpTo(i) /\ UpTo(i + 1)' = UpTo(i + 1)
  BY DEF Between, UpTo
<1> QED
  BY <1>1 DEF CumulativeInv

LEMMA CountCumulative ==
    ASSUME TypeInv, CumulativeInv, NEW w \in Worker, CountBucket(w) \/ CountTotal(w)
    PROVE  CumulativeInv'
<1> DEFINE n == call[w].next
           v == call[w].value
<1>1. n \in 1..Buckets + 1 /\ v \in Nat /\ (n <= Buckets => v <= n)
  BY CallAt, RegistryAssumption DEF CountBucket, CountTotal, CumulativeInv, Latency
<1>2. \A i \in 1..Buckets : w \in Between(i) <=> v <= i /\ n = i + 1
  BY DEF Between, CountBucket, CountTotal
<1>3. \A u \in Worker \ {w} : call'[u] = call[u]
  BY DEF CountBucket, CountTotal, TypeInv, RegistryInv
<1>4. CASE CountBucket(w)
  <2>1. n <= Buckets /\ call[w].at = "bucket"
    BY <1>4, CallAt, RegistryAssumption DEF CountBucket
  <2>2. /\ call'[w].at = IF n + 1 <= Buckets THEN "bucket" ELSE "total"
        /\ call'[w].value = v /\ call'[w].next = n + 1
    BY <1>4 DEF CountBucket, Observing, TypeInv, RegistryInv
  <2>3. \A i \in 1..Buckets + 1 : UpTo(i)' = IF i = n THEN UpTo(i) + 1 ELSE UpTo(i)
    BY <1>4, <1>1, <2>1 DEF CountBucket, UpTo, TypeInv, RegistryInv, RegistryTypeOK
  <2>4. ASSUME NEW i \in 1..Buckets
        PROVE  UpTo(i)' <= UpTo(i + 1)' + Cardinality(Between(i)')
    <3>0. i + 1 \in 1..Buckets + 1 /\ i \in 1..Buckets + 1 /\ UpTo(i) <= UpTo(i + 1) + Cardinality(Between(i))
      BY RegistryAssumption DEF CumulativeInv
    <3>1. CASE i = n
      <4>1. Between(i)' = Between(i) \cup {w} /\ w \notin Between(i)
        BY <1>1, <1>2, <1>3, <2>2, <3>1 DEF Between
      <4>2. Cardinality(Between(i)') = Cardinality(Between(i)) + 1
        BY <4>1, CardAdd, UpToNat
      <4> QED
        BY <2>3, <3>0, <3>1, <4>2, UpToNat
    <3>2. CASE i + 1 = n
      <4>1. Between(i)' = Between(i) \ {w}
        BY <1>1, <1>2, <1>3, <2>2, <3>2 DEF Between
      <4>2. Cardinality(Between(i)') \in Nat /\ Cardinality(Between(i)') >= Cardinality(Between(i)) - 1
        BY <4>1, UpToNat, CardRemove, CardNat
      <4> QED
        BY <2>3, <3>0, <3>2, <4>2, UpToNat
    <3>3. CASE i # n /\ i + 1 # n
      <4>1. Between(i)' = Between(i)
        BY <1>1, <1>2, <1>3, <2>2, <3>3 DEF Between
      <4> QED
        BY <2>3, <3>0, <3>3, <4>1
    <3> QED
      BY <3>1, <3>2, <3>3
  <2> QED
    BY <1>1, <1>3, <2>1, <2>2, <2>4, RegistryAssumption DEF CumulativeInv
<1>5. CASE CountTotal(w)
  <2>1. n = Buckets + 1 /\ call[w].at = "total"
    BY <1>5 DEF CountTotal, CumulativeInv
  <2>2. call'[w].at = "lock"
    BY <1>5, CallAt DEF CountTotal, TypeInv, RegistryInv
  <2>3. \A i \in 1..Buckets + 1 : UpTo(i)' = IF i = n THEN UpTo(i) + 1 ELSE UpTo(i)
    BY <1>5, <2>1, RegistryAssumption DEF CountTotal, UpTo
  <2>4. ASSUME NEW i \in 1..Buckets
        PROVE  UpTo(i)' <= UpTo(i + 1)' + Cardinality(Between(i)')
    <3>0. i + 1 \in 1..Buckets + 1 /\ i \in 1..Buckets + 1 /\ UpTo(i) <= UpTo(i + 1) + Cardinality(Between(i))
      BY RegistryAssumption DEF CumulativeInv
    <3>1. Between(i)' = Between(i) \ {w}
      BY <1>3, <2>2 DEF Between
    <3>2. CASE i + 1 = n
      <4>1. Cardinality(Between(i)') \in Nat /\ Cardinality(Between(i)') >= Cardinality(Between(i)) - 1
        BY <3>1, UpToNat, CardRemove, CardNat
      <4> QED
        BY <2>1, <2>3, <3>0, <3>2, <4>1, UpToNat, RegistryAssumption
    <3>3. CASE i + 1 # n
      <4>1. Between(i)' = Between(i)
        BY <1>2, <3>1, <3>3
      <4> QED
        BY <2>1, <2>3, <3>0, <3>3, <4>1, RegistryAssumption
    <3> QED
      BY <3>2, <3>3
  <2> QED
    BY <1>3, <2>2, <2>4 DEF CumulativeInv
<1> QED
  BY <1>4, <1>5

LEMMA CumulativeStep == TypeInv /\ AccountInv /\ CumulativeInv /\ [Next]_vars => CumulativeInv'
<1> SUFFICES ASSUME TypeInv, AccountInv, CumulativeInv, [Next]_vars PROVE CumulativeInv'
  OBVIOUS
<1>1. CASE UNCHANGED <<buckets, total, call>>
  BY <1>1, CumulativeKept
<1>2. ASSUME NEW w \in Worker, ObserveLatency(w) PROVE CumulativeInv'
  <2>1. PICK v \in Latency : Observe(w, v)
    BY <1>2 DEF ObserveLatency, TypeInv, Budget
  <2>2. /\ call[w] = NoCall /\ call'[w] = Observing(v, v)
        /\ \A u \in Worker \ {w} : call'[u] = call[u]
    BY <1>2, <2>1 DEF ObserveLatency, Observe, AccountInv, TypeInv, RegistryInv
  <2>3. UNCHANGED <<buckets, total>>
    BY <1>2 DEF ObserveLatency, histogram
  <2>4. v \in Int /\ 1 <= v /\ v <= Buckets + 1
    BY RegistryAssumption DEF Latency
  <2>5. \A i \in 1..Buckets : Between(i)' = Between(i)
    BY <2>2, <2>4 DEF Between, Observing, NoCall
  <2>6. \A i \in 1..Buckets : UpTo(i)' = UpTo(i) /\ UpTo(i + 1)' = UpTo(i + 1)
    BY <2>3 DEF UpTo
  <2> QED
    BY <2>2, <2>4, <2>5, <2>6, RegistryAssumption DEF CumulativeInv, Observing
<1>3. ASSUME NEW w \in Worker, \E r \in Reason : Drop(w, r), pc[w] # "idle" PROVE CumulativeInv'
  <2>1. PICK r \in Reason : Drop(w, r)
    BY <1>3
  <2>2. call[w].at = "none" /\ call'[w].at = "find" /\ \A u \in Worker \ {w} : call'[u] = call[u]
    BY <1>3, <2>1 DEF Drop, IncDropped, AccountInv, NoCall, TypeInv, RegistryInv
  <2>3. UNCHANGED <<buckets, total>>
    BY <2>1 DEF Drop, histogram
  <2> QED
    BY <2>2, <2>3, CumulativeKept
<1>4. ASSUME NEW w \in Worker, Count(w), ~CountBucket(w), ~CountTotal(w) PROVE CumulativeInv'
  <2>1. /\ \A u \in Worker \ {w} : call'[u] = call[u]
        /\ call[w].at \notin {"bucket", "total"} /\ UNCHANGED <<buckets, total>>
    BY <1>4 DEF Count, FindCounter, MakeCounter, AddToCounter, ReadSum, StoreSum, histogram,
                TypeInv, RegistryInv
  <2>2. call'[w].at \notin {"bucket", "total"}
    BY <1>4, CallAt DEF Count, FindCounter, MakeCounter, AddToCounter, ReadSum, StoreSum,
                Adding, NoCall, TypeInv, RegistryInv
  <2> QED
    BY <2>1, <2>2, CumulativeKept
<1>5. ASSUME NEW w \in Worker, Work(w) PROVE CumulativeInv'
  <2>1. CASE InRegistry(w)
    BY <1>4, <2>1, CountCumulative DEF InRegistry
  <2>2. CASE Expire(w) \/ DropUnsendable(w)
    BY <1>3, <2>2 DEF Expire, DropUnsendable, Reason
  <2>3. CASE DecodeError(w) \/ Receive(w) \/ CheckCooldown(w) \/ Reroute(w) \/ StartCooldown(w)
             \/ CountReroute(w) \/ NoReroute(w) \/ CountLoop(w) \/ SendFails(w) \/ Forward(w)
    BY <1>1, <2>3
       DEF DecodeError, Receive, CheckCooldown, Reroute, StartCooldown, CountReroute, NoReroute,
           CountLoop, SendFails, Forward, registry, histogram
  <2> QED
    BY <1>2, <1>5, <2>1, <2>2, <2>3 DEF Work
<1>6. CASE Arrive \/ Dispatch \/ StartScrape \/ Scraping
  BY <1>1, <1>6
     DEF Arrive, Dispatch, StartScrape, Scraping, registry, histogram, counting,
         Scrape, ScrapeReceived, ScrapeForwarded, ScrapeDropped, ScrapeUnlock, ScrapeBucket,
         ScrapeInf, ScrapeCount
<1>7. CASE (\E d \in Dest : CooldownEnds(d)) \/ UNCHANGED <<registry, workers>>
  BY <1>1, <1>7 DEF CooldownEnds, registry, histogram
<1> QED
  BY <1>5, <1>6, <1>7 DEF Next, Step, Other, vars

\* The sample so far is cumulative but for one observation of each worker.
SkewInv ==
    LET N == Cardinality(Worker)
        Read == CASE scrape.at = "bucket" -> scrape.next - 1
                  [] scrape.at \in {"sum", "done"} -> Buckets
                  [] OTHER -> 0
    IN  /\ \A i \in 1..Buckets - 1 :
              i < Read => sample.bucket[i] <= sample.bucket[i + 1] + N
        /\ scrape.at = "bucket" /\ Read > 0 => sample.bucket[Read] <= buckets[Read]
        /\ scrape.at \in {"sum", "done"} /\ Buckets > 0 =>
              sample.bucket[Buckets] <= sample.inf + N
        /\ scrape.at = "sum" => sample.inf <= total
        /\ scrape.at = "done" => sample.inf <= sample.count

LEMMA InitSkew == Init => SkewInv
BY DEF Init, RegistryInit, SkewInv

\* Any step of somebody else: the histogram only grows.
LEMMA SkewKept ==
    ASSUME TypeInv, SkewInv, UNCHANGED <<scrape, sample>>, RegistryInv',
           \A i \in 1..Buckets : buckets[i] <= buckets'[i], total <= total'
    PROVE  SkewInv'
<1>1. /\ total \in Nat /\ total' \in Nat /\ sample.inf \in Nat
      /\ \A i \in 1..Buckets : buckets[i] \in Nat /\ buckets'[i] \in Nat /\ sample.bucket[i] \in Nat
  BY DEF TypeInv, RegistryInv, RegistryTypeOK, Samples
<1>2. scrape.at = "bucket" => scrape.next \in 1..Buckets + 1
  BY ScrapeAt
<1> QED
  BY <1>1, <1>2, RegistryAssumption DEF SkewInv

LEMMA SkewStep == TypeInv /\ CumulativeInv /\ SkewInv /\ [Next]_vars => SkewInv'
<1> SUFFICES ASSUME TypeInv, CumulativeInv, SkewInv, [Next]_vars PROVE SkewInv'
  OBVIOUS
<1>n. /\ total \in Nat /\ sample.inf \in Nat /\ Cardinality(Worker) \in Nat
      /\ \A i \in 1..Buckets : buckets[i] \in Nat /\ sample.bucket[i] \in Nat
  BY CardNat DEF TypeInv, RegistryInv, RegistryTypeOK, Samples
<1>t. RegistryInv'
  BY TypeStep DEF TypeInv
\* Neighbouring buckets, at any moment.
<1>c. \A i \in 1..Buckets : UpTo(i) <= UpTo(i + 1) + Cardinality(Worker)
  <2> TAKE i \in 1..Buckets
  <2>1. Cardinality(Between(i)) <= Cardinality(Worker) /\ Cardinality(Between(i)) \in Nat
    BY CardNat DEF Between
  <2> QED
    BY <2>1, <1>n, UpToNat DEF CumulativeInv
<1>1. CASE UNCHANGED <<buckets, total, scrape, sample>>
  BY <1>1, <1>n, <1>t, SkewKept
<1>2. ASSUME NEW w \in Worker, Count(w) PROVE SkewInv'
  <2>1. CASE CountBucket(w)
    <3>1. call[w].next \in 1..Buckets
      BY <2>1, CallAt DEF CountBucket
    <3> QED
      BY <2>1, <3>1, <1>n, <1>t, SkewKept
         DEF CountBucket, scraping, TypeInv, RegistryInv, RegistryTypeOK
  <2>2. CASE CountTotal(w)
    BY <2>2, <1>n, <1>t, SkewKept DEF CountTotal, scraping
  <2>3. CASE FindCounter(w) \/ MakeCounter(w) \/ AddToCounter(w) \/ ReadSum(w) \/ StoreSum(w)
    BY <2>3, <1>1 DEF FindCounter, MakeCounter, AddToCounter, ReadSum, StoreSum,
                      histogram, scraping
  <2> QED
    BY <1>2, <2>1, <2>2, <2>3 DEF Count
<1>3. CASE Scraping
  <2>0. UNCHANGED <<buckets, total>>
    BY <1>3 DEF Scraping, Scrape, ScrapeReceived, ScrapeForwarded, ScrapeDropped, ScrapeUnlock,
                ScrapeBucket, ScrapeInf, ScrapeCount, counting, histogram
  <2>1. CASE ScrapeReceived \/ ScrapeForwarded \/ (\E r \in Reason : ScrapeDropped(r))
    <3>1. scrape'.at \in {"forwarded", "dropped"}
      BY <2>1, ScrapeAt DEF ScrapeReceived, ScrapeForwarded, ScrapeDropped
    <3> QED
      BY <3>1 DEF SkewInv
  <2>2. CASE ScrapeUnlock
    BY <2>2, RegistryAssumption DEF ScrapeUnlock, SkewInv
  <2>3. CASE ScrapeBucket
    <3>1. PICK k \in 1..Buckets : k = scrape.next
      BY <2>3, ScrapeAt, RegistryAssumption DEF ScrapeBucket
    <3>2. /\ scrape.at = "bucket" /\ scrape'.at = "bucket" /\ scrape'.next = k + 1
          /\ sample'.bucket = [sample.bucket EXCEPT ![k] = buckets[k]]
          /\ sample.bucket \in [1..Buckets -> Nat]
      BY <2>3, <3>1, ScrapeAt DEF ScrapeBucket, TypeInv, RegistryInv, Samples
    <3>3. k > 1 => sample.bucket[k - 1] <= buckets[k - 1] /\ k - 1 \in 1..Buckets
      BY <3>1, <3>2, RegistryAssumption DEF SkewInv
    <3>4. k > 1 => buckets[k - 1] <= buckets[k] + Cardinality(Worker)
      <4> SUFFICES ASSUME k > 1 PROVE buckets[k - 1] <= buckets[k] + Cardinality(Worker)
        OBVIOUS
      <4>1. k - 1 \in 1..Buckets /\ (k - 1) + 1 = k
        BY <3>1, RegistryAssumption
      <4> QED
        BY <4>1, <1>c DEF UpTo
    <3>5. ASSUME NEW i \in 1..Buckets - 1, i < k
          PROVE  sample'.bucket[i] <= sample'.bucket[i + 1] + Cardinality(Worker)
      <4>1. CASE i + 1 = k
        <5>1. /\ i \in 1..Buckets /\ i + 1 \in 1..Buckets /\ k > 1 /\ k - 1 = i /\ i # k
          BY <3>1, <3>5, <4>1, RegistryAssumption
        <5>2. \A j \in 1..Buckets :
                 sample'.bucket[j] = IF j = k THEN buckets[k] ELSE sample.bucket[j]
          BY <3>2
        <5>3. sample.bucket[i] <= buckets[i] /\ buckets[i] <= buckets[i + 1] + Cardinality(Worker)
          BY <3>3, <3>4, <4>1, <5>1
        <5> QED
          BY <5>1, <5>2, <5>3, <1>n
      <4>2. CASE i + 1 < k
        BY <3>1, <3>2, <3>5, <4>2, RegistryAssumption DEF SkewInv
      <4> QED
        BY <3>5, <4>1, <4>2, RegistryAssumption
    <3> QED
      BY <2>0, <3>1, <3>2, <3>5, <1>n, RegistryAssumption DEF SkewInv
  <2>4. CASE ScrapeInf
    <3>1. /\ scrape.at = "bucket" /\ scrape.next = Buckets + 1 /\ scrape'.at = "sum"
          /\ sample'.bucket = sample.bucket /\ sample'.inf = total
      BY <2>4 DEF ScrapeInf, TypeInv, RegistryInv, Samples
    <3>2. Buckets > 0 => sample.bucket[Buckets] <= total + Cardinality(Worker)
      <4> SUFFICES ASSUME Buckets > 0 PROVE sample.bucket[Buckets] <= total + Cardinality(Worker)
        OBVIOUS
      <4>1. sample.bucket[Buckets] <= buckets[Buckets]
        BY <3>1, RegistryAssumption DEF SkewInv
      <4>2. Buckets \in 1..Buckets /\ UpTo(Buckets) = buckets[Buckets] /\ UpTo(Buckets + 1) = total
        BY RegistryAssumption DEF UpTo
      <4>3. UpTo(Buckets) <= UpTo(Buckets + 1) + Cardinality(Worker)
        BY <4>2, <1>c
      <4> QED
        BY <4>1, <4>2, <4>3, <1>n
    <3> QED
      BY <2>0, <3>1, <3>2, <1>n, RegistryAssumption DEF SkewInv
  <2>5. CASE ScrapeCount
    <3>1. /\ scrape.at = "sum" /\ scrape'.at = "done"
          /\ sample'.bucket = sample.bucket /\ sample'.inf = sample.inf /\ sample'.count = total
      BY <2>5 DEF ScrapeCount, TypeInv, RegistryInv, Samples
    <3> QED
      BY <3>1 DEF SkewInv
  <2> QED
    BY <1>3, <2>1, <2>2, <2>3, <2>4, <2>5 DEF Scraping, Scrape
<1>4. CASE StartScrape
  BY <1>4 DEF StartScrape, SkewInv
<1>5. ASSUME NEW w \in Worker, Work(w) PROVE SkewInv'
  <2>1. CASE InRegistry(w)
    BY <1>2, <2>1 DEF InRegistry
  <2>2. CASE ~InRegistry(w)
    BY <1>1, <1>5, <2>2
       DEF Work, DecodeError, Receive, Expire, CheckCooldown, Reroute, StartCooldown, CountReroute,
           NoReroute, CountLoop, DropUnsendable, Drop, SendFails, Forward, ObserveLatency,
           registry, histogram, scraping
  <2> QED
    BY <2>1, <2>2
<1>6. CASE Arrive \/ Dispatch \/ (\E d \in Dest : CooldownEnds(d)) \/ UNCHANGED <<registry, workers>>
  BY <1>1, <1>6 DEF Arrive, Dispatch, CooldownEnds, registry, histogram, scraping
<1> QED
  BY <1>3, <1>4, <1>5, <1>6 DEF Next, Step, Other, vars

\* A scrape in the middle of any number of observations shows a histogram that
\* is cumulative up to one observation of each worker, for any number of buckets.
THEOREM SkewIsBounded == Spec => []SkewBounded
<1>1. TypeInv /\ SkewInv => SkewBounded
  BY RegistryAssumption DEF SkewInv, SkewBounded
<1> QED
  BY <1>1, InitType, TypeStep, InitAccount, AccountStep, InitCumulative, CumulativeStep,
     InitSkew, SkewStep, PTL DEF Spec

-----------------------------------------------------------------------------
(* Two signals *)

\* The signals that a goroutine took: the handler takes one, the updater one.
Took(g) == IF at[g] \in {"stopping", "exited", "returned"} THEN 1 ELSE 0

\* Every accepted signal is in the buffer or was taken, each goroutine takes one.
SignalInv == accepted = sigCh + Took("handler") + Took("updater")

\* The second accepted signal has stopped the handler, or is in the channel with
\* the handler about to read it and nobody else left to take it away.
SecondSignalIsTheHandlers ==
    accepted > 1 =>
        \/ at["handler"] \in {"stopping", "exited"}
        \/ at["handler"] = "select" /\ at["updater"] = "returned" /\ sigCh = 1

LEMMA SignalStep == TypeInv /\ SignalInv /\ [Next]_vars => SignalInv'
<1> SUFFICES ASSUME TypeInv, SignalInv, [Next]_vars PROVE SignalInv'
  OBVIOUS
<1> USE DEF TypeInv, LifecycleTypeOK, Goroutine, SignalInv, Took
<1>1. CASE UNCHANGED lifecycle
  BY <1>1 DEF lifecycle
<1>2. ASSUME NEW g \in Goroutine, TakeSignal(g) \/ Park(g) PROVE SignalInv'
  BY <1>2 DEF TakeSignal, Park, OnSignal
<1>3. CASE Exit \/ Tick \/ SetReady \/ FreshnessChanges
  BY <1>3 DEF Exit, Tick, SetReady, FreshnessChanges
<1>4. CASE Signal
  BY <1>4 DEF Signal, OnSignal
<1>5. CASE \E w \in Worker : Work(w)
  BY <1>1, <1>5, WorkType DEF InRegistry
<1>6. CASE Arrive \/ Dispatch \/ StartScrape \/ Scraping \/ \E d \in Dest : CooldownEnds(d)
  BY <1>1, <1>6 DEF Arrive, Dispatch, StartScrape, Scraping, CooldownEnds
<1>7. CASE Handler \/ Updater \/ Environment
  BY <1>2, <1>3, <1>4, <1>7 DEF Handler, Updater, Environment
<1> QED
  BY <1>1, <1>3, <1>5, <1>6, <1>7 DEF Next, Step, Other, vars

\* The safety half of SecondSignalStops: the readiness updater can take one
\* signal away from the shutdown handler and no more.  From then on only the
\* handler can act on the channel, and it has at most two steps left.
THEOREM SecondSignalNotLost == Spec => []SecondSignalIsTheHandlers
<1>1. Init => SignalInv
  BY DEF Init, LifecycleInit, SignalInv, Took, Goroutine
<1>2. TypeInv /\ SignalInv => SecondSignalIsTheHandlers
  BY DEF TypeInv, LifecycleTypeOK, Goroutine, SignalInv, Took, SecondSignalIsTheHandlers
<1> QED
  BY <1>1, <1>2, InitType, TypeStep, SignalStep, PTL DEF Spec

-----------------------------------------------------------------------------
(* No deadlock *)

\* The guards of what a worker does next, action by action of Work.
CanWork(w) ==
    \/ pc[w] = "idle" /\ call[w] = NoCall /\ queued > 0 /\ left.kinds # {}
    \/ pc[w] \in {"received", "checked", "rerouted", "stored", "route", "forced"}
    \/ pc[w] = "forwarded" /\ left.latencies # {}
    \/ call[w].at \in {"find", "add", "bucket", "total", "store"}
    \/ call[w].at = "make" /\ scrape.at # "dropped"
    \/ call[w].at = "lock" /\ mu = None

\* The guards of Dispatch and of the steps of a scrape.
CanDispatch == rx = 1 /\ queued < ChanSize

CanScrape ==
    \/ scrape.at \in {"received", "forwarded"}
    \/ scrape.at = "dropped" /\ (scrape.left = {} \/ \E r \in Reason : r \in scrape.left)
    \/ scrape.at = "bucket" /\ (scrape.next <= Buckets \/ scrape.next = Buckets + 1)
    \/ scrape.at = "sum" /\ mu = None

\* While there is something to do somebody can do it.
SomebodyCan ==
    ~Drained \/ scrape.at \notin {"none", "done"} =>
        (\E w \in Worker : CanWork(w)) \/ CanDispatch \/ CanScrape

\* Who holds the histogram's mutex needs nothing else to release it.
MutexInv == mu # None => mu \in Worker /\ call[mu].at = "store"

\* The environment has packets of some kind and latencies to offer.
Offering == left.kinds # {} /\ left.latencies # {}

LEMMA MutexStep == TypeInv /\ AccountInv /\ MutexInv /\ [Next]_vars => MutexInv'
<1> SUFFICES ASSUME TypeInv, AccountInv, MutexInv, [Next]_vars PROVE MutexInv'
  OBVIOUS
<1>1. CASE UNCHANGED <<mu, call>>
  BY <1>1 DEF MutexInv
<1>2. ASSUME NEW w \in Worker, UNCHANGED mu, call[w].at # "store",
             \A u \in Worker \ {w} : call'[u] = call[u]
      PROVE  MutexInv'
  BY <1>2 DEF MutexInv
<1>3. ASSUME NEW w \in Worker, ObserveLatency(w) \/ \E r \in Reason : Drop(w, r), pc[w] # "idle"
      PROVE  MutexInv'
  <2>1. /\ call[w].at = "none" /\ UNCHANGED mu
        /\ \A u \in Worker \ {w} : call'[u] = call[u]
    BY <1>3 DEF ObserveLatency, Observe, Drop, IncDropped, histogram, AccountInv, NoCall,
                TypeInv, RegistryInv
  <2> QED
    BY <1>2, <2>1
<1>4. ASSUME NEW w \in Worker, Count(w) PROVE MutexInv'
  <2>1. \A u \in Worker \ {w} : call'[u] = call[u]
    BY <1>4 DEF Count, FindCounter, MakeCounter, AddToCounter, CountBucket, CountTotal, ReadSum,
                StoreSum, TypeInv, RegistryInv
  <2>2. CASE ReadSum(w)
    BY <2>2 DEF ReadSum, MutexInv, TypeInv, RegistryInv
  <2>3. CASE StoreSum(w)
    BY <2>3 DEF StoreSum, MutexInv
  <2>4. CASE FindCounter(w) \/ MakeCounter(w) \/ AddToCounter(w) \/ CountBucket(w) \/ CountTotal(w)
    <3>1. call[w].at # "store" /\ UNCHANGED mu
      BY <2>4 DEF FindCounter, MakeCounter, AddToCounter, CountBucket, CountTotal, histogram
    <3> QED
      BY <1>2, <2>1, <3>1
  <2> QED
    BY <1>4, <2>2, <2>3, <2>4 DEF Count
<1>5. ASSUME NEW w \in Worker, Work(w) PROVE MutexInv'
  <2>1. CASE Expire(w) \/ DropUnsendable(w) \/ ObserveLatency(w)
    BY <1>3, <2>1 DEF Expire, DropUnsendable, ObserveLatency, Reason
  <2>2. CASE DecodeError(w) \/ Receive(w) \/ CheckCooldown(w) \/ Reroute(w) \/ StartCooldown(w)
             \/ CountReroute(w) \/ NoReroute(w) \/ CountLoop(w) \/ SendFails(w) \/ Forward(w)
    BY <1>1, <2>2
       DEF DecodeError, Receive, CheckCooldown, Reroute, StartCooldown, CountReroute, NoReroute,
           CountLoop, SendFails, Forward, registry, histogram
  <2> QED
    BY <1>4, <1>5, <2>1, <2>2 DEF Work, InRegistry
<1>6. CASE Arrive \/ Dispatch \/ StartScrape \/ Scraping
  BY <1>1, <1>6
     DEF Arrive, Dispatch, StartScrape, Scraping, registry, histogram, counting,
         Scrape, ScrapeReceived, ScrapeForwarded, ScrapeDropped, ScrapeUnlock, ScrapeBucket,
         ScrapeInf, ScrapeCount
<1>7. CASE (\E d \in Dest : CooldownEnds(d)) \/ UNCHANGED <<registry, workers>>
  BY <1>1, <1>7 DEF CooldownEnds, registry, histogram
<1> QED
  BY <1>5, <1>6, <1>7 DEF Next, Step, Other, vars

LEMMA OfferingStep == TypeInv /\ Offering /\ [Next]_vars => Offering'
<1> SUFFICES ASSUME TypeInv, Offering, [Next]_vars PROVE Offering'
  OBVIOUS
<1> USE DEF TypeInv, Offering, Budget
<1>1. CASE UNCHANGED left
  BY <1>1
<1>2. ASSUME NEW x \in {"packets", "reroutes", "loops", "drops", "scrapes"}, Spend(x)
      PROVE  Offering'
  BY <1>2 DEF Spend
<1>3. CASE Handler \/ Updater \/ Tick \/ Environment
  BY <1>3 DEF Handler, Updater, Tick, Environment, TakeSignal, Park, Exit, SetReady, Signal,
              FreshnessChanges
<1>4. ASSUME NEW w \in Worker, Work(w) PROVE Offering'
  BY <1>1, <1>2, <1>4
     DEF Work, DecodeError, Receive, Expire, Drop, CheckCooldown, Reroute, StartCooldown,
         CountReroute, NoReroute, CountLoop, DropUnsendable, SendFails, Forward, ObserveLatency,
         InRegistry
<1>5. CASE Arrive \/ Dispatch \/ StartScrape \/ Scraping \/ \E d \in Dest : CooldownEnds(d)
  BY <1>1, <1>2, <1>5 DEF Arrive, Dispatch, StartScrape, Scraping, CooldownEnds
<1> QED
  BY <1>1, <1>3, <1>4, <1>5 DEF Next, Step, Other, vars

LEMMA NobodyWaitsForAWaiter ==
    ASSUME TypeInv, MutexInv, Offering, ChanSize > 0, Worker # {}
    PROVE  SomebodyCan
<1> USE ScrapeAt DEF SomebodyCan
<1>1. CASE scrape.at \in {"received", "forwarded", "dropped", "bucket"}
  <2>1. CASE scrape.at = "bucket"
    <3>1. scrape.next \in 1..Buckets + 1 /\ Buckets \in Nat
      BY <2>1, RegistryAssumption
    <3>2. scrape.next <= Buckets \/ scrape.next = Buckets + 1
      BY <3>1
    <3> QED
      BY <2>1, <3>2 DEF CanScrape
  <2>2. CASE scrape.at = "dropped"
    <3>1. scrape.left \subseteq Reason
      BY <2>2
    <3> QED
      BY <2>2, <3>1 DEF CanScrape
  <2> QED
    BY <1>1, <2>1, <2>2 DEF CanScrape
<1>2. CASE mu # None
  BY <1>2 DEF MutexInv, CanWork
<1>3. CASE mu = None /\ scrape.at \in {"none", "sum", "done"}
  <2>1. CASE scrape.at = "sum"
    BY <1>3, <2>1 DEF CanScrape
  <2>2. ASSUME NEW w \in Worker, pc[w] # "idle" PROVE CanWork(w)
    BY <2>2 DEF CanWork, Offering, TypeInv, WorkersInv
  <2>3. ASSUME NEW w \in Worker, call[w] # NoCall PROVE CanWork(w)
    <3>1. call[w].at \in {"find", "make", "add", "bucket", "total", "lock", "store"}
      BY <2>3 DEF TypeInv, RegistryInv, Calls
    <3> QED
      BY <1>3, <3>1 DEF CanWork
  <2>4. CASE \A w \in Worker : pc[w] = "idle" /\ call[w] = NoCall
    <3>1. CASE queued > 0
      BY <2>4, <3>1 DEF CanWork, Offering
    <3>2. CASE queued = 0 /\ rx = 1
      BY <3>2 DEF CanDispatch
    <3>3. queued \in Nat /\ rx \in 0..1
      BY RouterAssumption DEF TypeInv, WorkersInv
    <3>4. CASE queued = 0 /\ rx = 0 /\ scrape.at \in {"none", "done"}
      BY <2>4, <3>4 DEF Drained
    <3> QED
      BY <1>3, <2>1, <3>1, <3>2, <3>3, <3>4
  <2> QED
    BY <2>2, <2>3, <2>4
<1>4. scrape.at \in {"none", "received", "forwarded", "dropped", "bucket", "sum", "done"}
  BY DEF TypeInv, RegistryInv, Scrapes
<1> QED
  BY <1>1, <1>2, <1>3, <1>4

\* The receive loop that waits for room in the channel, the workers that wait
\* for the mutex or the write lock and a scrape that waits for the mutex never
\* wait for each other in a circle: until everything that arrived is worked off
\* and the scrape is over, one of them can go on.  This needs a worker (a
\* negative WorkerCount starts none) and a channel with room.
THEOREM NoDeadlock ==
    ASSUME ChanSize > 0, Worker # {},
           \A b \in Budgets : b.kinds # {} /\ b.latencies # {}
    PROVE  Spec => []SomebodyCan
<1>1. Init => MutexInv
  BY DEF Init, RegistryInit, MutexInv
<1>2. Init => Offering
  BY DEF Init, Offering
<1>3. TypeInv /\ MutexInv /\ Offering => SomebodyCan
  BY NobodyWaitsForAWaiter
<1> QED
  BY <1>1, <1>2, <1>3, InitType, TypeStep, InitAccount, AccountStep, MutexStep, OfferingStep, PTL
     DEF Spec
=============================================================================
