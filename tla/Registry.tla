------------------------------ MODULE Registry ------------------------------
(***************************************************************************)
(* The metrics registry of prommetrics/prommetrics.go: plain counters, the *)
(* drop counter that is labelled with a reason, the latency histogram, and *)
(* the scrape that reads them all while the workers go on counting.        *)
(*                                                                         *)
(* Each step is one atomic operation or one critical section.  A latency   *)
(* stands for the first bucket that holds it; Buckets + 1 is above all     *)
(* bounds.  The load and gossip gauges, single stores that nothing is      *)
(* related to, are left out.                                               *)
(***************************************************************************)
EXTENDS Integers, FiniteSets

CONSTANTS
    Worker,    \* the router's workers
    Buckets,   \* number of finite buckets of the histogram
    None

Reason == {"expired", "no_neighbor", "encode_error"}

Latency == 1..Buckets + 1

ASSUME RegistryAssumption ==
    IsFiniteSet(Worker) /\ None \notin Worker /\ Buckets \in Nat

VARIABLES
    received, forwarded,  \* PacketsReceived, PacketsForwarded
    reroutes, loops,      \* Reroutes, LoopsDetected
    counters,   \* counters[r]: the worker that made the counter of r, or None
    tally,      \* tally[r][w]: value of the counter that w made for r
    buckets, total, sum,  \* the histogram
    mu,         \* who holds the histogram's mutex, or None
    call,       \* call[w]: the registry call that w is in
    scrape,     \* how far the scrape is
    sample      \* what it has read

registry == <<received, forwarded, reroutes, loops, counters, tally, buckets, total, sum, mu,
              call, scrape, sample>>

NoCall == [at |-> "none"]

NoSample == [received |-> 0, forwarded |-> 0, dropped |-> [r \in Reason |-> 0],
             bucket |-> [i \in 1..Buckets |-> 0], inf |-> 0, count |-> 0]

RegistryInit ==
    /\ received = 0 /\ forwarded = 0 /\ reroutes = 0 /\ loops = 0
    /\ counters = [r \in Reason |-> None]
    /\ tally = [r \in Reason |-> [w \in Worker |-> 0]]
    /\ buckets = [i \in 1..Buckets |-> 0] /\ total = 0 /\ sum = 0
    /\ mu = None
    /\ call = [w \in Worker |-> NoCall]
    /\ scrape = [at |-> "none"]
    /\ sample = NoSample

plain == <<received, forwarded, reroutes, loops>>
labelled == <<counters, tally>>
histogram == <<buckets, total, sum, mu>>
scraping == <<scrape, sample>>

-----------------------------------------------------------------------------
(* LabeledCounter.Inc: look under the read lock, look again and create under *)
(* the write lock, add outside both.                                         *)

IncDropped(w, r) == call' = [call EXCEPT ![w] = [at |-> "find", reason |-> r]]

Adding(w, c) == [at |-> "add", reason |-> call[w].reason, counter |-> c]

FindCounter(w) ==
    /\ call[w].at = "find"
    /\ call' = [call EXCEPT ![w] =
                   IF counters[@.reason] # None THEN Adding(w, counters[@.reason])
                   ELSE [@ EXCEPT !.at = "make"]]
    /\ UNCHANGED <<plain, labelled, histogram, scraping>>

\* Mutant: no second look under the write lock.
MakeCounter_NoSecondLook(w) ==
    /\ call[w].at = "make"
    /\ scrape.at # "dropped"
    /\ LET r == call[w].reason
       IN  /\ counters' = [counters EXCEPT ![r] = w]
           /\ tally' = [tally EXCEPT ![r][w] = 0]
           /\ call' = [call EXCEPT ![w] = Adding(w, w)]
    /\ UNCHANGED <<plain, histogram, scraping>>

\* The write lock is free only while no scrape is in GetAll.
MakeCounter(w) ==
    /\ call[w].at = "make"
    /\ scrape.at # "dropped"
    /\ LET r == call[w].reason
       IN  IF counters[r] # None
           THEN call' = [call EXCEPT ![w] = Adding(w, counters[r])] /\ UNCHANGED labelled
           ELSE /\ counters' = [counters EXCEPT ![r] = w]
                /\ tally' = [tally EXCEPT ![r][w] = 0]
                /\ call' = [call EXCEPT ![w] = Adding(w, w)]
    /\ UNCHANGED <<plain, histogram, scraping>>

AddToCounter(w) ==
    /\ call[w].at = "add"
    /\ tally' = [tally EXCEPT ![call[w].reason][call[w].counter] = @ + 1]
    /\ call' = [call EXCEPT ![w] = NoCall]
    /\ UNCHANGED <<plain, counters, histogram, scraping>>

\* What a scrape shows for the reason r.
Shown(r) == IF counters[r] = None THEN 0 ELSE tally[r][counters[r]]

-----------------------------------------------------------------------------
(* Histogram.Observe: the buckets that hold v from the first on, the count,  *)
(* then the sum under the mutex.                                             *)

Observing(v, i) ==
    [at |-> IF i <= Buckets THEN "bucket" ELSE "total", value |-> v, next |-> i]

Observe(w, v) == call' = [call EXCEPT ![w] = Observing(v, v)]

\* Mutant: only the first bucket that holds the value is counted.
CountBucket_FirstOnly(w) ==
    /\ call[w].at = "bucket"
    /\ buckets' = [buckets EXCEPT ![call[w].next] = @ + 1]
    /\ call' = [call EXCEPT ![w] = Observing(@.value, Buckets + 1)]
    /\ UNCHANGED <<plain, labelled, total, sum, mu, scraping>>

CountBucket(w) ==
    /\ call[w].at = "bucket"
    /\ buckets' = [buckets EXCEPT ![call[w].next] = @ + 1]
    /\ call' = [call EXCEPT ![w] = Observing(@.value, @.next + 1)]
    /\ UNCHANGED <<plain, labelled, total, sum, mu, scraping>>

CountTotal(w) ==
    /\ call[w].at = "total"
    /\ total' = total + 1
    /\ call' = [call EXCEPT ![w].at = "lock"]
    /\ UNCHANGED <<plain, labelled, buckets, sum, mu, scraping>>

\* Mutant: the sum is read without the mutex.
ReadSum_Unlocked(w) ==
    /\ call[w].at = "lock"
    /\ call' = [call EXCEPT ![w] = [at |-> "store", value |-> @.value, current |-> sum]]
    /\ UNCHANGED <<plain, labelled, histogram, scraping>>

ReadSum(w) ==
    /\ call[w].at = "lock"
    /\ mu = None
    /\ mu' = w
    /\ call' = [call EXCEPT ![w] = [at |-> "store", value |-> @.value, current |-> sum]]
    /\ UNCHANGED <<plain, labelled, buckets, total, sum, scraping>>

\* Mutant: the mutex is kept.
StoreSum_NoUnlock(w) ==
    /\ call[w].at = "store"
    /\ sum' = call[w].current + call[w].value
    /\ call' = [call EXCEPT ![w] = NoCall]
    /\ UNCHANGED <<plain, labelled, buckets, total, mu, scraping>>

StoreSum(w) ==
    /\ call[w].at = "store"
    /\ sum' = call[w].current + call[w].value
    /\ mu' = None
    /\ call' = [call EXCEPT ![w] = NoCall]
    /\ UNCHANGED <<plain, labelled, buckets, total, scraping>>

Count(w) ==
    \/ FindCounter(w) \/ MakeCounter(w) \/ AddToCounter(w)
    \/ CountBucket(w) \/ CountTotal(w) \/ ReadSum(w) \/ StoreSum(w)

-----------------------------------------------------------------------------
(* Metrics.Handler: the scrape reads the metrics one after the other, each   *)
(* at its own moment; GetAll holds the read lock over all reasons.           *)

counting == <<plain, labelled, histogram, call>>

ScrapeReceived ==
    /\ scrape.at = "received"
    /\ sample' = [sample EXCEPT !.received = received]
    /\ scrape' = [at |-> "forwarded"]
    /\ UNCHANGED counting

ScrapeForwarded ==
    /\ scrape.at = "forwarded"
    /\ sample' = [sample EXCEPT !.forwarded = forwarded]
    /\ scrape' = [at |-> "dropped", left |-> {r \in Reason : counters[r] # None}]
    /\ UNCHANGED counting

ScrapeDropped(r) ==
    /\ scrape.at = "dropped"
    /\ r \in scrape.left
    /\ sample' = [sample EXCEPT !.dropped[r] = Shown(r)]
    /\ scrape' = [scrape EXCEPT !.left = @ \ {r}]
    /\ UNCHANGED counting

ScrapeUnlock ==
    /\ scrape.at = "dropped"
    /\ scrape.left = {}
    /\ scrape' = [at |-> "bucket", next |-> 1]
    /\ UNCHANGED <<counting, sample>>

ScrapeBucket ==
    /\ scrape.at = "bucket"
    /\ scrape.next <= Buckets
    /\ sample' = [sample EXCEPT !.bucket[scrape.next] = buckets[scrape.next]]
    /\ scrape' = [scrape EXCEPT !.next = @ + 1]
    /\ UNCHANGED counting

ScrapeInf ==
    /\ scrape.at = "bucket"
    /\ scrape.next = Buckets + 1
    /\ sample' = [sample EXCEPT !.inf = total]
    /\ scrape' = [at |-> "sum"]
    /\ UNCHANGED counting

\* Mutant: the packets received are read last.
ScrapeCount_ReceivedLast ==
    /\ scrape.at = "sum"
    /\ mu = None
    /\ sample' = [sample EXCEPT !.count = total, !.received = received]
    /\ scrape' = [at |-> "done"]
    /\ UNCHANGED counting

\* The sum is read under the mutex, the count once more after it.
ScrapeCount ==
    /\ scrape.at = "sum"
    /\ mu = None
    /\ sample' = [sample EXCEPT !.count = total]
    /\ scrape' = [at |-> "done"]
    /\ UNCHANGED counting

Scrape ==
    \/ ScrapeReceived \/ ScrapeForwarded \/ ScrapeUnlock
    \/ \E r \in Reason : ScrapeDropped(r)
    \/ ScrapeBucket \/ ScrapeInf \/ ScrapeCount

-----------------------------------------------------------------------------
(* Properties *)

\* The type of the registry.
RegistryTypeOK ==
    /\ received \in Nat /\ forwarded \in Nat /\ reroutes \in Nat /\ loops \in Nat
    /\ counters \in [Reason -> Worker \cup {None}]
    /\ tally \in [Reason -> [Worker -> Nat]]
    /\ buckets \in [1..Buckets -> Nat] /\ total \in Nat /\ sum \in Nat
    /\ mu \in Worker \cup {None}

Observers == {w \in Worker : call[w].at \in {"bucket", "total", "lock", "store"}}

\* Whenever nobody is inside Observe, the three parts of the histogram tell the
\* same story: the buckets are cumulative up to the count, and the sum is what
\* the buckets say was observed.  No update of any of them was lost.
HistogramConsistent ==
    Observers = {} =>
        LET upTo[i \in 0..Buckets + 1] ==
                IF i = 0 THEN 0 ELSE IF i = Buckets + 1 THEN total ELSE buckets[i]
            weighted[i \in 0..Buckets + 1] ==
                IF i = 0 THEN 0 ELSE weighted[i - 1] + i * (upTo[i] - upTo[i - 1])
        IN  /\ \A i \in 0..Buckets : upTo[i] <= upTo[i + 1]
            /\ sum = weighted[Buckets + 1]

\* A scrape in the middle of observations shows a histogram that fails to be
\* cumulative by no more than one observation of each worker.
SkewBounded ==
    scrape.at = "done" =>
        /\ \A i \in 1..Buckets - 1 :
              sample.bucket[i] <= sample.bucket[i + 1] + Cardinality(Worker)
        /\ Buckets > 0 => sample.bucket[Buckets] <= sample.inf + Cardinality(Worker)
        /\ sample.inf <= sample.count

-----------------------------------------------------------------------------
(* Refinement: observations that are over *)

\* Observations of at most i; the last one counts them all.
UpTo(i) == IF i <= Buckets THEN buckets[i] ELSE total

\* w has counted its observation in bucket i but is still inside Observe.
Counted(w, i) ==
    \/ /\ i <= Buckets /\ call[w].at = "bucket"
       /\ call[w].value <= i /\ i < call[w].next
    \/ i <= Buckets /\ call[w].at \in {"total", "lock", "store"} /\ call[w].value <= i
    \/ i = Buckets + 1 /\ call[w].at \in {"lock", "store"}

Passed(i) == {w \in Worker : Counted(w, i)}

Completed == [i \in 1..Buckets + 1 |-> UpTo(i) - Cardinality(Passed(i))]

Observations == INSTANCE Histogram WITH observed <- Completed

\* Observe is atomic to whoever leaves out the workers that are inside it: an
\* observation takes effect when its worker stores the sum, in all its buckets
\* at once, and no observation of another worker is lost or seen twice.
ImplementsHistogram == Observations!Spec
=============================================================================
