--------------------------- MODULE HistogramProofs ---------------------------
(***************************************************************************)
(* The latency histogram of the metrics registry implements module         *)
(* Histogram, for any number of workers, buckets, packets and scrapes; so  *)
(* it is consistent whenever nobody is inside Observe.                     *)
(***************************************************************************)
EXTENDS RouterProofs, WellFoundedInduction

-----------------------------------------------------------------------------
(* The refinement: an observation takes effect when the sum is stored *)

\* The mutex belongs to who is about to store the sum, and nobody else changed
\* the sum since it was read.
SumHeld == \A w \in Worker : call[w].at = "store" => mu = w /\ call[w].current = sum

\* What has to be shown of every step.
Observed == SumHeld' /\ [Observations!Next]_(Observations!vars)

LEMMA PassedNat ==
    ASSUME TypeInv, NEW i \in 1..Buckets + 1
    PROVE  /\ UpTo(i) \in Nat
           /\ Passed(i) \subseteq Worker /\ Cardinality(Passed(i)) \in Nat
<1>1. UpTo(i) \in Nat
  BY RegistryAssumption DEF UpTo, TypeInv, RegistryInv, RegistryTypeOK
<1>2. Passed(i) \subseteq Worker
  BY DEF Passed
<1> QED
  BY <1>1, <1>2, CardNat

LEMMA InitObserved == Init => Observations!Init /\ SumHeld
<1> SUFFICES ASSUME Init PROVE Observations!Init /\ SumHeld
  OBVIOUS
<1>1. \A w \in Worker : call[w].at = "none"
  BY DEF Init, RegistryInit, NoCall
<1>2. \A i \in 1..Buckets + 1 : Passed(i) = {}
  BY <1>1 DEF Passed, Counted
<1>3. \A i \in 1..Buckets + 1 : UpTo(i) = 0
  BY RegistryAssumption DEF Init, RegistryInit, UpTo
<1>4. Completed = [i \in 1..Buckets + 1 |-> 0]
  BY <1>2, <1>3, FS_EmptySet DEF Completed
<1> QED
  BY <1>1, <1>4 DEF Init, RegistryInit, SumHeld, Observations!Init, Observations!Bucket

\* A step that completes no observation.
LEMMA NothingCompleted ==
    ASSUME SumHeld', UNCHANGED sum,
           \A i \in 1..Buckets + 1 :
              (UpTo(i) - Cardinality(Passed(i)))' = UpTo(i) - Cardinality(Passed(i))
    PROVE  Observed
<1>1. Completed' = Completed
  BY DEF Completed
<1> QED
  BY <1>1 DEF Observed, Observations!vars

LEMMA NothingCounted ==
    ASSUME SumHeld', UNCHANGED <<buckets, total, sum>>,
           \A w \in Worker, i \in 1..Buckets + 1 : Counted(w, i)' <=> Counted(w, i)
    PROVE  Observed
<1>1. \A i \in 1..Buckets + 1 : Passed(i)' = Passed(i)
  BY DEF Passed
<1>2. \A i \in 1..Buckets + 1 :
         (UpTo(i) - Cardinality(Passed(i)))' = UpTo(i) - Cardinality(Passed(i))
  BY <1>1 DEF UpTo
<1> QED
  BY <1>2, NothingCompleted

\* A step of a worker that was not inside Observe and is not now.
LEMMA OutsideObserve ==
    ASSUME SumHeld, UNCHANGED <<buckets, total, sum, mu>>,
           \A w \in Worker : \/ call'[w] = call[w]
                            \/ /\ call[w].at \notin {"bucket", "total", "lock", "store"}
                               /\ call'[w].at \notin {"bucket", "total", "lock", "store"}
    PROVE  Observed
<1>1. SumHeld'
  BY DEF SumHeld
<1>2. \A w \in Worker, i \in 1..Buckets + 1 : Counted(w, i)' <=> Counted(w, i)
  BY DEF Counted
<1> QED
  BY <1>1, <1>2, NothingCounted

\* An observation begins: it is counted nowhere yet.
LEMMA BeginObserve ==
    ASSUME TypeInv, AccountInv, SumHeld, NEW w \in Worker, ObserveLatency(w)
    PROVE  Observed
<1>1. PICK v \in Latency : Observe(w, v)
  BY DEF ObserveLatency, TypeInv, Budget
<1>2. /\ call[w] = NoCall /\ call'[w] = Observing(v, v)
      /\ \A u \in Worker \ {w} : call'[u] = call[u]
  BY <1>1 DEF ObserveLatency, Observe, AccountInv, TypeInv, RegistryInv
<1>3. UNCHANGED <<buckets, total, sum, mu>>
  BY DEF ObserveLatency, histogram
<1>4. v \in Int /\ Buckets \in Nat /\ 1 <= v /\ v <= Buckets + 1
  BY RegistryAssumption DEF Latency
<1>5. /\ call[w].at = "none"
      /\ call'[w].at = IF v <= Buckets THEN "bucket" ELSE "total"
      /\ call'[w].value = v /\ call'[w].next = v
  BY <1>2 DEF Observing, NoCall
<1>6. SumHeld'
  BY <1>2, <1>3, <1>5 DEF SumHeld
<1>7. ASSUME NEW i \in 1..Buckets + 1 PROVE ~Counted(w, i) /\ ~Counted(w, i)'
  BY <1>4, <1>5 DEF Counted
<1>8. \A u \in Worker, i \in 1..Buckets + 1 : Counted(u, i)' <=> Counted(u, i)
  BY <1>2, <1>7 DEF Counted
<1> QED
  BY <1>3, <1>6, <1>8, NothingCounted

\* A bucket, or the count, is increased together with the observations that
\* have passed it.
LEMMA CountObserve ==
    ASSUME TypeInv, CumulativeInv, SumHeld, NEW w \in Worker, CountBucket(w) \/ CountTotal(w)
    PROVE  Observed
<1> DEFINE n == call[w].next
           v == call[w].value
<1>1. /\ Buckets \in Nat /\ n \in 1..Buckets + 1 /\ v \in Nat /\ (n <= Buckets => v <= n)
      /\ CountBucket(w) => n <= Buckets
      /\ CountTotal(w) => n = Buckets + 1
  BY CallAt, RegistryAssumption DEF CountBucket, CountTotal, CumulativeInv, Latency
<1>2. \A u \in Worker \ {w} : call'[u] = call[u]
  BY DEF CountBucket, CountTotal, TypeInv, RegistryInv
<1>3. UNCHANGED <<sum, mu>>
  BY DEF CountBucket, CountTotal
<1>4. /\ CountBucket(w) => /\ call[w].at = "bucket"
                           /\ call'[w].at = IF n + 1 <= Buckets THEN "bucket" ELSE "total"
                           /\ call'[w].value = v /\ call'[w].next = n + 1
      /\ CountTotal(w) => call[w].at = "total" /\ call'[w].at = "lock" /\ call'[w].value = v
  BY CallAt DEF CountBucket, CountTotal, Observing, TypeInv, RegistryInv
<1>5. SumHeld'
  BY <1>2, <1>3, <1>4 DEF SumHeld
<1>6. ASSUME NEW i \in 1..Buckets + 1
      PROVE  UpTo(i)' = IF i = n THEN UpTo(i) + 1 ELSE UpTo(i)
  BY <1>1 DEF CountBucket, CountTotal, UpTo, TypeInv, RegistryInv, RegistryTypeOK
<1>7. ASSUME NEW i \in 1..Buckets + 1
      PROVE  /\ Counted(w, i)' <=> Counted(w, i) \/ i = n
             /\ i = n => ~Counted(w, i)
  <2>1. CASE CountBucket(w)
    BY <1>1, <1>4, <2>1 DEF Counted
  <2>2. CASE CountTotal(w)
    BY <1>1, <1>4, <2>2 DEF Counted
  <2> QED
    BY <2>1, <2>2
<1>8. ASSUME NEW i \in 1..Buckets + 1
      PROVE  (UpTo(i) - Cardinality(Passed(i)))' = UpTo(i) - Cardinality(Passed(i))
  <2>1. \A u \in Worker \ {w} : Counted(u, i)' <=> Counted(u, i)
    BY <1>2 DEF Counted
  <2>2. UpTo(i) \in Nat /\ Passed(i) \subseteq Worker /\ Cardinality(Passed(i)) \in Nat
    BY PassedNat, <1>1
  <2>3. CASE i = n
    <3>1. Passed(i)' = Passed(i) \cup {w} /\ w \notin Passed(i)
      BY <1>7, <2>1, <2>3 DEF Passed
    <3>2. Cardinality(Passed(i)') = Cardinality(Passed(i)) + 1
      BY <2>2, <3>1, CardAdd
    <3> QED
      BY <1>6, <2>2, <2>3, <3>2
  <2>4. CASE i # n
    <3>1. Passed(i)' = Passed(i)
      BY <1>7, <2>1, <2>4 DEF Passed
    <3> QED
      BY <1>6, <2>4, <3>1
  <2> QED
    BY <2>3, <2>4
<1> QED
  BY <1>3, <1>5, <1>8, NothingCompleted

\* The mutex is free, so that nobody else is about to store.
LEMMA ReadObserve ==
    ASSUME TypeInv, SumHeld, NEW w \in Worker, ReadSum(w)
    PROVE  Observed
<1>1. /\ call[w].at = "lock" /\ mu = None /\ mu' = w
      /\ call'[w].at = "store" /\ call'[w].value = call[w].value /\ call'[w].current = sum
      /\ \A u \in Worker \ {w} : call'[u] = call[u]
      /\ UNCHANGED <<buckets, total, sum>>
  BY DEF ReadSum, TypeInv, RegistryInv
<1>2. SumHeld'
  BY <1>1, RegistryAssumption DEF SumHeld
<1>3. \A u \in Worker, i \in 1..Buckets + 1 : Counted(u, i)' <=> Counted(u, i)
  BY <1>1 DEF Counted
<1> QED
  BY <1>1, <1>2, <1>3, NothingCounted

\* An observation ends: it is completed in all buckets from its value on.
LEMMA EndObserve ==
    ASSUME TypeInv, SumHeld, NEW w \in Worker, StoreSum(w)
    PROVE  Observed
<1> DEFINE v == call[w].value
<1>1. /\ call[w].at = "store" /\ mu = w /\ mu' = None /\ call[w].current = sum
      /\ sum' = sum + v /\ v \in 1..Buckets + 1 /\ Buckets \in Nat
      /\ call'[w] = NoCall /\ \A u \in Worker \ {w} : call'[u] = call[u]
      /\ UNCHANGED <<buckets, total>>
  BY CallAt, RegistryAssumption DEF StoreSum, SumHeld, Latency, TypeInv, RegistryInv
<1>2. SumHeld'
  <2>1. call'[w].at = "none"
    BY <1>1 DEF NoCall
  <2> QED
    BY <1>1, <2>1 DEF SumHeld
<1>3. ASSUME NEW i \in 1..Buckets + 1
      PROVE  (UpTo(i) - Cardinality(Passed(i)))' =
                IF i >= v THEN UpTo(i) - Cardinality(Passed(i)) + 1
                          ELSE UpTo(i) - Cardinality(Passed(i))
  <2>1. ~Counted(w, i)' /\ (Counted(w, i) <=> i >= v)
    BY <1>1 DEF Counted, NoCall
  <2>2. \A u \in Worker \ {w} : Counted(u, i)' <=> Counted(u, i)
    BY <1>1 DEF Counted
  <2>3. /\ UpTo(i) \in Nat /\ UpTo(i)' = UpTo(i)
        /\ Passed(i) \subseteq Worker /\ Cardinality(Passed(i)) \in Nat
    BY PassedNat, <1>1 DEF UpTo
  <2>4. CASE i >= v
    <3>1. Passed(i)' = Passed(i) \ {w} /\ w \in Passed(i)
      BY <2>1, <2>2, <2>4 DEF Passed
    <3>2. Cardinality(Passed(i)') = Cardinality(Passed(i)) - 1
      BY <2>3, <3>1, CardRemove
    <3> QED
      BY <2>3, <2>4, <3>2
  <2>5. CASE ~(i >= v)
    <3>1. Passed(i)' = Passed(i)
      BY <2>1, <2>2, <2>5 DEF Passed
    <3> QED
      BY <2>3, <2>5, <3>1
  <2> QED
    BY <2>4, <2>5
<1> HIDE DEF v
<1>4. Completed' = [i \in 1..Buckets + 1 |-> IF i >= v THEN Completed[i] + 1 ELSE Completed[i]]
  BY <1>3 DEF Completed
<1>5. Observations!Observe(v) /\ v \in Observations!Bucket
  BY <1>1, <1>4 DEF Observations!Observe, Observations!Bucket
<1> QED
  BY <1>2, <1>5 DEF Observed, Observations!Next

LEMMA ObservedStep ==
    TypeInv /\ AccountInv /\ CumulativeInv /\ SumHeld /\ [Next]_vars => Observed
<1> SUFFICES ASSUME TypeInv, AccountInv, CumulativeInv, SumHeld, [Next]_vars PROVE Observed
  OBVIOUS
<1>1. CASE UNCHANGED <<histogram, call>>
  BY <1>1, OutsideObserve DEF histogram
<1>2. ASSUME NEW w \in Worker, \E r \in Reason : Drop(w, r), pc[w] # "idle" PROVE Observed
  <2>1. PICK r \in Reason : Drop(w, r)
    BY <1>2
  <2>2. call[w].at = "none" /\ call'[w].at = "find" /\ \A u \in Worker \ {w} : call'[u] = call[u]
    BY <1>2, <2>1 DEF Drop, IncDropped, AccountInv, NoCall, TypeInv, RegistryInv
  <2>3. UNCHANGED histogram
    BY <2>1 DEF Drop
  <2> QED
    BY <2>2, <2>3, OutsideObserve DEF histogram
<1>3. ASSUME NEW w \in Worker, FindCounter(w) \/ MakeCounter(w) \/ AddToCounter(w) PROVE Observed
  <2>1. /\ \A u \in Worker \ {w} : call'[u] = call[u]
        /\ call[w].at \in {"find", "make", "add"} /\ UNCHANGED histogram
    BY <1>3 DEF FindCounter, MakeCounter, AddToCounter, TypeInv, RegistryInv
  <2>2. call'[w].at \in {"make", "add", "none"}
    BY <1>3, CallAt DEF FindCounter, MakeCounter, AddToCounter, Adding, NoCall,
                        TypeInv, RegistryInv
  <2> QED
    BY <2>1, <2>2, OutsideObserve DEF histogram
<1>4. ASSUME NEW w \in Worker, Work(w) PROVE Observed
  <2>1. CASE InRegistry(w)
    BY <1>3, <2>1, CountObserve, ReadObserve, EndObserve DEF InRegistry, Count
  <2>2. CASE Expire(w) \/ DropUnsendable(w)
    BY <1>2, <2>2 DEF Expire, DropUnsendable, Reason
  <2>3. CASE DecodeError(w) \/ Receive(w) \/ CheckCooldown(w) \/ Reroute(w) \/ StartCooldown(w)
             \/ CountReroute(w) \/ NoReroute(w) \/ CountLoop(w) \/ SendFails(w) \/ Forward(w)
    BY <1>1, <2>3
       DEF DecodeError, Receive, CheckCooldown, Reroute, StartCooldown, CountReroute, NoReroute,
           CountLoop, SendFails, Forward, registry, histogram
  <2> QED
    BY <1>4, <2>1, <2>2, <2>3, BeginObserve DEF Work
<1>5. CASE Arrive \/ Dispatch \/ StartScrape \/ Scraping
  BY <1>1, <1>5
     DEF Arrive, Dispatch, StartScrape, Scraping, registry, histogram, counting,
         Scrape, ScrapeReceived, ScrapeForwarded, ScrapeDropped, ScrapeUnlock, ScrapeBucket,
         ScrapeInf, ScrapeCount
<1>6. CASE (\E d \in Dest : CooldownEnds(d)) \/ UNCHANGED <<registry, workers>>
  BY <1>1, <1>6 DEF CooldownEnds, registry, histogram
<1> QED
  BY <1>4, <1>5, <1>6 DEF Next, Step, Other, vars

\* The registry's histogram implements the atomic one, whatever the workers and
\* the scrapes do in between: observations take effect one at a time, each in
\* all buckets and in the sum.
THEOREM RegistryIsHistogram == Spec => ImplementsHistogram
<1>1. TypeInv /\ AccountInv /\ CumulativeInv /\ SumHeld /\ [Next]_vars
         => SumHeld' /\ [Observations!Next]_(Observations!vars)
  BY ObservedStep DEF Observed
<1> QED
  BY <1>1, InitType, TypeStep, InitAccount, AccountStep, InitCumulative, CumulativeStep,
     InitObserved, PTL DEF Spec, ImplementsHistogram, Observations!Spec

-----------------------------------------------------------------------------
(* What follows from the atomic histogram alone *)

At(i) == IF i = 0 THEN 0 ELSE Completed[i]

\* g[i] is the sum of the completed observations of at most i.
Weighs(g) ==
    /\ g \in [0..Buckets + 1 -> Int]
    /\ g[0] = 0
    /\ \A i \in 1..Buckets + 1 : g[i] = g[i - 1] + i * (At(i) - At(i - 1))

\* Completed observations are cumulative, and the sum is theirs.
Explained ==
    /\ Completed \in [1..Buckets + 1 -> Int]
    /\ sum \in Int
    /\ \A i \in 0..Buckets : At(i) <= At(i + 1)
    /\ \E g : Weighs(g) /\ g[Buckets + 1] = sum

LEMMA InitExplained == Observations!Init => Explained
<1> SUFFICES ASSUME Observations!Init PROVE Explained
  OBVIOUS
<1>1. Buckets \in Nat /\ Completed = [i \in 1..Buckets + 1 |-> 0] /\ sum = 0
  BY RegistryAssumption DEF Observations!Init, Observations!Bucket
<1>2. \A i \in 0..Buckets + 1 : At(i) = 0
  BY <1>1 DEF At
<1> DEFINE g == [i \in 0..Buckets + 1 |-> 0]
<1>3. ASSUME NEW i \in 1..Buckets + 1
      PROVE  g[i] = g[i - 1] + i * (At(i) - At(i - 1))
  <2>1. i \in 0..Buckets + 1 /\ i - 1 \in 0..Buckets + 1
    BY <1>1
  <2> QED
    BY <1>2, <2>1
<1>4. Weighs(g) /\ g[Buckets + 1] = sum
  BY <1>1, <1>3 DEF Weighs
<1>5. \A i \in 0..Buckets : At(i) <= At(i + 1)
  BY <1>1, <1>2
<1> HIDE DEF g
<1> QED
  BY <1>1, <1>4, <1>5 DEF Explained

LEMMA ExplainedStep == Explained /\ [Observations!Next]_(Observations!vars) => Explained'
<1> SUFFICES ASSUME Explained, [Observations!Next]_(Observations!vars) PROVE Explained'
  OBVIOUS
<1>1. CASE UNCHANGED Observations!vars
  BY <1>1 DEF Observations!vars, Explained, Weighs, At
<1>2. ASSUME NEW v \in 1..Buckets + 1, Observations!Observe(v) PROVE Explained'
  <2> DEFINE More(i) == IF i >= v THEN 1 ELSE 0
  <2>1. /\ Buckets \in Nat /\ v \in Int /\ 1 <= v /\ v <= Buckets + 1
        /\ Completed' = [i \in 1..Buckets + 1 |->
                            IF i >= v THEN Completed[i] + 1 ELSE Completed[i]]
        /\ sum' = sum + v
        /\ sum \in Int /\ Completed \in [1..Buckets + 1 -> Int]
    BY <1>2, RegistryAssumption DEF Observations!Observe, Observations!Bucket, Explained
  <2>2. Completed' \in [1..Buckets + 1 -> Int] /\ sum' \in Int
    BY <2>1
  <2>3. \A i \in 0..Buckets + 1 : At(i) \in Int /\ At(i)' = At(i) + More(i)
    BY <2>1 DEF At
  <2>4. ASSUME NEW i \in 0..Buckets
        PROVE  At(i)' <= At(i + 1)'
    <3>1. i \in 0..Buckets + 1 /\ i + 1 \in 0..Buckets + 1 /\ At(i) <= At(i + 1)
      BY <2>1 DEF Explained
    <3>2. More(i) <= More(i + 1) /\ More(i) \in Int /\ More(i + 1) \in Int
      BY <2>1
    <3> HIDE DEF More
    <3> QED
      BY <2>3, <3>1, <3>2
  <2>5. PICK g : Weighs(g) /\ g[Buckets + 1] = sum
    BY DEF Explained
  <2> DEFINE h == [i \in 0..Buckets + 1 |-> g[i] + IF i >= v THEN v ELSE 0]
  <2>6. /\ h \in [0..Buckets + 1 -> Int] /\ h[0] = 0 /\ h[Buckets + 1] = sum'
    <3>1. g \in [0..Buckets + 1 -> Int] /\ g[0] = 0 /\ g[Buckets + 1] = sum
      BY <2>5 DEF Weighs
    <3>2. 0 \in 0..Buckets + 1 /\ Buckets + 1 \in 0..Buckets + 1 /\ Buckets + 1 >= v /\ ~(0 >= v)
      BY <2>1
    <3> QED
      BY <2>1, <3>1, <3>2
  <2>7. ASSUME NEW i \in 1..Buckets + 1
        PROVE  h[i] = h[i - 1] + i * (At(i)' - At(i - 1)')
    <3>1. i \in 0..Buckets + 1 /\ i - 1 \in 0..Buckets + 1 /\ i \in Int
      BY <2>1
    <3> DEFINE d == At(i) - At(i - 1)
    <3>2. d \in Int /\ At(i)' - At(i - 1)' = d + (More(i) - More(i - 1))
      <4>1. More(i) \in Int /\ More(i - 1) \in Int
        OBVIOUS
      <4> HIDE DEF More
      <4> QED
        BY <2>3, <3>1, <4>1
    <3>3. More(i) - More(i - 1) = IF i = v THEN 1 ELSE 0
      BY <2>1
    <3>4. g[i] = g[i - 1] + i * d /\ g[i] \in Int /\ g[i - 1] \in Int
      BY <2>5, <3>1 DEF Weighs
    <3>5. h[i] - h[i - 1] = g[i] - g[i - 1] + IF i = v THEN i ELSE 0
      BY <2>1, <3>1, <3>4
    <3>6. h[i] \in Int /\ h[i - 1] \in Int
      BY <2>6, <3>1
    <3> HIDE DEF h, d, More
    <3>7. i * (d + 1) = i * d + i /\ i * d \in Int /\ d + 0 = d
      <4>1. \A x, y \in Int : x * (y + 1) = x * y + x /\ x * y \in Int /\ y + 0 = y
        OBVIOUS
      <4> QED
        BY <3>1, <3>2, <4>1
    <3>8. CASE i = v
      <4>1. h[i] = h[i - 1] + i * (d + 1)
        BY <3>4, <3>5, <3>6, <3>7, <3>8
      <4> QED
        BY <3>2, <3>3, <3>8, <4>1
    <3>9. CASE i # v
      <4>1. h[i] = h[i - 1] + i * (d + 0)
        BY <3>4, <3>5, <3>6, <3>7, <3>9
      <4> QED
        BY <3>2, <3>3, <3>9, <4>1
    <3> QED
      BY <3>8, <3>9
  <2>8. Weighs(h)'
    <3> HIDE DEF h
    <3> QED
      BY <2>6, <2>7 DEF Weighs
  <2> HIDE DEF h
  <2> QED
    BY <2>2, <2>4, <2>6, <2>8 DEF Explained
<1> QED
  BY <1>1, <1>2 DEF Observations!Next, Observations!Bucket

-----------------------------------------------------------------------------
(* Whenever nobody is inside Observe *)

\* Induction by the least counterexample.
LEMMA LeastNatural ==
    ASSUME NEW T \in SUBSET Nat, T # {}
    PROVE  \E x \in T : \A y \in T : x <= y
<1> DEFINE R == OpToRel(<, Nat)
<1>1. IsWellFoundedOn(R, Nat)
  BY NatLessThanWellFounded
<1> HIDE DEF R
<1>2. PICK x \in T : \A y \in T : ~(<<y, x>> \in R)
  BY <1>1, WFMin
<1>3. \A y \in T : ~(y < x)
  BY <1>2 DEF R, OpToRel
<1> QED
  BY <1>3

\* Two functions that obey the same recursion agree.
LEMMA RecursionUnique ==
    ASSUME NEW n \in Nat, NEW u, NEW g, NEW h,
           \A i \in 0..n : g[i] = IF i = 0 THEN 0 ELSE g[i - 1] + i * (u[i] - u[i - 1]),
           \A i \in 0..n : h[i] = IF i = 0 THEN 0 ELSE h[i - 1] + i * (u[i] - u[i - 1])
    PROVE  \A i \in 0..n : g[i] = h[i]
<1> DEFINE Bad == {i \in 0..n : g[i] # h[i]}
<1> SUFFICES ASSUME Bad # {} PROVE FALSE
  OBVIOUS
<1>1. Bad \in SUBSET Nat
  OBVIOUS
<1>2. PICK m \in Bad : \A k \in Bad : m <= k
  BY <1>1, LeastNatural
<1>3. m # 0
  BY <1>2
<1>4. m \in 0..n /\ m - 1 \in 0..n /\ ~(m <= m - 1)
  BY <1>2, <1>3
<1>5. g[m - 1] = h[m - 1]
  BY <1>2, <1>4
<1>6. /\ g[m] = g[m - 1] + m * (u[m] - u[m - 1])
      /\ h[m] = h[m - 1] + m * (u[m] - u[m - 1])
  BY <1>3, <1>4
<1> QED
  BY <1>2, <1>5, <1>6

LEMMA ExplainedConsistent == TypeInv /\ Explained => HistogramConsistent
<1> SUFFICES ASSUME TypeInv, Explained, Observers = {} PROVE HistogramConsistent
  BY DEF HistogramConsistent
<1> DEFINE n == Buckets + 1
           u == [i \in 0..n |-> IF i = 0 THEN 0 ELSE IF i = n THEN total ELSE buckets[i]]
           W(g) == [i \in 0..n |-> IF i = 0 THEN 0 ELSE g[i - 1] + i * (u[i] - u[i - 1])]
           weighted == CHOOSE g : g = W(g)
<1>1. Buckets \in Nat /\ n \in Nat
  BY RegistryAssumption
<1>2. \A i \in 1..n : Passed(i) = {}
  BY DEF Passed, Counted, Observers
<1>3. ASSUME NEW i \in 0..n PROVE At(i) = u[i]
  <2>1. CASE i = 0
    BY <2>1 DEF At
  <2>2. CASE i # 0
    <3>1. i \in 1..n /\ (i <= Buckets <=> i # n)
      BY <1>1, <2>2
    <3>2. Cardinality(Passed(i)) = 0 /\ UpTo(i) \in Nat
      BY <1>2, <3>1, FS_EmptySet, PassedNat
    <3>3. At(i) = UpTo(i)
      BY <2>2, <3>1, <3>2 DEF At, Completed
    <3> QED
      BY <2>2, <3>1, <3>3 DEF UpTo
  <2> QED
    BY <2>1, <2>2
<1>4. PICK g : Weighs(g) /\ g[n] = sum
  BY DEF Explained
<1>5. ASSUME NEW i \in 1..n PROVE g[i] = g[i - 1] + i * (u[i] - u[i - 1])
  <2>1. i \in 0..n /\ i - 1 \in 0..n
    BY <1>1
  <2>2. At(i) = u[i] /\ At(i - 1) = u[i - 1]
    BY <1>3, <2>1
  <2> HIDE DEF u
  <2> QED
    BY <1>4, <2>2 DEF Weighs
<1>6. g = W(g)
  <2>1. g = [i \in 0..n |-> g[i]] /\ g[0] = 0 /\ \A i \in 0..n : i # 0 => i \in 1..n
    BY <1>1, <1>4 DEF Weighs
  <2> HIDE DEF u, n
  <2> QED
    BY <1>5, <2>1
<1>7. weighted = W(weighted)
  BY <1>6
<1>8. \A i \in 0..n : weighted[i] = g[i]
  <2> HIDE DEF weighted, u, n
  <2>1. /\ \A i \in 0..n : g[i] = IF i = 0 THEN 0 ELSE g[i - 1] + i * (u[i] - u[i - 1])
        /\ \A i \in 0..n : weighted[i] = IF i = 0 THEN 0
                                         ELSE weighted[i - 1] + i * (u[i] - u[i - 1])
    BY ONLY <1>6, <1>7
  <2> QED
    BY ONLY <1>1, <2>1, RecursionUnique
<1>9. sum = weighted[n]
  <2> HIDE DEF weighted
  <2> QED
    BY <1>1, <1>4, <1>8
<1>10. ASSUME NEW i \in 0..Buckets PROVE u[i] <= u[i + 1]
  <2>1. i \in 0..n /\ i + 1 \in 0..n
    BY <1>1
  <2> HIDE DEF u
  <2> QED
    BY <1>3, <2>1 DEF Explained
<1> QED
  BY ONLY <1>9, <1>10 DEF HistogramConsistent

\* Whenever nobody is inside Observe the buckets are cumulative up to the count
\* and the sum is what they say was observed, however many workers observed at
\* once and in whatever order their steps came.
THEOREM HistogramIsConsistent == Spec => []HistogramConsistent
<1>1. ImplementsHistogram => []Explained
  BY InitExplained, ExplainedStep, PTL DEF ImplementsHistogram, Observations!Spec
<1> QED
  BY <1>1, RegistryIsHistogram, ExplainedConsistent, InitType, TypeStep, PTL DEF Spec
=============================================================================
