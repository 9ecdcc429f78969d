------------------------------ MODULE Histogram ------------------------------
(***************************************************************************)
(* What the latency histogram promises, without buckets that are counted   *)
(* one by one, a mutex or a sum that is read and written back: every       *)
(* observation takes effect at one moment, in all of its buckets and in    *)
(* the sum, and nothing else changes them.                                 *)
(***************************************************************************)
EXTENDS Naturals

CONSTANT Buckets   \* number of finite buckets; one more counts everything

VARIABLES
    observed,  \* observed[i]: observations that bucket i holds
    sum        \* the sum of all observations

vars == <<observed, sum>>

Bucket == 1..Buckets + 1

Init == observed = [i \in Bucket |-> 0] /\ sum = 0

Observe(v) ==
    /\ sum' = sum + v
    /\ observed' = [i \in Bucket |-> IF i >= v THEN observed[i] + 1 ELSE observed[i]]

Next == \E v \in Bucket : Observe(v)

Spec == Init /\ [][Next]_vars
=============================================================================
