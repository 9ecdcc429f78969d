---------------------------- MODULE LinkRegister ----------------------------
(***************************************************************************)
(* What the gossip promises, without datagrams, deltas, timers or clocks:  *)
(* for every link a register that only the node measuring the link writes, *)
(* under ever higher numbers, and that every node reads through a view of  *)
(* its own.  A view holds something that was written, or nothing; it only  *)
(* ever moves on to a later version, or forgets.                           *)
(***************************************************************************)
EXTENDS Naturals

CONSTANTS
    Node,
    Link,   \* pairs of nodes; the first one measures the link
    None    \* a view that holds nothing

VARIABLES
    view,     \* view[n][k]: the version of link k that node n works with
    counter,  \* counter[n]: the number of the last version node n wrote
    around    \* the versions somebody still has, in a view or under way

vars == <<view, counter, around>>

Init ==
    /\ view = [n \in Node |-> [k \in Link |-> None]]
    /\ counter = [n \in Node |-> 0]
    /\ around = {}

\* The node that measures link k writes the next version of it.
Write(k) ==
    LET n == k[1]
        version == view'[n][k]
    IN  /\ counter' = [counter EXCEPT ![n] = @ + 1]
        /\ version # None /\ version.link = k /\ version.seq = counter[n] + 1
        /\ view' = [view EXCEPT ![n][k] = version]
        /\ around' \subseteq around \cup {version}

\* Node n moves on, link by link, to later versions that are still around.
Learn(n) ==
    /\ \A k \in Link :
         \/ view'[n][k] = view[n][k]
         \/ /\ view'[n][k] \in around
            /\ view'[n][k].link = k
            /\ view[n][k] # None => view'[n][k].seq > view[n][k].seq
    /\ view' = [view EXCEPT ![n] = view'[n]]
    /\ around' \subseteq around
    /\ UNCHANGED counter

\* Node n forgets some links.
Forget(n) ==
    /\ \A k \in Link : view'[n][k] \in {view[n][k], None}
    /\ view' = [view EXCEPT ![n] = view'[n]]
    /\ around' \subseteq around
    /\ UNCHANGED counter

\* A version under way is lost.
Vanish ==
    /\ around' \subseteq around
    /\ UNCHANGED <<view, counter>>

Next ==
    \/ \E k \in Link : Write(k)
    \/ \E n \in Node : Learn(n) \/ Forget(n)
    \/ Vanish

Spec == Init /\ [][Next]_vars
=============================================================================
