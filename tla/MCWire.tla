------------------------------- MODULE MCWire -------------------------------
(* A sender, two routers and a receiver, configured alike or not.            *)
EXTENDS Wire, TLC

CONSTANTS s, a, b, r

Unnumbered == [x \in {} |-> 0]
Numbering == (s :> 1) @@ (a :> 2) @@ (b :> 3) @@ (r :> MaxUint16)
NumberingFromZero == (s :> 0) @@ (a :> 1) @@ (b :> 2) @@ (r :> 3)
ZeroOnRoute == (s :> 1) @@ (a :> 0) @@ (b :> 2) @@ (r :> 3)
Without(m, x) == [y \in DOMAIN m \ {x} |-> m[y]]

\* As shipped, with and without ids; a sender or a router without; tables that
\* lack a node; tables that use the reserved id.
MixedDeployments ==
    {[n \in Node |-> Unnumbered],
     [n \in Node |-> Numbering],
     [n \in Node |-> IF n = s THEN Unnumbered ELSE Numbering],
     [n \in Node |-> IF n = b THEN Unnumbered ELSE Numbering],
     [n \in Node |-> IF n = r THEN Without(Numbering, b) ELSE Numbering],
     [n \in Node |-> IF n = a THEN Without(Numbering, a) ELSE Numbering],
     [n \in Node |-> NumberingFromZero],
     [n \in Node |-> IF n = b THEN Numbering ELSE [ZeroOnRoute EXCEPT ![b] = 3, ![r] = MaxUint16]]}

NewPacket ==
    [destination |-> r, currentNode |-> NoName, plannedPath |-> <<a, b, r>>,
     hopIndex |-> 0, hopCount |-> 0, miniMap |-> <<>>, otherLinks |-> 0,
     congestionLog |-> <<>>, visitedNodes |-> {},
     degraded |-> FALSE, rerouted |-> FALSE, lightMode |-> FALSE]

LatencyMap(v) == <<[from |-> a, to |-> b, latency |-> v]>>

\* Light; with a map; with a map that fills the largest datagram but for one hop.
LightFullHuge ==
    {[NewPacket EXCEPT !.lightMode = TRUE]}
        \cup {[NewPacket EXCEPT !.miniMap = LatencyMap(v)] : v \in {580, 12345, 655359}}
        \cup {[NewPacket EXCEPT !.miniMap = LatencyMap(0), !.otherLinks = 1719]}

\* One link; a map as large as a decoder takes, and one larger; in ids, a header
\* that wraps its length field, as the first two large ones do in strings.
RouterViews ==
    {[path |-> p, latency |-> 1164, otherLinks |-> 0] : p \in {<<a, b, r>>, <<b, r>>}}
        \cup {[path |-> p, latency |-> 700000, otherLinks |-> k] :
                p \in {<<a, r>>, <<b, a, r>>}, k \in {4095, 4096, 6600}}

\* int(float64(k)/100*100) = k - 1 for these k (IEEE 754), among those that occur.
TruncatedBelow == {29, 57, 58, 113, 114, 115, 116}
=============================================================================
