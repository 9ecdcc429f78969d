-------------------------------- MODULE Wire --------------------------------
(***************************************************************************)
(* packet/wire.go and nodeid.go: a packet on its way from the sender to    *)
(* the receiver, decoded, stamped and encoded again by every router.  A    *)
(* node writes names as strings, or, if it is configured with a            *)
(* NodeIDMap, as 16-bit ids, and then every metric as 16-bit hundredths.   *)
(* Nodes are configured one by one.  Where a router sends a packet is the  *)
(* matter of Forwarding; here it may be anywhere.                          *)
(*                                                                         *)
(* A metric is a number of thousandths; no name, "", is NoName.  The map   *)
(* of a packet is its first link, if it has one, and the number of others, *)
(* which matter by their size only.                                        *)
(***************************************************************************)
EXTENDS Integers, Sequences, FiniteSets

CONSTANTS
    Node,           \* sender, routers, receivers
    Source,         \* the sender
    Deployments,    \* what the NodeIDMaps of all nodes may be
    Packets,        \* what the sender may send
    Measured,       \* metrics that a router stamps
    Views,          \* what the topologies of routers may make of a reroute
    Inexact,        \* the k for which float64(k)/100*100 truncates to k - 1
    NameLen,        \* bytes of a node's name
    MaxHops,        \* of every packet; bounds the runs
    NoName, None

MaxUint16 == 65535
MaxDatagram == 65507
WireHeaderSize == 16
MaxPathLen == 512
MaxMiniMapSize == 4096
MaxCongestionLogSize == 512
MaxVisitedNodes == 512
MaxStringLen == 1024

Packet ==
    [destination : Node, currentNode : Node \cup {NoName},
     plannedPath : Seq(Node), hopIndex : Nat, hopCount : Nat,
     miniMap : Seq([from : Node, to : Node, latency : Nat]), otherLinks : Nat,
     congestionLog : Seq([node : Node, latency : Nat]), visitedNodes : SUBSET Node,
     degraded : BOOLEAN, rerouted : BOOLEAN, lightMode : BOOLEAN]

\* As the sender builds them: a path is computed, no router has logged yet.
Unsent ==
    {p \in Packet : /\ p.plannedPath # <<>> /\ p.hopIndex = 0
                   /\ p.hopCount = 0 /\ p.congestionLog = <<>> /\ p.visitedNodes = {}}

\* The path that Dijkstra finds in a router's fresh links, what they say of its
\* first link, and how many others they are.
View == [path : Seq(Node), latency : Nat, otherLinks : Nat]

\* The ids of two nodes' maps do not contradict each other.
Agree(m1, m2) ==
    \A x \in DOMAIN m1, y \in DOMAIN m2 :
        m1[x] # 0 /\ m2[y] # 0 => (x = y <=> m1[x] = m2[y])

ASSUME WireAssumption ==
    /\ Source \in Node
    /\ NoName \notin Node
    /\ None \notin Packet \cup {"encode error", "decode error"}
    /\ \A p \in Packets : p \in Unsent
    /\ Measured \subseteq Nat
    /\ \A view \in Views : view \in View /\ Len(view.path) >= 2
    /\ Inexact \subseteq 1 .. MaxUint16
    /\ NameLen \in Nat /\ MaxHops \in 0 .. 255
    /\ \A d \in Deployments :
        /\ DOMAIN d = Node
        /\ \A n \in Node :
            /\ DOMAIN d[n] \subseteq Node
            /\ \A x \in DOMAIN d[n] : d[n][x] \in 0 .. MaxUint16
        /\ \A m, n \in Node : Agree(d[m], d[n])

VARIABLES
    idMap,      \* the NodeIDMap of each node; it does not change
    frame,      \* the datagram in flight and the node it goes to, or None
    truth,      \* the packet as it would be had no encoding changed it, or None
    end         \* how the journey ended, or None

vars == <<idMap, frame, truth, end>>

-----------------------------------------------------------------------------
(* Packets, and what is done to each name and each metric in one. *)

Convert(p, N(_), V(_)) ==
    [p EXCEPT
        !.destination = N(@),
        !.currentNode = N(@),
        !.plannedPath = [i \in DOMAIN @ |-> N(@[i])],
        !.miniMap = [i \in DOMAIN @ |->
            [from |-> N(@[i].from), to |-> N(@[i].to), latency |-> V(@[i].latency)]],
        !.congestionLog = [i \in DOMAIN @ |->
            [node |-> N(@[i].node), latency |-> V(@[i].latency)]],
        !.visitedNodes = {N(x) : x \in @}]

NamesIn(p) ==
    {p.destination, p.currentNode} \cup p.visitedNodes
        \cup {p.plannedPath[i] : i \in DOMAIN p.plannedPath}
        \cup {p.miniMap[i].from : i \in DOMAIN p.miniMap}
        \cup {p.miniMap[i].to : i \in DOMAIN p.miniMap}
        \cup {p.congestionLog[i].node : i \in DOMAIN p.congestionLog}

Links(p) == Len(p.miniMap) + p.otherLinks

\* Mutant: the hop index runs past the end of the path.
LogHop_Unclamped(p, n, v) ==
    [p EXCEPT
        !.congestionLog = Append(@, [node |-> n, latency |-> v]),
        !.currentNode = n,
        !.hopCount = @ + 1,
        !.visitedNodes = @ \cup {n},
        !.hopIndex = @ + 1]

LogHop(p, n, v) ==
    [p EXCEPT
        !.congestionLog = Append(@, [node |-> n, latency |-> v]),
        !.currentNode = n,
        !.hopCount = @ + 1,
        !.visitedNodes = @ \cup {n},
        !.hopIndex = IF @ + 1 < Len(p.plannedPath) THEN @ + 1
                     ELSE Len(p.plannedPath) - 1]

RemainingPath(p) ==
    IF p.hopIndex + 1 < Len(p.plannedPath)
    THEN SubSeq(p.plannedPath, p.hopIndex + 1, Len(p.plannedPath))
    ELSE <<>>

\* A new path replaces the plan, and the router's fresh links, all of them,
\* the map; a light packet carries no map (Reroute, RerouteFromTopology).
Reroute(p, view) ==
    IF view.path = RemainingPath(p) THEN p
    ELSE [p EXCEPT
            !.plannedPath = view.path,
            !.hopIndex = 0,
            !.rerouted = TRUE,
            !.miniMap = IF p.lightMode THEN @
                ELSE <<[from |-> view.path[1], to |-> view.path[2], latency |-> view.latency]>>,
            !.otherLinks = IF p.lightMode THEN @ ELSE view.otherLinks]

\* A forced hop, or a reroute that finds no path and leaves the plan alone.
Degrade(p) == [p EXCEPT !.degraded = TRUE]

-----------------------------------------------------------------------------
(* Compact ids and metrics. *)

\* Mutant: id 0 is not reserved for the empty name.
NewNodeIDTable_ZeroKept(m) == m

NewNodeIDTable(m) == [x \in {y \in DOMAIN m : m[y] # 0} |-> m[x]]

HasTable(n) == DOMAIN idMap[n] # {}
Table(n) == NewNodeIDTable(idMap[n])

ToID(t, x) == IF x = NoName THEN 0 ELSE t[x]
ToName(t, id) == IF id = 0 THEN NoName ELSE CHOOSE x \in DOMAIN t : t[x] = id

\* Mutant: a large value wraps.
EncodeMetricU16_Wraps(v) == (v \div 10) % (MaxUint16 + 1)

EncodeMetricU16(v) ==
    CASE v > 10 * MaxUint16 -> MaxUint16
      [] v % 10 = 0 /\ v \div 10 \in Inexact -> (v \div 10) - 1
      [] OTHER -> v \div 10

DecodeMetricU16(k) == 10 * k

-----------------------------------------------------------------------------
(* Frames. *)

Flags(p) ==
    {f \in {"degraded", "rerouted", "light"} :
        CASE f = "degraded" -> p.degraded
          [] f = "rerouted" -> p.rerouted
          [] f = "light" -> p.lightMode}

StringHeaderLen(p) ==
    27 + (2 + NameLen) * (1 + Len(p.plannedPath) + 2 * Links(p)
                          + Len(p.congestionLog) + Cardinality(p.visitedNodes))
       + 2 + (IF p.currentNode = NoName THEN 0 ELSE NameLen)
       + 24 * Links(p) + 16 * Len(p.congestionLog)

CompactHeaderLen(p) ==
    30 + 2 * Len(p.plannedPath) + 10 * Links(p)
       + 6 * Len(p.congestionLog) + 2 * Cardinality(p.visitedNodes)

ActualLen(compact, p) == IF compact THEN CompactHeaderLen(p) ELSE StringHeaderLen(p)

\* The degraded byte of the string format repeats a flag; the others are flags only.
EncodeWire(p) ==
    [compact |-> FALSE,
     flags |-> Flags(p),
     header |-> [p EXCEPT !.rerouted = FALSE, !.lightMode = FALSE],
     headerLen |-> ActualLen(FALSE, p) % (MaxUint16 + 1)]

EncodeWireWithIDs(p, t) ==
    [compact |-> TRUE,
     flags |-> Flags(p),
     header |-> [Convert(p, LAMBDA x : ToID(t, x), EncodeMetricU16) EXCEPT
                    !.degraded = FALSE, !.rerouted = FALSE, !.lightMode = FALSE],
     headerLen |-> ActualLen(TRUE, p) % (MaxUint16 + 1)]

\* Mutant: a map as large as is allowed is refused.
WithinLimits_Strict(p) ==
    /\ Len(p.plannedPath) <= MaxPathLen
    /\ Links(p) < MaxMiniMapSize
    /\ Len(p.congestionLog) <= MaxCongestionLogSize
    /\ Cardinality(p.visitedNodes) <= MaxVisitedNodes

\* What a decoder accepts; no encoder and no reroute asks for it.
WithinLimits(p) ==
    /\ Len(p.plannedPath) <= MaxPathLen
    /\ Links(p) <= MaxMiniMapSize
    /\ Len(p.congestionLog) <= MaxCongestionLogSize
    /\ Cardinality(p.visitedNodes) <= MaxVisitedNodes

\* A frame whose header has another length than it says fails the CRC.  The
\* destination, at least, is a name.
WellFormed(f) ==
    /\ f.headerLen = ActualLen(f.compact, f.header)
    /\ WithinLimits(f.header)
    /\ ~f.compact => NameLen <= MaxStringLen

DecodeWire(f) ==
    [f.header EXCEPT
        !.degraded = @ \/ "degraded" \in f.flags,
        !.rerouted = "rerouted" \in f.flags,
        !.lightMode = "light" \in f.flags]

DecodeWireWithIDs(f, t) ==
    Convert(DecodeWire(f), LAMBDA id : ToName(t, id), DecodeMetricU16)

-----------------------------------------------------------------------------
(* The nodes. *)

Encodable(n, p) ==
    HasTable(n) => NamesIn(p) \subseteq DOMAIN Table(n) \cup {NoName}

Encoded(n, p) ==
    IF HasTable(n) THEN EncodeWireWithIDs(p, Table(n)) ELSE EncodeWire(p)

Decodable(n, f) ==
    /\ WellFormed(f)
    /\ f.compact =>
        /\ HasTable(n)
        /\ NamesIn(f.header) \subseteq {0} \cup {Table(n)[x] : x \in DOMAIN Table(n)}

Decoded(n, f) == IF f.compact THEN DecodeWireWithIDs(f, Table(n)) ELSE DecodeWire(f)

Fits(f) == WireHeaderSize + ActualLen(f.compact, f.header) <= MaxDatagram

Stop(how) == end' = how /\ frame' = None

\* p is encoded by n and sent to some node, if both can be done.
Transmit(n, p) ==
    \/ ~Encodable(n, p) /\ Stop("encode error")
    \/ Encodable(n, p) /\ ~Fits(Encoded(n, p)) /\ Stop("write error")
    \/ /\ Encodable(n, p) /\ Fits(Encoded(n, p))
       /\ \E m \in Node \ {Source} : frame' = [to |-> m, data |-> Encoded(n, p)]
       /\ UNCHANGED end

Init ==
    /\ idMap \in Deployments
    /\ frame = None
    /\ truth = None
    /\ end = None

Send(p) ==
    /\ truth = None
    /\ truth' = p
    /\ Transmit(Source, p)
    /\ UNCHANGED idMap

Refuse ==
    /\ frame # None
    /\ ~Decodable(frame.to, frame.data)
    /\ Stop("decode error")
    /\ UNCHANGED <<idMap, truth>>

Reached == frame # None /\ Decodable(frame.to, frame.data)
Received == Decoded(frame.to, frame.data)

Deliver ==
    /\ Reached /\ frame.to = Received.destination
    /\ Stop("delivered")
    /\ UNCHANGED <<idMap, truth>>

Expire ==
    /\ Reached /\ frame.to # Received.destination
    /\ Received.hopCount >= MaxHops
    /\ Stop("expired")
    /\ UNCHANGED <<idMap, truth>>

\* The worker of a router: R is what it does to the packet between the two codecs.
RelayAs(R(_)) ==
    /\ Reached /\ frame.to # Received.destination
    /\ Received.hopCount < MaxHops
    /\ truth' = R(truth)
    /\ Transmit(frame.to, R(Received))
    /\ UNCHANGED idMap

Forward(v) == RelayAs(LAMBDA p : LogHop(p, frame.to, v))
ForwardForced(v) == RelayAs(LAMBDA p : Degrade(LogHop(p, frame.to, v)))

\* With the view of this router, in which there is a path to the destination.
RerouteAs(view, R(_)) ==
    /\ Reached
    /\ view.path[1] = frame.to /\ view.path[Len(view.path)] = Received.destination
    /\ RelayAs(R)

ForwardRerouted(v, view) ==
    RerouteAs(view, LAMBDA p : Reroute(LogHop(p, frame.to, v), view))
ForwardReroutedForced(v, view) ==
    RerouteAs(view, LAMBDA p : Degrade(Reroute(LogHop(p, frame.to, v), view)))

\* The datagram is lost.
Lose == frame # None /\ Stop("lost") /\ UNCHANGED <<idMap, truth>>

Next ==
    \/ \E p \in Packets : Send(p)
    \/ Refuse
    \/ Deliver
    \/ Expire
    \/ \E v \in Measured : Forward(v) \/ ForwardForced(v)
    \/ \E v \in Measured, view \in Views :
            ForwardRerouted(v, view) \/ ForwardReroutedForced(v, view)
    \/ Lose

Spec == Init /\ [][Next]_vars

-----------------------------------------------------------------------------
(* Properties *)

\* The journey ends once, and the hop index of a packet is always a place in
\* its path, whichever formats it went through.
TypeOK ==
    /\ idMap \in Deployments
    /\ frame # None => truth # None /\ frame.to \in Node \ {Source}
    /\ end \in {None, "lost", "delivered", "expired",
                "encode error", "write error", "decode error"}
    /\ end # None => frame = None
    /\ truth # None => truth \in Packet /\ truth.hopIndex < Len(truth.plannedPath)

Names(p) == Convert(p, LAMBDA x : x, LAMBDA v : 0)

\* Whatever mix of formats and tables a packet has come through, a node that
\* accepts it reads the names, counters and flags that its predecessors wrote:
\* nothing but metrics is ever changed by an encoding, and a name that a table
\* lacks is never read as another (wire.go:488-515, 616-628, 861-871).
NothingMisread == Reached => Names(Received) = Names(truth)

Close(read, exact, encodings) ==
    /\ read <= exact
    /\ \/ read >= exact - 10 * encodings
       \/ exact > 10 * MaxUint16 /\ read >= 10 * (MaxUint16 - encodings)

\* A metric that a node reads is never above the one measured, and below it by
\* at most one hundredth per encoding since; one that is too large for its
\* field is still read as a very large one (wire.go:469-483).
MetricsClose ==
    Reached =>
        /\ \A i \in DOMAIN truth.miniMap :
            Close(Received.miniMap[i].latency, truth.miniMap[i].latency, truth.hopCount + 1)
        /\ \A i \in DOMAIN truth.congestionLog :
            Close(Received.congestionLog[i].latency, truth.congestionLog[i].latency,
                  truth.hopCount + 1 - i)

\* All nodes know the ids of all nodes, or none uses ids.
Uniform ==
    \/ \A n \in Node : ~HasTable(n)
    \/ \A n \in Node : \A x \in Node : x \in DOMAIN idMap[n] /\ idMap[n][x] # 0

\* Among such nodes no encoder refuses a packet, and a decoder only one that a
\* sender or a rerouting router, none of which checks, made too large for it: by
\* a map of more than 4096 links, a path of more than 512 nodes, or names of more
\* than a KiB.  It is never the number of hops, and never a header whose length
\* does not fit the 16 bits that state it (wire.go:307, 352-423, 644, 753-845).
RefusedForSizeOnly ==
    Uniform =>
        /\ end # "encode error"
        /\ end = "decode error" =>
            \/ Links(truth) > MaxMiniMapSize
            \/ Len(truth.plannedPath) > MaxPathLen
            \/ NameLen > MaxStringLen /\ \A n \in Node : ~HasTable(n)
=============================================================================
