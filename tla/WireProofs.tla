----------------------------- MODULE WireProofs -----------------------------
(***************************************************************************)
(* Proofs about the wire format for every set of nodes, every assignment   *)
(* of ids that does not contradict itself, and every packet.               *)
(***************************************************************************)
EXTENDS Wire, FiniteSetTheorems, TLAPS

\* The packets p and q differ in metrics at most.
Alike(p, q) ==
    /\ p.destination = q.destination /\ p.currentNode = q.currentNode
    /\ p.plannedPath = q.plannedPath /\ p.hopIndex = q.hopIndex
    /\ p.hopCount = q.hopCount /\ p.otherLinks = q.otherLinks
    /\ p.visitedNodes = q.visitedNodes
    /\ p.degraded = q.degraded /\ p.rerouted = q.rerouted /\ p.lightMode = q.lightMode
    /\ Len(p.miniMap) = Len(q.miniMap)
    /\ \A i \in 1 .. Len(p.miniMap) :
        p.miniMap[i].from = q.miniMap[i].from /\ p.miniMap[i].to = q.miniMap[i].to
    /\ Len(p.congestionLog) = Len(q.congestionLog)
    /\ \A i \in 1 .. Len(p.congestionLog) :
        p.congestionLog[i].node = q.congestionLog[i].node

LEMMA AlikeNames ==
    ASSUME NEW p \in Packet, NEW q \in Packet, Alike(p, q)
    PROVE  Names(p) = Names(q)
<1> DEFINE M(x) == [i \in DOMAIN x.miniMap |->
                [from |-> x.miniMap[i].from, to |-> x.miniMap[i].to, latency |-> 0]]
           L(x) == [i \in DOMAIN x.congestionLog |->
                [node |-> x.congestionLog[i].node, latency |-> 0]]
           P(x) == [i \in DOMAIN x.plannedPath |-> x.plannedPath[i]]
           V(x) == {y : y \in x.visitedNodes}
<1>1. \A x \in Packet : Names(x) =
        [x EXCEPT !.destination = x.destination, !.currentNode = x.currentNode,
                  !.plannedPath = P(x), !.miniMap = M(x),
                  !.congestionLog = L(x), !.visitedNodes = V(x)]
  BY DEF Names, Convert
<1>2. /\ DOMAIN p.miniMap = 1 .. Len(p.miniMap) /\ DOMAIN q.miniMap = 1 .. Len(q.miniMap)
      /\ DOMAIN p.congestionLog = 1 .. Len(p.congestionLog)
      /\ DOMAIN q.congestionLog = 1 .. Len(q.congestionLog)
  <2>1. \A S : \A s \in Seq(S) : DOMAIN s = 1 .. Len(s)
    OBVIOUS
  <2>2. /\ p.miniMap \in Seq([from : Node, to : Node, latency : Nat])
        /\ q.miniMap \in Seq([from : Node, to : Node, latency : Nat])
        /\ p.congestionLog \in Seq([node : Node, latency : Nat])
        /\ q.congestionLog \in Seq([node : Node, latency : Nat])
    BY DEF Packet
  <2> QED
    BY <2>1, <2>2
<1>3. M(p) = M(q) /\ L(p) = L(q)
  BY <1>2 DEF Alike
<1>4. P(p) = P(q) /\ V(p) = V(q)
  BY DEF Alike
<1> HIDE DEF M, L, P, V
<1>5. ASSUME NEW x \in Packet
      PROVE  Names(x) =
        [destination |-> x.destination, currentNode |-> x.currentNode,
         plannedPath |-> P(x), hopIndex |-> x.hopIndex, hopCount |-> x.hopCount,
         miniMap |-> M(x), otherLinks |-> x.otherLinks,
         congestionLog |-> L(x), visitedNodes |-> V(x),
         degraded |-> x.degraded, rerouted |-> x.rerouted, lightMode |-> x.lightMode]
  BY <1>1 DEF Packet
<1> QED
  BY <1>3, <1>4, <1>5 DEF Alike

-----------------------------------------------------------------------------
(* Names and metrics survive the way through two tables. *)

LEMMA NameRoundTrip ==
    ASSUME idMap \in Deployments, NEW n \in Node, NEW m \in Node,
           NEW x \in DOMAIN Table(n) \cup {NoName},
           ToID(Table(n), x) \in {0} \cup {Table(m)[y] : y \in DOMAIN Table(m)}
    PROVE  ToName(Table(m), ToID(Table(n), x)) = x
<1> DEFINE t == Table(n)  u == Table(m)
<1>1. /\ \A y \in DOMAIN t : y \in Node /\ t[y] = idMap[n][y] /\ t[y] # 0 /\ y \in DOMAIN idMap[n]
      /\ \A y \in DOMAIN u : y \in Node /\ u[y] = idMap[m][y] /\ u[y] # 0 /\ y \in DOMAIN idMap[m]
      /\ Agree(idMap[n], idMap[m])
  BY WireAssumption DEF Table, NewNodeIDTable
<1>2. CASE x = NoName
  BY <1>2 DEF ToID, ToName
<1>3. CASE x # NoName
  <2>1. x \in DOMAIN t /\ ToID(t, x) = t[x] /\ t[x] # 0
    BY <1>1, <1>3 DEF ToID
  <2>2. PICK y \in DOMAIN u : u[y] = t[x]
    BY <2>1
  <2>3. \A z \in DOMAIN u : u[z] = t[x] => z = x
    BY <1>1, <2>1 DEF Agree
  <2> HIDE DEF t, u
  <2>4. (CHOOSE z \in DOMAIN u : u[z] = t[x]) = x
    BY <2>2, <2>3
  <2> QED
    BY <2>1, <2>4 DEF ToName, t, u
<1> QED
  BY <1>2, <1>3

LEMMA MetricTyped ==
    ASSUME NEW v \in Nat
    PROVE  EncodeMetricU16(v) \in Nat /\ DecodeMetricU16(EncodeMetricU16(v)) \in Nat
<1>1. CASE v > 10 * MaxUint16
  BY <1>1 DEF EncodeMetricU16, DecodeMetricU16, MaxUint16
<1>2. CASE ~(v > 10 * MaxUint16) /\ v % 10 = 0 /\ v \div 10 \in Inexact
  <2>1. v \div 10 \in 1 .. MaxUint16
    BY <1>2, WireAssumption
  <2>2. EncodeMetricU16(v) = (v \div 10) - 1
    BY <1>2 DEF EncodeMetricU16
  <2>3. v \div 10 \in Nat \ {0}
    <3>1. \A m \in Nat : \A k \in 1 .. m : k \in Nat \ {0}
      OBVIOUS
    <3>2. MaxUint16 \in Nat
      BY DEF MaxUint16
    <3> QED
      BY <2>1, <3>1, <3>2
  <2>4. \A k \in Nat \ {0} : k - 1 \in Nat /\ 10 * (k - 1) \in Nat
    OBVIOUS
  <2> QED
    BY <2>2, <2>3, <2>4 DEF DecodeMetricU16
<1>3. CASE ~(v > 10 * MaxUint16) /\ ~(v % 10 = 0 /\ v \div 10 \in Inexact)
  <2>1. EncodeMetricU16(v) = v \div 10
    BY <1>3 DEF EncodeMetricU16
  <2> QED
    BY <2>1 DEF DecodeMetricU16
<1> QED
  BY <1>1, <1>2, <1>3

-----------------------------------------------------------------------------
(* The way through an encoder and a decoder. *)

LEMMA SequenceDomain ==
    ASSUME NEW S, NEW s \in Seq(S)
    PROVE  DOMAIN s = 1 .. Len(s) /\ \A i \in DOMAIN s : s[i] \in S
OBVIOUS

LEMMA IsASeq ==
    ASSUME NEW S, NEW k \in Nat, NEW s, DOMAIN s = 1 .. k,
           s = [i \in 1 .. k |-> s[i]], \A i \in 1 .. k : s[i] \in S
    PROVE  s \in Seq(S)
OBVIOUS

LEMMA PacketSequences ==
    ASSUME NEW q \in Packet
    PROVE  /\ DOMAIN q.plannedPath = 1 .. Len(q.plannedPath)
           /\ \A i \in DOMAIN q.plannedPath : q.plannedPath[i] \in Node
           /\ DOMAIN q.miniMap = 1 .. Len(q.miniMap)
           /\ \A i \in DOMAIN q.miniMap :
                q.miniMap[i].from \in Node /\ q.miniMap[i].to \in Node
                    /\ q.miniMap[i].latency \in Nat
           /\ DOMAIN q.congestionLog = 1 .. Len(q.congestionLog)
           /\ \A i \in DOMAIN q.congestionLog :
                q.congestionLog[i].node \in Node /\ q.congestionLog[i].latency \in Nat
<1>1. /\ q.plannedPath \in Seq(Node)
      /\ q.miniMap \in Seq([from : Node, to : Node, latency : Nat])
      /\ q.congestionLog \in Seq([node : Node, latency : Nat])
  BY DEF Packet
<1>2. /\ DOMAIN q.plannedPath = 1 .. Len(q.plannedPath)
      /\ \A i \in DOMAIN q.plannedPath : q.plannedPath[i] \in Node
  BY <1>1, SequenceDomain
<1>3. /\ DOMAIN q.miniMap = 1 .. Len(q.miniMap)
      /\ \A i \in DOMAIN q.miniMap : q.miniMap[i] \in [from : Node, to : Node, latency : Nat]
  BY <1>1, SequenceDomain
<1>4. /\ DOMAIN q.congestionLog = 1 .. Len(q.congestionLog)
      /\ \A i \in DOMAIN q.congestionLog : q.congestionLog[i] \in [node : Node, latency : Nat]
  BY <1>1, SequenceDomain
<1> QED
  BY <1>2, <1>3, <1>4

LEMMA FlagsRead ==
    ASSUME NEW q \in Packet
    PROVE  /\ (FALSE \/ "degraded" \in Flags(q)) = q.degraded
           /\ (q.degraded \/ "degraded" \in Flags(q)) = q.degraded
           /\ ("rerouted" \in Flags(q)) = q.rerouted
           /\ ("light" \in Flags(q)) = q.lightMode
<1>1. /\ "degraded" \in Flags(q) <=> q.degraded
      /\ "rerouted" \in Flags(q) <=> q.rerouted
      /\ "light" \in Flags(q) <=> q.lightMode
  BY DEF Flags
<1>2. q.degraded \in BOOLEAN /\ q.rerouted \in BOOLEAN /\ q.lightMode \in BOOLEAN
  BY DEF Packet
<1> QED
  BY <1>1, <1>2

\* The string format keeps everything.
LEMMA StringRoundTrip ==
    ASSUME NEW q \in Packet
    PROVE  DecodeWire(EncodeWire(q)) = q
<1>1. DecodeWire(EncodeWire(q)) =
        [q EXCEPT !.degraded = q.degraded \/ "degraded" \in Flags(q),
                  !.rerouted = "rerouted" \in Flags(q),
                  !.lightMode = "light" \in Flags(q)]
  BY DEF DecodeWire, EncodeWire, Packet
<1>2. q = [q EXCEPT !.degraded = q.degraded, !.rerouted = q.rerouted,
                    !.lightMode = q.lightMode]
  BY DEF Packet
<1> QED
  BY <1>1, <1>2, FlagsRead

\* What the decoder of m makes of what the encoder of n made of q, field by field.
LEMMA CompactFields ==
    ASSUME NEW q \in Packet, NEW n \in Node, NEW m \in Node
    PROVE  LET T(x) == ToID(Table(n), x)
               U(k) == ToName(Table(m), k)
               W(v) == DecodeMetricU16(EncodeMetricU16(v))
           IN  DecodeWireWithIDs(EncodeWireWithIDs(q, Table(n)), Table(m)) =
                 [destination |-> U(T(q.destination)), currentNode |-> U(T(q.currentNode)),
                  plannedPath |-> [i \in DOMAIN q.plannedPath |-> U(T(q.plannedPath[i]))],
                  hopIndex |-> q.hopIndex, hopCount |-> q.hopCount,
                  miniMap |-> [i \in DOMAIN q.miniMap |->
                    [from |-> U(T(q.miniMap[i].from)), to |-> U(T(q.miniMap[i].to)),
                     latency |-> W(q.miniMap[i].latency)]],
                  otherLinks |-> q.otherLinks,
                  congestionLog |-> [i \in DOMAIN q.congestionLog |->
                    [node |-> U(T(q.congestionLog[i].node)),
                     latency |-> W(q.congestionLog[i].latency)]],
                  visitedNodes |-> {U(T(x)) : x \in q.visitedNodes},
                  degraded |-> q.degraded, rerouted |-> q.rerouted,
                  lightMode |-> q.lightMode]
<1> DEFINE T(x) == ToID(Table(n), x)
           U(k) == ToName(Table(m), k)
           E(v) == EncodeMetricU16(v)
           D(k) == DecodeMetricU16(k)
           h == EncodeWireWithIDs(q, Table(n)).header
           c == Convert(q, LAMBDA x : ToID(Table(n), x), EncodeMetricU16)
           f == DecodeWire(EncodeWireWithIDs(q, Table(n)))
           d == DecodeWireWithIDs(EncodeWireWithIDs(q, Table(n)), Table(m))
           path == [i \in DOMAIN q.plannedPath |-> T(q.plannedPath[i])]
           map == [i \in DOMAIN q.miniMap |->
                    [from |-> T(q.miniMap[i].from), to |-> T(q.miniMap[i].to),
                     latency |-> E(q.miniMap[i].latency)]]
           log == [i \in DOMAIN q.congestionLog |->
                    [node |-> T(q.congestionLog[i].node),
                     latency |-> E(q.congestionLog[i].latency)]]
           visited == {T(x) : x \in q.visitedNodes}
<1>1. c = [q EXCEPT
            !.destination = T(q.destination), !.currentNode = T(q.currentNode),
            !.plannedPath = path, !.miniMap = map, !.congestionLog = log,
            !.visitedNodes = visited]
  BY DEF Convert
<1>2. h = [c EXCEPT !.degraded = FALSE, !.rerouted = FALSE, !.lightMode = FALSE]
  BY DEF EncodeWireWithIDs
<1> HIDE DEF T, U, E, D, path, map, log, visited, c, h
<1>3. c = [destination |-> T(q.destination), currentNode |-> T(q.currentNode),
           plannedPath |-> path, hopIndex |-> q.hopIndex, hopCount |-> q.hopCount,
           miniMap |-> map, otherLinks |-> q.otherLinks,
           congestionLog |-> log, visitedNodes |-> visited,
           degraded |-> q.degraded, rerouted |-> q.rerouted, lightMode |-> q.lightMode]
  BY <1>1 DEF Packet
<1>4. h = [destination |-> T(q.destination), currentNode |-> T(q.currentNode),
           plannedPath |-> path, hopIndex |-> q.hopIndex, hopCount |-> q.hopCount,
           miniMap |-> map, otherLinks |-> q.otherLinks,
           congestionLog |-> log, visitedNodes |-> visited,
           degraded |-> FALSE, rerouted |-> FALSE, lightMode |-> FALSE]
  BY <1>2, <1>3
<1>5. f = [h EXCEPT !.degraded = FALSE \/ "degraded" \in Flags(q),
                    !.rerouted = "rerouted" \in Flags(q),
                    !.lightMode = "light" \in Flags(q)]
  BY <1>4 DEF DecodeWire, EncodeWireWithIDs, h
<1>6. /\ (FALSE \/ "degraded" \in Flags(q)) = q.degraded
      /\ ("rerouted" \in Flags(q)) = q.rerouted
      /\ ("light" \in Flags(q)) = q.lightMode
  BY FlagsRead
<1>7. f = [h EXCEPT !.degraded = q.degraded, !.rerouted = q.rerouted,
                    !.lightMode = q.lightMode]
  BY <1>5, <1>6
<1>8. f = [destination |-> T(q.destination), currentNode |-> T(q.currentNode),
           plannedPath |-> path, hopIndex |-> q.hopIndex, hopCount |-> q.hopCount,
           miniMap |-> map, otherLinks |-> q.otherLinks,
           congestionLog |-> log, visitedNodes |-> visited,
           degraded |-> q.degraded, rerouted |-> q.rerouted, lightMode |-> q.lightMode]
  BY <1>4, <1>7
<1>9. d = [f EXCEPT
            !.destination = U(f.destination), !.currentNode = U(f.currentNode),
            !.plannedPath = [i \in DOMAIN f.plannedPath |-> U(f.plannedPath[i])],
            !.miniMap = [i \in DOMAIN f.miniMap |->
                [from |-> U(f.miniMap[i].from), to |-> U(f.miniMap[i].to),
                 latency |-> D(f.miniMap[i].latency)]],
            !.congestionLog = [i \in DOMAIN f.congestionLog |->
                [node |-> U(f.congestionLog[i].node),
                 latency |-> D(f.congestionLog[i].latency)]],
            !.visitedNodes = {U(k) : k \in f.visitedNodes}]
  BY DEF DecodeWireWithIDs, Convert, U, D
<1> HIDE DEF d, f
<1>10. d = [f EXCEPT
            !.destination = U(T(q.destination)), !.currentNode = U(T(q.currentNode)),
            !.plannedPath = [i \in DOMAIN path |-> U(path[i])],
            !.miniMap = [i \in DOMAIN map |->
                [from |-> U(map[i].from), to |-> U(map[i].to), latency |-> D(map[i].latency)]],
            !.congestionLog = [i \in DOMAIN log |->
                [node |-> U(log[i].node), latency |-> D(log[i].latency)]],
            !.visitedNodes = {U(k) : k \in visited}]
  <2>1. /\ f.destination = T(q.destination) /\ f.currentNode = T(q.currentNode)
        /\ f.plannedPath = path /\ f.miniMap = map /\ f.congestionLog = log
        /\ f.visitedNodes = visited
    BY <1>8
  <2> QED
    BY <1>9, <2>1
<1>11. d = [destination |-> U(T(q.destination)), currentNode |-> U(T(q.currentNode)),
           plannedPath |-> [i \in DOMAIN path |-> U(path[i])],
           hopIndex |-> q.hopIndex, hopCount |-> q.hopCount,
           miniMap |-> [i \in DOMAIN map |->
                [from |-> U(map[i].from), to |-> U(map[i].to), latency |-> D(map[i].latency)]],
           otherLinks |-> q.otherLinks,
           congestionLog |-> [i \in DOMAIN log |->
                [node |-> U(log[i].node), latency |-> D(log[i].latency)]],
           visitedNodes |-> {U(k) : k \in visited},
           degraded |-> q.degraded, rerouted |-> q.rerouted, lightMode |-> q.lightMode]
  BY <1>8, <1>10
<1>12. [i \in DOMAIN path |-> U(path[i])] = [i \in DOMAIN q.plannedPath |-> U(T(q.plannedPath[i]))]
  BY DEF path
<1>13. [i \in DOMAIN map |->
            [from |-> U(map[i].from), to |-> U(map[i].to), latency |-> D(map[i].latency)]]
       = [i \in DOMAIN q.miniMap |->
            [from |-> U(T(q.miniMap[i].from)), to |-> U(T(q.miniMap[i].to)),
             latency |-> D(E(q.miniMap[i].latency))]]
  BY DEF map
<1>14. [i \in DOMAIN log |-> [node |-> U(log[i].node), latency |-> D(log[i].latency)]]
       = [i \in DOMAIN q.congestionLog |->
            [node |-> U(T(q.congestionLog[i].node)), latency |-> D(E(q.congestionLog[i].latency))]]
  BY DEF log
<1>15. {U(k) : k \in visited} = {U(T(x)) : x \in q.visitedNodes}
  BY DEF visited
<1>16. d = [destination |-> U(T(q.destination)), currentNode |-> U(T(q.currentNode)),
            plannedPath |-> [i \in DOMAIN q.plannedPath |-> U(T(q.plannedPath[i]))],
            hopIndex |-> q.hopIndex, hopCount |-> q.hopCount,
            miniMap |-> [i \in DOMAIN q.miniMap |->
              [from |-> U(T(q.miniMap[i].from)), to |-> U(T(q.miniMap[i].to)),
               latency |-> D(E(q.miniMap[i].latency))]],
            otherLinks |-> q.otherLinks,
            congestionLog |-> [i \in DOMAIN q.congestionLog |->
              [node |-> U(T(q.congestionLog[i].node)),
               latency |-> D(E(q.congestionLog[i].latency))]],
            visitedNodes |-> {U(T(x)) : x \in q.visitedNodes},
            degraded |-> q.degraded, rerouted |-> q.rerouted,
            lightMode |-> q.lightMode]
  BY <1>11, <1>12, <1>13, <1>14, <1>15
<1> QED
  BY <1>16 DEF T, U, D, E, d

\* A node that accepts a packet reads all of it but metrics as it was written.
LEMMA RoundTrip ==
    ASSUME idMap \in Deployments, NEW q \in Packet, NEW n \in Node, NEW m \in Node,
           Encodable(n, q), Decodable(m, Encoded(n, q))
    PROVE  Decoded(m, Encoded(n, q)) \in Packet /\ Alike(Decoded(m, Encoded(n, q)), q)
<1>1. CASE ~HasTable(n)
  <2>1. Decoded(m, Encoded(n, q)) = q
    BY <1>1, StringRoundTrip DEF Decoded, Encoded, EncodeWire
  <2> QED
    BY <2>1 DEF Alike
<1>2. CASE HasTable(n)
  <2> DEFINE T(x) == ToID(Table(n), x)
             U(k) == ToName(Table(m), k)
             W(v) == DecodeMetricU16(EncodeMetricU16(v))
             d == Decoded(m, Encoded(n, q))
             f == EncodeWireWithIDs(q, Table(n))
  <2>1. Encoded(n, q) = f /\ f.compact = TRUE
    BY <1>2 DEF Encoded, EncodeWireWithIDs
  <2>2. d = DecodeWireWithIDs(f, Table(m))
    BY <2>1 DEF Decoded
  <2>3. NamesIn(q) \subseteq DOMAIN Table(n) \cup {NoName}
    BY <1>2 DEF Encodable
  <2>4. NamesIn(f.header) \subseteq {0} \cup {Table(m)[y] : y \in DOMAIN Table(m)}
    BY <2>1 DEF Decodable
  <2>5. \A x \in NamesIn(q) : T(x) \in NamesIn(f.header)
    <3> DEFINE c == Convert(q, LAMBDA x : ToID(Table(n), x), EncodeMetricU16)
    <3> HIDE DEF T
    <3>1. /\ f.header.destination = T(q.destination)
          /\ f.header.currentNode = T(q.currentNode)
          /\ f.header.plannedPath = [i \in DOMAIN q.plannedPath |-> T(q.plannedPath[i])]
          /\ f.header.miniMap = [i \in DOMAIN q.miniMap |->
                [from |-> T(q.miniMap[i].from), to |-> T(q.miniMap[i].to),
                 latency |-> EncodeMetricU16(q.miniMap[i].latency)]]
          /\ f.header.congestionLog = [i \in DOMAIN q.congestionLog |->
                [node |-> T(q.congestionLog[i].node),
                 latency |-> EncodeMetricU16(q.congestionLog[i].latency)]]
          /\ f.header.visitedNodes = {T(x) : x \in q.visitedNodes}
      <4>1. f.header = [c EXCEPT !.degraded = FALSE, !.rerouted = FALSE, !.lightMode = FALSE]
        BY DEF EncodeWireWithIDs
      <4>2. c = [q EXCEPT
                  !.destination = T(q.destination), !.currentNode = T(q.currentNode),
                  !.plannedPath = [i \in DOMAIN q.plannedPath |-> T(q.plannedPath[i])],
                  !.miniMap = [i \in DOMAIN q.miniMap |->
                      [from |-> T(q.miniMap[i].from), to |-> T(q.miniMap[i].to),
                       latency |-> EncodeMetricU16(q.miniMap[i].latency)]],
                  !.congestionLog = [i \in DOMAIN q.congestionLog |->
                      [node |-> T(q.congestionLog[i].node),
                       latency |-> EncodeMetricU16(q.congestionLog[i].latency)]],
                  !.visitedNodes = {T(x) : x \in q.visitedNodes}]
        BY DEF Convert, T
      <4> HIDE DEF c, f
      <4> QED
        BY <4>1, <4>2 DEF Packet
    <3> HIDE DEF f
    <3> QED
      BY <3>1 DEF NamesIn
  <2>6. \A x \in NamesIn(q) : U(T(x)) = x
    BY <2>3, <2>4, <2>5, NameRoundTrip
  <2>7. \A v \in Nat : W(v) \in Nat
    BY MetricTyped
  <2>8. d = [destination |-> U(T(q.destination)), currentNode |-> U(T(q.currentNode)),
             plannedPath |-> [i \in DOMAIN q.plannedPath |-> U(T(q.plannedPath[i]))],
             hopIndex |-> q.hopIndex, hopCount |-> q.hopCount,
             miniMap |-> [i \in DOMAIN q.miniMap |->
               [from |-> U(T(q.miniMap[i].from)), to |-> U(T(q.miniMap[i].to)),
                latency |-> W(q.miniMap[i].latency)]],
             otherLinks |-> q.otherLinks,
             congestionLog |-> [i \in DOMAIN q.congestionLog |->
               [node |-> U(T(q.congestionLog[i].node)),
                latency |-> W(q.congestionLog[i].latency)]],
             visitedNodes |-> {U(T(x)) : x \in q.visitedNodes},
             degraded |-> q.degraded, rerouted |-> q.rerouted, lightMode |-> q.lightMode]
    BY <2>2, CompactFields
  <2> HIDE DEF T, U, W, d, f
  <2>9. /\ q.destination \in NamesIn(q) /\ q.currentNode \in NamesIn(q)
        /\ \A x \in q.visitedNodes : x \in NamesIn(q)
        /\ \A i \in DOMAIN q.plannedPath : q.plannedPath[i] \in NamesIn(q)
        /\ \A i \in DOMAIN q.miniMap :
            q.miniMap[i].from \in NamesIn(q) /\ q.miniMap[i].to \in NamesIn(q)
        /\ \A i \in DOMAIN q.congestionLog : q.congestionLog[i].node \in NamesIn(q)
    BY DEF NamesIn
  <2>10. d.destination = q.destination /\ d.currentNode = q.currentNode
    BY <2>6, <2>8, <2>9
  <2>11. d.visitedNodes = q.visitedNodes
    BY <2>6, <2>8, <2>9
  <2>12. d.plannedPath = q.plannedPath
    <3>1. d.plannedPath = [i \in DOMAIN q.plannedPath |-> q.plannedPath[i]]
      BY <2>6, <2>8, <2>9
    <3>2. q.plannedPath \in Seq(Node)
      BY DEF Packet
    <3> QED
      BY <3>1, <3>2
  <2>13. /\ d.miniMap \in Seq([from : Node, to : Node, latency : Nat])
         /\ Len(d.miniMap) = Len(q.miniMap)
         /\ \A i \in 1 .. Len(d.miniMap) : /\ d.miniMap[i].from = q.miniMap[i].from
                                           /\ d.miniMap[i].to = q.miniMap[i].to
    <3>1. d.miniMap = [i \in 1 .. Len(q.miniMap) |->
            [from |-> q.miniMap[i].from, to |-> q.miniMap[i].to,
             latency |-> W(q.miniMap[i].latency)]]
      BY <2>6, <2>8, <2>9, PacketSequences
    <3>2. q.miniMap \in Seq([from : Node, to : Node, latency : Nat])
      BY DEF Packet
    <3>3. Len(q.miniMap) \in Nat
      BY <3>2
    <3>4. ASSUME NEW i \in 1 .. Len(q.miniMap)
          PROVE  d.miniMap[i] \in [from : Node, to : Node, latency : Nat]
      <4>1. q.miniMap[i].from \in Node /\ q.miniMap[i].to \in Node /\ q.miniMap[i].latency \in Nat
        BY PacketSequences
      <4>2. W(q.miniMap[i].latency) \in Nat
        BY <2>7, <4>1
      <4>3. d.miniMap[i] = [from |-> q.miniMap[i].from, to |-> q.miniMap[i].to,
                           latency |-> W(q.miniMap[i].latency)]
        BY <3>1
      <4> QED
        BY <4>1, <4>2, <4>3
    <3>5. /\ DOMAIN d.miniMap = 1 .. Len(q.miniMap)
          /\ d.miniMap = [i \in 1 .. Len(q.miniMap) |-> d.miniMap[i]]
      <4> DEFINE z == d.miniMap
      <4>1. z = [i \in 1 .. Len(q.miniMap) |-> z[i]]
        BY <3>1
      <4> QED
        BY <3>1, <4>1
    <3>6. d.miniMap \in Seq([from : Node, to : Node, latency : Nat])
      BY <3>3, <3>4, <3>5, IsASeq
    <3>7. Len(d.miniMap) = Len(q.miniMap)
      BY <3>3, <3>5
    <3> QED
      BY <3>1, <3>6, <3>7
  <2>14. /\ d.congestionLog \in Seq([node : Node, latency : Nat])
         /\ Len(d.congestionLog) = Len(q.congestionLog)
         /\ \A i \in 1 .. Len(d.congestionLog) :
                d.congestionLog[i].node = q.congestionLog[i].node
    <3>1. d.congestionLog = [i \in 1 .. Len(q.congestionLog) |->
            [node |-> q.congestionLog[i].node, latency |-> W(q.congestionLog[i].latency)]]
      BY <2>6, <2>8, <2>9, PacketSequences
    <3>2. q.congestionLog \in Seq([node : Node, latency : Nat])
      BY DEF Packet
    <3>3. Len(q.congestionLog) \in Nat
      BY <3>2
    <3>4. ASSUME NEW i \in 1 .. Len(q.congestionLog)
          PROVE  d.congestionLog[i] \in [node : Node, latency : Nat]
      <4>1. q.congestionLog[i].node \in Node /\ q.congestionLog[i].latency \in Nat
        BY PacketSequences
      <4>2. W(q.congestionLog[i].latency) \in Nat
        BY <2>7, <4>1
      <4>3. d.congestionLog[i] = [node |-> q.congestionLog[i].node,
                                 latency |-> W(q.congestionLog[i].latency)]
        BY <3>1
      <4> QED
        BY <4>1, <4>2, <4>3
    <3>5. /\ DOMAIN d.congestionLog = 1 .. Len(q.congestionLog)
          /\ d.congestionLog = [i \in 1 .. Len(q.congestionLog) |-> d.congestionLog[i]]
      <4> DEFINE z == d.congestionLog
      <4>1. z = [i \in 1 .. Len(q.congestionLog) |-> z[i]]
        BY <3>1
      <4> QED
        BY <3>1, <4>1
    <3>6. d.congestionLog \in Seq([node : Node, latency : Nat])
      BY <3>3, <3>4, <3>5, IsASeq
    <3>7. Len(d.congestionLog) = Len(q.congestionLog)
      BY <3>3, <3>5
    <3> QED
      BY <3>1, <3>6, <3>7
  <2>15. d = [destination |-> d.destination, currentNode |-> d.currentNode,
              plannedPath |-> d.plannedPath, hopIndex |-> q.hopIndex, hopCount |-> q.hopCount,
              miniMap |-> d.miniMap, otherLinks |-> q.otherLinks,
              congestionLog |-> d.congestionLog, visitedNodes |-> d.visitedNodes,
              degraded |-> q.degraded, rerouted |-> q.rerouted, lightMode |-> q.lightMode]
    BY <2>8
  <2>16. d \in Packet
    BY <2>10, <2>11, <2>12, <2>13, <2>14, <2>15 DEF Packet
  <2>17. Alike(d, q)
    BY <2>10, <2>11, <2>12, <2>13, <2>14, <2>15 DEF Alike
  <2> QED
    BY <2>16, <2>17 DEF d
<1> QED
  BY <1>1, <1>2

-----------------------------------------------------------------------------
(* What a router does between its two codecs. *)

\* The hop index of p is a place in its path.
Placed(p) == p.hopIndex < Len(p.plannedPath)

LEMMA PacketFields ==
    ASSUME NEW x \in Packet
    PROVE  /\ x.destination \in Node /\ x.currentNode \in Node \cup {NoName}
           /\ x.plannedPath \in Seq(Node) /\ x.hopIndex \in Nat /\ x.hopCount \in Nat
           /\ x.miniMap \in Seq([from : Node, to : Node, latency : Nat])
           /\ x.otherLinks \in Nat
           /\ x.congestionLog \in Seq([node : Node, latency : Nat])
           /\ x.visitedNodes \in SUBSET Node
           /\ x.degraded \in BOOLEAN /\ x.rerouted \in BOOLEAN /\ x.lightMode \in BOOLEAN
BY DEF Packet

LEMMA LogHopKeeps ==
    ASSUME NEW p \in Packet, NEW q \in Packet, Alike(p, q), Placed(q),
           NEW n \in Node, NEW v \in Nat
    PROVE  /\ LogHop(p, n, v) \in Packet /\ LogHop(q, n, v) \in Packet
           /\ Alike(LogHop(p, n, v), LogHop(q, n, v)) /\ Placed(LogHop(q, n, v))
<1> DEFINE k(x) == IF x.hopIndex + 1 < Len(x.plannedPath) THEN x.hopIndex + 1
                   ELSE Len(x.plannedPath) - 1
           l(x) == Append(x.congestionLog, [node |-> n, latency |-> v])
<1>1. ASSUME NEW x \in Packet
      PROVE  LogHop(x, n, v) =
        [destination |-> x.destination, currentNode |-> n,
         plannedPath |-> x.plannedPath, hopIndex |-> k(x), hopCount |-> x.hopCount + 1,
         miniMap |-> x.miniMap, otherLinks |-> x.otherLinks,
         congestionLog |-> l(x), visitedNodes |-> x.visitedNodes \cup {n},
         degraded |-> x.degraded, rerouted |-> x.rerouted, lightMode |-> x.lightMode]
  <2>1. LogHop(x, n, v) =
          [x EXCEPT !.congestionLog = l(x), !.currentNode = n, !.hopCount = x.hopCount + 1,
                    !.visitedNodes = x.visitedNodes \cup {n}, !.hopIndex = k(x)]
    BY DEF LogHop
  <2> HIDE DEF k, l
  <2> QED
    BY <2>1 DEF Packet
<1>2. ASSUME NEW x \in Packet, Placed(x)
      PROVE  /\ k(x) \in Nat /\ k(x) < Len(x.plannedPath)
             /\ l(x) \in Seq([node : Node, latency : Nat])
  <2>1. /\ x.plannedPath \in Seq(Node) /\ x.hopIndex \in Nat
        /\ x.congestionLog \in Seq([node : Node, latency : Nat])
    BY PacketFields
  <2>2. Len(x.plannedPath) \in Nat
    BY <2>1
  <2> QED
    BY <1>2, <2>1, <2>2 DEF Placed
<1>3. Placed(p) /\ k(p) = k(q)
  BY DEF Alike, Placed
<1>4. /\ Len(l(p)) = Len(l(q))
      /\ \A i \in 1 .. Len(l(p)) : l(p)[i].node = l(q)[i].node
  <2>1. /\ p.congestionLog \in Seq([node : Node, latency : Nat])
        /\ q.congestionLog \in Seq([node : Node, latency : Nat])
    BY PacketFields
  <2>2. /\ Len(p.congestionLog) = Len(q.congestionLog)
        /\ \A i \in 1 .. Len(p.congestionLog) : p.congestionLog[i].node = q.congestionLog[i].node
    BY DEF Alike
  <2> QED
    BY <2>1, <2>2
<1> HIDE DEF k, l
<1>5. ASSUME NEW x \in Packet, Placed(x)
      PROVE  LogHop(x, n, v) \in Packet /\ Placed(LogHop(x, n, v))
  <2>1. /\ x.destination \in Node /\ x.currentNode \in Node \cup {NoName}
        /\ x.plannedPath \in Seq(Node) /\ x.hopIndex \in Nat /\ x.hopCount \in Nat
        /\ x.miniMap \in Seq([from : Node, to : Node, latency : Nat])
        /\ x.otherLinks \in Nat
        /\ x.congestionLog \in Seq([node : Node, latency : Nat])
        /\ x.visitedNodes \in SUBSET Node
        /\ x.degraded \in BOOLEAN /\ x.rerouted \in BOOLEAN /\ x.lightMode \in BOOLEAN
    BY PacketFields
  <2>2. /\ k(x) \in Nat /\ k(x) < Len(x.plannedPath)
        /\ l(x) \in Seq([node : Node, latency : Nat])
    BY <1>2, <1>5
  <2>3. x.hopCount + 1 \in Nat /\ x.visitedNodes \cup {n} \in SUBSET Node
    BY <2>1
  <2>4. LogHop(x, n, v) =
          [destination |-> x.destination, currentNode |-> n,
           plannedPath |-> x.plannedPath, hopIndex |-> k(x), hopCount |-> x.hopCount + 1,
           miniMap |-> x.miniMap, otherLinks |-> x.otherLinks,
           congestionLog |-> l(x), visitedNodes |-> x.visitedNodes \cup {n},
           degraded |-> x.degraded, rerouted |-> x.rerouted, lightMode |-> x.lightMode]
    BY <1>1
  <2>5. LogHop(x, n, v) \in Packet
    BY <2>1, <2>2, <2>3, <2>4 DEF Packet
  <2> QED
    BY <2>2, <2>4, <2>5 DEF Placed
<1>6. Alike(LogHop(p, n, v), LogHop(q, n, v))
  <2> DEFINE a == LogHop(p, n, v)  b == LogHop(q, n, v)
  <2>1. /\ a.destination = p.destination /\ a.currentNode = n /\ a.plannedPath = p.plannedPath
        /\ a.hopIndex = k(p) /\ a.hopCount = p.hopCount + 1 /\ a.miniMap = p.miniMap
        /\ a.otherLinks = p.otherLinks /\ a.congestionLog = l(p)
        /\ a.visitedNodes = p.visitedNodes \cup {n} /\ a.degraded = p.degraded
        /\ a.rerouted = p.rerouted /\ a.lightMode = p.lightMode
    BY <1>1
  <2>2. /\ b.destination = q.destination /\ b.currentNode = n /\ b.plannedPath = q.plannedPath
        /\ b.hopIndex = k(q) /\ b.hopCount = q.hopCount + 1 /\ b.miniMap = q.miniMap
        /\ b.otherLinks = q.otherLinks /\ b.congestionLog = l(q)
        /\ b.visitedNodes = q.visitedNodes \cup {n} /\ b.degraded = q.degraded
        /\ b.rerouted = q.rerouted /\ b.lightMode = q.lightMode
    BY <1>1
  <2> HIDE DEF a, b
  <2>3. Alike(a, b)
    BY <1>3, <1>4, <2>1, <2>2 DEF Alike
  <2> QED
    BY <2>3 DEF a, b
<1> QED
  BY <1>3, <1>5, <1>6

LEMMA DegradeKeeps ==
    ASSUME NEW p \in Packet, NEW q \in Packet, Alike(p, q), Placed(q)
    PROVE  /\ Degrade(p) \in Packet /\ Degrade(q) \in Packet
           /\ Alike(Degrade(p), Degrade(q)) /\ Placed(Degrade(q))
<1>1. ASSUME NEW x \in Packet
      PROVE  /\ Degrade(x) \in Packet
             /\ Degrade(x).destination = x.destination
             /\ Degrade(x).currentNode = x.currentNode
             /\ Degrade(x).plannedPath = x.plannedPath
             /\ Degrade(x).hopIndex = x.hopIndex /\ Degrade(x).hopCount = x.hopCount
             /\ Degrade(x).miniMap = x.miniMap /\ Degrade(x).otherLinks = x.otherLinks
             /\ Degrade(x).congestionLog = x.congestionLog
             /\ Degrade(x).visitedNodes = x.visitedNodes
             /\ Degrade(x).degraded = TRUE /\ Degrade(x).rerouted = x.rerouted
             /\ Degrade(x).lightMode = x.lightMode
  BY DEF Degrade, Packet
<1>2. Alike(Degrade(p), Degrade(q))
  <2> DEFINE a == Degrade(p)  b == Degrade(q)
  <2>1. /\ a.destination = p.destination /\ a.currentNode = p.currentNode
        /\ a.plannedPath = p.plannedPath /\ a.hopIndex = p.hopIndex
        /\ a.hopCount = p.hopCount /\ a.miniMap = p.miniMap /\ a.otherLinks = p.otherLinks
        /\ a.congestionLog = p.congestionLog /\ a.visitedNodes = p.visitedNodes
        /\ a.degraded = TRUE /\ a.rerouted = p.rerouted /\ a.lightMode = p.lightMode
    BY <1>1
  <2>2. /\ b.destination = q.destination /\ b.currentNode = q.currentNode
        /\ b.plannedPath = q.plannedPath /\ b.hopIndex = q.hopIndex
        /\ b.hopCount = q.hopCount /\ b.miniMap = q.miniMap /\ b.otherLinks = q.otherLinks
        /\ b.congestionLog = q.congestionLog /\ b.visitedNodes = q.visitedNodes
        /\ b.degraded = TRUE /\ b.rerouted = q.rerouted /\ b.lightMode = q.lightMode
    BY <1>1
  <2> HIDE DEF a, b
  <2>3. /\ Len(a.miniMap) = Len(b.miniMap)
        /\ \A i \in 1 .. Len(a.miniMap) :
            a.miniMap[i].from = b.miniMap[i].from /\ a.miniMap[i].to = b.miniMap[i].to
        /\ Len(a.congestionLog) = Len(b.congestionLog)
        /\ \A i \in 1 .. Len(a.congestionLog) :
            a.congestionLog[i].node = b.congestionLog[i].node
    BY <2>1, <2>2 DEF Alike
  <2>4. /\ a.destination = b.destination /\ a.currentNode = b.currentNode
        /\ a.plannedPath = b.plannedPath /\ a.hopIndex = b.hopIndex
        /\ a.hopCount = b.hopCount /\ a.otherLinks = b.otherLinks
        /\ a.visitedNodes = b.visitedNodes /\ a.degraded = b.degraded
        /\ a.rerouted = b.rerouted /\ a.lightMode = b.lightMode
    BY <2>1, <2>2 DEF Alike
  <2>5. Alike(a, b)
    BY <2>3, <2>4 DEF Alike
  <2> QED
    BY <2>5 DEF a, b
<1>3. Placed(Degrade(q))
  BY <1>1 DEF Placed
<1> QED
  BY <1>1, <1>2, <1>3

LEMMA ViewFields ==
    ASSUME NEW view \in Views
    PROVE  /\ view.path \in Seq(Node) /\ Len(view.path) \in Nat /\ Len(view.path) >= 2
           /\ view.path[1] \in Node /\ view.path[2] \in Node
           /\ view.latency \in Nat /\ view.otherLinks \in Nat
<1>1. view \in View /\ Len(view.path) >= 2
  BY WireAssumption
<1>2. view.path \in Seq(Node) /\ view.latency \in Nat /\ view.otherLinks \in Nat
  BY <1>1 DEF View
<1>3. \A s \in Seq(Node) : Len(s) >= 2 => s[1] \in Node /\ s[2] \in Node /\ Len(s) \in Nat
  OBVIOUS
<1> QED
  BY <1>1, <1>2, <1>3

\* The link of a view that a packet names.
FirstLink(view) == [from |-> view.path[1], to |-> view.path[2], latency |-> view.latency]

\* What a reroute that does not find the plan again does to each part of x.
LEMMA Rerouted ==
    ASSUME NEW x \in Packet, NEW view \in Views, view.path # RemainingPath(x)
    PROVE  Reroute(x, view) =
        [destination |-> x.destination, currentNode |-> x.currentNode,
         plannedPath |-> view.path, hopIndex |-> 0, hopCount |-> x.hopCount,
         miniMap |-> IF x.lightMode THEN x.miniMap ELSE <<FirstLink(view)>>,
         otherLinks |-> IF x.lightMode THEN x.otherLinks ELSE view.otherLinks,
         congestionLog |-> x.congestionLog, visitedNodes |-> x.visitedNodes,
         degraded |-> x.degraded, rerouted |-> TRUE, lightMode |-> x.lightMode]
<1> DEFINE M == IF x.lightMode THEN x.miniMap ELSE <<FirstLink(view)>>
           o == IF x.lightMode THEN x.otherLinks ELSE view.otherLinks
<1>1. Reroute(x, view) =
        [x EXCEPT !.plannedPath = view.path, !.hopIndex = 0, !.rerouted = TRUE,
                  !.miniMap = M, !.otherLinks = o]
  BY DEF Reroute, FirstLink
<1> HIDE DEF M, o
<1>2. Reroute(x, view) =
        [destination |-> x.destination, currentNode |-> x.currentNode,
         plannedPath |-> view.path, hopIndex |-> 0, hopCount |-> x.hopCount,
         miniMap |-> M, otherLinks |-> o,
         congestionLog |-> x.congestionLog, visitedNodes |-> x.visitedNodes,
         degraded |-> x.degraded, rerouted |-> TRUE, lightMode |-> x.lightMode]
  BY <1>1 DEF Packet
<1> QED
  BY <1>2 DEF M, o

LEMMA RerouteTyped ==
    ASSUME NEW x \in Packet, NEW view \in Views
    PROVE  /\ Reroute(x, view) \in Packet
           /\ Placed(x) => Placed(Reroute(x, view))
           /\ Reroute(x, view).hopCount = x.hopCount
           /\ Reroute(x, view).congestionLog = x.congestionLog
           /\ Reroute(x, view).visitedNodes = x.visitedNodes
<1> DEFINE M == IF x.lightMode THEN x.miniMap ELSE <<FirstLink(view)>>
           o == IF x.lightMode THEN x.otherLinks ELSE view.otherLinks
           r == Reroute(x, view)
<1>1. CASE view.path = RemainingPath(x)
  BY <1>1 DEF Reroute
<1>2. CASE view.path # RemainingPath(x)
  <2>1. M \in Seq([from : Node, to : Node, latency : Nat]) /\ o \in Nat
    <3>1. FirstLink(view) \in [from : Node, to : Node, latency : Nat]
      BY ViewFields DEF FirstLink
    <3>2. \A S : \A y \in S : <<y>> \in Seq(S)
      OBVIOUS
    <3> QED
      BY <3>1, <3>2, ViewFields, PacketFields
  <2>2. r = [destination |-> x.destination, currentNode |-> x.currentNode,
             plannedPath |-> view.path, hopIndex |-> 0, hopCount |-> x.hopCount,
             miniMap |-> M, otherLinks |-> o,
             congestionLog |-> x.congestionLog, visitedNodes |-> x.visitedNodes,
             degraded |-> x.degraded, rerouted |-> TRUE, lightMode |-> x.lightMode]
    BY <1>2, Rerouted
  <2> HIDE DEF M, o, r
  <2>3. r \in Packet
    BY <2>1, <2>2, PacketFields, ViewFields DEF Packet
  <2>4. /\ r.hopIndex = 0 /\ r.plannedPath = view.path /\ r.hopCount = x.hopCount
        /\ r.congestionLog = x.congestionLog /\ r.visitedNodes = x.visitedNodes
    BY <2>2
  <2>5. Placed(r)
    BY <2>4, ViewFields DEF Placed
  <2> QED
    BY <2>3, <2>4, <2>5 DEF r
<1> QED
  BY <1>1, <1>2

\* Two packets that are alike have the same plan left, and both are rerouted or none is.
LEMMA RerouteKeeps ==
    ASSUME NEW p \in Packet, NEW q \in Packet, Alike(p, q), Placed(q), NEW view \in Views
    PROVE  /\ Reroute(p, view) \in Packet /\ Reroute(q, view) \in Packet
           /\ Alike(Reroute(p, view), Reroute(q, view)) /\ Placed(Reroute(q, view))
<1> DEFINE M(x) == IF x.lightMode THEN x.miniMap ELSE <<FirstLink(view)>>
           o(x) == IF x.lightMode THEN x.otherLinks ELSE view.otherLinks
           a == Reroute(p, view)
           b == Reroute(q, view)
<1>1. RemainingPath(p) = RemainingPath(q)
  BY DEF Alike, RemainingPath
<1>2. CASE view.path = RemainingPath(q)
  BY <1>1, <1>2 DEF Reroute
<1>3. CASE view.path # RemainingPath(q)
  <2>1. /\ Len(M(p)) = Len(M(q)) /\ o(p) = o(q)
        /\ \A i \in 1 .. Len(M(p)) : M(p)[i].from = M(q)[i].from /\ M(p)[i].to = M(q)[i].to
    BY DEF Alike
  <2>2. /\ a.destination = p.destination /\ a.currentNode = p.currentNode
        /\ a.plannedPath = view.path /\ a.hopIndex = 0 /\ a.hopCount = p.hopCount
        /\ a.miniMap = M(p) /\ a.otherLinks = o(p) /\ a.congestionLog = p.congestionLog
        /\ a.visitedNodes = p.visitedNodes /\ a.degraded = p.degraded
        /\ a.rerouted = TRUE /\ a.lightMode = p.lightMode
    BY <1>1, <1>3, Rerouted
  <2>3. /\ b.destination = q.destination /\ b.currentNode = q.currentNode
        /\ b.plannedPath = view.path /\ b.hopIndex = 0 /\ b.hopCount = q.hopCount
        /\ b.miniMap = M(q) /\ b.otherLinks = o(q) /\ b.congestionLog = q.congestionLog
        /\ b.visitedNodes = q.visitedNodes /\ b.degraded = q.degraded
        /\ b.rerouted = TRUE /\ b.lightMode = q.lightMode
    BY <1>3, Rerouted
  <2> HIDE DEF a, b, M, o
  <2>4. /\ Len(a.miniMap) = Len(b.miniMap)
        /\ \A i \in 1 .. Len(a.miniMap) :
            a.miniMap[i].from = b.miniMap[i].from /\ a.miniMap[i].to = b.miniMap[i].to
    BY <2>1, <2>2, <2>3
  <2>5. /\ Len(a.congestionLog) = Len(b.congestionLog)
        /\ \A i \in 1 .. Len(a.congestionLog) :
            a.congestionLog[i].node = b.congestionLog[i].node
    BY <2>2, <2>3 DEF Alike
  <2>6. /\ a.destination = b.destination /\ a.currentNode = b.currentNode
        /\ a.plannedPath = b.plannedPath /\ a.hopIndex = b.hopIndex
        /\ a.hopCount = b.hopCount /\ a.otherLinks = b.otherLinks
        /\ a.visitedNodes = b.visitedNodes /\ a.degraded = b.degraded
        /\ a.rerouted = b.rerouted /\ a.lightMode = b.lightMode
    BY <2>1, <2>2, <2>3 DEF Alike
  <2>7. Alike(a, b)
    BY <2>4, <2>5, <2>6 DEF Alike
  <2> QED
    BY <2>7, RerouteTyped DEF a, b
<1> QED
  BY <1>2, <1>3, RerouteTyped

-----------------------------------------------------------------------------
(* The inductive invariant *)

\* The frame in flight is some node's encoding of a packet that differs from
\* the true one in metrics at most.
Faithful ==
    frame # None =>
        \E q \in Packet, n \in Node :
            Alike(q, truth) /\ Encodable(n, q) /\ frame.data = Encoded(n, q)

IInv ==
    /\ TypeOK
    /\ truth = None => frame = None /\ end = None
    /\ Faithful

\* The packet that a node has received is the true one but for metrics.
LEMMA ReceivedAlike ==
    ASSUME IInv, Reached
    PROVE  /\ Received \in Packet /\ Alike(Received, truth)
           /\ truth \in Packet /\ Placed(truth) /\ frame.to \in Node /\ end = None
<1>1. /\ frame # None /\ frame.to \in Node /\ Decodable(frame.to, frame.data)
      /\ idMap \in Deployments /\ truth \in Packet /\ Placed(truth) /\ end = None
  BY DEF IInv, TypeOK, Reached, Placed
<1>2. PICK q \in Packet, n \in Node :
        Alike(q, truth) /\ Encodable(n, q) /\ frame.data = Encoded(n, q)
  BY <1>1 DEF IInv, Faithful
<1>3. Received \in Packet /\ Alike(Received, q)
  BY <1>1, <1>2, RoundTrip DEF Received
<1>4. Alike(Received, truth)
  BY <1>2, <1>3 DEF Alike
<1> QED
  BY <1>1, <1>3, <1>4

\* Encoding and sending a packet keeps the invariant, whichever way it ends.
LEMMA TransmitKeeps ==
    ASSUME idMap \in Deployments, UNCHANGED idMap, end = None,
           NEW n \in Node, NEW p \in Packet,
           truth' \in Packet, Placed(truth)', Alike(p, truth'), Transmit(n, p)
    PROVE  IInv'
<1>1. truth' # None
  BY WireAssumption
<1>2. CASE \E how \in {"encode error", "write error"} : Stop(how)
  BY <1>1, <1>2 DEF IInv, TypeOK, Faithful, Stop, Placed
<1>3. CASE /\ Encodable(n, p) /\ UNCHANGED end
           /\ \E m \in Node \ {Source} : frame' = [to |-> m, data |-> Encoded(n, p)]
  <2>1. frame'.to \in Node \ {Source} /\ frame'.data = Encoded(n, p)
    BY <1>3
  <2>2. Encodable(n, p)' /\ frame'.data = Encoded(n, p)'
    BY <1>3, <2>1 DEF Encodable, Encoded, HasTable, Table
  <2>3. Faithful'
    BY <2>2 DEF Faithful
  <2> QED
    BY <1>1, <1>3, <2>1, <2>3 DEF IInv, TypeOK, Placed
<1> QED
  BY <1>2, <1>3 DEF Transmit

LEMMA Initially == Init => IInv
BY DEF Init, IInv, TypeOK, Faithful

LEMMA Step == IInv /\ [Next]_vars => IInv'
<1> SUFFICES ASSUME IInv, [Next]_vars PROVE IInv'
  OBVIOUS
<1> USE DEF IInv
<1>1. ASSUME NEW p \in Packets, Send(p) PROVE IInv'
  <2>1. p \in Packet /\ Placed(p)
    <3>1. p \in Unsent
      BY WireAssumption
    <3>2. p \in Packet /\ p.plannedPath # <<>> /\ p.hopIndex = 0
      BY <3>1 DEF Unsent
    <3>3. p.plannedPath \in Seq(Node)
      BY <3>2 DEF Packet
    <3>4. Len(p.plannedPath) > 0
      BY <3>2, <3>3
    <3> QED
      BY <3>2, <3>4 DEF Placed
  <2>2. Alike(p, p)
    BY DEF Alike
  <2> QED
    BY <1>1, <2>1, <2>2, TransmitKeeps, WireAssumption DEF Send, TypeOK, Placed
<1>2. CASE Refuse \/ Deliver \/ Expire \/ Lose
  BY <1>2 DEF Refuse, Deliver, Expire, Lose, Reached, Stop, TypeOK, Faithful
<1>3. ASSUME NEW v \in Measured, Forward(v) PROVE IInv'
  <2>1. /\ Reached /\ truth' = LogHop(truth, frame.to, v) /\ UNCHANGED idMap
        /\ Transmit(frame.to, LogHop(Received, frame.to, v))
    BY <1>3 DEF Forward, RelayAs
  <2>2. v \in Nat /\ idMap \in Deployments
    BY WireAssumption DEF TypeOK
  <2> QED
    BY <2>1, <2>2, ReceivedAlike, LogHopKeeps, TransmitKeeps DEF Placed
<1>4. ASSUME NEW v \in Measured, ForwardForced(v) PROVE IInv'
  <2>1. /\ Reached /\ truth' = Degrade(LogHop(truth, frame.to, v)) /\ UNCHANGED idMap
        /\ Transmit(frame.to, Degrade(LogHop(Received, frame.to, v)))
    BY <1>4 DEF ForwardForced, RelayAs
  <2>2. v \in Nat /\ idMap \in Deployments
    BY WireAssumption DEF TypeOK
  <2> QED
    BY <2>1, <2>2, ReceivedAlike, LogHopKeeps, DegradeKeeps, TransmitKeeps DEF Placed
<1>5. ASSUME NEW v \in Measured, NEW view \in Views, ForwardRerouted(v, view) PROVE IInv'
  <2>1. /\ Reached /\ truth' = Reroute(LogHop(truth, frame.to, v), view)
        /\ UNCHANGED idMap
        /\ Transmit(frame.to, Reroute(LogHop(Received, frame.to, v), view))
    BY <1>5 DEF ForwardRerouted, RerouteAs, RelayAs
  <2>2. v \in Nat /\ idMap \in Deployments
    BY WireAssumption DEF TypeOK
  <2> QED
    BY <2>1, <2>2, ReceivedAlike, LogHopKeeps, RerouteKeeps, TransmitKeeps DEF Placed
<1>6. ASSUME NEW v \in Measured, NEW view \in Views, ForwardReroutedForced(v, view)
      PROVE  IInv'
  <2> DEFINE R(p) == Reroute(LogHop(p, frame.to, v), view)
  <2>1. /\ Reached /\ truth' = Degrade(R(truth)) /\ UNCHANGED idMap
        /\ Transmit(frame.to, Degrade(R(Received)))
    BY <1>6 DEF ForwardReroutedForced, RerouteAs, RelayAs
  <2>2. v \in Nat /\ idMap \in Deployments
    BY WireAssumption DEF TypeOK
  <2>3. /\ R(Received) \in Packet /\ R(truth) \in Packet
        /\ Alike(R(Received), R(truth)) /\ Placed(R(truth))
    BY <2>1, <2>2, ReceivedAlike, LogHopKeeps, RerouteKeeps
  <2> HIDE DEF R
  <2>4. /\ Degrade(R(Received)) \in Packet /\ truth' \in Packet
        /\ Alike(Degrade(R(Received)), truth') /\ Placed(truth)'
    BY <2>1, <2>3, DegradeKeeps DEF Placed
  <2> QED
    BY <2>1, <2>2, <2>4, ReceivedAlike, TransmitKeeps
<1>7. CASE UNCHANGED vars
  BY <1>7 DEF vars, TypeOK, Faithful, Encodable, Encoded, HasTable, Table
<1> QED
  BY <1>1, <1>2, <1>3, <1>4, <1>5, <1>6, <1>7 DEF Next

THEOREM Invariance == Spec => []IInv
BY Initially, Step, PTL DEF Spec

\* The types, and that the hop index is a place in the path (packet.go:283-287).
THEOREM TypeCorrect == Spec => []TypeOK
<1>1. IInv => TypeOK
  BY DEF IInv
<1> QED
  BY <1>1, Invariance, PTL

\* Whatever mix of formats and tables a packet has come through, a node that
\* accepts it reads names, counters and flags as they were written.
THEOREM ReadsAsWritten == Spec => []NothingMisread
<1>1. IInv => NothingMisread
  BY ReceivedAlike, AlikeNames DEF NothingMisread
<1> QED
  BY <1>1, Invariance, PTL

-----------------------------------------------------------------------------
(* Nodes that know all names, or write them out, refuse a packet only for    *)
(* what its sender or a rerouting router has put into it.                    *)

\* A log or set of visited nodes is no longer than the hops, which are counted
\* in a byte (packet.go:216).
Counted(p) ==
    /\ Len(p.congestionLog) <= p.hopCount
    /\ IsFiniteSet(p.visitedNodes) /\ Cardinality(p.visitedNodes) <= p.hopCount
    /\ p.hopCount <= MaxHops

\* The map, the path and the names are what a decoder takes.
Small(p) ==
    /\ Links(p) <= MaxMiniMapSize /\ Len(p.plannedPath) <= MaxPathLen
    /\ NameLen <= MaxStringLen \/ \E n \in Node : HasTable(n)

LEMMA NamesOfNodes ==
    ASSUME NEW p \in Packet
    PROVE  NamesIn(p) \subseteq Node \cup {NoName}
BY PacketSequences, PacketFields DEF NamesIn

LEMMA AlwaysEncodable ==
    ASSUME Uniform, idMap \in Deployments, NEW n \in Node, NEW p \in Packet
    PROVE  Encodable(n, p)
<1>1. CASE ~HasTable(n)
  BY <1>1 DEF Encodable
<1>2. CASE \A x \in Node : x \in DOMAIN idMap[n] /\ idMap[n][x] # 0
  <2>1. Node \subseteq DOMAIN Table(n)
    BY <1>2 DEF Table, NewNodeIDTable
  <2> QED
    BY <2>1, NamesOfNodes DEF Encodable
<1> QED
  BY <1>1, <1>2 DEF Uniform

\* All tables write a name as the same id, and different names as different ids.
LEMMA SameIDs ==
    ASSUME Uniform, idMap \in Deployments, NEW n \in Node, NEW m \in Node, HasTable(n)
    PROVE  /\ HasTable(m)
           /\ \A x \in Node \cup {NoName} :
                ToID(Table(n), x) \in {0} \cup {Table(m)[y] : y \in DOMAIN Table(m)}
           /\ \A x, y \in Node : ToID(Table(n), x) = ToID(Table(n), y) => x = y
<1>1. \A k \in Node : DOMAIN idMap[k] = Node /\ \A x \in Node : idMap[k][x] # 0
  <2>1. \A k \in Node : DOMAIN idMap[k] \subseteq Node
    BY WireAssumption
  <2> QED
    BY <2>1 DEF Uniform, HasTable
<1>2. \A k \in Node : DOMAIN Table(k) = Node /\ \A x \in Node : Table(k)[x] = idMap[k][x]
  BY <1>1 DEF Table, NewNodeIDTable
<1>3. Agree(idMap[n], idMap[m]) /\ Agree(idMap[n], idMap[n])
  BY WireAssumption
<1>4. \A x \in Node : idMap[n][x] = idMap[m][x]
  BY <1>1, <1>3 DEF Agree
<1>5. \A x, y \in Node : idMap[n][x] = idMap[n][y] => x = y
  BY <1>1, <1>3 DEF Agree
<1>6. \A x \in Node : ToID(Table(n), x) = idMap[n][x]
  BY <1>2, WireAssumption DEF ToID
<1>7. HasTable(m)
  BY <1>1, WireAssumption DEF HasTable
<1>8. ASSUME NEW x \in Node \cup {NoName}
      PROVE  ToID(Table(n), x) \in {0} \cup {Table(m)[y] : y \in DOMAIN Table(m)}
  <2>1. CASE x = NoName
    BY <2>1 DEF ToID
  <2>2. CASE x \in Node
    BY <2>2, <1>2, <1>4, <1>6
  <2> QED
    BY <2>1, <2>2
<1> QED
  BY <1>5, <1>6, <1>7, <1>8

LEMMA LengthByDomain ==
    ASSUME NEW s, NEW k \in Nat, DOMAIN s = 1 .. k, s = [i \in 1 .. k |-> s[i]]
    PROVE  Len(s) = k
OBVIOUS

\* The ids in a set of names are as many as the names.
LEMMA IDsCounted ==
    ASSUME Uniform, idMap \in Deployments, NEW n \in Node, HasTable(n),
           NEW S \in SUBSET Node, IsFiniteSet(S)
    PROVE  Cardinality({ToID(Table(n), x) : x \in S}) = Cardinality(S)
<1> DEFINE T == {ToID(Table(n), x) : x \in S}
           f == [x \in S |-> ToID(Table(n), x)]
<1>1. f \in [S -> T] /\ \A x \in S : f[x] = ToID(Table(n), x)
  OBVIOUS
<1>2. \A x, y \in S : f[x] = f[y] => x = y
  BY <1>1, SameIDs
<1>3. \A t \in T : \E x \in S : f[x] = t
  BY <1>1
<1> HIDE DEF f, T
<1>4. ExistsBijection(S, T)
  BY <1>1, <1>2, <1>3 DEF ExistsBijection, Bijection, Injection, Surjection, IsInjective
<1>5. Cardinality(T) = Cardinality(S)
  BY <1>4, FS_Bijection
<1> QED
  BY <1>5 DEF T

\* A header holds as much as the packet that it encodes, and its length field
\* says how much that is.
LEMMA HeaderLengths ==
    ASSUME Uniform, idMap \in Deployments, NEW n \in Node, NEW q \in Packet, Counted(q)
    PROVE  LET f == Encoded(n, q)
           IN  /\ f.compact = HasTable(n)
               /\ Len(f.header.plannedPath) = Len(q.plannedPath)
               /\ Links(f.header) = Links(q)
               /\ Len(f.header.congestionLog) = Len(q.congestionLog)
               /\ Cardinality(f.header.visitedNodes) = Cardinality(q.visitedNodes)
               /\ f.headerLen = ActualLen(f.compact, q) % (MaxUint16 + 1)
               /\ ActualLen(f.compact, f.header) = ActualLen(f.compact, q)
               /\ f.compact =>
                    NamesIn(f.header) \subseteq {ToID(Table(n), x) : x \in Node \cup {NoName}}
<1> DEFINE f == Encoded(n, q)
           h == f.header
<1>1. CASE ~HasTable(n)
  <2>1. f = EncodeWire(q)
    BY <1>1 DEF Encoded
  <2>2. f.compact = FALSE /\ f.headerLen = ActualLen(FALSE, q) % (MaxUint16 + 1)
        /\ h = [q EXCEPT !.rerouted = FALSE, !.lightMode = FALSE]
    BY <2>1 DEF EncodeWire
  <2> HIDE DEF f
  <2>3. /\ h.plannedPath = q.plannedPath /\ h.miniMap = q.miniMap
        /\ h.otherLinks = q.otherLinks /\ h.congestionLog = q.congestionLog
        /\ h.visitedNodes = q.visitedNodes /\ h.currentNode = q.currentNode
    BY <2>2 DEF Packet
  <2>4. Links(h) = Links(q) /\ ActualLen(FALSE, h) = ActualLen(FALSE, q)
    BY <2>3 DEF Links, ActualLen, StringHeaderLen
  <2>5. HasTable(n) = FALSE
    BY <1>1 DEF HasTable
  <2> HIDE DEF h
  <2> QED
    BY <2>2, <2>3, <2>4, <2>5 DEF f, h
<1>2. CASE HasTable(n)
  <2> DEFINE T(x) == ToID(Table(n), x)
             E(v) == EncodeMetricU16(v)
             path == [i \in DOMAIN q.plannedPath |-> T(q.plannedPath[i])]
             map == [i \in DOMAIN q.miniMap |->
                      [from |-> T(q.miniMap[i].from), to |-> T(q.miniMap[i].to),
                       latency |-> E(q.miniMap[i].latency)]]
             log == [i \in DOMAIN q.congestionLog |->
                      [node |-> T(q.congestionLog[i].node),
                       latency |-> E(q.congestionLog[i].latency)]]
             visited == {T(x) : x \in q.visitedNodes}
             c == Convert(q, LAMBDA x : ToID(Table(n), x), EncodeMetricU16)
  <2>1. f = EncodeWireWithIDs(q, Table(n))
    BY <1>2 DEF Encoded
  <2>2. f.compact = TRUE /\ f.headerLen = ActualLen(TRUE, q) % (MaxUint16 + 1)
        /\ h = [c EXCEPT !.degraded = FALSE, !.rerouted = FALSE, !.lightMode = FALSE]
    BY <2>1 DEF EncodeWireWithIDs
  <2>3. c = [q EXCEPT
              !.destination = T(q.destination), !.currentNode = T(q.currentNode),
              !.plannedPath = path, !.miniMap = map, !.congestionLog = log,
              !.visitedNodes = visited]
    BY DEF Convert
  <2>4. Cardinality(visited) = Cardinality(q.visitedNodes)
    BY <1>2, IDsCounted, PacketFields DEF Counted
  <2> HIDE DEF f, c, path, map, log, visited, T, E
  <2>5. c = [destination |-> T(q.destination), currentNode |-> T(q.currentNode),
             plannedPath |-> path, hopIndex |-> q.hopIndex, hopCount |-> q.hopCount,
             miniMap |-> map, otherLinks |-> q.otherLinks,
             congestionLog |-> log, visitedNodes |-> visited,
             degraded |-> q.degraded, rerouted |-> q.rerouted, lightMode |-> q.lightMode]
    BY <2>3 DEF Packet
  <2>6. /\ h.destination = T(q.destination) /\ h.currentNode = T(q.currentNode)
        /\ h.plannedPath = path /\ h.miniMap = map /\ h.otherLinks = q.otherLinks
        /\ h.congestionLog = log /\ h.visitedNodes = visited
    BY <2>2, <2>5
  <2>7. /\ Len(q.plannedPath) \in Nat /\ Len(q.miniMap) \in Nat /\ Len(q.congestionLog) \in Nat
        /\ DOMAIN path = 1 .. Len(q.plannedPath)
        /\ DOMAIN map = 1 .. Len(q.miniMap) /\ DOMAIN log = 1 .. Len(q.congestionLog)
    BY PacketSequences, PacketFields DEF path, map, log
  <2>8. /\ path = [i \in 1 .. Len(q.plannedPath) |-> path[i]]
        /\ map = [i \in 1 .. Len(q.miniMap) |-> map[i]]
        /\ log = [i \in 1 .. Len(q.congestionLog) |-> log[i]]
    BY <2>7 DEF path, map, log
  <2>9. /\ Len(path) = Len(q.plannedPath) /\ Len(map) = Len(q.miniMap)
        /\ Len(log) = Len(q.congestionLog)
    BY <2>7, <2>8, LengthByDomain
  <2>10. Links(h) = Links(q) /\ ActualLen(TRUE, h) = ActualLen(TRUE, q)
    BY <2>4, <2>6, <2>9 DEF Links, ActualLen, CompactHeaderLen
  <2>11. NamesIn(h) \subseteq {T(x) : x \in Node \cup {NoName}}
    <3>1. NamesIn(h) = {T(q.destination), T(q.currentNode)} \cup visited
            \cup {path[i] : i \in DOMAIN path}
            \cup {map[i].from : i \in DOMAIN map} \cup {map[i].to : i \in DOMAIN map}
            \cup {log[i].node : i \in DOMAIN log}
      BY <2>6 DEF NamesIn
    <3>2. /\ \A i \in DOMAIN path : path[i] = T(q.plannedPath[i]) /\ q.plannedPath[i] \in Node
          /\ \A i \in DOMAIN map : /\ map[i].from = T(q.miniMap[i].from)
                                   /\ map[i].to = T(q.miniMap[i].to)
                                   /\ q.miniMap[i].from \in Node /\ q.miniMap[i].to \in Node
          /\ \A i \in DOMAIN log : /\ log[i].node = T(q.congestionLog[i].node)
                                   /\ q.congestionLog[i].node \in Node
      BY PacketSequences DEF path, map, log
    <3>3. q.destination \in Node /\ q.currentNode \in Node \cup {NoName}
          /\ q.visitedNodes \subseteq Node
      BY PacketFields
    <3>4. visited \subseteq {T(x) : x \in Node \cup {NoName}}
      BY <3>3 DEF visited
    <3> QED
      BY <3>1, <3>2, <3>3, <3>4
  <2>12. NamesIn(h) \subseteq {ToID(Table(n), x) : x \in Node \cup {NoName}}
    BY <2>11 DEF T
  <2> QED
    BY <1>2, <2>2, <2>4, <2>6, <2>9, <2>10, <2>12 DEF f
<1> QED
  BY <1>1, <1>2

LEMMA LengthIsNat ==
    ASSUME NEW q \in Packet, Counted(q), NEW compact \in BOOLEAN
    PROVE  ActualLen(compact, q) \in Nat
<1>1. /\ Len(q.plannedPath) \in Nat /\ Links(q) \in Nat /\ Len(q.congestionLog) \in Nat
      /\ Cardinality(q.visitedNodes) \in Nat
  BY PacketFields, FS_CardinalityType DEF Links, Counted
<1>2. CompactHeaderLen(q) \in Nat
  <2>1. \A x, y, z, w \in Nat : 30 + 2 * x + 10 * y + 6 * z + 2 * w \in Nat
    OBVIOUS
  <2> QED
    BY <1>1, <2>1 DEF CompactHeaderLen
<1>3. StringHeaderLen(q) \in Nat
  <2> DEFINE k == 1 + Len(q.plannedPath) + 2 * Links(q)
                    + Len(q.congestionLog) + Cardinality(q.visitedNodes)
  <2>1. k \in Nat /\ 2 + NameLen \in Nat
    <3>1. \A x, y, z, w \in Nat : 1 + x + 2 * y + z + w \in Nat
      OBVIOUS
    <3>2. k \in Nat
      BY <1>1, <3>1
    <3>3. NameLen \in Nat
      BY WireAssumption
    <3> HIDE DEF k
    <3> QED
      BY <3>2, <3>3
  <2>2. (2 + NameLen) * k \in Nat
    BY <2>1
  <2>3. \A x, y, z, u \in Nat : 27 + x + 2 + u + 24 * y + 16 * z \in Nat
    OBVIOUS
  <2>4. (IF q.currentNode = NoName THEN 0 ELSE NameLen) \in Nat
    BY WireAssumption
  <2> DEFINE a == (2 + NameLen) * k
             b == IF q.currentNode = NoName THEN 0 ELSE NameLen
  <2>5. StringHeaderLen(q) = 27 + a + 2 + b + 24 * Links(q) + 16 * Len(q.congestionLog)
    BY DEF StringHeaderLen
  <2>6. a \in Nat /\ b \in Nat
    BY <2>2, <2>4
  <2> HIDE DEF a, b
  <2> QED
    BY <1>1, <2>3, <2>5, <2>6
<1> QED
  BY <1>2, <1>3 DEF ActualLen

\* A frame that could be sent is accepted wherever it goes, if what it holds is small.
LEMMA AlwaysDecodable ==
    ASSUME Uniform, idMap \in Deployments, NEW n \in Node, NEW m \in Node,
           NEW q \in Packet, Counted(q), Small(q), Fits(Encoded(n, q))
    PROVE  Decodable(m, Encoded(n, q))
<1> DEFINE f == Encoded(n, q)
           h == f.header
           k == ActualLen(f.compact, q)
<1>1. /\ f.compact = HasTable(n)
      /\ Len(h.plannedPath) = Len(q.plannedPath) /\ Links(h) = Links(q)
      /\ Len(h.congestionLog) = Len(q.congestionLog)
      /\ Cardinality(h.visitedNodes) = Cardinality(q.visitedNodes)
      /\ f.headerLen = k % (MaxUint16 + 1) /\ ActualLen(f.compact, h) = k
      /\ f.compact => NamesIn(h) \subseteq {ToID(Table(n), x) : x \in Node \cup {NoName}}
  BY HeaderLengths
<1>2. f.compact \in BOOLEAN
  BY <1>1 DEF HasTable
<1>3. k \in Nat /\ 16 + k <= 65507
  BY <1>1, <1>2, LengthIsNat DEF Fits, WireHeaderSize, MaxDatagram
<1> HIDE DEF f, k, h
<1>4. f.headerLen = k
  BY <1>1, <1>3 DEF MaxUint16
<1>5. /\ Len(q.plannedPath) <= MaxPathLen /\ Links(q) <= MaxMiniMapSize
      /\ Len(q.congestionLog) <= 512 /\ Cardinality(q.visitedNodes) <= 512
  <2>1. Cardinality(q.visitedNodes) \in Nat
    BY FS_CardinalityType DEF Counted
  <2>2. Len(q.congestionLog) \in Nat /\ q.hopCount \in Nat
    BY PacketFields
  <2>3. MaxHops \in 0 .. 255 /\ q.hopCount <= MaxHops
    BY WireAssumption DEF Counted
  <2> QED
    BY <2>1, <2>2, <2>3 DEF Counted, Small
<1>6. WellFormed(f)
  <2>1. WithinLimits(h)
    BY <1>1, <1>5 DEF WithinLimits, MaxCongestionLogSize, MaxVisitedNodes
  <2>2. ~f.compact => NameLen <= MaxStringLen
    <3>1. HasTable(n) \/ \A x \in Node : ~HasTable(x)
      BY DEF Uniform, HasTable
    <3> QED
      BY <1>1, <3>1 DEF Small
  <2> QED
    BY <1>1, <1>4, <2>1, <2>2 DEF WellFormed, h
<1>7. CASE f.compact
  <2>1. HasTable(n)
    BY <1>1, <1>7 DEF HasTable
  <2>2. /\ HasTable(m)
        /\ \A x \in Node \cup {NoName} :
             ToID(Table(n), x) \in {0} \cup {Table(m)[y] : y \in DOMAIN Table(m)}
    BY <2>1, SameIDs
  <2>3. NamesIn(h) \subseteq {0} \cup {Table(m)[x] : x \in DOMAIN Table(m)}
    BY <1>1, <1>7, <2>2
  <2> QED
    BY <1>6, <2>2, <2>3 DEF Decodable, f, h
<1>8. CASE ~f.compact
  BY <1>6, <1>8 DEF Decodable, f
<1> QED
  BY <1>2, <1>7, <1>8

LEMMA AlikeCounted ==
    ASSUME NEW p \in Packet, NEW q \in Packet, Alike(p, q), Counted(q)
    PROVE  Counted(p)
BY DEF Alike, Counted

LEMMA LogHopCounted ==
    ASSUME NEW p \in Packet, Placed(p), Counted(p), p.hopCount < MaxHops,
           NEW n \in Node, NEW v \in Nat
    PROVE  LogHop(p, n, v) \in Packet /\ Counted(LogHop(p, n, v))
<1> DEFINE a == LogHop(p, n, v)
           e == [node |-> n, latency |-> v]
<1>1. Alike(p, p)
  BY DEF Alike
<1>2. a \in Packet
  BY <1>1, LogHopKeeps
<1>3. /\ a.plannedPath = p.plannedPath /\ a.miniMap = p.miniMap
      /\ a.otherLinks = p.otherLinks /\ a.hopCount = p.hopCount + 1
      /\ a.congestionLog = Append(p.congestionLog, e)
      /\ a.visitedNodes = p.visitedNodes \cup {n}
  BY DEF LogHop, Packet
<1> HIDE DEF a
<1>4. p.hopCount \in Nat /\ p.congestionLog \in Seq([node : Node, latency : Nat])
  BY PacketFields
<1>5. Len(a.congestionLog) = Len(p.congestionLog) + 1 /\ Len(p.congestionLog) \in Nat
  BY <1>3, <1>4
<1>6. /\ IsFiniteSet(a.visitedNodes) /\ Cardinality(p.visitedNodes) \in Nat
      /\ Cardinality(a.visitedNodes) <= Cardinality(p.visitedNodes) + 1
  <2>1. IsFiniteSet(p.visitedNodes) /\ Cardinality(p.visitedNodes) \in Nat
    BY FS_CardinalityType DEF Counted
  <2>2. /\ IsFiniteSet(p.visitedNodes \cup {n})
        /\ \/ Cardinality(p.visitedNodes \cup {n}) = Cardinality(p.visitedNodes)
           \/ Cardinality(p.visitedNodes \cup {n}) = Cardinality(p.visitedNodes) + 1
    BY <2>1, FS_AddElement
  <2> QED
    BY <1>3, <2>1, <2>2
<1>7. Counted(a)
  <2>1. Len(a.congestionLog) <= a.hopCount
    BY <1>3, <1>4, <1>5 DEF Counted
  <2>2. IsFiniteSet(a.visitedNodes) /\ Cardinality(a.visitedNodes) <= a.hopCount
    <3>1. Cardinality(a.visitedNodes) \in Nat
      BY <1>6, FS_CardinalityType
    <3> QED
      BY <1>3, <1>4, <1>6, <3>1 DEF Counted
  <2>3. a.hopCount <= MaxHops
    <3>1. MaxHops \in Nat
      <4>1. MaxHops \in 0 .. 255
        BY WireAssumption
      <4> QED
        BY <4>1
    <3> QED
      BY <1>3, <1>4, <3>1
  <2> QED
    BY <2>1, <2>2, <2>3 DEF Counted
<1> QED
  BY <1>2, <1>7 DEF a

LEMMA DegradeTyped ==
    ASSUME NEW p \in Packet
    PROVE  Degrade(p) \in Packet
BY DEF Degrade, Packet

LEMMA DegradeCounted ==
    ASSUME NEW p \in Packet, Counted(p)
    PROVE  Counted(Degrade(p))
<1>1. /\ Degrade(p).plannedPath = p.plannedPath /\ Degrade(p).miniMap = p.miniMap
      /\ Degrade(p).otherLinks = p.otherLinks /\ Degrade(p).hopCount = p.hopCount
      /\ Degrade(p).congestionLog = p.congestionLog
      /\ Degrade(p).visitedNodes = p.visitedNodes
  BY DEF Degrade, Packet
<1> QED
  BY <1>1 DEF Counted

LEMMA RerouteCounted ==
    ASSUME NEW p \in Packet, Counted(p), NEW view \in Views
    PROVE  Counted(Reroute(p, view))
BY RerouteTyped DEF Counted

\* Every hop is counted, and no frame is longer than its header can say.
RefuseInv ==
    /\ truth # None => Counted(truth)
    /\ frame # None => Fits(frame.data)
    /\ RefusedForSizeOnly

LEMMA TransmitAccepted ==
    ASSUME idMap \in Deployments, UNCHANGED idMap, end = None, NEW n \in Node,
           NEW p \in Packet, Transmit(n, p), Counted(truth')
    PROVE  RefuseInv'
<1>1. Uniform' = Uniform
  BY DEF Uniform, HasTable
<1>2. CASE Encodable(n, p) /\ ~Fits(Encoded(n, p)) /\ Stop("write error")
  BY <1>2 DEF RefuseInv, RefusedForSizeOnly, Stop
<1>3. CASE /\ Encodable(n, p) /\ Fits(Encoded(n, p)) /\ UNCHANGED end
           /\ \E m \in Node \ {Source} : frame' = [to |-> m, data |-> Encoded(n, p)]
  <2>1. frame'.data = Encoded(n, p)
    BY <1>3
  <2>2. end' \notin {"encode error", "decode error"}
    BY <1>3, WireAssumption
  <2> QED
    BY <1>3, <2>1, <2>2 DEF RefuseInv, RefusedForSizeOnly
<1>4. CASE ~Encodable(n, p) /\ Stop("encode error")
  <2>1. ~Uniform
    BY <1>4, AlwaysEncodable
  <2> QED
    BY <1>1, <1>4, <2>1 DEF RefuseInv, RefusedForSizeOnly, Stop
<1> QED
  BY <1>2, <1>3, <1>4 DEF Transmit

LEMMA RefuseStep == IInv /\ RefuseInv /\ [Next]_vars => RefuseInv'
<1> SUFFICES ASSUME IInv, RefuseInv, [Next]_vars PROVE RefuseInv'
  OBVIOUS
<1>1. idMap \in Deployments
  BY DEF IInv, TypeOK
<1>2. ASSUME Reached, Received.hopCount < MaxHops
      PROVE  /\ Received \in Packet /\ Placed(Received) /\ Counted(Received)
             /\ truth \in Packet /\ Placed(truth) /\ Counted(truth)
             /\ truth.hopCount < MaxHops /\ frame.to \in Node /\ end = None
  <2>1. /\ Received \in Packet /\ Alike(Received, truth)
        /\ truth \in Packet /\ Placed(truth) /\ frame.to \in Node /\ end = None
    BY <1>2, ReceivedAlike
  <2>2. Counted(truth)
    BY <2>1, WireAssumption DEF RefuseInv
  <2>3. Counted(Received)
    BY <2>1, <2>2, AlikeCounted
  <2>4. truth.hopCount < MaxHops /\ Placed(Received)
    BY <1>2, <2>1 DEF Alike, Placed
  <2> QED
    BY <2>1, <2>2, <2>3, <2>4
<1>3. \A v \in Measured : v \in Nat
  BY WireAssumption
<1>4. ASSUME NEW p \in Packets, Send(p) PROVE RefuseInv'
  <2>1. p \in Packet /\ Counted(p)
    <3>1. /\ p \in Packet /\ p.hopCount = 0 /\ p.congestionLog = <<>> /\ p.visitedNodes = {}
          /\ MaxHops \in 0 .. 255
      BY WireAssumption DEF Unsent
    <3>2. IsFiniteSet({}) /\ Cardinality({}) = 0
      BY FS_EmptySet
    <3>3. Len(p.congestionLog) = 0
      BY <3>1
    <3> QED
      BY <3>1, <3>2, <3>3 DEF Counted
  <2>2. end = None /\ truth' = p /\ Transmit(Source, p) /\ UNCHANGED idMap
    BY <1>4 DEF Send, IInv
  <2> QED
    BY <1>1, <2>1, <2>2, TransmitAccepted, WireAssumption
<1>5. CASE Refuse
  <2>1. /\ frame # None /\ ~Decodable(frame.to, frame.data)
        /\ Stop("decode error") /\ UNCHANGED <<idMap, truth>>
    BY <1>5 DEF Refuse
  <2>2. PICK q \in Packet, n \in Node :
          Alike(q, truth) /\ Encodable(n, q) /\ frame.data = Encoded(n, q)
    BY <2>1 DEF IInv, Faithful
  <2>3. truth # None /\ truth \in Packet /\ frame.to \in Node
    BY <2>1 DEF IInv, TypeOK
  <2>4. Counted(q) /\ Fits(frame.data)
    BY <2>1, <2>2, <2>3, AlikeCounted DEF RefuseInv
  <2>5. ~Uniform \/ ~Small(q)
    BY <1>1, <2>1, <2>2, <2>3, <2>4, AlwaysDecodable
  <2>6. ~Uniform \/ ~Small(truth)
    BY <2>2, <2>5 DEF Small, Links, Alike
  <2>7. /\ Links(truth) \in Int /\ Len(truth.plannedPath) \in Int /\ NameLen \in Int
        /\ MaxMiniMapSize \in Int /\ MaxPathLen \in Int /\ MaxStringLen \in Int
    <3>1. /\ truth.miniMap \in Seq([from : Node, to : Node, latency : Nat])
          /\ truth.plannedPath \in Seq(Node) /\ truth.otherLinks \in Nat
      BY <2>3, PacketFields
    <3>2. Len(truth.miniMap) \in Nat /\ Len(truth.plannedPath) \in Nat
      BY <3>1
    <3>3. NameLen \in Nat
      BY WireAssumption
    <3> QED
      BY <3>1, <3>2, <3>3 DEF Links, MaxMiniMapSize, MaxPathLen, MaxStringLen
  <2>8. Uniform =>
          \/ Links(truth) > MaxMiniMapSize
          \/ Len(truth.plannedPath) > MaxPathLen
          \/ NameLen > MaxStringLen /\ \A k \in Node : ~HasTable(k)
    <3> DEFINE T == \E k \in Node : HasTable(k)
    <3>1. ~Uniform \/ ~(/\ Links(truth) <= MaxMiniMapSize /\ Len(truth.plannedPath) <= MaxPathLen
                        /\ NameLen <= MaxStringLen \/ T)
      BY <2>6 DEF Small
    <3> HIDE DEF T
    <3>2. Uniform =>
            \/ Links(truth) > MaxMiniMapSize
            \/ Len(truth.plannedPath) > MaxPathLen
            \/ NameLen > MaxStringLen /\ ~T
      BY <2>7, <3>1
    <3> QED
      BY <3>2 DEF T
  <2>9. RefusedForSizeOnly'
    BY <2>1, <2>8 DEF RefusedForSizeOnly, Uniform, HasTable, Links, Stop
  <2> QED
    BY <2>1, <2>9 DEF RefuseInv, Stop
<1>6. CASE Deliver \/ Expire \/ Lose
  BY <1>6 DEF Deliver, Expire, Lose, Stop, RefuseInv, RefusedForSizeOnly
<1>7. ASSUME NEW v \in Measured, Forward(v) PROVE RefuseInv'
  <2>1. /\ Reached /\ Received.hopCount < MaxHops /\ UNCHANGED idMap
        /\ truth' = LogHop(truth, frame.to, v)
        /\ Transmit(frame.to, LogHop(Received, frame.to, v))
    BY <1>7 DEF Forward, RelayAs
  <2>2. LogHop(Received, frame.to, v) \in Packet /\ Counted(truth')
    BY <1>2, <1>3, <2>1, LogHopCounted
  <2> QED
    BY <1>1, <1>2, <2>1, <2>2, TransmitAccepted
<1>8. ASSUME NEW v \in Measured, ForwardForced(v) PROVE RefuseInv'
  <2>1. /\ Reached /\ Received.hopCount < MaxHops /\ UNCHANGED idMap
        /\ truth' = Degrade(LogHop(truth, frame.to, v))
        /\ Transmit(frame.to, Degrade(LogHop(Received, frame.to, v)))
    BY <1>8 DEF ForwardForced, RelayAs
  <2>2. /\ LogHop(Received, frame.to, v) \in Packet
        /\ LogHop(truth, frame.to, v) \in Packet /\ Counted(LogHop(truth, frame.to, v))
    BY <1>2, <1>3, <2>1, LogHopCounted
  <2>3. Degrade(LogHop(Received, frame.to, v)) \in Packet /\ Counted(truth')
    BY <2>1, <2>2, DegradeCounted, DegradeTyped
  <2> QED
    BY <1>1, <1>2, <2>1, <2>3, TransmitAccepted
<1>9. ASSUME NEW v \in Measured, NEW view \in Views, ForwardRerouted(v, view)
      PROVE  RefuseInv'
  <2>1. /\ Reached /\ Received.hopCount < MaxHops /\ UNCHANGED idMap
        /\ truth' = Reroute(LogHop(truth, frame.to, v), view)
        /\ Transmit(frame.to, Reroute(LogHop(Received, frame.to, v), view))
    BY <1>9 DEF ForwardRerouted, RerouteAs, RelayAs
  <2>2. /\ LogHop(Received, frame.to, v) \in Packet
        /\ LogHop(truth, frame.to, v) \in Packet /\ Counted(LogHop(truth, frame.to, v))
    BY <1>2, <1>3, <2>1, LogHopCounted
  <2>3. Reroute(LogHop(Received, frame.to, v), view) \in Packet /\ Counted(truth')
    BY <1>2, <1>3, <2>1, <2>2, RerouteCounted, RerouteTyped
  <2> QED
    BY <1>1, <1>2, <2>1, <2>3, TransmitAccepted
<1>10. ASSUME NEW v \in Measured, NEW view \in Views, ForwardReroutedForced(v, view)
       PROVE  RefuseInv'
  <2> DEFINE R(p) == Reroute(LogHop(p, frame.to, v), view)
  <2>1. /\ Reached /\ Received.hopCount < MaxHops /\ UNCHANGED idMap
        /\ truth' = Degrade(R(truth)) /\ Transmit(frame.to, Degrade(R(Received)))
    BY <1>10 DEF ForwardReroutedForced, RerouteAs, RelayAs
  <2>2. /\ LogHop(Received, frame.to, v) \in Packet
        /\ LogHop(truth, frame.to, v) \in Packet /\ Counted(LogHop(truth, frame.to, v))
    BY <1>2, <1>3, <2>1, LogHopCounted
  <2>3. R(Received) \in Packet /\ R(truth) \in Packet /\ Counted(R(truth))
    BY <1>2, <1>3, <2>1, <2>2, RerouteCounted, RerouteTyped
  <2> HIDE DEF R
  <2>4. Degrade(R(Received)) \in Packet /\ Counted(truth')
    BY <2>1, <2>3, DegradeCounted, DegradeTyped
  <2> QED
    BY <1>1, <1>2, <2>1, <2>4, TransmitAccepted
<1>11. CASE UNCHANGED vars
  BY <1>11 DEF vars, RefuseInv, RefusedForSizeOnly, Uniform, HasTable
<1> QED
  BY <1>4, <1>5, <1>6, <1>7, <1>8, <1>9, <1>10, <1>11 DEF Next

\* Among nodes that all know the id of every node, or none of which uses ids, no
\* encoder refuses a packet, and a decoder only one whose map, path or names its
\* sender or a rerouting router made larger than decoders take: never for the
\* number of its hops, nor for a header longer than its length field can say.
THEOREM RefusedForSize == Spec => []RefusedForSizeOnly
<1>1. Init => RefuseInv
  BY WireAssumption DEF Init, RefuseInv, RefusedForSizeOnly
<1>2. RefuseInv => RefusedForSizeOnly
  BY DEF RefuseInv
<1>3. IInv /\ RefuseInv /\ [Next]_vars => RefuseInv'
  BY RefuseStep
<1> QED
  BY <1>1, <1>2, <1>3, Initially, Step, PTL DEF Spec

-----------------------------------------------------------------------------
(* How far a metric drifts.                                                  *)

\* The metrics of q are those of p, encoded once per hop and k times more; a
\* record of the log was not encoded before the hop that wrote it.
Near(q, p, k) ==
    /\ \A i \in 1 .. Len(p.miniMap) :
        Close(q.miniMap[i].latency, p.miniMap[i].latency, p.hopCount + k)
    /\ \A i \in 1 .. Len(p.congestionLog) :
        Close(q.congestionLog[i].latency, p.congestionLog[i].latency, p.hopCount + k - i)

\* One more encoding loses at most one hundredth, and keeps what is large large.
LEMMA MetricLoss ==
    ASSUME NEW v \in Nat
    PROVE  LET w == DecodeMetricU16(EncodeMetricU16(v))
           IN  w \in Nat /\ w <= v
                    /\ (w >= v - 10 \/ (v > 10 * MaxUint16 /\ w = 10 * MaxUint16))
<1> DEFINE w == DecodeMetricU16(EncodeMetricU16(v))
<1>1. w \in Nat
  BY MetricTyped
<1>2. /\ v \div 10 \in Int /\ v % 10 \in 0 .. 9 /\ v = 10 * (v \div 10) + (v % 10)
  OBVIOUS
<1>3. CASE v > 10 * MaxUint16
  <2>1. ~(v % 10 = 0 /\ v \div 10 \in Inexact)
    <3>1. v % 10 = 0 => v \div 10 > MaxUint16
      <4>1. SUFFICES ASSUME v % 10 = 0 PROVE v \div 10 > MaxUint16
        OBVIOUS
      <4> DEFINE a == v \div 10
      <4>2. a \in Int /\ v = 10 * a
        BY <1>2, <4>1
      <4> HIDE DEF a
      <4>3. a > MaxUint16
        BY <1>3, <4>2 DEF MaxUint16
      <4> QED
        BY <4>3 DEF a
    <3>2. v \div 10 \in Inexact => v \div 10 \in 1 .. MaxUint16
      BY WireAssumption
    <3>3. MaxUint16 \in Int
      BY DEF MaxUint16
    <3> DEFINE a == v \div 10
    <3>4. /\ v % 10 = 0 => a > MaxUint16
          /\ a \in Inexact => a \in 1 .. MaxUint16
      BY <3>1, <3>2
    <3> HIDE DEF a
    <3>5. ~(v % 10 = 0 /\ a \in Inexact)
      BY <3>3, <3>4
    <3> QED
      BY <3>5 DEF a
  <2>2. w = 10 * MaxUint16
    BY <1>3, <2>1 DEF EncodeMetricU16, DecodeMetricU16
  <2> QED
    BY <1>1, <1>3, <2>2 DEF MaxUint16
<1>4. CASE ~(v > 10 * MaxUint16) /\ v % 10 = 0 /\ v \div 10 \in Inexact
  <2>1. w = 10 * ((v \div 10) - 1)
    BY <1>4 DEF EncodeMetricU16, DecodeMetricU16
  <2>2. w = v - 10
    BY <1>2, <1>4, <2>1
  <2> QED
    BY <1>1, <2>2
<1>5. CASE ~(v > 10 * MaxUint16) /\ ~(v % 10 = 0 /\ v \div 10 \in Inexact)
  <2>1. w = 10 * (v \div 10)
    BY <1>5 DEF EncodeMetricU16, DecodeMetricU16
  <2>2. w = v - (v % 10)
    BY <1>2, <2>1
  <2> QED
    BY <1>1, <1>2, <2>2
<1> QED
  BY <1>3, <1>4, <1>5

LEMMA CloseAgain ==
    ASSUME NEW x \in Nat, NEW y \in Nat, NEW k \in Nat, Close(x, y, k)
    PROVE  /\ Close(x, y, k + 1)
           /\ Close(DecodeMetricU16(EncodeMetricU16(x)), y, k + 1)
<1> DEFINE w == DecodeMetricU16(EncodeMetricU16(x))
<1>1. /\ w \in Nat /\ w <= x
      /\ (w >= x - 10 \/ (x > 10 * MaxUint16 /\ w = 10 * MaxUint16))
  BY MetricLoss
<1> HIDE DEF w
<1>2. Close(w, y, k + 1)
  BY <1>1 DEF Close, MaxUint16
<1>3. Close(x, y, k + 1)
  BY DEF Close, MaxUint16
<1> QED
  BY <1>2, <1>3 DEF w

LEMMA CloseToItself ==
    ASSUME NEW v \in Nat, NEW k \in Nat
    PROVE  Close(v, v, k)
BY DEF Close

\* What a decoder makes of a metric is the metric, or that after one encoding.
LEMMA DecodedMetrics ==
    ASSUME NEW q \in Packet, NEW n \in Node, NEW m \in Node
    PROVE  LET d == Decoded(m, Encoded(n, q))
               W(v) == {v, DecodeMetricU16(EncodeMetricU16(v))}
           IN  /\ \A i \in DOMAIN q.miniMap :
                    d.miniMap[i].latency \in W(q.miniMap[i].latency)
               /\ \A i \in DOMAIN q.congestionLog :
                    d.congestionLog[i].latency \in W(q.congestionLog[i].latency)
<1> DEFINE d == Decoded(m, Encoded(n, q))
<1>1. CASE ~HasTable(n)
  <2>1. d = q
    BY <1>1, StringRoundTrip DEF Decoded, Encoded, EncodeWire
  <2> HIDE DEF d
  <2> QED
    BY <2>1 DEF d
<1>2. CASE HasTable(n)
  <2> DEFINE T(x) == ToID(Table(n), x)
             U(k) == ToName(Table(m), k)
             W(v) == DecodeMetricU16(EncodeMetricU16(v))
  <2>1. d = DecodeWireWithIDs(EncodeWireWithIDs(q, Table(n)), Table(m))
    BY <1>2 DEF Decoded, Encoded, EncodeWireWithIDs
  <2>2. d = [destination |-> U(T(q.destination)), currentNode |-> U(T(q.currentNode)),
             plannedPath |-> [i \in DOMAIN q.plannedPath |-> U(T(q.plannedPath[i]))],
             hopIndex |-> q.hopIndex, hopCount |-> q.hopCount,
             miniMap |-> [i \in DOMAIN q.miniMap |->
               [from |-> U(T(q.miniMap[i].from)), to |-> U(T(q.miniMap[i].to)),
                latency |-> W(q.miniMap[i].latency)]],
             otherLinks |-> q.otherLinks,
             congestionLog |-> [i \in DOMAIN q.congestionLog |->
               [node |-> U(T(q.congestionLog[i].node)),
                latency |-> W(q.congestionLog[i].latency)]],
             visitedNodes |-> {U(T(x)) : x \in q.visitedNodes},
             degraded |-> q.degraded, rerouted |-> q.rerouted, lightMode |-> q.lightMode]
    BY <2>1, CompactFields
  <2> HIDE DEF d, T, U, W
  <2>3. /\ \A i \in DOMAIN q.miniMap : d.miniMap[i].latency = W(q.miniMap[i].latency)
        /\ \A i \in DOMAIN q.congestionLog :
             d.congestionLog[i].latency = W(q.congestionLog[i].latency)
    BY <2>2
  <2> QED
    BY <2>3 DEF d, W
<1> QED
  BY <1>1, <1>2

LEMMA DecodedNear ==
    ASSUME NEW q \in Packet, NEW p \in Packet, Alike(q, p), Near(q, p, 0),
           Len(p.congestionLog) = p.hopCount, NEW n \in Node, NEW m \in Node
    PROVE  Near(Decoded(m, Encoded(n, q)), p, 1)
<1> DEFINE d == Decoded(m, Encoded(n, q))
<1>1. /\ DOMAIN q.miniMap = 1 .. Len(p.miniMap) /\ DOMAIN p.miniMap = 1 .. Len(p.miniMap)
      /\ DOMAIN q.congestionLog = 1 .. Len(p.congestionLog)
      /\ DOMAIN p.congestionLog = 1 .. Len(p.congestionLog)
  BY PacketSequences DEF Alike
<1>2. p.hopCount \in Nat
  BY PacketFields
<1>3. /\ \A i \in DOMAIN q.miniMap :
            q.miniMap[i].latency \in Nat /\ p.miniMap[i].latency \in Nat
      /\ \A i \in DOMAIN q.congestionLog :
            q.congestionLog[i].latency \in Nat /\ p.congestionLog[i].latency \in Nat
  BY <1>1, PacketSequences
<1>4. /\ \A i \in DOMAIN q.miniMap : d.miniMap[i].latency
            \in {q.miniMap[i].latency, DecodeMetricU16(EncodeMetricU16(q.miniMap[i].latency))}
      /\ \A i \in DOMAIN q.congestionLog : d.congestionLog[i].latency
            \in {q.congestionLog[i].latency,
                 DecodeMetricU16(EncodeMetricU16(q.congestionLog[i].latency))}
  BY DecodedMetrics
<1> HIDE DEF d
<1>5. ASSUME NEW i \in 1 .. Len(p.miniMap)
      PROVE  Close(d.miniMap[i].latency, p.miniMap[i].latency, p.hopCount + 1)
  <2>1. Close(q.miniMap[i].latency, p.miniMap[i].latency, p.hopCount)
    BY <1>2 DEF Near
  <2> QED
    BY <1>1, <1>2, <1>3, <1>4, <2>1, CloseAgain
<1>6. ASSUME NEW i \in 1 .. Len(p.congestionLog)
      PROVE  Close(d.congestionLog[i].latency, p.congestionLog[i].latency, p.hopCount + 1 - i)
  <2>1. p.hopCount - i \in Nat /\ (p.hopCount - i) + 1 = p.hopCount + 1 - i
    BY <1>2
  <2>2. Close(q.congestionLog[i].latency, p.congestionLog[i].latency, p.hopCount - i)
    <3>1. p.hopCount + 0 - i = p.hopCount - i
      BY <1>2
    <3> QED
      BY <3>1 DEF Near
  <2>3. /\ q.congestionLog[i].latency \in Nat /\ p.congestionLog[i].latency \in Nat
        /\ d.congestionLog[i].latency
            \in {q.congestionLog[i].latency,
                 DecodeMetricU16(EncodeMetricU16(q.congestionLog[i].latency))}
    BY <1>1, <1>3, <1>4
  <2>4. Close(d.congestionLog[i].latency, p.congestionLog[i].latency, (p.hopCount - i) + 1)
    BY <2>1, <2>2, <2>3, CloseAgain
  <2> QED
    BY <2>1, <2>4
<1> QED
  BY <1>5, <1>6 DEF Near, d

LEMMA LogHopNear ==
    ASSUME NEW q \in Packet, NEW p \in Packet, Alike(q, p), Near(q, p, 1),
           Len(p.congestionLog) = p.hopCount, NEW n \in Node, NEW v \in Nat
    PROVE  LET a == LogHop(q, n, v)
               b == LogHop(p, n, v)
           IN  Near(a, b, 0) /\ Len(b.congestionLog) = b.hopCount
<1> DEFINE a == LogHop(q, n, v)
           b == LogHop(p, n, v)
           e == [node |-> n, latency |-> v]
<1>1. /\ a.miniMap = q.miniMap /\ a.congestionLog = Append(q.congestionLog, e)
      /\ b.miniMap = p.miniMap /\ b.congestionLog = Append(p.congestionLog, e)
      /\ b.hopCount = p.hopCount + 1
  BY DEF LogHop, Packet
<1>2. /\ q.congestionLog \in Seq([node : Node, latency : Nat])
      /\ p.congestionLog \in Seq([node : Node, latency : Nat])
      /\ p.hopCount \in Nat /\ Len(q.congestionLog) = p.hopCount
  BY PacketFields DEF Alike
<1> HIDE DEF a, b
<1>3. Len(b.congestionLog) = b.hopCount
  BY <1>1, <1>2
<1>4. ASSUME NEW i \in 1 .. Len(b.miniMap)
      PROVE  Close(a.miniMap[i].latency, b.miniMap[i].latency, b.hopCount + 0)
  BY <1>1, <1>2 DEF Near
<1>5. ASSUME NEW i \in 1 .. Len(b.congestionLog)
      PROVE  Close(a.congestionLog[i].latency, b.congestionLog[i].latency, b.hopCount + 0 - i)
  <2>1. CASE i = p.hopCount + 1
    <3>1. a.congestionLog[i] = e /\ b.congestionLog[i] = e /\ b.hopCount + 0 - i = 0
      BY <1>1, <1>2, <2>1
    <3> QED
      BY <3>1, CloseToItself
  <2>2. CASE i # p.hopCount + 1
    <3>1. i \in 1 .. Len(p.congestionLog)
      BY <1>1, <1>2, <1>3, <2>2
    <3>2. a.congestionLog[i] = q.congestionLog[i] /\ b.congestionLog[i] = p.congestionLog[i]
      <4>1. e \in [node : Node, latency : Nat]
        OBVIOUS
      <4>2. \A S : \A t \in Seq(S), x \in S : \A j \in 1 .. Len(t) : Append(t, x)[j] = t[j]
        OBVIOUS
      <4> HIDE DEF e
      <4> QED
        BY <1>1, <1>2, <3>1, <4>1, <4>2
    <3>3. b.hopCount + 0 - i = p.hopCount + 1 - i
      BY <1>1, <1>2
    <3> QED
      BY <3>1, <3>2, <3>3 DEF Near
  <2> QED
    BY <2>1, <2>2
<1> QED
  BY <1>3, <1>4, <1>5 DEF Near, a, b

LEMMA DegradeNear ==
    ASSUME NEW q \in Packet, NEW p \in Packet, Near(q, p, 0), Len(p.congestionLog) = p.hopCount
    PROVE  /\ Near(Degrade(q), Degrade(p), 0)
           /\ Len(Degrade(p).congestionLog) = Degrade(p).hopCount
<1>1. \A x \in Packet : /\ Degrade(x).miniMap = x.miniMap
                        /\ Degrade(x).congestionLog = x.congestionLog
                        /\ Degrade(x).hopCount = x.hopCount
  BY DEF Degrade, Packet
<1> QED
  BY <1>1 DEF Near

LEMMA RerouteNear ==
    ASSUME NEW q \in Packet, NEW p \in Packet, Alike(q, p), Near(q, p, 0),
           Len(p.congestionLog) = p.hopCount, NEW view \in Views
    PROVE  LET a == Reroute(q, view)
               b == Reroute(p, view)
           IN  Near(a, b, 0) /\ Len(b.congestionLog) = b.hopCount
<1> DEFINE a == Reroute(q, view)
           b == Reroute(p, view)
           l == <<FirstLink(view)>>
<1>1. RemainingPath(p) = RemainingPath(q)
  BY DEF Alike, RemainingPath
<1>2. CASE view.path = RemainingPath(p)
  BY <1>1, <1>2 DEF Reroute
<1>3. CASE view.path # RemainingPath(p)
  <2>1. /\ a.miniMap = IF q.lightMode THEN q.miniMap ELSE l
        /\ b.miniMap = IF p.lightMode THEN p.miniMap ELSE l
        /\ a.congestionLog = q.congestionLog /\ b.congestionLog = p.congestionLog
        /\ b.hopCount = p.hopCount
    BY <1>1, <1>3, Rerouted
  <2>2. Len(l) = 1 /\ l[1].latency \in Nat
    BY ViewFields DEF FirstLink
  <2>3. p.lightMode = q.lightMode /\ p.hopCount \in Nat
    BY PacketFields DEF Alike
  <2> HIDE DEF a, b, l
  <2>4. ASSUME NEW i \in 1 .. Len(b.miniMap)
        PROVE  Close(a.miniMap[i].latency, b.miniMap[i].latency, b.hopCount + 0)
    <3>1. CASE p.lightMode
      BY <2>1, <2>3, <3>1 DEF Near
    <3>2. CASE ~p.lightMode
      <4>1. a.miniMap = l /\ b.miniMap = l
        BY <2>1, <2>3, <3>2
      <4>2. i = 1
        <5>1. Len(b.miniMap) = 1
          BY <2>2, <4>1
        <5> QED
          BY <5>1
      <4>3. b.hopCount + 0 \in Nat
        BY <2>1, <2>3
      <4> QED
        BY <2>2, <4>1, <4>2, <4>3, CloseToItself
    <3> QED
      BY <3>1, <3>2
  <2>5. ASSUME NEW i \in 1 .. Len(b.congestionLog)
        PROVE  Close(a.congestionLog[i].latency, b.congestionLog[i].latency, b.hopCount + 0 - i)
    BY <2>1 DEF Near
  <2> QED
    BY <2>1, <2>4, <2>5 DEF Near, a, b
<1> QED
  BY <1>2, <1>3

\* The frame in flight encodes a packet whose metrics have drifted from the true
\* ones by what the hops so far explain; every hop has written one record.
CloseInv ==
    /\ truth # None => Len(truth.congestionLog) = truth.hopCount
    /\ frame # None =>
        \E q \in Packet, n \in Node :
            /\ Alike(q, truth) /\ Near(q, truth, 0)
            /\ Encodable(n, q) /\ frame.data = Encoded(n, q)

LEMMA ReceivedNear ==
    ASSUME IInv, CloseInv, Reached
    PROVE  Near(Received, truth, 1)
<1>1. /\ frame # None /\ frame.to \in Node /\ truth \in Packet
      /\ Len(truth.congestionLog) = truth.hopCount
  BY WireAssumption DEF IInv, TypeOK, Reached, CloseInv
<1>2. PICK q \in Packet, n \in Node :
        Alike(q, truth) /\ Near(q, truth, 0) /\ frame.data = Encoded(n, q)
  BY <1>1 DEF CloseInv
<1>3. Near(Decoded(frame.to, Encoded(n, q)), truth, 1)
  BY <1>1, <1>2, DecodedNear
<1> QED
  BY <1>2, <1>3 DEF Received

LEMMA TransmitNear ==
    ASSUME UNCHANGED idMap, NEW n \in Node, NEW p \in Packet, Transmit(n, p),
           Alike(p, truth'), Near(p, truth', 0), Len(truth'.congestionLog) = truth'.hopCount
    PROVE  CloseInv'
<1>1. CASE \E how \in {"encode error", "write error"} : Stop(how)
  BY <1>1 DEF CloseInv, Stop
<1>2. CASE /\ Encodable(n, p)
           /\ \E m \in Node \ {Source} : frame' = [to |-> m, data |-> Encoded(n, p)]
  <2>1. frame'.data = Encoded(n, p)
    BY <1>2
  <2>2. Encodable(n, p)' /\ frame'.data = Encoded(n, p)'
    BY <1>2, <2>1 DEF Encodable, Encoded, HasTable, Table
  <2> QED
    BY <2>2 DEF CloseInv
<1> QED
  BY <1>1, <1>2 DEF Transmit

LEMMA CloseStep == IInv /\ CloseInv /\ [Next]_vars => CloseInv'
<1> SUFFICES ASSUME IInv, CloseInv, [Next]_vars PROVE CloseInv'
  OBVIOUS
<1>1. ASSUME Reached
      PROVE  /\ Received \in Packet /\ truth \in Packet /\ Placed(truth) /\ frame.to \in Node
             /\ Alike(Received, truth) /\ Near(Received, truth, 1)
             /\ Len(truth.congestionLog) = truth.hopCount
  <2>1. truth # None
    BY <1>1, ReceivedAlike, WireAssumption
  <2> QED
    BY <1>1, <2>1, ReceivedAlike, ReceivedNear DEF CloseInv
<1>2. \A v \in Measured : v \in Nat
  BY WireAssumption
<1>3. ASSUME Reached, NEW v \in Measured
      PROVE  LET a == LogHop(Received, frame.to, v)
                 b == LogHop(truth, frame.to, v)
             IN  /\ a \in Packet /\ b \in Packet /\ Alike(a, b) /\ Placed(b)
                 /\ Near(a, b, 0) /\ Len(b.congestionLog) = b.hopCount
  BY <1>1, <1>2, <1>3, LogHopKeeps, LogHopNear
<1>4. ASSUME NEW a \in Packet, NEW b \in Packet, Alike(a, b), Placed(b),
             Near(a, b, 0), Len(b.congestionLog) = b.hopCount, NEW view \in Views
      PROVE  LET c == Reroute(a, view)
                 d == Reroute(b, view)
             IN  /\ c \in Packet /\ d \in Packet /\ Alike(c, d) /\ Placed(d)
                 /\ Near(c, d, 0) /\ Len(d.congestionLog) = d.hopCount
  BY <1>4, RerouteKeeps, RerouteNear
<1>5. ASSUME NEW a \in Packet, NEW b \in Packet, Alike(a, b), Placed(b),
             Near(a, b, 0), Len(b.congestionLog) = b.hopCount
      PROVE  /\ Degrade(a) \in Packet /\ Alike(Degrade(a), Degrade(b))
             /\ Near(Degrade(a), Degrade(b), 0)
             /\ Len(Degrade(b).congestionLog) = Degrade(b).hopCount
  BY <1>5, DegradeKeeps, DegradeNear
<1>6. ASSUME NEW p \in Packets, Send(p) PROVE CloseInv'
  <2>1. /\ p \in Packet /\ p.hopCount = 0 /\ p.congestionLog = <<>>
    BY WireAssumption DEF Unsent
  <2>2. Alike(p, p)
    BY DEF Alike
  <2>3. Len(p.congestionLog) = 0
    BY <2>1
  <2>4. Near(p, p, 0)
    <3>1. \A i \in 1 .. Len(p.miniMap) : p.miniMap[i].latency \in Nat
      BY <2>1, PacketSequences
    <3>2. \A i \in 1 .. Len(p.miniMap) :
            Close(p.miniMap[i].latency, p.miniMap[i].latency, p.hopCount + 0)
      BY <2>1, <3>1, CloseToItself
    <3> QED
      BY <2>3, <3>2 DEF Near
  <2>5. truth' = p /\ Transmit(Source, p) /\ UNCHANGED idMap
    BY <1>6 DEF Send
  <2> QED
    BY <2>1, <2>2, <2>3, <2>4, <2>5, TransmitNear, WireAssumption
<1>7. CASE Refuse \/ Deliver \/ Expire \/ Lose
  BY <1>7 DEF Refuse, Deliver, Expire, Lose, Stop, CloseInv
<1>8. ASSUME NEW v \in Measured, Forward(v) PROVE CloseInv'
  <2>1. /\ Reached /\ truth' = LogHop(truth, frame.to, v) /\ UNCHANGED idMap
        /\ Transmit(frame.to, LogHop(Received, frame.to, v))
    BY <1>8 DEF Forward, RelayAs
  <2> QED
    BY <1>1, <1>3, <2>1, TransmitNear
<1>9. ASSUME NEW v \in Measured, ForwardForced(v) PROVE CloseInv'
  <2>1. /\ Reached /\ truth' = Degrade(LogHop(truth, frame.to, v)) /\ UNCHANGED idMap
        /\ Transmit(frame.to, Degrade(LogHop(Received, frame.to, v)))
    BY <1>9 DEF ForwardForced, RelayAs
  <2> QED
    BY <1>1, <1>3, <1>5, <2>1, TransmitNear
<1>10. ASSUME NEW v \in Measured, NEW view \in Views, ForwardRerouted(v, view)
       PROVE  CloseInv'
  <2>1. /\ Reached /\ truth' = Reroute(LogHop(truth, frame.to, v), view)
        /\ UNCHANGED idMap
        /\ Transmit(frame.to, Reroute(LogHop(Received, frame.to, v), view))
    BY <1>10 DEF ForwardRerouted, RerouteAs, RelayAs
  <2> QED
    BY <1>1, <1>3, <1>4, <2>1, TransmitNear
<1>11. ASSUME NEW v \in Measured, NEW view \in Views, ForwardReroutedForced(v, view)
       PROVE  CloseInv'
  <2> DEFINE R(p) == Reroute(LogHop(p, frame.to, v), view)
  <2>1. /\ Reached /\ truth' = Degrade(R(truth)) /\ UNCHANGED idMap
        /\ Transmit(frame.to, Degrade(R(Received)))
    BY <1>11 DEF ForwardReroutedForced, RerouteAs, RelayAs
  <2>2. /\ R(Received) \in Packet /\ R(truth) \in Packet
        /\ Alike(R(Received), R(truth)) /\ Placed(R(truth)) /\ Near(R(Received), R(truth), 0)
        /\ Len(R(truth).congestionLog) = R(truth).hopCount
    BY <1>1, <1>3, <1>4, <2>1
  <2> HIDE DEF R
  <2> QED
    BY <1>1, <1>5, <2>1, <2>2, TransmitNear
<1>12. CASE UNCHANGED vars
  BY <1>12 DEF vars, CloseInv, Encodable, Encoded, HasTable, Table
<1> QED
  BY <1>6, <1>7, <1>8, <1>9, <1>10, <1>11, <1>12 DEF Next

\* However many routers with compact ids a metric passes, what a node reads is
\* below what was measured by at most a hundredth for each of them.
THEOREM DriftIsBounded == Spec => []MetricsClose
<1>1. Init => CloseInv
  BY DEF Init, CloseInv
<1>2. IInv /\ CloseInv => MetricsClose
  <2> SUFFICES ASSUME IInv, CloseInv, Reached
               PROVE  /\ \A i \in DOMAIN truth.miniMap :
                           Close(Received.miniMap[i].latency, truth.miniMap[i].latency,
                                 truth.hopCount + 1)
                      /\ \A i \in DOMAIN truth.congestionLog :
                           Close(Received.congestionLog[i].latency,
                                 truth.congestionLog[i].latency, truth.hopCount + 1 - i)
    BY DEF MetricsClose
  <2>1. truth \in Packet /\ Near(Received, truth, 1)
    BY ReceivedAlike, ReceivedNear
  <2> QED
    BY <2>1, PacketSequences DEF Near
<1> QED
  BY <1>1, <1>2, CloseStep, Invariance, Initially, Step, PTL DEF Spec
=============================================================================
