------------------------------ MODULE MCGossip ------------------------------
(* Two routers that gossip with each other about the one link that a         *)
(* measures, and a chain a - b - c along which what a measures travels.      *)
EXTENDS GossipClaims, TLC

CONSTANTS a, b, c

Pair == (a :> {b}) @@ (b :> {a})
PairOneProbe == (a :> {b}) @@ (b :> {})

Chain == (a :> {b}) @@ (b :> {c}) @@ (c :> {})
HeadProbes == (a :> {b}) @@ (b :> {}) @@ (c :> {})
=============================================================================
