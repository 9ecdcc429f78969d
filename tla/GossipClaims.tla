---------------------------- MODULE GossipClaims ----------------------------
(***************************************************************************)
(* Gossip with restarts of the router process, across which the comment on *)
(* LinkState.Sequence does not hold.                                       *)
(***************************************************************************)
EXTENDS Gossip

\* The router process is killed and started again: NewTopologyState and
\* NewGossipNode build everything anew, the sequence generator included.
\* Datagrams and the entries of other nodes survive.
Restart(n) ==
    /\ links' = [links EXCEPT ![n] = EmptyTable]
    /\ lastBroadcast' = [lastBroadcast EXCEPT ![n] = EmptyTable]
    /\ seqGen' = [seqGen EXCEPT ![n] = 0]
    /\ hasChanges' = [hasChanges EXCEPT ![n] = TRUE]
    /\ phase' = [phase EXCEPT ![n] = "fast"]
    /\ fullSyncDue' = [fullSyncDue EXCEPT ![n] = TRUE]
    /\ UNCHANGED <<msgs, now>>

RestartSpec == Init /\ [][Next \/ \E n \in Node : Restart(n)]_vars
=============================================================================
