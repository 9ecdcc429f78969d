------------------------------ MODULE ConnPool ------------------------------
(***************************************************************************)
(* connpool/pool.go: the workers of a router share one pool of connected   *)
(* UDP sockets.  Addresses are independent of each other, so this is the   *)
(* pool at one address.  A step is one critical section, or one call of    *)
(* the operating system outside them.                                      *)
(***************************************************************************)
CONSTANTS
    Worker,     \* goroutines that call Send
    Conn,       \* sockets; a closed one that nobody refers to is dialled anew
    None

ASSUME ConnPoolAssumption == None \notin Conn

VARIABLES
    cached,     \* conns[addr], or None
    open,       \* the sockets that are open
    pc,         \* where each worker is in Send
    held        \* its local variable conn

vars == <<cached, open, pc, held>>

Fresh == Conn \ (open \cup {cached} \cup {held[w] : w \in Worker})

Goto(w, label) == pc' = [pc EXCEPT ![w] = label]
Hold(w, c) == held' = [held EXCEPT ![w] = c]

\* Send returns, with or without an error.
Return(w) == Goto(w, "idle") /\ Hold(w, None)

-----------------------------------------------------------------------------
(* getOrDial *)

\* Mutant: a miss is not noticed.
Lookup_MissIgnored(w) ==
    /\ pc[w] = "idle"
    /\ Hold(w, cached)
    /\ Goto(w, "write")
    /\ UNCHANGED <<cached, open>>

\* The look under the read lock.
Lookup(w) ==
    /\ pc[w] = "idle"
    /\ Hold(w, cached)
    /\ Goto(w, IF cached # None THEN "write" ELSE "resolve")
    /\ UNCHANGED <<cached, open>>

\* The address is resolved; the look under the write lock finds a connection ...
SecondLookup(w) ==
    /\ pc[w] = "resolve" /\ cached # None
    /\ Hold(w, cached)
    /\ Goto(w, "write")
    /\ UNCHANGED <<cached, open>>

\* ... or dials one.
DialLocked(w) ==
    /\ pc[w] = "resolve" /\ cached = None
    /\ \E c \in Fresh :
        /\ cached' = c
        /\ open' = open \cup {c}
        /\ Hold(w, c)
    /\ Goto(w, "write")

-----------------------------------------------------------------------------
(* Send *)

\* A write on a closed socket fails; on an open one it may.
WriteSucceeds(w) ==
    /\ pc[w] \in {"write", "retry"} /\ held[w] \in open
    /\ Return(w)
    /\ UNCHANGED <<cached, open>>

WriteFails(w) ==
    /\ pc[w] = "write"
    /\ Goto(w, "evict")
    /\ UNCHANGED <<cached, open, held>>

\* Mutant: the closed connection stays in the map.
Evict_EntryKept(w) ==
    /\ pc[w] = "evict"
    /\ open' = open \ {cached}
    /\ Goto(w, "redial")
    /\ UNCHANGED <<cached, held>>

\* Whatever connection the address has now.
Evict(w) ==
    /\ pc[w] = "evict"
    /\ open' = open \ {cached}
    /\ cached' = None
    /\ Goto(w, "redial")
    /\ UNCHANGED held

Redial(w) ==
    /\ pc[w] = "redial"
    /\ \E c \in Fresh :
        /\ open' = open \cup {c}
        /\ Hold(w, c)
    /\ Goto(w, "put")
    /\ UNCHANGED cached

\* Mutant: the connection that was there is dropped, not closed.
Put_OldLeftOpen(w) ==
    /\ pc[w] = "put"
    /\ cached' = held[w]
    /\ Goto(w, "retry")
    /\ UNCHANGED <<open, held>>

Put(w) ==
    /\ pc[w] = "put"
    /\ open' = open \ {cached}
    /\ cached' = held[w]
    /\ Goto(w, "retry")
    /\ UNCHANGED held

\* Resolving, dialling, dialling again or the second write returns an error.
Fail(w) ==
    /\ pc[w] \in {"resolve", "redial", "retry"}
    /\ Return(w)
    /\ UNCHANGED <<cached, open>>

\* Close, at any time.
Close ==
    /\ open' = open \ {cached}
    /\ cached' = None
    /\ UNCHANGED <<pc, held>>

-----------------------------------------------------------------------------
Init ==
    /\ cached = None
    /\ open = {}
    /\ pc = [w \in Worker |-> "idle"]
    /\ held = [w \in Worker |-> None]

Send(w) ==
    \/ Lookup(w) \/ SecondLookup(w) \/ DialLocked(w)
    \/ WriteSucceeds(w) \/ WriteFails(w)
    \/ Evict(w) \/ Redial(w) \/ Put(w)
    \/ Fail(w)

Next == (\E w \in Worker : Send(w)) \/ Close

Spec == Init /\ [][Next]_vars

-----------------------------------------------------------------------------
(* Properties *)

\* The type of the state; a worker that goes to write has a connection.
TypeOK ==
    /\ cached \in Conn \cup {None}
    /\ open \subseteq Conn
    /\ pc \in [Worker -> {"idle", "resolve", "write", "evict", "redial", "put", "retry"}]
    /\ held \in [Worker -> Conn \cup {None}]
    /\ \A w \in Worker : pc[w] \in {"write", "put", "retry"} => held[w] # None

\* The pool never hands out a connection that somebody closed.
CachedIsOpen == cached # None => cached \in open

\* No socket is lost, however the workers' failures interleave: an open one is
\* in the pool or about to be put there.
NoLeak == \A c \in open : c = cached \/ \E w \in Worker : pc[w] = "put" /\ held[w] = c
=============================================================================
