------------------------------ MODULE Lifecycle ------------------------------
(***************************************************************************)
(* The signal channel of cmd/router/main.go and the two goroutines that    *)
(* receive from it: the shutdown handler and the readiness updater, which  *)
(* also sets what /readyz answers once a second.                           *)
(*                                                                         *)
(* A Go channel hands a value to the receiver that has waited longest;     *)
(* signal.Notify's sender never blocks.  A goroutine has not polled the    *)
(* channel before it is first scheduled, so either may come first.         *)
(***************************************************************************)
EXTENDS Naturals

VARIABLES
    at,        \* where each goroutine is
    first,     \* the goroutine that has waited longest in sigCh, or "nobody"
    sigCh,     \* signals in its buffer, of capacity 1
    accepted,  \* signals that a goroutine or the buffer took
    fresh,     \* the gossip view has a fresh link
    ready,     \* what /readyz answers
    left       \* what the environment may still do

lifecycle == <<at, first, sigCh, accepted, fresh, ready>>

Goroutine == {"handler", "updater"}

Peer == [handler |-> "updater", updater |-> "handler"]

\* Who comes first when g no longer waits.
Behind(g) == IF at[Peer[g]] = "parked" THEN Peer[g] ELSE "nobody"

LifecycleInit ==
    /\ at = [g \in Goroutine |-> "select"]
    /\ first = "nobody" /\ sigCh = 0 /\ accepted = 0
    /\ fresh = FALSE /\ ready = FALSE

\* Mutant: the updater treats the signal as one more tick.
OnSignal_UpdaterContinues == [handler |-> "stopping", updater |-> "select"]

\* What a goroutine does with the signal it receives.
OnSignal == [handler |-> "stopping", updater |-> "returned"]

\* The runtime sends the process a signal: to a waiting goroutine, else to the
\* buffer, else nowhere.
Signal ==
    /\ left.signals > 0
    /\ left' = [left EXCEPT !.signals = @ - 1]
    /\ \/ /\ first # "nobody"
          /\ at' = [at EXCEPT ![first] = OnSignal[first]]
          /\ first' = Behind(first)
          /\ accepted' = accepted + 1
          /\ UNCHANGED sigCh
       \/ /\ first = "nobody" /\ sigCh = 0
          /\ sigCh' = 1
          /\ accepted' = accepted + 1
          /\ UNCHANGED <<at, first>>
       \/ /\ first = "nobody" /\ sigCh = 1
          /\ UNCHANGED <<at, first, sigCh, accepted>>
    /\ UNCHANGED <<fresh, ready>>

TakeSignal(g) ==
    /\ at[g] = "select" /\ sigCh = 1
    /\ sigCh' = 0
    /\ at' = [at EXCEPT ![g] = OnSignal[g]]
    /\ UNCHANGED <<first, accepted, fresh, ready, left>>

Park(g) ==
    /\ at[g] = "select" /\ sigCh = 0
    /\ at' = [at EXCEPT ![g] = "parked"]
    /\ first' = IF first = "nobody" THEN g ELSE first
    /\ UNCHANGED <<sigCh, accepted, fresh, ready, left>>

\* The ticker fires: the updater leaves the channel and counts the
\* fresh links.
Tick ==
    /\ at["updater"] \in {"select", "parked"}
    /\ at' = [at EXCEPT !["updater"] = IF fresh THEN "someFresh" ELSE "noneFresh"]
    /\ first' = IF first = "updater" THEN Behind("updater") ELSE first
    /\ UNCHANGED <<sigCh, accepted, fresh, ready, left>>

\* Mutant: readiness is set and never withdrawn.
SetReady_Sticky ==
    /\ at["updater"] \in {"someFresh", "noneFresh"}
    /\ ready' = (ready \/ at["updater"] = "someFresh")
    /\ at' = [at EXCEPT !["updater"] = "select"]
    /\ UNCHANGED <<first, sigCh, accepted, fresh, left>>

SetReady ==
    /\ at["updater"] \in {"someFresh", "noneFresh"}
    /\ ready' = (at["updater"] = "someFresh")
    /\ at' = [at EXCEPT !["updater"] = "select"]
    /\ UNCHANGED <<first, sigCh, accepted, fresh, left>>

\* The handler stops gossip and the collector, neither of which blocks, and
\* ends the process.
Exit ==
    /\ at["handler"] = "stopping"
    /\ at' = [at EXCEPT !["handler"] = "exited"]
    /\ UNCHANGED <<first, sigCh, accepted, fresh, ready, left>>

\* Gossip brings a fresh link, or the last one ages.
FreshnessChanges ==
    /\ left.changes > 0
    /\ left' = [left EXCEPT !.changes = @ - 1]
    /\ fresh' = ~fresh
    /\ UNCHANGED <<at, first, sigCh, accepted, ready>>

Handler == TakeSignal("handler") \/ Park("handler") \/ Exit

Updater == TakeSignal("updater") \/ Park("updater") \/ SetReady

Running == at["handler"] # "exited"

-----------------------------------------------------------------------------
(* Properties *)

\* Somebody is first exactly if somebody waits, and a buffered signal has nobody
\* waiting for it.
LifecycleTypeOK ==
    /\ at["handler"] \in {"select", "parked", "stopping", "exited"}
    /\ at["updater"] \in {"select", "parked", "someFresh", "noneFresh", "returned"}
    /\ DOMAIN at = Goroutine
    /\ first \in Goroutine \cup {"nobody"}
    /\ IF first = "nobody" THEN \A g \in Goroutine : at[g] # "parked" ELSE at[first] = "parked"
    /\ sigCh \in 0..1
    /\ sigCh = 1 => first = "nobody"
    /\ accepted \in Nat
    /\ fresh \in BOOLEAN /\ ready \in BOOLEAN

\* The updater can take one signal away from the handler and no more, so the
\* second signal stops the process.
SecondSignalStops == accepted > 1 ~> ~Running

\* /readyz follows the view, unless the updater was ended by a signal.
ReadinessFollows == []<>(ready = fresh \/ at["updater"] = "returned" \/ ~Running)
=============================================================================
