------------------------------ MODULE MCProber ------------------------------
(* Two neighbours: a is probed one probe at a time, as the default timeout of *)
(* 50 ms and interval of 100 ms have it; two probes of b may overlap, as they *)
(* do when a goroutine is delayed or resolves the address.                    *)
EXTENDS Prober, TLC

CONSTANTS a, b

OverlapOfB == (a :> 1) @@ (b :> 2)
=============================================================================
