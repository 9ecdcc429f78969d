----------------------------- MODULE MCConnPool -----------------------------
(* Three workers that send to one neighbour over and over.  Four sockets are *)
(* one per worker and one in the pool, all that can be referred to at a time;*)
(* workers and sockets are interchangeable.                                  *)
EXTENDS ConnPool, TLC

Interchangeable == Permutations(Worker) \cup Permutations(Conn)
=============================================================================
