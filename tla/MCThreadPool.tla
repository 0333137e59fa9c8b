----------------------------- MODULE MCThreadPool -----------------------------
(* ThreadPool for TLC: two producers that look alike to the pool. *)
EXTENDS ThreadPool

CONSTANTS p1, p2

MCProducers == {p1, p2}
===============================================================================
