----------------------------- MODULE MCThreads -----------------------------
(* Model checking Threads. *)
EXTENDS Threads, TLC
CONSTANTS t1, t2, t3
=============================================================================
