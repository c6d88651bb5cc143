------------------------------ MODULE MCFutex ------------------------------
(* Futex on two addresses: the configurations give threads and lists. *)
EXTENDS Futex
=============================================================================
