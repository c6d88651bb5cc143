--------------------------- MODULE MCWasiThreads ---------------------------
(***************************************************************************)
(* WasiThreads with the main thread and two blocks, one of which may be *)
(* a stack of the caller.                                                  *)
(***************************************************************************)
EXTENDS WasiThreads

CONSTANTS a, b

AllThreads == {main, a, b}
OnlyB == {b}

=============================================================================
