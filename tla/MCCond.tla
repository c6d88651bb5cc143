------------------------------- MODULE MCCond -------------------------------
(***************************************************************************)
(* Either a mutex of any type, which is locked, timed and tried, or a      *)
(* condition variable with a normal mutex.                                 *)
(***************************************************************************)
EXTENDS Cond

VARIABLE object

MCInit ==
    /\ Init
    /\ object \in {"mutex", "cond"}
    /\ object = "cond" => m_type = "NORMAL"

MCNext ==
    /\ UNCHANGED object
    /\ IF object = "mutex" THEN MutexNext /\ UNCHANGED cvars ELSE Next

MCSpec == MCInit /\ [][MCNext]_<<vars, object>> /\ Fairness

=============================================================================
