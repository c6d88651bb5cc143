------------------------------- MODULE Atexit -------------------------------
(***************************************************************************)
(* The functions that are called at exit (atexit.c).  One thread exits;    *)
(* the functions it calls, and other threads meanwhile, may register more. *)
(* The lock is let go for each call, and a step is what it protects.       *)
(***************************************************************************)
EXTENDS Integers, Sequences, FiniteSets, FiniteSetsExt

CONSTANTS
    COUNT,            \* the functions of a block; 32 in the code
    MaxFuncs          \* the bound on what is registered

VARIABLES
    head,     \* the list of blocks, the newest one first; empty if head is null
    slot,     \* the functions in the first block
    finished, \* finished_atexit
    exiting,  \* "no", between two calls, or the function that is being called
    log       \* what was registered and what was called, functions numbered in order

vars == <<head, slot, finished, exiting, log>>

EmptyBlock == [i \in 0 .. COUNT - 1 |-> 0]

Init ==
    /\ head = <<>> /\ slot = 0 /\ finished = FALSE /\ exiting = "no"
    /\ log = [registered |-> 0, called |-> <<>>]

-----------------------------------------------------------------------------

\* Mutant of Block: the new block replaces the full one.
BlockReplaces(list) ==
    IF list = <<>> THEN <<EmptyBlock>> ELSE IF slot = COUNT THEN <<EmptyBlock>> \o Tail(list) ELSE list

\* The list that has room: with the static block, or with a new one.
Block(list) ==
    IF list = <<>> THEN <<EmptyBlock>> ELSE IF slot = COUNT THEN <<EmptyBlock>> \o list ELSE list

\* __cxa_atexit; without memory, or when it is too late, nothing happens.
CxaAtexit ==
    LET id == log.registered + 1
        at == IF slot = COUNT THEN 0 ELSE slot
    IN  /\ ~finished /\ log.registered < MaxFuncs
        /\ head' = [Block(head) EXCEPT ![1][at] = id]
        /\ slot' = at + 1
        /\ log' = [log EXCEPT !.registered = id]
        /\ UNCHANGED <<finished, exiting>>

\* exit.
Exit ==
    /\ exiting = "no" /\ ~finished /\ exiting' = "between"
    /\ UNCHANGED <<head, slot, finished, log>>

\* The loops of __funcs_on_exit, from one call to the next: the last function of the
\* first block that has one, or the end.
CallNext ==
    LET list == IF slot > 0 \/ head = <<>> THEN head ELSE Tail(head)
        last == (IF slot > 0 THEN slot ELSE COUNT) - 1
    IN  /\ exiting = "between" /\ ~finished
        /\ head' = list
        /\ IF list = <<>>
           THEN finished' = TRUE /\ slot' = (IF head = <<>> THEN slot ELSE COUNT)
                /\ exiting' = "no" /\ UNCHANGED log
           ELSE /\ slot' = last /\ exiting' = "calling"
                /\ log' = [log EXCEPT !.called = Append(@, list[1][last])]
                /\ UNCHANGED finished

Returned ==
    /\ exiting = "calling" /\ exiting' = "between"
    /\ UNCHANGED <<head, slot, finished, log>>

Next == CxaAtexit \/ Exit \/ CallNext \/ Returned

Spec == Init /\ [][Next]_vars

-----------------------------------------------------------------------------
(* Properties.                                                             *)

Called == {log.called[i] : i \in DOMAIN log.called}

\* Every function that was registered is called once, also those that are registered
\* while others run: none is called again, and none is left when no more can be
\* registered.
EachIsCalledOnce ==
    /\ Cardinality(Called) = Len(log.called) /\ Called \subseteq 1 .. log.registered
    /\ finished => Called = 1 .. log.registered

\* The functions are called in the reverse order of their registration: when one is
\* called, those that were registered after it have been.
LastIsFirst ==
    log'.called # log.called =>
      \A id \in log'.called[Len(log'.called)] + 1 .. log.registered : id \in Called

=============================================================================
