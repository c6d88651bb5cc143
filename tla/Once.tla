-------------------------------- MODULE Once --------------------------------
(***************************************************************************)
(* pthread_once.  The control word is 0 (not begun), 1 (a thread runs      *)
(* init), 3 (the same, with sleepers) or 2 (done).  A thread that ends in  *)
(* init, by pthread_exit, undoes its claim and wakes everybody.            *)
(***************************************************************************)
EXTENDS FutexObject

TypeOK ==
    /\ word \in 0 .. 3
    /\ waiters = 0
    /\ asleep \subseteq Thread
    /\ loc \in [Thread -> {"none", "ran", "returned"}]

\* loc: whether the thread has run init to its end, or a call has returned to it.
Init ==
    /\ word = 0
    /\ waiters = 0
    /\ asleep = {}
    /\ pc = [t \in Thread |-> "run"]
    /\ loc = [t \in Thread |-> "none"]

Return(t) ==
    /\ Goto(t, "run")
    /\ loc' = [loc EXCEPT ![t] = IF @ = "ran" THEN "ran" ELSE "returned"]

\* The fast path of pthread_once.
Call(t) ==
    /\ At(t, "run")
    /\ IF word = 2 THEN Return(t) ELSE Goto(t, "once") /\ UNCHANGED loc
    /\ UNCHANGED <<word, waiters, asleep>>

Claim(t) ==
    /\ At(t, "once")
    /\ \/ word = 0 /\ word' = 1 /\ Goto(t, "init") /\ UNCHANGED loc
       \/ word = 1 /\ Goto(t, "mark") /\ UNCHANGED <<word, loc>>
       \/ word = 3 /\ Goto(t, "wait") /\ UNCHANGED <<word, loc>>
       \/ word = 2 /\ Return(t) /\ UNCHANGED word
    /\ UNCHANGED <<waiters, asleep>>

Mark(t) ==
    /\ At(t, "mark")
    /\ word' = IF word = 1 THEN 3 ELSE word
    /\ Goto(t, "wait")
    /\ UNCHANGED <<waiters, asleep, loc>>

\* __wait sleeps for as long as the word is 3.
Wait(t) ==
    /\ At(t, "wait")
    /\ IF word = 3 THEN asleep' = asleep \cup {t} /\ UNCHANGED pc
                   ELSE Goto(t, "once") /\ UNCHANGED asleep
    /\ UNCHANGED <<word, waiters, loc>>

\* init is over; the swap tells whether there are sleepers.
Finish(t) ==
    /\ At(t, "init")
    /\ word' = 2
    /\ loc' = [loc EXCEPT ![t] = "ran"]
    /\ Goto(t, IF word = 3 THEN "wake" ELSE "run")
    /\ UNCHANGED <<waiters, asleep>>

FinishWakes(t) ==
    /\ At(t, "wake")
    /\ WakeAll
    /\ Return(t)
    /\ UNCHANGED <<word, waiters>>

\* The thread ends in init: the cleanup handler undo.
Undo(t) ==
    /\ At(t, "init")
    /\ word' = 0
    /\ Goto(t, IF word = 3 THEN "undo_wake" ELSE "gone")
    /\ UNCHANGED <<waiters, asleep, loc>>

UndoWakes(t) ==
    /\ At(t, "undo_wake")
    /\ WakeAll
    /\ Goto(t, "gone")
    /\ UNCHANGED <<word, waiters, loc>>

\* init ends at some time, one way or the other.
Steps(t) ==
    Claim(t) \/ Mark(t) \/ Wait(t) \/ Finish(t) \/ FinishWakes(t) \/ UndoWakes(t)

Next == \E t \in Thread : Call(t) \/ Steps(t) \/ Undo(t)

-----------------------------------------------------------------------------
(* Properties.                                                             *)

\* One thread at a time runs init, it runs to its end at most once, and a call
\* returns only after that.
OnceIsOnce ==
    /\ Cardinality({t \in Thread : pc[t] = "init"}) <= 1
    /\ Cardinality({t \in Thread : loc[t] = "ran"}) <= 1
    /\ (\E t \in Thread : loc[t] = "returned") => \E t \in Thread : loc[t] = "ran"

\* In the end every call has returned, unless its thread ended in init: whoever
\* sleeps while another runs init is woken when that one is done or gives up.
Settled(t) == pc[t] \in {"run", "gone"}

=============================================================================
