---------------------------- MODULE FutexObject ----------------------------
(***************************************************************************)
(* What the small synchronisation objects of musl/src/thread/common have   *)
(* in common: a word that threads compare, swap and sleep on, a count of   *)
(* the threads that may be asleep, and threads that run in parallel, each  *)
(* access to shared memory being a step.  The futex is WebAssembly's: it   *)
(* compares and puts to sleep at once and wakes nobody spuriously.         *)
(***************************************************************************)
EXTENDS Integers, FiniteSets

CONSTANT Thread

VARIABLES
    word,       \* the word, structured as the object needs it
    waiters,    \* the count beside it
    asleep,     \* threads asleep on the word
    pc,         \* "run" outside of the library
    loc         \* locals of each thread, and what the application knows

fvars == <<word, waiters, asleep, pc, loc>>

At(t, where) == pc[t] = where /\ t \notin asleep

Goto(t, where) == pc' = [pc EXCEPT ![t] = where]

\* a_inc and a_dec of the count around a sleep.
CountIn(t, from, to) ==
    /\ At(t, from)
    /\ waiters' = waiters + 1
    /\ Goto(t, to)
    /\ UNCHANGED <<word, asleep, loc>>

CountOut(t, from, to) ==
    /\ At(t, from)
    /\ waiters' = waiters - 1
    /\ Goto(t, to)
    /\ UNCHANGED <<word, asleep, loc>>

\* The futex wait for a word that is still `expected'.
SleepOn(t, from, expected, to) ==
    /\ At(t, from)
    /\ asleep' = IF word = expected THEN asleep \cup {t} ELSE asleep
    /\ Goto(t, to)
    /\ UNCHANGED <<word, waiters, loc>>

\* The deadline of a sleeping thread passes.
WakesLate(t, from, to) ==
    /\ pc[t] = from /\ t \in asleep
    /\ asleep' = asleep \ {t}
    /\ Goto(t, to)
    /\ UNCHANGED <<word, waiters, loc>>

\* __wake of one thread, or of all.
WakeOne ==
    IF asleep = {} THEN UNCHANGED asleep ELSE \E u \in asleep : asleep' = asleep \ {u}
WakeAll == asleep' = {}

\* The application has made its last call, but for unlocking what it holds.
NoNewCall == \A t \in Thread : pc[t] = "run" => pc'[t] \in {"run", "unlock_waiters"}

=============================================================================
