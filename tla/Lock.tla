-------------------------------- MODULE Lock --------------------------------
(***************************************************************************)
(* The strong lock of libc (musl/src/thread/common/__lock.c) with the      *)
(* cooperative-threads futex under it.  The word l is 0, or the number of  *)
(* threads inside (the holder and those in the slow path), or that number  *)
(* plus INT_MIN while the lock is held.  Threads switch only when they     *)
(* suspend, so each stretch between two suspensions is one step; a thread  *)
(* may suspend anywhere in its critical section.  The lock is skipped      *)
(* while the program has one thread (libc.need_locks), which thread        *)
(* creation and exit change.                                               *)
(***************************************************************************)
EXTENDS Integers, FiniteSets

CONSTANTS Thread, INT_MIN

\* The congestion count never reaches the sign bit.
ASSUME ConstantsOK ==
    /\ IsFiniteSet(Thread)
    /\ INT_MIN \in Int
    /\ INT_MIN + Cardinality(Thread) < 0

VARIABLES
    l,           \* the lock word
    need_locks,  \* libc.need_locks
    live,        \* threads that have been created and have not exited
    pc,          \* outside, waiting in __lock, or inside the critical section
    asleep       \* waiting threads that are suspended in the futex

vars == <<l, need_locks, live, pc, asleep>>

TypeOK ==
    /\ l \in Int
    /\ need_locks \in {-1, 0, 1}
    /\ live \subseteq Thread
    /\ pc \in [Thread -> {"out", "wait", "cs"}]
    /\ asleep \subseteq Thread

Init ==
    /\ l = 0
    /\ need_locks = 0
    /\ \E main \in Thread : live = {main}
    /\ pc = [t \in Thread |-> "out"]
    /\ asleep = {}

Inside  == {t \in Thread : pc[t] = "cs"}
Waiting == {t \in Thread : pc[t] = "wait"}

Goto(t, where) == pc' = [pc EXCEPT ![t] = where]

-----------------------------------------------------------------------------
(* __lock and __unlock.                                                    *)

\* need_locks is 0: the lock is not touched.
LockSkipped(t) ==
    /\ t \in live
    /\ pc[t] = "out"
    /\ need_locks = 0
    /\ Goto(t, "cs")
    /\ UNCHANGED <<l, need_locks, live, asleep>>

\* __futexwait on the value that the word still has: t suspends.
FutexWait(t) == asleep' = asleep \cup {t}

\* The fast path, or the first round of the spin loop.
LockFree(t) ==
    /\ l' = INT_MIN + l + 1
    /\ Goto(t, "cs")
    /\ UNCHANGED asleep

\* The lock is held, so spinning fails; t counts itself and waits.
LockHeld(t) ==
    /\ l' = l + 1
    /\ FutexWait(t)
    /\ Goto(t, "wait")

Lock(t) ==
    /\ t \in live
    /\ pc[t] = "out"
    /\ need_locks # 0
    /\ need_locks' = IF need_locks < 0 THEN 0 ELSE need_locks
    /\ IF l >= 0 THEN LockFree(t) ELSE LockHeld(t)
    /\ UNCHANGED live

\* A woken thread takes the lock if it is free, whatever the count is by now.
\* If it is held, with the same or another value, it goes back to sleep.
Retry(t) ==
    /\ pc[t] = "wait"
    /\ t \notin asleep
    /\ IF l < 0
       THEN FutexWait(t) /\ UNCHANGED <<l, pc>>
       ELSE l' = INT_MIN + l /\ Goto(t, "cs") /\ UNCHANGED asleep
    /\ UNCHANGED <<need_locks, live>>

\* Mutant of WakeOne: the waiters are left asleep.
WakeNone(old) == UNCHANGED asleep

\* __unlock wakes one waiter if the old word counts anyone but the holder.
WakeOne(old) ==
    IF old # INT_MIN + 1 /\ asleep # {}
    THEN \E u \in asleep : asleep' = asleep \ {u}
    ELSE UNCHANGED asleep

Unlock(t) ==
    /\ pc[t] = "cs"
    /\ IF l < 0 THEN l' = l - (INT_MIN + 1) /\ WakeOne(l) ELSE UNCHANGED <<l, asleep>>
    /\ Goto(t, "out")
    /\ UNCHANGED <<need_locks, live>>

-----------------------------------------------------------------------------
(* Thread creation and exit, as far as need_locks is concerned.            *)

\* Mutant of Create: locking stays off until there is a third thread.
CreateUnlocked(t, u) ==
    /\ t \in live /\ pc[t] = "out"
    /\ u \in Thread \ live
    /\ live' = live \cup {u}
    /\ need_locks' = IF live = {t} THEN need_locks ELSE 1
    /\ UNCHANGED <<l, pc, asleep>>

Create(t, u) ==
    /\ t \in live /\ pc[t] = "out"
    /\ u \in Thread \ live
    /\ live' = live \cup {u}
    /\ need_locks' = IF live = {t} THEN 1 ELSE need_locks
    /\ UNCHANGED <<l, pc, asleep>>

\* wasip3_thread_new_indirect fails after need_locks has been set.
CreateFails(t) ==
    /\ t \in live /\ pc[t] = "out"
    /\ need_locks' = IF live = {t} THEN 0 ELSE need_locks
    /\ UNCHANGED <<l, live, pc, asleep>>

\* The last thread does not get here: it exits the program.
Exit(t) ==
    /\ t \in live /\ pc[t] = "out"
    /\ live # {t}
    /\ live' = live \ {t}
    /\ need_locks' = IF \E u \in live : live' = {u} THEN -1 ELSE need_locks
    /\ UNCHANGED <<l, pc, asleep>>

Step(t) ==
    \/ LockSkipped(t) \/ Lock(t) \/ Retry(t) \/ Unlock(t)
    \/ (\E u \in Thread : Create(t, u)) \/ CreateFails(t) \/ Exit(t)

Next == \E t \in Thread : Step(t)

Spec == Init /\ [][Next]_vars

\* A runnable thread is scheduled, and no critical section lasts for ever.
FairSpec == Spec /\ \A t \in Thread : WF_vars(Retry(t)) /\ WF_vars(Unlock(t))

-----------------------------------------------------------------------------
(* Properties.                                                             *)

\* At most one thread is in the critical section, also while threads come and
\* go and the lock is skipped in between.
MutualExclusion == \A t, u \in Inside : t = u

\* "x is the congestion count or'ed with INT_MIN as a lock flag": the word
\* counts the waiters, and the holder if the lock was taken.
Congestion ==
    \/ l = Cardinality(Waiting)
    \/ l = INT_MIN + Cardinality(Waiting) + 1 /\ Inside # {}

\* __wasilibc_assert_held_lock holds throughout a critical section.
HeldInside == Inside # {} => need_locks = 0 \/ l < 0

\* "somebody holds the lock and will eventually wake us up": when threads sleep
\* and the lock is free, a woken thread is on its way to take it.
NoLostWakeup == asleep # {} => l < 0 \/ asleep # Waiting

\* A lock that threads wait for is taken by one of them or by a newcomer.
SomeoneEnters == Waiting # {} ~> Inside # {}

=============================================================================
