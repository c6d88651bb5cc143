------------------------------ MODULE Barrier ------------------------------
(***************************************************************************)
(* pthread_barrier_wait on a process-private barrier.  The first thread of *)
(* a round keeps the round's instance on its own stack, so that it has to  *)
(* leave last; the barrier itself holds a lock and a pointer to the        *)
(* instance.  Threads sleep on the lock, on `last' or on `finished'; which *)
(* one follows from where they are.                                        *)
(***************************************************************************)
EXTENDS FutexObject

CONSTANTS
    NoThread,     \* no instance
    Limits        \* values of _b_limit: one less than the threads of a round

\* An instance, with the threads that have joined it.
Instance == [count : Nat, last : 0 .. 1, waiters : Nat, finished : 0 .. 2, joined : SUBSET Thread]
NoInstance == [count |-> 0, last |-> 0, waiters |-> 0, finished |-> 0, joined |-> {}]

\* loc: the instance that a thread takes part in, by its owner, and its own instance.
Idle == [inst |-> NoThread, mine |-> NoInstance]

TypeOK ==
    /\ word \in [lock : 0 .. 1, inst : Thread \cup {NoThread}, limit : Limits]
    /\ waiters \in 0 .. Cardinality(Thread)
    /\ asleep \subseteq Thread
    /\ \A t \in Thread : loc[t].inst \in Thread \cup {NoThread} /\ loc[t].mine \in Instance

Init ==
    /\ word \in [lock : {0}, inst : {NoThread}, limit : Limits]
    /\ waiters = 0
    /\ asleep = {}
    /\ pc = [t \in Thread |-> "run"]
    /\ loc = [t \in Thread |-> Idle]

Owner(t) == loc[t].inst
Inst(t) == loc[Owner(t)].mine

\* The instance of t changes to i.
SetInst(t, i) == loc' = [loc EXCEPT ![Owner(t)].mine = i]

\* Threads asleep at a place.
AsleepAt(where) == {u \in asleep : pc[u] = where}

Call(t) ==
    /\ At(t, "run")
    /\ Goto(t, "lock")
    /\ UNCHANGED <<word, waiters, asleep, loc>>

-----------------------------------------------------------------------------
(* The lock of the barrier.                                                *)

LockSwaps(t) ==
    /\ At(t, "lock")
    /\ word' = [word EXCEPT !.lock = 1]
    /\ Goto(t, IF word.lock = 0 THEN "inside" ELSE "lock_spin")
    /\ UNCHANGED <<waiters, asleep, loc>>

LockSpins(t) ==
    /\ At(t, "lock_spin")
    /\ word.lock # 1
    /\ Goto(t, "lock")
    /\ UNCHANGED <<word, waiters, asleep, loc>>

LockWaits(t) ==
    /\ At(t, "lock_wait")
    /\ IF word.lock = 1 THEN asleep' = asleep \cup {t} /\ UNCHANGED pc
                        ELSE Goto(t, "lock_uncount") /\ UNCHANGED asleep
    /\ UNCHANGED <<word, waiters, loc>>

\* if (b->_b_waiters) __wake(&b->_b_lock, 1, 1), by the owner, the last one and
\* the others.
UnlockWakes(t) ==
    /\ \/ At(t, "owner_unlocks") /\ Goto(t, "owner_counts")
       \/ At(t, "last_unlocks") /\ Goto(t, "last_opens")
       \/ At(t, "other_unlocks") /\ Goto(t, "other_spins")
    /\ IF waiters > 0 /\ AsleepAt("lock_wait") # {}
       THEN \E u \in AsleepAt("lock_wait") : asleep' = asleep \ {u}
       ELSE UNCHANGED asleep
    /\ UNCHANGED <<word, waiters, loc>>

\* The critical section, up to the store that ends it.
Inside(t) ==
    /\ At(t, "inside")
    /\ IF word.inst = NoThread
       THEN /\ word' = [word EXCEPT !.lock = 0, !.inst = t]
            /\ loc' = [loc EXCEPT ![t] = [inst |-> t, mine |-> [NoInstance EXCEPT !.joined = {t}]]]
            /\ Goto(t, "owner_unlocks")
       ELSE LET o == word.inst
                complete == loc[o].mine.count + 1 = word.limit
            IN  /\ loc' = [loc EXCEPT ![t].inst = o, ![o].mine.count = @ + 1,
                                      ![o].mine.joined = @ \cup {t}]
                /\ word' = [word EXCEPT !.lock = 0, !.inst = IF complete THEN NoThread ELSE o]
                /\ Goto(t, IF complete THEN "last_unlocks" ELSE "other_unlocks")
    /\ UNCHANGED <<waiters, asleep>>

-----------------------------------------------------------------------------
(* The owner, the last one and the others.                                 *)

\* Mutant of OwnerCounts: the owner looks at `finished' without having counted.
OwnerCountsNot(t) ==
    /\ At(t, "owner_counts")
    /\ Goto(t, "owner_waits")
    /\ UNCHANGED <<word, waiters, asleep, loc>>

OwnerCounts(t) ==
    /\ At(t, "owner_counts")
    /\ SetInst(t, [Inst(t) EXCEPT !.finished = @ + 1])
    /\ Goto(t, "owner_waits")
    /\ UNCHANGED <<word, waiters, asleep>>

\* The owner returns last, with PTHREAD_BARRIER_SERIAL_THREAD.
OwnerWaits(t) ==
    /\ At(t, "owner_waits")
    /\ IF Inst(t).finished = 1
       THEN asleep' = asleep \cup {t} /\ UNCHANGED <<pc, loc>>
       ELSE loc' = [loc EXCEPT ![t] = Idle] /\ Goto(t, "run") /\ UNCHANGED asleep
    /\ UNCHANGED <<word, waiters>>

LastOpens(t) ==
    /\ At(t, "last_opens")
    /\ SetInst(t, [Inst(t) EXCEPT !.last = 1])
    /\ Goto(t, "last_wakes")
    /\ UNCHANGED <<word, waiters, asleep>>

LastWakes(t) ==
    /\ At(t, "last_wakes")
    /\ asleep' = IF Inst(t).waiters > 0
                 THEN {u \in asleep : ~(pc[u] = "other_waits" /\ Owner(u) = Owner(t))}
                 ELSE asleep
    /\ Goto(t, "leave")
    /\ UNCHANGED <<word, waiters, loc>>

OtherSpins(t) ==
    /\ At(t, "other_spins")
    /\ Inst(t).last = 1
    /\ Goto(t, "leave")
    /\ UNCHANGED <<word, waiters, asleep, loc>>

OtherCounts(t) ==
    /\ At(t, "other_spins")
    /\ SetInst(t, [Inst(t) EXCEPT !.waiters = @ + 1])
    /\ Goto(t, "other_waits")
    /\ UNCHANGED <<word, waiters, asleep>>

OtherWaits(t) ==
    /\ At(t, "other_waits")
    /\ IF Inst(t).last = 0 THEN asleep' = asleep \cup {t} /\ UNCHANGED pc
                           ELSE Goto(t, "other_uncount") /\ UNCHANGED asleep
    /\ UNCHANGED <<word, waiters, loc>>

OtherUncounts(t) ==
    /\ At(t, "other_uncount")
    /\ SetInst(t, [Inst(t) EXCEPT !.waiters = @ - 1])
    /\ Goto(t, "leave")
    /\ UNCHANGED <<word, waiters, asleep>>

\* One thread fewer is inside the instance.
Left(t) == [loc EXCEPT ![Owner(t)].mine.count = @ - 1]

Leave(t) ==
    /\ At(t, "leave")
    /\ IF Inst(t).count = 1
       THEN loc' = Left(t) /\ Goto(t, "finish")
       ELSE loc' = [Left(t) EXCEPT ![t].inst = NoThread] /\ Goto(t, "run")
    /\ UNCHANGED <<word, waiters, asleep>>

\* The last one to leave wakes the owner, if it has begun to wait.
Finish(t) ==
    /\ At(t, "finish")
    /\ IF Inst(t).finished # 0
       THEN loc' = [loc EXCEPT ![Owner(t)].mine.finished = @ + 1] /\ Goto(t, "finish_wakes")
       ELSE /\ loc' = [loc EXCEPT ![Owner(t)].mine.finished = @ + 1, ![t].inst = NoThread]
            /\ Goto(t, "run")
    /\ UNCHANGED <<word, waiters, asleep>>

\* The wakeup goes to an address; the owner may have returned already.
FinishWakes(t) ==
    /\ At(t, "finish_wakes")
    /\ asleep' = {u \in asleep : ~(pc[u] = "owner_waits" /\ u = Owner(t))}
    /\ loc' = [loc EXCEPT ![t].inst = NoThread]
    /\ Goto(t, "run")
    /\ UNCHANGED <<word, waiters>>

Steps(t) ==
    \/ LockSwaps(t) \/ LockSpins(t) \/ CountIn(t, "lock_spin", "lock_wait") \/ LockWaits(t)
    \/ CountOut(t, "lock_uncount", "lock") \/ Inside(t) \/ UnlockWakes(t)
    \/ OwnerCounts(t) \/ OwnerWaits(t) \/ LastOpens(t) \/ LastWakes(t)
    \/ OtherSpins(t) \/ OtherCounts(t) \/ OtherWaits(t) \/ OtherUncounts(t)
    \/ Leave(t) \/ Finish(t) \/ FinishWakes(t)

Next == \E t \in Thread : Call(t) \/ Steps(t)

-----------------------------------------------------------------------------
(* Properties.                                                             *)

\* While a thread may still touch the instance, or the barrier in the same round,
\* the owner has not returned: the instance is on the owner's stack, and the
\* owner, the serial thread, may destroy the barrier.
OwnerLeavesLast ==
    \A t \in Thread :
        (Owner(t) # NoThread /\ pc[t] # "finish_wakes") => Owner(Owner(t)) = Owner(t)

\* Nobody passes the barrier before all threads of the round have come to it, and
\* no more than those pass together.
RoundsAreFull ==
    \A t \in Thread :
        Owner(t) # NoThread =>
            /\ Cardinality(Inst(t).joined) <= word.limit + 1
            /\ pc[t] \in {"last_opens", "last_wakes", "leave", "finish"}
                  => Cardinality(Inst(t).joined) = word.limit + 1

\* In the end only the threads of a round that is not full are still there.
Settled(t) ==
    \/ pc[t] = "run"
    \/ Owner(t) # NoThread /\ Cardinality(Inst(t).joined) <= word.limit

=============================================================================
