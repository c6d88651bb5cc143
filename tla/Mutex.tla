------------------------------- MODULE Mutex -------------------------------
(***************************************************************************)
(* A private pthread mutex of any type (musl/src/thread/common), shared by *)
(* threads that run in parallel: every access to the mutex is a step.      *)
(*                                                                         *)
(* _m_lock holds the owner (its tid, or EBUSY for a normal mutex) and, in  *)
(* the sign bit, whether somebody may be asleep on it.  The futex is       *)
(* WebAssembly's: comparing and falling asleep is atomic, and there are no *)
(* spurious wakeups.  Robust and priority-inheriting mutexes cannot be     *)
(* made (the attribute setters refuse), and a mutex is not left locked by  *)
(* a thread that exits.                                                    *)
(***************************************************************************)
EXTENDS Integers, FiniteSets

CONSTANTS
    Thread,
    NoThread,     \* owner field 0
    EBUSY,        \* owner field of a locked normal mutex
    INT_MAX,      \* the limit of _m_count
    MutexTypes    \* the types that pthread_mutex_init may be asked for

ASSUME MutexConstants ==
    /\ IsFiniteSet(Thread)
    /\ NoThread \notin Thread /\ EBUSY \notin Thread /\ EBUSY # NoThread
    /\ INT_MAX \in Nat
    /\ MutexTypes \subseteq {"NORMAL", "RECURSIVE", "ERRORCHECK"}

VARIABLES
    m_type,       \* _m_type, fixed by pthread_mutex_init
    m_lock,       \* _m_lock
    m_waiters,    \* _m_waiters
    m_count,      \* _m_count
    m_asleep,     \* threads asleep on _m_lock
    pc,
    op,           \* which function a thread is in: lock, timed or try
    ret,          \* where that call returns to
    r,            \* the lock word that a locker has read
    wake,         \* an unlocker has seen a waiter
    depth         \* locks minus unlocks, as the application counts them

mutex == <<m_type, m_lock, m_waiters, m_count, m_asleep>>
mvars == <<mutex, pc, op, ret, r, wake, depth>>

Word == [own : Thread \cup {NoThread, EBUSY}, sleepers : BOOLEAN]
Free == [own |-> NoThread, sleepers |-> FALSE]

MutexTypeOK ==
    /\ m_type \in MutexTypes
    /\ m_lock \in Word
    /\ m_waiters \in Nat
    /\ m_count \in 0 .. INT_MAX
    /\ m_asleep \subseteq Thread
    /\ op \in [Thread -> {"lock", "timed", "try"}]
    /\ r \in [Thread -> Word]
    /\ wake \in [Thread -> BOOLEAN]
    /\ depth \in [Thread -> Nat]

MutexInit ==
    /\ m_type \in MutexTypes
    /\ m_lock = Free
    /\ m_waiters = 0
    /\ m_count = 0
    /\ m_asleep = {}
    /\ pc = [t \in Thread |-> "run"]
    /\ op = [t \in Thread |-> "lock"]
    /\ ret = [t \in Thread |-> "run"]
    /\ r = [t \in Thread |-> Free]
    /\ wake = [t \in Thread |-> FALSE]
    /\ depth = [t \in Thread |-> 0]

At(t, where) == pc[t] = where /\ t \notin m_asleep

Goto(t, where) == pc' = [pc EXCEPT ![t] = where]

\* The call returns; its locals get their initial values back.
Return(t) ==
    /\ Goto(t, ret[t])
    /\ ret' = [ret EXCEPT ![t] = "run"]
    /\ op' = [op EXCEPT ![t] = "lock"]
    /\ r' = [r EXCEPT ![t] = Free]
    /\ wake' = [wake EXCEPT ![t] = FALSE]

-----------------------------------------------------------------------------
(* pthread_mutex_lock, _timedlock, _trylock.                               *)

OwnWord(t) == [own |-> IF m_type = "NORMAL" THEN EBUSY ELSE t, sleepers |-> FALSE]

\* A thread that holds a normal mutex locks it again only to wait for ever.
MutexCall(t, o) ==
    /\ At(t, "run")
    /\ m_type = "NORMAL" => depth[t] = 0
    /\ Goto(t, "try")
    /\ op' = [op EXCEPT ![t] = o]
    /\ UNCHANGED <<mutex, ret, r, wake, depth>>

\* trylock, of which the fast path of lock and timedlock is a case.
Try(t) ==
    /\ At(t, "try")
    /\ \/ /\ m_lock = Free
          /\ m_lock' = OwnWord(t)
          /\ depth' = [depth EXCEPT ![t] = @ + 1]
          /\ Return(t)
          /\ UNCHANGED <<m_waiters, m_count>>
       \/ /\ m_type = "RECURSIVE" /\ m_lock.own = t
          /\ IF m_count >= INT_MAX
             THEN UNCHANGED <<m_count, depth>>
             ELSE m_count' = m_count + 1 /\ depth' = [depth EXCEPT ![t] = @ + 1]
          /\ Return(t)
          /\ UNCHANGED <<m_lock, m_waiters>>
       \/ /\ m_lock # Free
          /\ ~(m_type = "RECURSIVE" /\ m_lock.own = t)
          /\ IF op[t] = "try" THEN Return(t) ELSE Goto(t, "read") /\ UNCHANGED <<op, ret, r, wake>>
          /\ UNCHANGED <<m_lock, m_waiters, m_count, depth>>
    /\ UNCHANGED <<m_type, m_asleep>>

\* The word may have become free; EDEADLK for an error-checking owner.
Read(t) ==
    /\ At(t, "read")
    /\ IF m_lock = Free
       THEN Goto(t, "try") /\ UNCHANGED <<op, ret, r, wake>>
       ELSE IF m_type = "ERRORCHECK" /\ m_lock.own = t
            THEN Return(t)
            ELSE /\ r' = [r EXCEPT ![t] = m_lock]
                 /\ Goto(t, "count")
                 /\ UNCHANGED <<op, ret, wake>>
    /\ UNCHANGED <<mutex, depth>>

CountWaiter(t) ==
    /\ At(t, "count")
    /\ m_waiters' = m_waiters + 1
    /\ Goto(t, "mark")
    /\ UNCHANGED <<m_type, m_lock, m_count, m_asleep, op, ret, r, wake, depth>>

Marked(w) == [w EXCEPT !.sleepers = TRUE]

\* The sign bit is set only if the word is still the one that was read.
Mark(t) ==
    /\ At(t, "mark")
    /\ m_lock' = IF m_lock = r[t] THEN Marked(m_lock) ELSE m_lock
    /\ r' = [r EXCEPT ![t] = Marked(@)]
    /\ Goto(t, "wait")
    /\ UNCHANGED <<m_type, m_waiters, m_count, m_asleep, op, ret, wake, depth>>

Wait(t) ==
    /\ At(t, "wait")
    /\ m_asleep' = IF m_lock = r[t] THEN m_asleep \cup {t} ELSE m_asleep
    /\ Goto(t, "uncount")
    /\ r' = [r EXCEPT ![t] = Free]
    /\ UNCHANGED <<m_type, m_lock, m_waiters, m_count, op, ret, wake, depth>>

UncountWaiter(t) ==
    /\ At(t, "uncount")
    /\ m_waiters' = m_waiters - 1
    /\ Goto(t, "try")
    /\ UNCHANGED <<m_type, m_lock, m_count, m_asleep, op, ret, r, wake, depth>>

\* The deadline passes while the thread is asleep: ETIMEDOUT after the count.
TimesOut(t) ==
    /\ t \in m_asleep /\ op[t] = "timed"
    /\ m_asleep' = m_asleep \ {t}
    /\ Goto(t, "timedout")
    /\ UNCHANGED <<m_type, m_lock, m_waiters, m_count, op, ret, r, wake, depth>>

UncountTimedOut(t) ==
    /\ At(t, "timedout")
    /\ m_waiters' = m_waiters - 1
    /\ Return(t)
    /\ UNCHANGED <<m_type, m_lock, m_count, m_asleep, depth>>

-----------------------------------------------------------------------------
(* pthread_mutex_unlock.  The waiters are counted before the lock is given *)
(* up, since afterwards the mutex may be gone.                             *)

UnlockReads(t, after) ==
    \/ /\ m_type # "NORMAL" /\ m_lock.own # t
       /\ Goto(t, after)
       /\ UNCHANGED <<mutex, op, ret, r, wake, depth>>
    \/ /\ m_type = "RECURSIVE" /\ m_lock.own = t /\ m_count # 0
       /\ m_count' = m_count - 1
       /\ depth' = [depth EXCEPT ![t] = @ - 1]
       /\ Goto(t, after)
       /\ UNCHANGED <<m_type, m_lock, m_waiters, m_asleep, op, ret, r, wake>>
    \/ /\ m_type # "NORMAL" => m_lock.own = t
       /\ m_type = "RECURSIVE" => m_count = 0
       /\ wake' = [wake EXCEPT ![t] = m_waiters # 0]
       /\ ret' = [ret EXCEPT ![t] = after]
       /\ depth' = [depth EXCEPT ![t] = @ - 1]
       /\ Goto(t, "unlock")
       /\ UNCHANGED <<mutex, op, r>>

\* A normal mutex is unlocked by the thread that has locked it.
MutexUnlock(t) ==
    /\ At(t, "run")
    /\ m_type = "NORMAL" => depth[t] > 0
    /\ UnlockReads(t, "run")

\* Mutant of UnlockSwaps: only the waiters that were counted are woken.
UnlockStores(t) ==
    /\ At(t, "unlock")
    /\ m_lock' = Free
    /\ Goto(t, "wake")
    /\ UNCHANGED <<m_type, m_waiters, m_count, m_asleep, op, ret, r, wake, depth>>

UnlockSwaps(t) ==
    /\ At(t, "unlock")
    /\ m_lock' = Free
    /\ wake' = [wake EXCEPT ![t] = @ \/ m_lock.sleepers]
    /\ Goto(t, "wake")
    /\ UNCHANGED <<m_type, m_waiters, m_count, m_asleep, op, ret, r, depth>>

UnlockWakes(t) ==
    /\ At(t, "wake")
    /\ IF wake[t] /\ m_asleep # {}
       THEN \E u \in m_asleep : m_asleep' = m_asleep \ {u}
       ELSE UNCHANGED m_asleep
    /\ Return(t)
    /\ UNCHANGED <<m_type, m_lock, m_waiters, m_count, depth>>

-----------------------------------------------------------------------------
MutexStep(t) ==
    \/ Try(t) \/ Read(t) \/ CountWaiter(t) \/ Mark(t) \/ Wait(t)
    \/ UncountWaiter(t) \/ UncountTimedOut(t)
    \/ UnlockSwaps(t) \/ UnlockWakes(t)

MutexNext ==
    \E t \in Thread :
        \/ \E o \in {"lock", "timed", "try"} : MutexCall(t, o)
        \/ MutexUnlock(t)
        \/ TimesOut(t)
        \/ MutexStep(t)

MutexSpec == MutexInit /\ [][MutexNext]_mvars

-----------------------------------------------------------------------------
(* Properties.                                                             *)

\* A thread that has locked the mutex and not begun to give it up.
Holds(t) == depth[t] > 0 \/ pc[t] = "unlock"

\* One thread at a time is between its lock and its unlock, and the lock word
\* says so, with the owner and the recursion count of the mutexes that keep them.
MutexExcludes ==
    /\ \A t, u \in Thread : Holds(t) /\ Holds(u) => t = u
    /\ \A t \in Thread :
          Holds(t) => /\ m_lock.own = OwnWord(t).own
                      /\ depth[t] > 0 => depth[t] = m_count + 1
    /\ (\A t \in Thread : ~Holds(t)) => m_lock = Free /\ m_count = 0

\* Between a lock that becomes free and a thread asleep on it there is always
\* somebody awake who will wake it or take the lock: the unlocker that counted the
\* waiters too early is told by the sign bit.
NobodyOversleeps ==
    (m_asleep # {} /\ m_lock = Free)
        => \E t \in Thread :
             \/ pc[t] = "wake" /\ wake[t]
             \/ t \notin m_asleep /\ pc[t] \in {"uncount", "try", "read"}

=============================================================================
