---------------------------- MODULE WasiThreads ----------------------------
(***************************************************************************)
(* Creation, exit, join and detach of preemptive threads (wasip1-threads:  *)
(* musl/src/thread/wasi-threads), with the thread list lock under them.    *)
(* Threads run in parallel on shared memory, so every access to a word     *)
(* that others use without the list lock is a step of its own; what is     *)
(* touched only under the list lock is one step.                           *)
(*                                                                         *)
(* A thread is identified with its block (stack, TLS, struct pthread) and  *)
(* with its host-given tid, so that a tid comes back with a new thread.    *)
(* An exiting thread does not release the list lock in C: the assembly     *)
(* that called it does, when the stack is no longer in use.  main never    *)
(* leaves the list, since its return ends the program.  The application    *)
(* keeps POSIX's contract: a thread is joined or detached by one thread    *)
(* at a time, and not again once that has succeeded.                       *)
(***************************************************************************)
EXTENDS Integers, FiniteSets

CONSTANTS
    Thread,       \* threads, each identified with its block and its tid
    NoThread,     \* tid 0, and the absence of a thread
    main,         \* the initial thread
    OwnStack,     \* threads that may also run on a stack of the caller's
    MaxLeaving    \* bound on the threads between the two last instructions

ASSUME ConstantsOK ==
    /\ main \in Thread
    /\ OwnStack \subseteq Thread
    /\ NoThread \notin Thread
    /\ IsFiniteSet(Thread)
    /\ MaxLeaving \in Nat \ {0}

VARIABLES
    list_lock,        \* __thread_list_lock: the tid of its holder
    tl_lock_count,
    tl_lock_waiters,
    tid,              \* the tid field of each struct pthread
    list,             \* threads on the list
    threads_minus_1,
    need_locks,
    detach_state,
    mem,              \* blocks that are in use
    mapped,           \* threads with a map_base: the block is the library's
    deferred,         \* map_base_deferred_free
    pc,
    ret,              \* where a call of __tl_lock, __tl_unlock or __wait returns to
    target,           \* the thread that a thread creates, joins or detaches
    val,              \* the lock word that __wait compares with
    state,            \* the detach state that a join or an exit has read
    list_asleep,      \* threads asleep on the list lock
    join_asleep,      \* threads asleep on the detach state of their target
    leaving,          \* threads that have released the list lock in assembly
    joinable          \* threads that the application may still join or detach

listlock == <<list_lock, tl_lock_count, tl_lock_waiters>>
listvars == <<list, threads_minus_1, need_locks>>
memvars  == <<mem, mapped, deferred>>
sleepers == <<list_asleep, join_asleep, leaving>>
local    == <<ret, target, val, state>>
vars == <<listlock, tid, listvars, detach_state,
          memvars, pc, local, sleepers, joinable>>

DetachState == {"DT_EXITED", "DT_EXITING", "DT_JOINABLE", "DT_DETACHED"}

TypeOK ==
    /\ list_lock \in Thread \cup {NoThread}
    /\ tl_lock_count \in Nat
    /\ tl_lock_waiters \in Nat
    /\ tid \in [Thread -> Thread \cup {NoThread}]
    /\ list \subseteq Thread
    /\ threads_minus_1 \in Int
    /\ need_locks \in {-1, 0, 1}
    /\ detach_state \in [Thread -> DetachState]
    /\ mem \subseteq Thread
    /\ mapped \subseteq Thread
    /\ deferred \in Thread \cup {NoThread}
    /\ target \in [Thread -> Thread \cup {NoThread}]
    /\ val \in [Thread -> Thread \cup {NoThread}]
    /\ state \in [Thread -> DetachState]
    /\ list_asleep \subseteq Thread
    /\ join_asleep \subseteq Thread
    /\ leaving \in 0 .. MaxLeaving
    /\ joinable \subseteq Thread

Init ==
    /\ list_lock = NoThread
    /\ tl_lock_count = 0
    /\ tl_lock_waiters = 0
    /\ tid = [t \in Thread |-> IF t = main THEN main ELSE NoThread]
    /\ list = {main}
    /\ threads_minus_1 = 0
    /\ need_locks = 0
    /\ detach_state = [t \in Thread |-> "DT_JOINABLE"]
    /\ mem = {main}
    /\ mapped = {}
    /\ deferred = NoThread
    /\ pc = [t \in Thread |-> IF t = main THEN "run" ELSE "none"]
    /\ ret = [t \in Thread |-> "run"]
    /\ target = [t \in Thread |-> NoThread]
    /\ val = [t \in Thread |-> NoThread]
    /\ state = [t \in Thread |-> "DT_JOINABLE"]
    /\ list_asleep = {}
    /\ join_asleep = {}
    /\ leaving = 0
    /\ joinable = {}

Goto(t, where) == pc' = [pc EXCEPT ![t] = where]

\* t calls a function that returns to `after'.
CallThen(t, callee, after) ==
    /\ Goto(t, callee)
    /\ ret' = [ret EXCEPT ![t] = after]

\* It returns.  Locals that are no longer used get their initial values back.
Return(t) == CallThen(t, ret[t], "run")

Forget(var, t, initially) == [var EXCEPT ![t] = initially]

At(t, where) == pc[t] = where /\ t \notin list_asleep \cup join_asleep

-----------------------------------------------------------------------------
(* __tl_lock, __tl_unlock, __tl_sync, and __wait on the list lock.         *)

\* The thread has stored its own tid before its first call, and only stores of
\* the same value compete with that one, so it matters not when the tid is read.
TlLock(t) ==
    /\ At(t, "tl_lock")
    /\ IF list_lock = tid[t]
       THEN /\ tl_lock_count' = tl_lock_count + 1
            /\ Return(t)
            /\ UNCHANGED <<list_lock, val>>
       ELSE /\ IF list_lock = NoThread
               THEN list_lock' = tid[t] /\ Return(t) /\ UNCHANGED val
               ELSE /\ val' = [val EXCEPT ![t] = list_lock]
                    /\ Goto(t, "wait")
                    /\ UNCHANGED <<list_lock, ret>>
            /\ UNCHANGED tl_lock_count
    /\ UNCHANGED <<tl_lock_waiters, tid, listvars, detach_state, memvars, target, state,
                   sleepers, joinable>>

\* Mutant of AfterWait: __tl_sync does not pass the wakeup on.
AfterWaitSilent(t) == IF ret[t] = "join_free" THEN "join_free" ELSE "tl_lock"

\* Mutant of AfterWait: __tl_lock takes a wakeup for the lock.
AfterWaitAssumes(t) == IF ret[t] = "join_free" THEN "sync_wake" ELSE ret[t]

\* __tl_lock tries again; __tl_sync is done but for a wakeup.
AfterWait(t) == IF ret[t] = "join_free" THEN "sync_wake" ELSE "tl_lock"

\* Spinning sees the word change.
WaitSpins(t) ==
    /\ At(t, "wait")
    /\ list_lock # val[t]
    /\ Goto(t, AfterWait(t))
    /\ val' = Forget(val, t, NoThread)
    /\ UNCHANGED <<listlock, tid, listvars, detach_state, memvars, ret, target, state,
                   sleepers, joinable>>

WaitCounted(t) ==
    /\ At(t, "wait")
    /\ tl_lock_waiters' = tl_lock_waiters + 1
    /\ Goto(t, "wait_loop")
    /\ UNCHANGED <<list_lock, tl_lock_count, tid, listvars, detach_state, memvars, local,
                   sleepers, joinable>>

\* memory.atomic.wait32 compares and sleeps at once.
WaitLoop(t) ==
    /\ At(t, "wait_loop")
    /\ IF list_lock = val[t]
       THEN list_asleep' = list_asleep \cup {t} /\ UNCHANGED pc
       ELSE Goto(t, "wait_end") /\ UNCHANGED list_asleep
    /\ UNCHANGED <<listlock, tid, listvars, detach_state,
                   memvars, local, join_asleep, leaving, joinable>>

WaitEnds(t) ==
    /\ At(t, "wait_end")
    /\ tl_lock_waiters' = tl_lock_waiters - 1
    /\ Goto(t, AfterWait(t))
    /\ val' = Forget(val, t, NoThread)
    /\ UNCHANGED <<list_lock, tl_lock_count, tid, listvars, detach_state, memvars, ret, target,
                   state, sleepers, joinable>>

\* memory.atomic.notify of one thread.
NotifyOne ==
    \/ list_asleep = {} /\ UNCHANGED list_asleep
    \/ \E u \in list_asleep : list_asleep' = list_asleep \ {u}

\* __tl_unlock, on the way to `after'; the wakeup is a step of its own.
ReleaseList(t, after) ==
    IF tl_lock_count > 0
    THEN tl_lock_count' = tl_lock_count - 1 /\ Goto(t, after) /\ UNCHANGED <<list_lock, ret>>
    ELSE list_lock' = NoThread /\ CallThen(t, "tl_wake", after) /\ UNCHANGED tl_lock_count

\* if (tl_lock_waiters) __wake(...), at the end of __tl_unlock and of __tl_sync.
TlWake(t) ==
    /\ At(t, "tl_wake") \/ At(t, "sync_wake")
    /\ IF tl_lock_waiters # 0 THEN NotifyOne ELSE UNCHANGED list_asleep
    /\ Return(t)
    /\ UNCHANGED <<listlock, tid, listvars, detach_state,
                   memvars, target, val, state, join_asleep, leaving, joinable>>

\* Mutant of TlSync: the joiner does not wait for the list lock.
TlSyncNever(t) ==
    /\ At(t, "tl_sync")
    /\ Goto(t, "join_free")
    /\ UNCHANGED <<listlock, tid, listvars, detach_state, memvars, local, sleepers, joinable>>

TlSync(t) ==
    /\ At(t, "tl_sync")
    /\ IF list_lock = NoThread
       THEN Goto(t, "join_free") /\ UNCHANGED <<val, ret>>
       ELSE /\ val' = [val EXCEPT ![t] = list_lock]
            /\ CallThen(t, "wait", "join_free")
    /\ UNCHANGED <<listlock, tid, listvars, detach_state,
                   memvars, target, state, sleepers, joinable>>

\* Blocks are freed down to `blocks'; what a free block holds is of no interest.
KeepOnly(blocks) ==
    /\ mem' = blocks
    /\ mapped' = mapped \cap blocks
    /\ detach_state' = [u \in Thread |-> IF u \in blocks THEN detach_state[u] ELSE "DT_JOINABLE"]

-----------------------------------------------------------------------------
(* pthread_create.                                                         *)

\* On a stack of the caller's no block is needed.  The caller gets the stack back
\* with a join, and never knows when a detached thread is done with it.
CreateOnStack(t, u, initial) ==
    /\ At(t, "run")
    /\ u \in OwnStack \ mem
    /\ mem' = mem \cup {u}
    /\ detach_state' = [detach_state EXCEPT ![u] = initial]
    /\ tid' = [tid EXCEPT ![u] = NoThread]
    /\ target' = [target EXCEPT ![t] = u]
    /\ CallThen(t, "tl_lock", "create_spawn")
    /\ UNCHANGED <<listlock, listvars, mapped, deferred, val, state,
                   sleepers, joinable>>

\* Otherwise the deferred block is freed first, under the list lock.
Create(t, initial) ==
    /\ At(t, "run")
    /\ state' = [state EXCEPT ![t] = initial]
    /\ CallThen(t, "tl_lock", "create_free")
    /\ UNCHANGED <<listlock, tid, listvars, detach_state,
                   memvars, target, val, sleepers, joinable>>

\* process_map_base_deferred_free.
AfterDeferredFree == mem \ {deferred}

CreateFree(t) ==
    /\ At(t, "create_free")
    /\ KeepOnly(AfterDeferredFree)
    /\ deferred' = NoThread
    /\ ReleaseList(t, "create_malloc")
    /\ UNCHANGED <<tl_lock_waiters, tid, listvars, target, val, state,
                   sleepers, joinable>>

CreateMalloc(t, u) ==
    /\ At(t, "create_malloc")
    /\ u \notin mem
    /\ mem' = mem \cup {u}
    /\ mapped' = mapped \cup {u}
    /\ detach_state' = [detach_state EXCEPT ![u] = state[t]]
    /\ tid' = [tid EXCEPT ![u] = NoThread]
    /\ target' = [target EXCEPT ![t] = u]
    /\ state' = Forget(state, t, "DT_JOINABLE")
    /\ CallThen(t, "tl_lock", "create_spawn")
    /\ UNCHANGED <<listlock, listvars, deferred, val, sleepers, joinable>>

\* EAGAIN.
CreateNoMemory(t) ==
    /\ At(t, "create_malloc")
    /\ state' = Forget(state, t, "DT_JOINABLE")
    /\ Goto(t, "run")
    /\ UNCHANGED <<listlock, tid, listvars, detach_state, memvars, ret, target, val,
                   sleepers, joinable>>

CountThread ==
    /\ threads_minus_1' = threads_minus_1 + 1
    /\ need_locks' = IF threads_minus_1 = 0 THEN 1 ELSE need_locks

\* __wasi_thread_spawn returns a tid: the new thread runs.
CreateSpawn(t) ==
    LET u == target[t]
    IN  /\ At(t, "create_spawn")
        /\ CountThread
        /\ pc' = [pc EXCEPT ![t] = "create_link", ![u] = "start"]
        /\ joinable' = IF detach_state[u] = "DT_JOINABLE" THEN joinable \cup {u} ELSE joinable
        /\ UNCHANGED <<listlock, tid, list, detach_state,
                       memvars, local, sleepers>>

\* The parent stores the tid as the child does, and links the child.
CreateLink(t) ==
    LET u == target[t]
    IN  /\ At(t, "create_link")
        /\ tid' = [tid EXCEPT ![u] = u]
        /\ list' = list \cup {u}
        /\ ReleaseList(t, "create_end")
        /\ UNCHANGED <<tl_lock_waiters, threads_minus_1, need_locks, detach_state, memvars,
                       target, val, state, sleepers, joinable>>

\* __wasi_thread_spawn fails: the count goes back and the block is freed.
CreateFails(t) ==
    /\ At(t, "create_spawn")
    /\ need_locks' = IF threads_minus_1 = 0 THEN 0 ELSE need_locks
    /\ ReleaseList(t, "create_undo")
    /\ UNCHANGED <<tl_lock_waiters, tid, list, threads_minus_1, detach_state, memvars, target,
                   val, state, sleepers, joinable>>

CreateReturns(t) ==
    /\ At(t, "create_end") \/ At(t, "create_undo")
    /\ KeepOnly(IF pc[t] = "create_undo" THEN mem \ {target[t]} ELSE mem)
    /\ Goto(t, "run")
    /\ target' = [target EXCEPT ![t] = NoThread]
    /\ UNCHANGED <<listlock, tid, listvars, deferred, ret, val, state, sleepers, joinable>>

-----------------------------------------------------------------------------
(* The new thread, and __pthread_exit.                                     *)

\* __wasi_thread_start_C, which races with the parent's store of the tid.
Start(t) ==
    /\ At(t, "start")
    /\ tid' = [tid EXCEPT ![t] = t]
    /\ Goto(t, "run")
    /\ UNCHANGED <<listlock, listvars, detach_state, memvars,
                   local, sleepers, joinable>>

\* The start function returns.  The compare-and-swap competes with a detach.
Exit(t) ==
    /\ At(t, "run")
    /\ t # main
    /\ state' = [state EXCEPT ![t] = detach_state[t]]
    /\ detach_state' = IF detach_state[t] = "DT_JOINABLE"
                       THEN [detach_state EXCEPT ![t] = "DT_EXITING"]
                       ELSE detach_state
    /\ CallThen(t, "tl_lock", "exit_unlink")
    /\ UNCHANGED <<listlock, tid, listvars, memvars, target,
                   val, sleepers, joinable>>

DiscountThread ==
    /\ threads_minus_1' = threads_minus_1 - 1
    /\ need_locks' = IF threads_minus_1 = 1 THEN -1 ELSE need_locks

\* Everything up to the store that lets a joiner go on.  A detached thread
\* frees the deferred block and leaves its own instead.
ExitUnlink(t) ==
    /\ At(t, "exit_unlink")
    /\ tid' = [tid EXCEPT ![t] = NoThread]
    /\ DiscountThread
    /\ list' = list \ {t}
    /\ IF state[t] = "DT_DETACHED" /\ t \in mapped
       THEN /\ KeepOnly(AfterDeferredFree)
            /\ deferred' = t
            /\ Goto(t, "asm_unlock")
       ELSE Goto(t, "exit_store") /\ UNCHANGED <<detach_state, memvars>>
    /\ state' = Forget(state, t, "DT_JOINABLE")
    /\ UNCHANGED <<listlock, ret, target, val, sleepers, joinable>>

ExitStore(t) ==
    /\ At(t, "exit_store")
    /\ detach_state' = [detach_state EXCEPT ![t] = "DT_EXITED"]
    /\ Goto(t, "exit_wake")
    /\ UNCHANGED <<listlock, tid, listvars, memvars, local,
                   sleepers, joinable>>

ExitWake(t) ==
    /\ At(t, "exit_wake")
    /\ join_asleep' = {j \in join_asleep : target[j] # t}
    /\ Goto(t, "asm_unlock")
    /\ UNCHANGED <<listlock, tid, listvars, detach_state,
                   memvars, local, list_asleep, leaving, joinable>>

\* wasi_thread_start, after the C code: the list lock is released and one waiter
\* notified, without a stack.
AsmUnlock(t) ==
    /\ At(t, "asm_unlock")
    /\ leaving < MaxLeaving
    /\ list_lock' = NoThread
    /\ leaving' = leaving + 1
    /\ Goto(t, "none")
    /\ UNCHANGED <<tl_lock_count, tl_lock_waiters, tid, listvars, detach_state, memvars,
                   local, list_asleep, join_asleep, joinable>>

AsmNotify ==
    /\ leaving > 0
    /\ leaving' = leaving - 1
    /\ NotifyOne
    /\ UNCHANGED <<listlock, tid, listvars, detach_state,
                   memvars, pc, local, join_asleep, joinable>>

-----------------------------------------------------------------------------
(* pthread_join and pthread_detach.                                        *)

\* The contract: nobody has joined or detached u or is doing so.  A thread may
\* have passed its own pthread_t on before its creator has it.
MayClaim(t, u) ==
    /\ At(t, "run")
    /\ u \in joinable
    /\ pc[u] = "start" => \A v \in Thread : target[v] # u

Join(t, u) ==
    /\ MayClaim(t, u)
    /\ t # u
    /\ joinable' = joinable \ {u}
    /\ target' = [target EXCEPT ![t] = u]
    /\ Goto(t, "join_read")
    /\ UNCHANGED <<listlock, tid, listvars, detach_state,
                   memvars, ret, val, state, sleepers>>

JoinRead(t) ==
    LET st == detach_state[target[t]]
    IN  /\ At(t, "join_read")
        /\ \/ st = "DT_EXITED" /\ Goto(t, "tl_sync") /\ UNCHANGED state
           \/ st = "DT_DETACHED" /\ Goto(t, "crash") /\ UNCHANGED state
           \/ /\ st \in {"DT_JOINABLE", "DT_EXITING"}
              /\ Goto(t, "join_wait")
              /\ state' = [state EXCEPT ![t] = st]
        /\ UNCHANGED <<listlock, tid, listvars, detach_state, memvars, ret, target, val,
                       sleepers, joinable>>

JoinWait(t) ==
    /\ At(t, "join_wait")
    /\ join_asleep' = IF detach_state[target[t]] = state[t] THEN join_asleep \cup {t}
                                                             ELSE join_asleep
    /\ state' = Forget(state, t, "DT_JOINABLE")
    /\ Goto(t, "join_read")
    /\ UNCHANGED <<listlock, tid, listvars, detach_state, memvars, ret, target, val,
                   list_asleep, leaving, joinable>>

\* The deadline passes: ETIMEDOUT, whatever the state has become.
JoinTimesOut(t) ==
    /\ t \in join_asleep
    /\ join_asleep' = join_asleep \ {t}
    /\ Goto(t, "run")
    /\ joinable' = joinable \cup {target[t]}
    /\ target' = [target EXCEPT ![t] = NoThread]
    /\ UNCHANGED <<listlock, tid, listvars, detach_state,
                   memvars, ret, val, state, list_asleep, leaving>>

JoinFree(t) ==
    /\ At(t, "join_free")
    /\ KeepOnly(mem \ {target[t]})
    /\ Goto(t, "run")
    /\ target' = [target EXCEPT ![t] = NoThread]
    /\ UNCHANGED <<listlock, tid, listvars, deferred, ret, val, state, sleepers, joinable>>

\* Mutant of Detach: the state is stored, not compared and swapped.
DetachBlindly(t, u) ==
    /\ MayClaim(t, u)
    /\ joinable' = joinable \ {u}
    /\ detach_state' = [detach_state EXCEPT ![u] = "DT_DETACHED"]
    /\ UNCHANGED <<listlock, tid, listvars, memvars, pc, local,
                   sleepers>>

\* The compare-and-swap competes with the thread's exit; the loser cleans up.
Detach(t, u) ==
    /\ MayClaim(t, u)
    /\ joinable' = joinable \ {u}
    /\ IF detach_state[u] = "DT_JOINABLE"
       THEN /\ detach_state' = [detach_state EXCEPT ![u] = "DT_DETACHED"]
            /\ UNCHANGED <<pc, target>>
       ELSE /\ target' = [target EXCEPT ![t] = u]
            /\ Goto(t, "join_read")
            /\ UNCHANGED detach_state
    /\ UNCHANGED <<listlock, tid, listvars, memvars, ret, val,
                   state, sleepers>>

-----------------------------------------------------------------------------
(* need_locks, as every other user of __lock reads and resets it.          *)

LockSeesLast(t) ==
    /\ At(t, "run")
    /\ need_locks < 0
    /\ Goto(t, "lock_reset")
    /\ UNCHANGED <<listlock, tid, listvars, detach_state,
                   memvars, local, sleepers, joinable>>

LockReset(t) ==
    /\ At(t, "lock_reset")
    /\ need_locks' = 0
    /\ Goto(t, "run")
    /\ UNCHANGED <<listlock, tid, list, threads_minus_1,
                   detach_state, memvars, local, sleepers, joinable>>

-----------------------------------------------------------------------------
\* What the application decides to do.
Call(t) ==
    \/ \E initial \in {"DT_JOINABLE", "DT_DETACHED"} :
          \/ Create(t, initial)
          \/ \E u \in OwnStack : CreateOnStack(t, u, initial)
    \/ Exit(t)
    \/ \E u \in Thread : Join(t, u) \/ Detach(t, u)
    \/ LockSeesLast(t)

\* What the library then does.
Step(t) ==
    \/ TlLock(t) \/ WaitCounted(t) \/ WaitSpins(t) \/ WaitLoop(t) \/ WaitEnds(t)
    \/ TlWake(t) \/ TlSync(t)
    \/ CreateFree(t) \/ CreateNoMemory(t) \/ CreateSpawn(t) \/ CreateFails(t)
    \/ CreateLink(t) \/ CreateReturns(t)
    \/ \E u \in Thread : CreateMalloc(t, u)
    \/ Start(t) \/ ExitUnlink(t) \/ ExitStore(t) \/ ExitWake(t) \/ AsmUnlock(t)
    \/ JoinRead(t) \/ JoinWait(t) \/ JoinFree(t)
    \/ LockReset(t)

Next ==
    \/ \E t \in Thread : Call(t) \/ Step(t) \/ JoinTimesOut(t)
    \/ AsmNotify

Spec == Init /\ [][Next]_vars /\ WF_vars(AsmNotify) /\ \A t \in Thread : WF_vars(Step(t))

-----------------------------------------------------------------------------
(* Properties.                                                             *)

Gone(t) == pc[t] = "none"
HoldsList(t) ==
    pc[t] \in {"create_free", "create_spawn", "create_link", "exit_unlink", "exit_store",
                  "exit_wake", "asm_unlock"}

\* At most one thread works on the thread list and the lock word names it, up to
\* the assembly that releases the lock for an exited thread; __tl_lock never takes
\* itself for the holder.
ListLockExcludes ==
    /\ \A t, u \in Thread : HoldsList(t) /\ HoldsList(u) => t = u
    /\ \A t \in Thread : HoldsList(t) => list_lock = t
    /\ tl_lock_count = 0

\* The block of a thread stays allocated until the assembly has released the list
\* lock, which is past the last use of its stack: neither the joiner nor a later
\* exit or creation frees it earlier.
StackOutlivesThread == \A t \in Thread : ~Gone(t) => t \in mem

\* A thread that has left the list has no tid: the parent's store cannot come
\* after the exit's, since both are under the list lock.
TidIsCleared ==
    \A t \in mem : pc[t] \in {"none", "exit_store", "exit_wake", "asm_unlock"}
                    => tid[t] = NoThread

\* When two threads can take locks, locking is on: neither the exit of the last
\* other thread nor the delayed reset in __lock undoes a later creation.
LockingIsOn ==
    Cardinality({t \in Thread : pc[t] \notin {"none", "exit_store", "exit_wake", "asm_unlock"}}) > 1
        => need_locks = 1

\* Whoever does not work on the list finds the count of threads equal to the list.
CountIsLength ==
    (\A t \in Thread : ~HoldsList(t)) => threads_minus_1 = Cardinality(list) - 1

\* The thread list and what is said of it agree, although creations, exits and failed
\* creations come in any order.
ListIsExact == TypeOK /\ ListLockExcludes /\ TidIsCleared /\ CountIsLength /\ LockingIsOn

\* No block is lost and none is freed twice: a block that is allocated belongs to
\* a thread that runs or is being created, or has exited and can be joined or is
\* being joined, or is the deferred one.  A detached thread on its own stack
\* leaves the stack to its owner.
BlocksAreOwned ==
    \A u \in mem \cap mapped :
        \/ ~Gone(u)
        \/ u = deferred
        \/ u \in joinable
        \/ \E t \in Thread : target[t] = u

\* When the application makes no new calls, every thread leaves the library, but
\* for those joining a thread that runs: no wakeup of the list lock is lost, even
\* if it went to a thread that only synchronises with an exit.
CallsReturn ==
    (<>[][\A t \in Thread : pc[t] = "run" => pc'[t] = "run"]_vars)
        => <>[](\A t \in Thread :
                  \/ pc[t] \in {"none", "run"}
                  \/ /\ t \in join_asleep
                     /\ pc[target[t]] = "run" \/ target[t] \in join_asleep)

=============================================================================
