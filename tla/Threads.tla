------------------------------ MODULE Threads ------------------------------
(***************************************************************************)
(* Creation, exit, join and detach of cooperative threads                  *)
(* (musl/src/thread/coop-threads/pthread_{create,join,detach}.c), on top   *)
(* of the futex that AbstractFutex describes.  A thread's stack, its TLS   *)
(* and its struct pthread are one malloc'd block, which whoever reaps the  *)
(* thread frees; a detached thread leaves its block to a later create or   *)
(* exit, because it cannot free the stack it runs on.                      *)
(*                                                                         *)
(* Threads switch only where they suspend, so a call is one step, or two   *)
(* when a join sleeps in between.  The eager switch of pthread_create to   *)
(* the new thread is one of the schedules.  Calls that return an error and *)
(* change nothing (EINVAL, EBUSY) are left out, as they are stuttering.    *)
(* The application keeps POSIX's contract: a thread is joined or detached  *)
(* by one thread at a time, and not again once that has succeeded.         *)
(***************************************************************************)
EXTENDS Naturals, FiniteSets

CONSTANTS
    Thread,       \* threads, each identified with its block
    NoThread,
    main,         \* the initial thread
    OwnStack      \* threads without map_base: main, and stacks of the caller

ASSUME ConstantsOK ==
    /\ main \in OwnStack
    /\ OwnStack \subseteq Thread
    /\ NoThread \notin Thread

VARIABLES
    running,       \* threads that have been created and have not ended
    mem,           \* blocks that are allocated
    detach_state,
    joiner_futex,
    deferred,      \* map_base_deferred_free
    target,        \* the thread that each thread is waiting to join
    asleep, notified, result

futex == <<asleep, notified, result>>
vars  == <<running, mem, detach_state, joiner_futex, deferred, target, futex>>

F == INSTANCE AbstractFutex
        WITH Addr <- Thread, Error <- {"ENOMEM", "-ETIMEDOUT"}

\* DT_EXITING is set and replaced within one step.
TypeOK ==
    /\ running \subseteq Thread
    /\ mem \subseteq Thread
    /\ detach_state \in [Thread -> {"DT_EXITED", "DT_JOINABLE", "DT_DETACHED"}]
    /\ joiner_futex \in [Thread -> {0, 1}]
    /\ deferred \in Thread \cup {NoThread}
    /\ target \in [Thread -> Thread \cup {NoThread}]
    /\ asleep \in [Thread -> SUBSET Thread]
    /\ notified \subseteq Thread
    /\ result \in {"0", "ENOMEM", "-ETIMEDOUT"}

Init ==
    /\ running = {main}
    /\ mem = {main}
    /\ detach_state = [t \in Thread |-> "DT_JOINABLE"]
    /\ joiner_futex = [t \in Thread |-> 0]
    /\ deferred = NoThread
    /\ target = [t \in Thread |-> NoThread]
    /\ F!Init

CanRun(t) == t \in running /\ ~F!Sleeping(t)

-----------------------------------------------------------------------------
(* Creation and exit.                                                      *)

\* Mutant of AfterDeferredFree: the pointer is cleared and nothing freed.
DeferredForgotten == mem

\* process_map_base_deferred_free.
AfterDeferredFree == mem \ {deferred}

\* The new block is malloc'd after the deferred one is freed, and may be it.
Create(t, u, state) ==
    /\ CanRun(t)
    /\ u \notin running
    /\ IF u \in OwnStack
       THEN u \notin mem /\ mem' = mem \cup {u} /\ UNCHANGED deferred
       ELSE /\ u \notin AfterDeferredFree
            /\ mem' = AfterDeferredFree \cup {u}
            /\ deferred' = NoThread
    /\ running' = running \cup {u}
    /\ detach_state' = [detach_state EXCEPT ![u] = state]
    /\ joiner_futex' = [joiner_futex EXCEPT ![u] = 0]
    /\ UNCHANGED <<target, futex>>

\* malloc or thread.new-indirect fails; a block that was allocated is freed.
CreateFails(t) ==
    /\ CanRun(t)
    /\ mem' = AfterDeferredFree
    /\ deferred' = NoThread
    /\ UNCHANGED <<running, detach_state, joiner_futex, target, futex>>

\* Mutant of ExitJoinable: the joiner is not woken.
ExitSilently(t) ==
    /\ detach_state' = [detach_state EXCEPT ![t] = "DT_EXITED"]
    /\ UNCHANGED <<mem, deferred, futex>>

\* The joiner is woken and does not run before the thread has ended.
ExitJoinable(t) ==
    /\ detach_state' = [detach_state EXCEPT ![t] = "DT_EXITED"]
    /\ F!Wake(t, 1)
    /\ UNCHANGED <<mem, deferred>>

ExitDetached(t) ==
    /\ mem' = AfterDeferredFree
    /\ deferred' = t
    /\ UNCHANGED <<detach_state, futex>>

\* The start function returns and __pthread_exit runs; main ends the program
\* instead.
Exit(t) ==
    /\ CanRun(t)
    /\ t # main
    /\ running' = running \ {t}
    /\ IF detach_state[t] = "DT_DETACHED" /\ t \notin OwnStack
       THEN ExitDetached(t)
       ELSE ExitJoinable(t)
    /\ UNCHANGED <<joiner_futex, target>>

-----------------------------------------------------------------------------
(* Join and detach.                                                        *)

\* The contract: u is joinable, and no other thread is joining it.
MayClaim(t, u) ==
    /\ CanRun(t)
    /\ u \in mem
    /\ detach_state[u] # "DT_DETACHED"
    /\ \A v \in Thread : target[v] # u

\* The block of u is freed, or goes back to the caller whose stack it is.
Reap(u) == mem' = mem \ {u}

\* pthread_join, pthread_timedjoin_np or pthread_tryjoin_np of a thread that has
\* exited, and pthread_detach of one.
JoinExited(t, u) ==
    /\ MayClaim(t, u)
    /\ detach_state[u] = "DT_EXITED"
    /\ Reap(u)
    /\ UNCHANGED <<running, detach_state, joiner_futex, deferred, target, futex>>

\* A join gets as far as the futex.
MayWait(t, u) ==
    /\ MayClaim(t, u)
    /\ t # u
    /\ detach_state[u] = "DT_JOINABLE"
    /\ joiner_futex[u] = 0

JoinWaits(t, u) ==
    /\ MayWait(t, u)
    /\ joiner_futex' = [joiner_futex EXCEPT ![u] = 1]
    /\ target' = [target EXCEPT ![t] = u]
    /\ F!Wait(t, u)
    /\ UNCHANGED <<running, mem, detach_state, deferred>>

\* The deadline has passed already: ETIMEDOUT.
JoinTooLate(t, u) ==
    /\ MayWait(t, u)
    /\ F!Refuse(t, "-ETIMEDOUT")
    /\ UNCHANGED <<running, mem, detach_state, joiner_futex, deferred, target>>

\* The futex cannot allocate its waitlist.  __timedwait takes ENOMEM for a
\* wakeup and returns 0, so the join goes on as if u had exited.
JoinNoMemory(t, u) ==
    /\ MayWait(t, u)
    /\ F!Refuse(t, "ENOMEM")
    /\ Reap(u)
    /\ UNCHANGED <<running, detach_state, joiner_futex, deferred, target>>

\* What a join that was asleep does first.
JoinEnds(t) ==
    /\ target[t] # NoThread
    /\ joiner_futex' = [joiner_futex EXCEPT ![target[t]] = 0]
    /\ target' = [target EXCEPT ![t] = NoThread]
    /\ UNCHANGED <<running, detach_state, deferred>>

\* The wait returns 0.
JoinReturns(t) ==
    /\ JoinEnds(t)
    /\ F!Return(t)
    /\ Reap(target[t])

\* Mutant of JoinTimesOut: the result of the wait is not looked at.
JoinTimesOutReaps(t) ==
    /\ JoinEnds(t)
    /\ F!TimeOut(t)
    /\ Reap(target[t])

\* The wait returns ETIMEDOUT: the thread stays joinable.
JoinTimesOut(t) ==
    /\ JoinEnds(t)
    /\ F!TimeOut(t)
    /\ UNCHANGED mem

\* pthread_detach of a thread that has not exited.
Detach(t, u) ==
    /\ MayClaim(t, u)
    /\ detach_state[u] = "DT_JOINABLE"
    /\ detach_state' = [detach_state EXCEPT ![u] = "DT_DETACHED"]
    /\ UNCHANGED <<running, mem, joiner_futex, deferred, target, futex>>

Step(t) ==
    \/ \E u \in Thread, state \in {"DT_JOINABLE", "DT_DETACHED"} : Create(t, u, state)
    \/ CreateFails(t)
    \/ Exit(t)
    \/ \E u \in Thread :
        \/ JoinExited(t, u)
        \/ JoinWaits(t, u)
        \/ JoinTooLate(t, u)
        \/ Detach(t, u)
    \/ JoinReturns(t)
    \/ JoinTimesOut(t)

Next == \E t \in Thread : Step(t)

\* The futex finds memory for its waitlists.
Spec == Init /\ [][Next]_vars

\* It may not.
NextNoMemory == Next \/ \E t, u \in Thread : JoinNoMemory(t, u)

SpecNoMemory == Init /\ [][NextNoMemory]_vars

\* A thread that has been woken runs again.
FairSpec == Spec /\ \A t \in Thread : WF_vars(JoinReturns(t))

-----------------------------------------------------------------------------
(* Properties.                                                             *)

\* "we're guaranteed that the stack is valid until this function returns": no
\* join, detach, create or exit frees the block of a thread that has not ended.
StackOutlivesThread == running \subseteq mem

\* The block a sleeping join goes back to (joiner_futex, result, map_base) is
\* still allocated when it wakes up, whatever was created or ended meanwhile.
JoinedIsValid == \A t \in Thread : target[t] # NoThread => target[t] \in mem

\* joiner_futex is 1 exactly while one thread waits to join: a join that timed
\* out leaves the thread joinable.
OneJoiner ==
    \A u \in mem : joiner_futex[u] = Cardinality({t \in Thread : target[t] = u})

\* "we only defer a single item at most": the block of a thread that has ended is
\* the deferred one or waits to be joined, and no other is lost.
NothingLost ==
    \A u \in mem \ running : u = deferred \/ detach_state[u] = "DT_EXITED"

\* A thread that waits to join another one returns after that one has ended.
JoinersReturn ==
    \A t, u \in Thread : target[t] = u /\ u \notin running ~> target[t] # u

=============================================================================
