------------------------------- MODULE MCSync -------------------------------
(***************************************************************************)
(* One synchronisation object at a time: musl's internal lock under        *)
(* cooperative threads, or one of the objects that threads share in        *)
(* parallel.  `object' says which; the variables of the others keep their  *)
(* initial values.                                                         *)
(***************************************************************************)
EXTENDS Lock

CONSTANTS
    SyncThread,       \* the threads that share a semaphore, rwlock, once or barrier
    NoThread,
    SEM_VALUE_MAX, MaxReaders, Limits

VARIABLES object, word, waiters, sleepers, at, loc

S == INSTANCE Semaphore WITH Thread <- SyncThread, asleep <- sleepers, pc <- at
R == INSTANCE Rwlock WITH Thread <- SyncThread, asleep <- sleepers, pc <- at
O == INSTANCE Once WITH Thread <- SyncThread, asleep <- sleepers, pc <- at
B == INSTANCE Barrier WITH Thread <- SyncThread, asleep <- sleepers, pc <- at

svars == <<word, waiters, sleepers, at, loc>>
allvars == <<object, vars, svars>>

\* A small word for Lock: the sign bit is far above any congestion count.
MinInt == -16

MCInit ==
    /\ Init
    /\ \/ object \in {"lock", "semaphore"} /\ S!Init
       \/ object = "rwlock" /\ R!Init
       \/ object = "once" /\ O!Init
       \/ object = "barrier" /\ B!Init
    /\ object # "lock" => live = {CHOOSE t \in Thread : TRUE}

Steps(t) ==
    \/ object = "semaphore" /\ S!Steps(t)
    \/ object = "rwlock" /\ R!Steps(t)
    \/ object = "once" /\ O!Steps(t)
    \/ object = "barrier" /\ B!Steps(t)

\* Threads may all have ended in pthread_once, or wait for a post or for a round
\* that nobody completes.
MayStop == object \in {"semaphore", "once", "barrier"} /\ UNCHANGED allvars

MCNext ==
    \/ object = "lock" /\ Next /\ UNCHANGED <<object, svars>>
    \/ /\ UNCHANGED <<object, vars>>
       /\ \/ object = "semaphore" /\ S!Next
          \/ object = "rwlock" /\ R!Next
          \/ object = "once" /\ O!Next
          \/ object = "barrier" /\ B!Next
    \/ MayStop

MCSpec ==
    /\ MCInit /\ [][MCNext]_allvars
    /\ \A t \in Thread : WF_vars(Retry(t)) /\ WF_vars(Unlock(t))
    /\ \A t \in SyncThread : WF_svars(Steps(t))

-----------------------------------------------------------------------------
(* The properties of the object at hand.                                   *)

\* Each object keeps its rule.  A writer of an rwlock is alone and the word counts the
\* readers; pthread_once runs init to its end once, before any call returns; nobody
\* passes a barrier before its round is full, and the owner of its instance, which is
\* on its stack, leaves last.  A thread that gives up or goes on takes back exactly the
\* count it has added, so that no waiter count goes below zero or above the threads.
ObjectsHold ==
    CASE object \in {"lock", "semaphore"} -> S!TypeOK
      [] object = "rwlock"    -> R!TypeOK /\ R!RwlockExcludes
      [] object = "once"      -> O!TypeOK /\ O!OnceIsOnce
      [] object = "barrier"   -> B!TypeOK /\ B!OwnerLeavesLast /\ B!RoundsAreFull

\* sem_post adds one unit and sem_wait takes one, whatever happens between the
\* reads of sem_post and its swap.
UnitsAreKept == [][object = "semaphore" => S!UnitsAreKeptStep]_svars

\* The internal lock, when threads wait for it, is taken by one of them or by a
\* newcomer.  When the application makes no new call, every call on a semaphore, an
\* rwlock, a pthread_once or a barrier returns, unless it waits for something that has
\* not happened: a post or the other threads of its round.
CallsSettle ==
    /\ SomeoneEnters
    /\ (<>[][S!NoNewCall]_svars)
        => <>[](\A t \in SyncThread :
                  CASE object \in {"lock", "semaphore"} -> S!Settled(t)
                    [] object = "rwlock"    -> R!Settled(t)
                    [] object = "once"      -> O!Settled(t)
                    [] object = "barrier"   -> B!Settled(t))

=============================================================================
