----------------------------- MODULE Semaphore -----------------------------
(***************************************************************************)
(* sem_wait, sem_timedwait, sem_trywait and sem_post.  The word holds the  *)
(* value and, in the sign bit, whether somebody may be asleep.  sem_post   *)
(* reads the word, then the waiters, and then swaps the word if it is the  *)
(* one it read; it takes the sign bit back when it sees at most one waiter *)
(* and then wakes everybody.                                               *)
(***************************************************************************)
EXTENDS FutexObject

CONSTANT SEM_VALUE_MAX

Words == [val : 0 .. SEM_VALUE_MAX, neg : BOOLEAN]
Zero(neg) == [val |-> 0, neg |-> neg]

\* loc: the word and the waiters that a poster has read.
Idle == [val |-> Zero(FALSE), waiters |-> 0]

TypeOK ==
    /\ word \in Words
    /\ waiters \in 0 .. Cardinality(Thread)
    /\ asleep \subseteq Thread
    /\ loc \in [Thread -> [val : Words, waiters : 0 .. Cardinality(Thread)]]

Init ==
    /\ word = Zero(FALSE)
    /\ waiters = 0
    /\ asleep = {}
    /\ pc = [t \in Thread |-> "run"]
    /\ loc = [t \in Thread |-> Idle]

Call(t) ==
    /\ At(t, "run")
    /\ \/ Goto(t, "sem_wait") \/ Goto(t, "sem_trywait") \/ Goto(t, "post_val")
    /\ UNCHANGED <<word, waiters, asleep, loc>>

\* sem_trywait, alone and as the loop condition of sem_timedwait.
TryWait(t) ==
    /\ At(t, "sem_wait") \/ At(t, "sem_trywait")
    /\ IF word.val > 0
       THEN word' = [word EXCEPT !.val = @ - 1] /\ Goto(t, "run")
       ELSE Goto(t, IF pc[t] = "sem_wait" THEN "count" ELSE "run") /\ UNCHANGED word
    /\ UNCHANGED <<waiters, asleep, loc>>

MarkZero(t) ==
    /\ At(t, "mark")
    /\ word' = IF word = Zero(FALSE) THEN Zero(TRUE) ELSE word
    /\ Goto(t, "sleep")
    /\ UNCHANGED <<waiters, asleep, loc>>

Wait(t) ==
    \/ TryWait(t)
    \/ CountIn(t, "count", "mark")
    \/ MarkZero(t)
    \/ SleepOn(t, "sleep", Zero(TRUE), "woken")
    \/ CountOut(t, "woken", "sem_wait")
    \/ CountOut(t, "late", "run")

TimesOut(t) == WakesLate(t, "woken", "late")

PostReadsWord(t) ==
    /\ At(t, "post_val")
    /\ loc' = [loc EXCEPT ![t].val = word]
    /\ Goto(t, "post_waiters")
    /\ UNCHANGED <<word, waiters, asleep>>

\* EOVERFLOW at the limit.
PostReadsWaiters(t) ==
    /\ At(t, "post_waiters")
    /\ IF loc[t].val.val = SEM_VALUE_MAX
       THEN loc' = [loc EXCEPT ![t] = Idle] /\ Goto(t, "run")
       ELSE loc' = [loc EXCEPT ![t].waiters = waiters] /\ Goto(t, "post_cas")
    /\ UNCHANGED <<word, waiters, asleep>>

Posted(l) == [val |-> l.val.val + 1, neg |-> l.val.neg /\ l.waiters > 1]

\* Mutant of PostSwaps: the word is stored over whatever has happened since.
PostStores(t) ==
    /\ At(t, "post_cas")
    /\ word' = Posted(loc[t])
    /\ Goto(t, "post_wake")
    /\ UNCHANGED <<waiters, asleep, loc>>

PostSwaps(t) ==
    /\ At(t, "post_cas")
    /\ IF word = loc[t].val
       THEN word' = Posted(loc[t]) /\ Goto(t, "post_wake") /\ UNCHANGED loc
       ELSE loc' = [loc EXCEPT ![t] = Idle] /\ Goto(t, "post_val") /\ UNCHANGED word
    /\ UNCHANGED <<waiters, asleep>>

\* Mutant of PostWakes: the count of waiters alone decides.
PostWakesCounted(t) ==
    /\ At(t, "post_wake")
    /\ IF loc[t].waiters > 0 THEN WakeOne ELSE UNCHANGED asleep
    /\ loc' = [loc EXCEPT ![t] = Idle]
    /\ Goto(t, "run")
    /\ UNCHANGED <<word, waiters>>

PostWakes(t) ==
    /\ At(t, "post_wake")
    /\ IF loc[t].waiters > 1 THEN WakeOne
       ELSE IF loc[t].val.neg \/ loc[t].waiters = 1 THEN WakeAll
       ELSE UNCHANGED asleep
    /\ loc' = [loc EXCEPT ![t] = Idle]
    /\ Goto(t, "run")
    /\ UNCHANGED <<word, waiters>>

Post(t) == PostReadsWord(t) \/ PostReadsWaiters(t) \/ PostSwaps(t) \/ PostWakes(t)

Steps(t) == Wait(t) \/ Post(t)

Next == \E t \in Thread : Call(t) \/ Steps(t) \/ TimesOut(t)

-----------------------------------------------------------------------------
(* Properties.                                                             *)

\* Every step that changes the value takes a unit or adds one: no post and no wait
\* is lost to a stale word.
UnitsAreKeptStep ==
    \/ word'.val = word.val
    \/ /\ word'.val = word.val - 1
       /\ \E t \in Thread : pc[t] \in {"sem_wait", "sem_trywait"} /\ pc'[t] = "run"
    \/ /\ word'.val = word.val + 1
       /\ \E t \in Thread : pc[t] = "post_cas" /\ pc'[t] = "post_wake"

\* In the end a thread is asleep only on a semaphore of value zero: no post fails
\* to wake, although it reads the waiters before it swaps and takes the sign bit
\* back.
Settled(t) == pc[t] = "run" \/ (t \in asleep /\ word.val = 0)

=============================================================================
