--------------------------- MODULE ThreadsProofs ---------------------------
(***************************************************************************)
(* Proofs about Threads, for any number of threads, as long as the futex   *)
(* does not run out of memory.                                             *)
(*                                                                         *)
(* IInv ties the three ways of being tied to a thread together: a thread   *)
(* that sleeps in a join does so on a running, joinable thread; one that   *)
(* has been notified is about to reap a thread that has exited; and the    *)
(* deferred block is that of a detached thread that has ended.             *)
(***************************************************************************)
EXTENDS Threads, FiniteSetTheorems, TLAPS

\* A thread has a target exactly while it sleeps in a join, and it is running.
Sleepers ==
    \A t \in Thread : /\ F!Sleeping(t) <=> target[t] # NoThread
                      /\ F!Sleeping(t) => t \in running

AsleepOK ==
    \A u \in Thread : \A t \in asleep[u] :
        /\ target[t] = u
        /\ u \in running
        /\ detach_state[u] = "DT_JOINABLE"

NotifiedOK ==
    \A t \in notified :
        /\ target[t] \in mem \ running
        /\ detach_state[target[t]] = "DT_EXITED"

OneEach == \A t, v \in Thread : target[t] = target[v] /\ target[t] # NoThread => t = v

FutexWord == \A u \in mem : joiner_futex[u] = 1 <=> \E t \in Thread : target[t] = u

DeferredOK ==
    deferred # NoThread =>
        /\ deferred \notin running
        /\ deferred \notin OwnStack
        /\ detach_state[deferred] = "DT_DETACHED"

RunningOK == \A u \in running : u \in mem /\ detach_state[u] # "DT_EXITED"

IInv ==
    /\ TypeOK
    /\ Sleepers
    /\ AsleepOK
    /\ NotifiedOK
    /\ OneEach
    /\ FutexWord
    /\ DeferredOK
    /\ RunningOK
    /\ NothingLost

USE ConstantsOK

\* The inductive invariant implies the properties.
LEMMA Consequences == IInv => StackOutlivesThread /\ JoinedIsValid /\ OneJoiner
<1> SUFFICES ASSUME IInv PROVE StackOutlivesThread /\ JoinedIsValid /\ OneJoiner
  OBVIOUS
<1>1. StackOutlivesThread
  BY DEF IInv, RunningOK, StackOutlivesThread
<1>2. JoinedIsValid
  <2> SUFFICES ASSUME NEW t \in Thread, target[t] # NoThread PROVE target[t] \in mem
    BY DEF JoinedIsValid
  <2>1. F!Sleeping(t)
    BY DEF IInv, Sleepers
  <2>2. CASE t \in notified
    BY <2>2 DEF IInv, NotifiedOK
  <2>3. CASE \E a \in Thread : t \in asleep[a]
    BY <2>3 DEF IInv, AsleepOK, RunningOK
  <2> QED
    BY <2>1, <2>2, <2>3 DEF F!Sleeping
<1>3. OneJoiner
  <2> SUFFICES ASSUME NEW u \in mem
               PROVE  joiner_futex[u] = Cardinality({t \in Thread : target[t] = u})
    BY DEF OneJoiner
  <2>1. u \in Thread /\ u # NoThread /\ joiner_futex[u] \in {0, 1}
    BY DEF IInv, TypeOK
  <2>2. CASE \E t \in Thread : target[t] = u
    <3>1. PICK t \in Thread : target[t] = u
      BY <2>2
    <3>2. {v \in Thread : target[v] = u} = {t}
      BY <3>1, <2>1 DEF IInv, OneEach
    <3>3. Cardinality({t}) = 1
      BY FS_Singleton
    <3> QED
      BY <2>2, <3>2, <3>3 DEF IInv, FutexWord
  <2>3. CASE ~ \E t \in Thread : target[t] = u
    <3>1. {v \in Thread : target[v] = u} = {}
      BY <2>3
    <3>2. Cardinality({}) = 0
      BY FS_EmptySet
    <3> QED
      BY <2>1, <2>3, <3>1, <3>2 DEF IInv, FutexWord
  <2> QED
    BY <2>2, <2>3
<1> QED
  BY <1>1, <1>2, <1>3

LEMMA InitIInv == Init => IInv
<1> SUFFICES ASSUME Init PROVE IInv
  OBVIOUS
<1> USE DEF Init, F!Init
<1>1. TypeOK
  BY DEF TypeOK
<1>2. \A t \in Thread : ~F!Sleeping(t)
  BY DEF F!Sleeping
<1> QED
  BY <1>1, <1>2 DEF IInv, Sleepers, AsleepOK, NotifiedOK, OneEach, FutexWord, DeferredOK,
                    RunningOK, NothingLost

\* A wake of one thread wakes every thread asleep on an address, as there is at
\* most one.
LEMMA WakesAll ==
    ASSUME IInv, NEW u \in Thread, F!Wake(u, 1)
    PROVE  /\ asleep' = [asleep EXCEPT ![u] = {}]
           /\ notified' = notified \cup asleep[u]
           /\ result' = result
<1>1. PICK chosen \in SUBSET asleep[u] :
        /\ \/ Cardinality(chosen) = 1
           \/ Cardinality(chosen) < 1 /\ chosen = asleep[u]
        /\ asleep' = [asleep EXCEPT ![u] = @ \ chosen]
        /\ notified' = notified \cup chosen
        /\ UNCHANGED result
  BY Zenon DEF F!Wake, Cardinality, F!Cardinality, IsFiniteSet, F!IsFiniteSet
<1>2. \A t, v \in asleep[u] : t = v
  BY DEF IInv, AsleepOK, OneEach, TypeOK
<1>3. Cardinality(chosen) = 1 => chosen # {}
  BY FS_EmptySet
<1>4. chosen = asleep[u]
  BY <1>1, <1>2, <1>3
<1> QED
  BY <1>1, <1>4

\* A thread that can be claimed has not ended.
LEMMA JoinableRuns ==
    ASSUME IInv, NEW u \in mem, detach_state[u] = "DT_JOINABLE"
    PROVE  u \in running
BY DEF IInv, NothingLost, DeferredOK, TypeOK

\* No join waits for a thread that is neither running nor exited.
LEMMA TargetState ==
    ASSUME IInv, NEW t \in Thread, target[t] # NoThread
    PROVE  /\ target[t] \in mem
           /\ detach_state[target[t]] # "DT_DETACHED"
           /\ target[t] # deferred
           /\ t \in running
<1>1. F!Sleeping(t)
  BY DEF IInv, Sleepers
<1>2. CASE t \in notified
  BY <1>1, <1>2 DEF IInv, NotifiedOK, DeferredOK, Sleepers
<1>3. CASE \E a \in Thread : t \in asleep[a]
  BY <1>1, <1>3 DEF IInv, AsleepOK, DeferredOK, RunningOK, Sleepers
<1> QED
  BY <1>1, <1>2, <1>3 DEF F!Sleeping

\* A failed create frees only the deferred block.
LEMMA CreateFailsIInv ==
    ASSUME IInv, NEW t \in Thread, CreateFails(t)
    PROVE  IInv'
<1>1. /\ mem' = mem \ {deferred}
      /\ deferred' = NoThread
      /\ UNCHANGED <<running, detach_state, joiner_futex, target, asleep, notified, result>>
  BY DEF CreateFails, AfterDeferredFree, futex
<1>2. \A v \in Thread : target[v] # NoThread => target[v] \in mem /\ target[v] # deferred
  BY TargetState
<1>3. \A v \in notified : v \in Thread /\ target[v] # NoThread
  BY DEF IInv, TypeOK, Sleepers, F!Sleeping
<1>4. TypeOK'
  BY <1>1, <1>2, <1>3 DEF IInv, TypeOK
<1>5. Sleepers'
  BY <1>1, <1>2, <1>3 DEF IInv, TypeOK, Sleepers, F!Sleeping
<1>6. AsleepOK'
  BY <1>1, <1>2, <1>3 DEF IInv, TypeOK, AsleepOK
<1>7. NotifiedOK'
  BY <1>1, <1>2, <1>3 DEF IInv, TypeOK, NotifiedOK
<1>8. OneEach'
  BY <1>1, <1>2, <1>3 DEF IInv, TypeOK, OneEach
<1>9. FutexWord'
  BY <1>1, <1>2, <1>3 DEF IInv, TypeOK, FutexWord
<1>10. DeferredOK'
  BY <1>1, <1>2, <1>3 DEF IInv, TypeOK, DeferredOK, RunningOK
<1>11. RunningOK'
  BY <1>1, <1>2, <1>3 DEF IInv, TypeOK, RunningOK, DeferredOK
<1>12. NothingLost'
  BY <1>1, <1>2, <1>3 DEF IInv, TypeOK, NothingLost
<1> QED
  BY <1>4, <1>5, <1>6, <1>7, <1>8, <1>9, <1>10, <1>11, <1>12 DEF IInv

\* The new thread has a block that no one else uses.
LEMMA CreateIInv ==
    ASSUME IInv, NEW t \in Thread, NEW u \in Thread,
           NEW state \in {"DT_JOINABLE", "DT_DETACHED"}, Create(t, u, state)
    PROVE  IInv'
<1>1. /\ u \notin running
      /\ running' = running \cup {u}
      /\ detach_state' = [detach_state EXCEPT ![u] = state]
      /\ joiner_futex' = [joiner_futex EXCEPT ![u] = 0]
      /\ UNCHANGED <<target, asleep, notified, result>>
  BY DEF Create, futex
<1>2. \/ u \in OwnStack /\ u \notin mem /\ mem' = mem \cup {u} /\ deferred' = deferred
      \/ /\ u \notin mem \ {deferred}
         /\ mem' = (mem \ {deferred}) \cup {u}
         /\ deferred' = NoThread
  BY DEF Create, AfterDeferredFree
<1>3. \A v \in Thread : target[v] # NoThread => target[v] \in mem' /\ target[v] # u
  BY <1>2, TargetState
<1>4. \A v \in notified : v \in Thread /\ target[v] # NoThread
  BY DEF IInv, TypeOK, Sleepers, F!Sleeping
<1>5. \A v \in mem' : v = u \/ v \in mem
  BY <1>2
<1>6. u \in mem'
  BY <1>2
<1>7. TypeOK'
  BY <1>1, <1>2, <1>3, <1>4, <1>5, <1>6 DEF IInv, TypeOK
<1>8. Sleepers'
  BY <1>1, <1>2, <1>3, <1>4, <1>5, <1>6 DEF IInv, TypeOK, Sleepers, F!Sleeping
<1>9. AsleepOK'
  BY <1>1, <1>2, <1>3, <1>4, <1>5, <1>6 DEF IInv, TypeOK, AsleepOK
<1>10. NotifiedOK'
  BY <1>1, <1>2, <1>3, <1>4, <1>5, <1>6 DEF IInv, TypeOK, NotifiedOK
<1>11. OneEach'
  BY <1>1, <1>2, <1>3, <1>4, <1>5, <1>6 DEF IInv, TypeOK, OneEach
<1>12. FutexWord'
  BY <1>1, <1>2, <1>3, <1>4, <1>5, <1>6 DEF IInv, TypeOK, FutexWord
<1>13. DeferredOK'
  BY <1>1, <1>2, <1>3, <1>4, <1>5, <1>6 DEF IInv, TypeOK, DeferredOK, RunningOK
<1>14. RunningOK'
  BY <1>1, <1>2, <1>3, <1>4, <1>5, <1>6 DEF IInv, TypeOK, RunningOK, DeferredOK
<1>15. NothingLost'
  BY <1>1, <1>2, <1>3, <1>4, <1>5, <1>6 DEF IInv, TypeOK, NothingLost
<1> QED
  BY <1>7, <1>8, <1>9, <1>10, <1>11, <1>12, <1>13, <1>14, <1>15 DEF IInv

\* A thread that is reaped has exited.
LEMMA JoinExitedIInv ==
    ASSUME IInv, NEW t \in Thread, NEW u \in Thread, JoinExited(t, u)
    PROVE  IInv'
<1>1. /\ u \in mem
      /\ detach_state[u] = "DT_EXITED"
      /\ \A v \in Thread : target[v] # u
      /\ mem' = mem \ {u}
      /\ UNCHANGED <<running, detach_state, joiner_futex, deferred, target, asleep, notified, result>>
  BY DEF JoinExited, MayClaim, Reap, futex
<1>2. \A v \in notified : v \in Thread
  BY DEF IInv, TypeOK
<1>3. TypeOK'
  BY <1>1, <1>2 DEF IInv, TypeOK
<1>4. Sleepers'
  BY <1>1, <1>2 DEF IInv, TypeOK, Sleepers, F!Sleeping
<1>5. AsleepOK'
  BY <1>1, <1>2 DEF IInv, TypeOK, AsleepOK
<1>6. NotifiedOK'
  BY <1>1, <1>2 DEF IInv, TypeOK, NotifiedOK
<1>7. OneEach'
  BY <1>1, <1>2 DEF IInv, TypeOK, OneEach
<1>8. FutexWord'
  BY <1>1, <1>2 DEF IInv, TypeOK, FutexWord
<1>9. DeferredOK'
  BY <1>1, <1>2 DEF IInv, TypeOK, DeferredOK, RunningOK
<1>10. RunningOK'
  BY <1>1, <1>2 DEF IInv, TypeOK, RunningOK, DeferredOK
<1>11. NothingLost'
  BY <1>1, <1>2 DEF IInv, TypeOK, NothingLost
<1> QED
  BY <1>3, <1>4, <1>5, <1>6, <1>7, <1>8, <1>9, <1>10, <1>11 DEF IInv

\* A thread that is detached is running, and no one waits for it.
LEMMA DetachIInv ==
    ASSUME IInv, NEW t \in Thread, NEW u \in Thread, Detach(t, u)
    PROVE  IInv'
<1>1. /\ u \in mem
      /\ detach_state[u] = "DT_JOINABLE"
      /\ \A v \in Thread : target[v] # u
      /\ detach_state' = [detach_state EXCEPT ![u] = "DT_DETACHED"]
      /\ UNCHANGED <<running, mem, joiner_futex, deferred, target, asleep, notified, result>>
  BY DEF Detach, MayClaim, futex
<1>2. u \in running
  BY <1>1, JoinableRuns
<1>3. \A v \in notified : v \in Thread
  BY DEF IInv, TypeOK
<1>4. \A v \in Thread : asleep[v] \subseteq Thread
  BY DEF IInv, TypeOK
<1>5. TypeOK'
  BY <1>1, <1>2, <1>3, <1>4 DEF IInv, TypeOK
<1>6. Sleepers'
  BY <1>1, <1>2, <1>3, <1>4 DEF IInv, TypeOK, Sleepers, F!Sleeping
<1>7. AsleepOK'
  BY <1>1, <1>2, <1>3, <1>4 DEF IInv, TypeOK, AsleepOK
<1>8. NotifiedOK'
  BY <1>1, <1>2, <1>3, <1>4 DEF IInv, TypeOK, NotifiedOK
<1>9. OneEach'
  BY <1>1, <1>2, <1>3, <1>4 DEF IInv, TypeOK, OneEach
<1>10. FutexWord'
  BY <1>1, <1>2, <1>3, <1>4 DEF IInv, TypeOK, FutexWord
<1>11. DeferredOK'
  BY <1>1, <1>2, <1>3, <1>4 DEF IInv, TypeOK, DeferredOK, RunningOK
<1>12. RunningOK'
  BY <1>1, <1>2, <1>3, <1>4 DEF IInv, TypeOK, RunningOK, DeferredOK
<1>13. NothingLost'
  BY <1>1, <1>2, <1>3, <1>4 DEF IInv, TypeOK, NothingLost
<1> QED
  BY <1>5, <1>6, <1>7, <1>8, <1>9, <1>10, <1>11, <1>12, <1>13 DEF IInv

\* A join past its deadline changes nothing but the result.
LEMMA JoinTooLateIInv ==
    ASSUME IInv, NEW t \in Thread, NEW u \in Thread, JoinTooLate(t, u)
    PROVE  IInv'
<1>1. /\ UNCHANGED <<running, mem, detach_state, joiner_futex, deferred, target, asleep, notified>>
      /\ result' = "-ETIMEDOUT"
  BY DEF JoinTooLate, F!Refuse
<1>2. TypeOK'
  BY <1>1 DEF IInv, TypeOK
<1>3. Sleepers'
  BY <1>1 DEF IInv, TypeOK, Sleepers, F!Sleeping
<1>4. AsleepOK'
  BY <1>1 DEF IInv, TypeOK, AsleepOK
<1>5. NotifiedOK'
  BY <1>1 DEF IInv, TypeOK, NotifiedOK
<1>6. OneEach'
  BY <1>1 DEF IInv, TypeOK, OneEach
<1>7. FutexWord'
  BY <1>1 DEF IInv, TypeOK, FutexWord
<1>8. DeferredOK'
  BY <1>1 DEF IInv, TypeOK, DeferredOK, RunningOK
<1>9. RunningOK'
  BY <1>1 DEF IInv, TypeOK, RunningOK, DeferredOK
<1>10. NothingLost'
  BY <1>1 DEF IInv, TypeOK, NothingLost
<1> QED
  BY <1>2, <1>3, <1>4, <1>5, <1>6, <1>7, <1>8, <1>9, <1>10 DEF IInv

\* A join sleeps on a running thread that no one else waits for.
LEMMA JoinWaitsIInv ==
    ASSUME IInv, NEW t \in Thread, NEW u \in Thread, JoinWaits(t, u)
    PROVE  IInv'
<1>1. /\ u \in mem
      /\ t \in running
      /\ detach_state[u] = "DT_JOINABLE"
      /\ \A v \in Thread : target[v] # u
      /\ joiner_futex' = [joiner_futex EXCEPT ![u] = 1]
      /\ target' = [target EXCEPT ![t] = u]
      /\ asleep' = [asleep EXCEPT ![u] = @ \cup {t}]
      /\ UNCHANGED <<running, mem, detach_state, deferred, notified, result>>
  BY DEF JoinWaits, MayWait, MayClaim, CanRun, F!Wait
<1>2. u \in running
  BY <1>1, JoinableRuns
<1>3. t \notin notified /\ \A a \in Thread : t \notin asleep[a]
  BY DEF JoinWaits, F!Wait, F!Sleeping
<1>4. target[t] = NoThread
  BY <1>3 DEF IInv, Sleepers, F!Sleeping
<1>5. TypeOK'
  BY <1>1, <1>2, <1>3, <1>4 DEF IInv, TypeOK
<1>6. Sleepers'
  BY <1>1, <1>2, <1>3, <1>4 DEF IInv, TypeOK, Sleepers, F!Sleeping
<1>7. AsleepOK'
  BY <1>1, <1>2, <1>3, <1>4 DEF IInv, TypeOK, AsleepOK
<1>8. NotifiedOK'
  BY <1>1, <1>2, <1>3, <1>4 DEF IInv, TypeOK, NotifiedOK
<1>9. OneEach'
  BY <1>1, <1>2, <1>3, <1>4 DEF IInv, TypeOK, OneEach
<1>10. FutexWord'
  BY <1>1, <1>2, <1>3, <1>4 DEF IInv, TypeOK, FutexWord
<1>11. DeferredOK'
  BY <1>1, <1>2, <1>3, <1>4 DEF IInv, TypeOK, DeferredOK, RunningOK
<1>12. RunningOK'
  BY <1>1, <1>2, <1>3, <1>4 DEF IInv, TypeOK, RunningOK, DeferredOK
<1>13. NothingLost'
  BY <1>1, <1>2, <1>3, <1>4 DEF IInv, TypeOK, NothingLost
<1> QED
  BY <1>5, <1>6, <1>7, <1>8, <1>9, <1>10, <1>11, <1>12, <1>13 DEF IInv

\* A join that was notified reaps a thread that has exited.
LEMMA JoinReturnsIInv ==
    ASSUME IInv, NEW t \in Thread, JoinReturns(t)
    PROVE  IInv'
<1>1. /\ target[t] \in Thread
      /\ t \in notified
      /\ joiner_futex' = [joiner_futex EXCEPT ![target[t]] = 0]
      /\ target' = [target EXCEPT ![t] = NoThread]
      /\ notified' = notified \ {t}
      /\ result' = "0"
      /\ mem' = mem \ {target[t]}
      /\ UNCHANGED <<running, detach_state, deferred, asleep>>
  BY DEF JoinReturns, JoinEnds, Reap, F!Return, IInv, TypeOK
<1>2. target[t] \notin running /\ \A a \in Thread : t \notin asleep[a]
  BY <1>1 DEF IInv, NotifiedOK, AsleepOK
<1>3. \A v \in Thread : v # t => target[v] # target[t]
  BY <1>1 DEF IInv, OneEach
<1>4. TypeOK'
  BY <1>1, <1>2, <1>3 DEF IInv, TypeOK
<1>5. Sleepers'
  BY <1>1, <1>2, <1>3 DEF IInv, TypeOK, Sleepers, F!Sleeping
<1>6. AsleepOK'
  BY <1>1, <1>2, <1>3 DEF IInv, TypeOK, AsleepOK
<1>7. NotifiedOK'
  BY <1>1, <1>2, <1>3 DEF IInv, TypeOK, NotifiedOK
<1>8. OneEach'
  BY <1>1, <1>2, <1>3 DEF IInv, TypeOK, OneEach
<1>9. FutexWord'
  BY <1>1, <1>2, <1>3 DEF IInv, TypeOK, FutexWord
<1>10. DeferredOK'
  BY <1>1, <1>2, <1>3 DEF IInv, TypeOK, DeferredOK, RunningOK
<1>11. RunningOK'
  BY <1>1, <1>2, <1>3 DEF IInv, TypeOK, RunningOK, DeferredOK
<1>12. NothingLost'
  BY <1>1, <1>2, <1>3 DEF IInv, TypeOK, NothingLost
<1> QED
  BY <1>4, <1>5, <1>6, <1>7, <1>8, <1>9, <1>10, <1>11, <1>12 DEF IInv

\* A join that times out leaves the thread as it was.
LEMMA JoinTimesOutIInv ==
    ASSUME IInv, NEW t \in Thread, JoinTimesOut(t)
    PROVE  IInv'
<1>1. /\ target[t] \in Thread
      /\ joiner_futex' = [joiner_futex EXCEPT ![target[t]] = 0]
      /\ target' = [target EXCEPT ![t] = NoThread]
      /\ result' = "-ETIMEDOUT"
      /\ UNCHANGED <<running, mem, detach_state, deferred, notified>>
  BY DEF JoinTimesOut, JoinEnds, F!TimeOut, IInv, TypeOK
<1>2. /\ t \in asleep[target[t]]
      /\ asleep' = [asleep EXCEPT ![target[t]] = @ \ {t}]
  BY DEF JoinTimesOut, F!TimeOut, IInv, AsleepOK
<1>3. t \notin notified /\ \A a \in Thread : a # target[t] => t \notin asleep[a]
  BY <1>1, <1>2 DEF IInv, NotifiedOK, AsleepOK
<1>4. \A v \in Thread : v # t => target[v] # target[t]
  BY <1>1 DEF IInv, OneEach
<1>5. TypeOK'
  BY <1>1, <1>2, <1>3, <1>4 DEF IInv, TypeOK
<1>6. Sleepers'
  BY <1>1, <1>2, <1>3, <1>4 DEF IInv, TypeOK, Sleepers, F!Sleeping
<1>7. AsleepOK'
  BY <1>1, <1>2, <1>3, <1>4 DEF IInv, TypeOK, AsleepOK
<1>8. NotifiedOK'
  BY <1>1, <1>2, <1>3, <1>4 DEF IInv, TypeOK, NotifiedOK
<1>9. OneEach'
  BY <1>1, <1>2, <1>3, <1>4 DEF IInv, TypeOK, OneEach
<1>10. FutexWord'
  BY <1>1, <1>2, <1>3, <1>4 DEF IInv, TypeOK, FutexWord
<1>11. DeferredOK'
  BY <1>1, <1>2, <1>3, <1>4 DEF IInv, TypeOK, DeferredOK, RunningOK
<1>12. RunningOK'
  BY <1>1, <1>2, <1>3, <1>4 DEF IInv, TypeOK, RunningOK, DeferredOK
<1>13. NothingLost'
  BY <1>1, <1>2, <1>3, <1>4 DEF IInv, TypeOK, NothingLost
<1> QED
  BY <1>5, <1>6, <1>7, <1>8, <1>9, <1>10, <1>11, <1>12, <1>13 DEF IInv

\* A detached thread leaves its block behind, and no one waits for it.
LEMMA ExitDetachedIInv ==
    ASSUME IInv, NEW t \in running,
           ~F!Sleeping(t), detach_state[t] = "DT_DETACHED", t \notin OwnStack, running' = running \ {t},
           ExitDetached(t), UNCHANGED <<joiner_futex, target>>
    PROVE  IInv'
<1>1. /\ mem' = mem \ {deferred}
      /\ deferred' = t
      /\ UNCHANGED <<detach_state, asleep, notified, result>>
  BY DEF ExitDetached, AfterDeferredFree, futex
<1>2. \A v \in Thread : target[v] # NoThread =>
        target[v] \in mem /\ target[v] # deferred /\ target[v] # t
  BY TargetState
<1>3. \A v \in notified : v \in Thread /\ target[v] # NoThread
  BY DEF IInv, TypeOK, Sleepers, F!Sleeping
<1>4. t \in Thread /\ asleep[t] = {}
  BY DEF IInv, TypeOK, AsleepOK
<1>5. TypeOK'
  BY <1>1, <1>2, <1>3, <1>4 DEF IInv, TypeOK
<1>6. Sleepers'
  BY <1>1, <1>2, <1>3, <1>4 DEF IInv, TypeOK, Sleepers, F!Sleeping
<1>7. AsleepOK'
  BY <1>1, <1>2, <1>3, <1>4 DEF IInv, TypeOK, AsleepOK
<1>8. NotifiedOK'
  BY <1>1, <1>2, <1>3, <1>4 DEF IInv, TypeOK, NotifiedOK
<1>9. OneEach'
  BY <1>1, <1>2, <1>3, <1>4 DEF IInv, TypeOK, OneEach
<1>10. FutexWord'
  BY <1>1, <1>2, <1>3, <1>4 DEF IInv, TypeOK, FutexWord
<1>11. DeferredOK'
  BY <1>1, <1>2, <1>3, <1>4 DEF IInv, TypeOK, DeferredOK, RunningOK
<1>12. RunningOK'
  BY <1>1, <1>2, <1>3, <1>4 DEF IInv, TypeOK, RunningOK, DeferredOK
<1>13. NothingLost'
  BY <1>1, <1>2, <1>3, <1>4 DEF IInv, TypeOK, NothingLost
<1> QED
  BY <1>5, <1>6, <1>7, <1>8, <1>9, <1>10, <1>11, <1>12, <1>13 DEF IInv

\* The thread that waits for an exiting one is notified.
LEMMA ExitJoinableIInv ==
    ASSUME IInv, NEW t \in running,
           ~F!Sleeping(t), running' = running \ {t}, ExitJoinable(t), UNCHANGED <<joiner_futex, target>>
    PROVE  IInv'
<1>1. t \in Thread /\ t \in mem
  BY DEF IInv, TypeOK, RunningOK
<1>2. /\ detach_state' = [detach_state EXCEPT ![t] = "DT_EXITED"]
      /\ asleep' = [asleep EXCEPT ![t] = {}]
      /\ notified' = notified \cup asleep[t]
      /\ UNCHANGED <<mem, deferred, result>>
  BY <1>1, WakesAll DEF ExitJoinable
<1>3. t \notin notified /\ \A a \in Thread : t \notin asleep[a]
  BY DEF F!Sleeping
<1>4. \A v \in asleep[t] : v \in Thread /\ target[v] = t
  BY <1>1 DEF IInv, AsleepOK, TypeOK
<1>5. TypeOK'
  BY <1>1, <1>2, <1>3, <1>4 DEF IInv, TypeOK
<1>6. Sleepers'
  BY <1>1, <1>2, <1>3, <1>4 DEF IInv, TypeOK, Sleepers, F!Sleeping
<1>7. AsleepOK'
  BY <1>1, <1>2, <1>3, <1>4 DEF IInv, TypeOK, AsleepOK
<1>8. NotifiedOK'
  BY <1>1, <1>2, <1>3, <1>4 DEF IInv, TypeOK, NotifiedOK
<1>9. OneEach'
  BY <1>1, <1>2, <1>3, <1>4 DEF IInv, TypeOK, OneEach
<1>10. FutexWord'
  BY <1>1, <1>2, <1>3, <1>4 DEF IInv, TypeOK, FutexWord
<1>11. DeferredOK'
  BY <1>1, <1>2, <1>3, <1>4 DEF IInv, TypeOK, DeferredOK, RunningOK
<1>12. RunningOK'
  BY <1>1, <1>2, <1>3, <1>4 DEF IInv, TypeOK, RunningOK, DeferredOK
<1>13. NothingLost'
  BY <1>1, <1>2, <1>3, <1>4 DEF IInv, TypeOK, NothingLost
<1> QED
  BY <1>5, <1>6, <1>7, <1>8, <1>9, <1>10, <1>11, <1>12, <1>13 DEF IInv

\* Every step keeps the inductive invariant.
LEMMA NextIInv == IInv /\ [Next]_vars => IInv'
<1> SUFFICES ASSUME IInv, [Next]_vars PROVE IInv'
  OBVIOUS
<1>1. CASE UNCHANGED vars
  <2>1. UNCHANGED <<running, mem, detach_state, joiner_futex, deferred, target, asleep, notified, result>>
    BY <1>1 DEF vars, futex
  <2> QED
    BY <2>1 DEF IInv, TypeOK, Sleepers, AsleepOK, NotifiedOK, OneEach, FutexWord, DeferredOK,
                RunningOK, NothingLost, F!Sleeping
<1>2. CASE Next
  <2>1. PICK t \in Thread : Step(t)
    BY <1>2 DEF Next
  <2>2. CASE \E u \in Thread, state \in {"DT_JOINABLE", "DT_DETACHED"} : Create(t, u, state)
    BY <2>2, CreateIInv
  <2>3. CASE CreateFails(t)
    BY <2>3, CreateFailsIInv
  <2>4. CASE Exit(t)
    <3>1. /\ t \in running
          /\ ~F!Sleeping(t)
          /\ running' = running \ {t}
          /\ UNCHANGED <<joiner_futex, target>>
      BY <2>4 DEF Exit, CanRun
    <3>2. CASE detach_state[t] = "DT_DETACHED" /\ t \notin OwnStack
      BY <2>4, <3>1, <3>2, ExitDetachedIInv DEF Exit
    <3>3. CASE ~(detach_state[t] = "DT_DETACHED" /\ t \notin OwnStack)
      BY <2>4, <3>1, <3>3, ExitJoinableIInv DEF Exit
    <3> QED
      BY <3>2, <3>3
  <2>5. ASSUME NEW u \in Thread,
               \/ JoinExited(t, u) \/ JoinWaits(t, u) \/ JoinTooLate(t, u) \/ Detach(t, u)
        PROVE  IInv'
    BY <2>5, JoinExitedIInv, JoinWaitsIInv, JoinTooLateIInv, DetachIInv
  <2>6. CASE JoinReturns(t)
    BY <2>6, JoinReturnsIInv
  <2>7. CASE JoinTimesOut(t)
    BY <2>7, JoinTimesOutIInv
  <2> QED
    BY <2>1, <2>2, <2>3, <2>4, <2>5, <2>6, <2>7 DEF Step
<1> QED
  BY <1>1, <1>2

LEMMA Invariance == Spec => []IInv
BY InitIInv, NextIInv, PTL DEF Spec

\* Every variable of thread creation, join and detach keeps its type.
THEOREM TypeCorrect == Spec => []TypeOK
<1>1. IInv => TypeOK
  BY DEF IInv
<1> QED
  BY <1>1, Invariance, PTL

\* While futex waits do not fail, no block of a thread that has not ended is
\* freed, by whatever joins, detaches, creates and exits there are.
THEOREM StacksOutliveThreads == Spec => []StackOutlivesThread
BY Consequences, Invariance, PTL

\* The block that a sleeping pthread_join returns to stays allocated.
THEOREM JoinedBlocksAreValid == Spec => []JoinedIsValid
BY Consequences, Invariance, PTL

\* joiner_futex counts the threads that wait to join: one or none.
THEOREM JoinersAreAlone == Spec => []OneJoiner
BY Consequences, Invariance, PTL

\* No block of an ended thread is lost by the single-entry deferred free.
THEOREM BlocksAreNotLost == Spec => []NothingLost
<1>1. IInv => NothingLost
  BY DEF IInv
<1> QED
  BY <1>1, Invariance, PTL

=============================================================================
