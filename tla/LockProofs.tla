----------------------------- MODULE LockProofs -----------------------------
(***************************************************************************)
(* The safety properties of Lock, for any finite set of threads.           *)
(***************************************************************************)
EXTENDS Lock, FiniteSetTheorems, TLAPS

\* Only live threads are in __lock or hold the lock, and locking is off or
\* about to go off only while there is a single thread.
Population ==
    /\ \A t \in Thread : pc[t] # "out" => t \in live
    /\ need_locks # 1 => \A t, u \in live : t = u
    /\ asleep \subseteq Waiting

\* The sign of the word says whether a thread took the lock; a thread that is
\* inside without having taken it skipped the lock.
SignBit ==
    /\ l < 0 => Inside # {} /\ l = INT_MIN + Cardinality(Waiting) + 1
    /\ l >= 0 => l = Cardinality(Waiting) /\ (Inside # {} => need_locks = 0)

\* The inductive invariant.
IInv == TypeOK /\ Population /\ SignBit /\ MutualExclusion /\ NoLostWakeup

LEMMA AddOne ==
    ASSUME NEW S, NEW x, IsFiniteSet(S), x \notin S
    PROVE  IsFiniteSet(S \cup {x}) /\ Cardinality(S \cup {x}) = Cardinality(S) + 1
BY FS_AddElement

LEMMA RemoveOne ==
    ASSUME NEW S, NEW x, IsFiniteSet(S), x \in S
    PROVE  IsFiniteSet(S \ {x}) /\ Cardinality(S \ {x}) = Cardinality(S) - 1
BY FS_RemoveElement

\* A count that leaves out one thread leaves the sign bit alone.
LEMMA Room ==
    ASSUME NEW W \in SUBSET Thread, NEW t \in Thread \ W
    PROVE  INT_MIN + Cardinality(W) + 1 < 0
<1>1. IsFiniteSet(W)
    BY FS_Subset, ConstantsOK
<1>2. Cardinality(W \cup {t}) = Cardinality(W) + 1
    BY <1>1, AddOne
<1>3. Cardinality(W \cup {t}) <= Cardinality(Thread)
    BY FS_Subset, ConstantsOK
<1>4. Cardinality(W) \in Nat /\ Cardinality(Thread) \in Nat
    BY <1>1, FS_CardinalityType, ConstantsOK
<1> QED
    BY <1>2, <1>3, <1>4, ConstantsOK

LEMMA WaitingCount ==
    /\ IsFiniteSet(Waiting)
    /\ Cardinality(Waiting) \in Nat
    /\ INT_MIN + Cardinality(Waiting) < 0
    /\ Cardinality(Waiting) = 0 => Waiting = {}
<1>1. IsFiniteSet(Waiting) /\ Cardinality(Waiting) <= Cardinality(Thread)
    BY FS_Subset, ConstantsOK DEF Waiting
<1>2. Cardinality(Waiting) \in Nat /\ Cardinality(Thread) \in Nat
    BY <1>1, FS_CardinalityType, ConstantsOK
<1>3. Cardinality(Waiting) = 0 => Waiting = {}
    BY <1>1, FS_EmptySet
<1> QED
    BY <1>1, <1>2, <1>3, ConstantsOK

\* The inductive invariant implies the properties of Lock that it does not name.
LEMMA Consequences ==
    ASSUME IInv
    PROVE  Congestion /\ HeldInside
BY DEF IInv, TypeOK, SignBit, Congestion, HeldInside

LEMMA InitIInv == Init => IInv
<1> SUFFICES ASSUME Init PROVE IInv
    OBVIOUS
<1>1. Waiting = {} /\ Inside = {}
    BY DEF Init, Waiting, Inside
<1> QED
    BY <1>1, FS_EmptySet DEF Init, IInv, TypeOK, Population, SignBit, MutualExclusion, NoLostWakeup

\* A thread that moves from one place to another.
LEMMA Move ==
    ASSUME TypeOK, NEW t \in Thread, NEW where \in {"out", "wait", "cs"}, Goto(t, where)
    PROVE  /\ pc' \in [Thread -> {"out", "wait", "cs"}]
           /\ pc'[t] = where
           /\ \A u \in Thread : u # t => pc'[u] = pc[u]
           /\ Waiting' = IF where = "wait" THEN Waiting \cup {t} ELSE Waiting \ {t}
           /\ Inside' = IF where = "cs" THEN Inside \cup {t} ELSE Inside \ {t}
<1>1. /\ pc' \in [Thread -> {"out", "wait", "cs"}]
      /\ pc'[t] = where
      /\ \A u \in Thread : u # t => pc'[u] = pc[u]
    BY DEF Goto, TypeOK
<1>2. Waiting' = IF where = "wait" THEN Waiting \cup {t} ELSE Waiting \ {t}
    BY <1>1 DEF Waiting
<1>3. Inside' = IF where = "cs" THEN Inside \cup {t} ELSE Inside \ {t}
    BY <1>1 DEF Inside
<1> QED
    BY <1>1, <1>2, <1>3

LEMMA NextIInv == IInv /\ [Next]_vars => IInv'
<1> SUFFICES ASSUME IInv, [Next]_vars PROVE IInv'
    OBVIOUS
<1> USE DEF IInv
<1>0. TypeOK
    OBVIOUS
<1>a. /\ IsFiniteSet(Waiting)
      /\ Cardinality(Waiting) \in Nat
      /\ INT_MIN + Cardinality(Waiting) < 0
      /\ Cardinality(Waiting) = 0 => Waiting = {}
      /\ INT_MIN \in Int
    BY WaitingCount, ConstantsOK
<1>1. CASE UNCHANGED vars
    BY <1>1 DEF vars, TypeOK, Population, SignBit, MutualExclusion, NoLostWakeup, Inside, Waiting
<1>2. ASSUME NEW t \in Thread, LockSkipped(t) PROVE IInv'
  <2>1. /\ t \in live /\ pc[t] = "out" /\ need_locks = 0 /\ Goto(t, "cs")
        /\ UNCHANGED <<l, need_locks, live, asleep>>
      BY <1>2 DEF LockSkipped
  <2>2. /\ pc' \in [Thread -> {"out", "wait", "cs"}]
        /\ \A u \in Thread : u # t => pc'[u] = pc[u]
        /\ Waiting' = Waiting \ {t} /\ Inside' = Inside \cup {t}
      BY <2>1, <1>0, Move
  <2>3. Inside = {} /\ Waiting = {} /\ Waiting' = {}
      BY <2>1, <2>2 DEF Population, Inside, Waiting
  <2>4. l' = 0 /\ Cardinality(Waiting') = 0
      BY <2>1, <2>3, FS_EmptySet DEF SignBit, TypeOK
  <2> QED
      BY <2>1, <2>2, <2>3, <2>4
      DEF TypeOK, Population, SignBit, MutualExclusion, NoLostWakeup
<1>3. ASSUME NEW t \in Thread, Lock(t) PROVE IInv'
  <2>1. /\ t \in live /\ pc[t] = "out" /\ need_locks # 0 /\ live' = live
        /\ need_locks' = IF need_locks < 0 THEN 0 ELSE need_locks
        /\ t \notin Waiting /\ t \notin Inside /\ t \notin asleep
      BY <1>3 DEF Lock, Waiting, Inside, Population
  <2>2. CASE l >= 0 /\ LockFree(t)
    <3>1. l' = INT_MIN + l + 1 /\ Goto(t, "cs") /\ asleep' = asleep
        BY <2>2 DEF LockFree
    <3>2. /\ pc' \in [Thread -> {"out", "wait", "cs"}]
          /\ pc'[t] = "cs"
          /\ \A u \in Thread : u # t => pc'[u] = pc[u]
          /\ Waiting' = Waiting \ {t} /\ Inside' = Inside \cup {t}
        BY <3>1, <1>0, Move
    <3>3. Waiting' = Waiting /\ Inside = {} /\ Inside' = {t}
        BY <2>1, <2>2, <3>2 DEF SignBit
    <3>4. TypeOK'
        BY <2>1, <3>1, <3>2, <1>a DEF TypeOK
    <3>5. INT_MIN + Cardinality(Waiting) + 1 < 0
        BY <2>1, Room DEF Waiting
    <3>6. SignBit'
        BY <2>2, <3>1, <3>3, <3>5, <1>a DEF SignBit, TypeOK
    <3>7. Population'
        BY <2>1, <3>1, <3>2, <3>3 DEF Population, TypeOK
    <3>8. MutualExclusion' /\ NoLostWakeup'
        BY <2>2, <3>1, <3>3, <3>5, <1>a DEF SignBit, MutualExclusion, NoLostWakeup
    <3> QED
        BY <3>4, <3>6, <3>7, <3>8
  <2>3. CASE l < 0 /\ LockHeld(t)
    <3>1. l' = l + 1 /\ Goto(t, "wait") /\ asleep' = asleep \cup {t}
        BY <2>3 DEF LockHeld, FutexWait
    <3>2. /\ pc' \in [Thread -> {"out", "wait", "cs"}]
          /\ pc'[t] = "wait"
          /\ \A u \in Thread : u # t => pc'[u] = pc[u]
          /\ Waiting' = Waiting \cup {t} /\ Inside' = Inside \ {t}
        BY <3>1, <1>0, Move
    <3>3. Inside' = Inside /\ Cardinality(Waiting') = Cardinality(Waiting) + 1
        BY <2>1, <3>2, <1>a, AddOne
    <3>4. TypeOK'
        BY <2>1, <3>1, <3>2, <1>a DEF TypeOK
    <3>5. l' < 0 /\ l' = INT_MIN + Cardinality(Waiting') + 1 /\ Inside' # {}
      <4>1. PICK u \in Inside : TRUE
          BY <2>3 DEF SignBit
      <4>2. Waiting' \in SUBSET Thread /\ u \in Thread \ Waiting'
          BY <4>1, <2>1, <3>2 DEF Waiting, Inside
      <4>3. INT_MIN + Cardinality(Waiting') + 1 < 0
          BY <4>2, Room
      <4> QED
          BY <4>3, <2>3, <3>1, <3>3, <1>a DEF SignBit
    <3>6. SignBit' /\ NoLostWakeup'
        BY <3>5 DEF SignBit, NoLostWakeup
    <3>7. Population'
        BY <2>1, <3>1, <3>2 DEF Population, TypeOK
    <3>8. MutualExclusion'
        BY <3>3 DEF MutualExclusion
    <3> QED
        BY <3>4, <3>6, <3>7, <3>8
  <2> QED
      BY <1>3, <2>2, <2>3 DEF Lock, TypeOK
<1>4. ASSUME NEW t \in Thread, Retry(t) PROVE IInv'
  <2>1. /\ pc[t] = "wait" /\ t \notin asleep /\ t \in Waiting /\ t \in live
        /\ need_locks' = need_locks /\ live' = live
      BY <1>4 DEF Retry, Waiting, Population
  <2>2. CASE l < 0
    <3>1. asleep' = asleep \cup {t} /\ l' = l /\ pc' = pc
        BY <1>4, <2>2 DEF Retry, FutexWait
    <3> QED
        BY <2>1, <2>2, <3>1
        DEF TypeOK, Population, SignBit, MutualExclusion, NoLostWakeup, Inside, Waiting
  <2>3. CASE ~(l < 0)
    <3>1. l' = INT_MIN + l /\ Goto(t, "cs") /\ asleep' = asleep
        BY <1>4, <2>3 DEF Retry
    <3>2. /\ pc' \in [Thread -> {"out", "wait", "cs"}]
          /\ pc'[t] = "cs"
          /\ \A u \in Thread : u # t => pc'[u] = pc[u]
          /\ Waiting' = Waiting \ {t} /\ Inside' = Inside \cup {t}
        BY <3>1, <1>0, Move
    <3>3. Inside = {}
      <4>1. l >= 0
          BY <2>3 DEF TypeOK
      <4> QED
          BY <4>1, <2>1 DEF SignBit, Population, Inside
    <3>4. Inside' = {t} /\ Cardinality(Waiting') = Cardinality(Waiting) - 1
        BY <3>2, <3>3, <2>1, <1>a, RemoveOne
    <3>5. TypeOK'
        BY <2>1, <3>1, <3>2, <1>a DEF TypeOK
    <3>6. l' < 0 /\ l' = INT_MIN + Cardinality(Waiting') + 1
        BY <2>3, <3>1, <3>4, <1>a DEF SignBit, TypeOK
    <3>7. SignBit' /\ NoLostWakeup' /\ MutualExclusion'
        BY <3>4, <3>6 DEF SignBit, NoLostWakeup, MutualExclusion
    <3>8. Population'
        BY <2>1, <3>1, <3>2 DEF Population, TypeOK
    <3> QED
        BY <3>5, <3>7, <3>8
  <2> QED
      BY <2>2, <2>3
<1>5. ASSUME NEW t \in Thread, Unlock(t) PROVE IInv'
  <2>1. /\ pc[t] = "cs" /\ Goto(t, "out") /\ need_locks' = need_locks /\ live' = live
        /\ t \in Inside /\ t \notin Waiting /\ t \in live
      BY <1>5 DEF Unlock, Inside, Waiting, Population
  <2>2. /\ pc' \in [Thread -> {"out", "wait", "cs"}]
        /\ pc'[t] = "out"
        /\ \A u \in Thread : u # t => pc'[u] = pc[u]
        /\ Waiting' = Waiting \ {t} /\ Inside' = Inside \ {t}
      BY <2>1, <1>0, Move
  <2>3. Waiting' = Waiting /\ Inside' = {}
      BY <2>1, <2>2 DEF MutualExclusion
  <2>4. CASE l < 0
    <3>1. l' = l - (INT_MIN + 1) /\ WakeOne(l)
        BY <1>5, <2>4 DEF Unlock
    <3>2. l' = Cardinality(Waiting') /\ l' >= 0
        BY <2>3, <2>4, <3>1, <1>a DEF SignBit
    <3>3. asleep' \subseteq asleep /\ (asleep' # {} => asleep' # Waiting)
      <4>1. CASE l # INT_MIN + 1 /\ asleep # {}
        <5>1. PICK u \in asleep : asleep' = asleep \ {u}
            BY <3>1, <4>1, Zenon DEF WakeOne
        <5> QED
            BY <5>1 DEF Population
      <4>2. CASE ~(l # INT_MIN + 1 /\ asleep # {})
        <5>1. asleep' = asleep
            BY <3>1, <4>2 DEF WakeOne
        <5>2. asleep = {}
            BY <4>2, <2>4, <1>a DEF SignBit, Population
        <5> QED
            BY <5>1, <5>2
      <4> QED
          BY <4>1, <4>2
    <3>4. TypeOK'
        BY <2>1, <2>2, <3>2, <3>3, <2>3, <1>a DEF TypeOK
    <3>5. SignBit' /\ NoLostWakeup' /\ MutualExclusion'
      <4>1. ~(l' < 0)
          BY <3>2, <2>3, <1>a
      <4>2. SignBit'
          BY <2>3, <3>2, <4>1 DEF SignBit
      <4>3. NoLostWakeup' /\ MutualExclusion'
          BY <2>3, <3>3 DEF NoLostWakeup, MutualExclusion
      <4> QED
          BY <4>2, <4>3
    <3>6. Population'
        BY <2>1, <2>2, <2>3, <3>3 DEF Population, TypeOK
    <3> QED
        BY <3>4, <3>5, <3>6
  <2>5. CASE ~(l < 0)
    <3>1. l' = l /\ asleep' = asleep
        BY <1>5, <2>5 DEF Unlock
    <3>2. TypeOK' /\ Population'
        BY <2>1, <2>2, <2>3, <3>1 DEF TypeOK, Population
    <3>3. SignBit' /\ NoLostWakeup' /\ MutualExclusion'
        BY <2>3, <2>5, <3>1 DEF SignBit, NoLostWakeup, MutualExclusion, TypeOK
    <3> QED
        BY <3>2, <3>3
  <2> QED
      BY <2>4, <2>5
<1>6. ASSUME NEW t \in Thread, NEW u \in Thread, Create(t, u) PROVE IInv'
  <2>1. /\ t \in live /\ pc[t] = "out" /\ live' = live \cup {u}
        /\ need_locks' = IF live = {t} THEN 1 ELSE need_locks
        /\ l' = l /\ pc' = pc /\ asleep' = asleep
      BY <1>6 DEF Create
  <2>2. need_locks' = 1
      BY <2>1 DEF Population
  <2>3. l >= 0 => Inside = {}
      BY <2>1 DEF SignBit, Population, Inside
  <2> QED
      BY <2>1, <2>2, <2>3
      DEF TypeOK, Population, SignBit, MutualExclusion, NoLostWakeup, Inside, Waiting
<1>7. ASSUME NEW t \in Thread, CreateFails(t) PROVE IInv'
  <2>1. /\ t \in live /\ pc[t] = "out" /\ live' = live
        /\ need_locks' = IF live = {t} THEN 0 ELSE need_locks
        /\ l' = l /\ pc' = pc /\ asleep' = asleep
      BY <1>7 DEF CreateFails
  <2> QED
      BY <2>1
      DEF TypeOK, Population, SignBit, MutualExclusion, NoLostWakeup, Inside, Waiting
<1>8. ASSUME NEW t \in Thread, Exit(t) PROVE IInv'
  <2>1. /\ t \in live /\ pc[t] = "out" /\ live # {t} /\ live' = live \ {t}
        /\ need_locks' = IF \E u \in live : live' = {u} THEN -1 ELSE need_locks
        /\ l' = l /\ pc' = pc /\ asleep' = asleep
      BY <1>8 DEF Exit
  <2>2. need_locks = 1
      BY <2>1 DEF Population
  <2>3. need_locks' # 1 => \A u, v \in live' : u = v
      BY <2>1, <2>2
  <2>4. TypeOK' /\ Population'
      BY <2>1, <2>2, <2>3 DEF TypeOK, Population, Waiting
  <2>5. SignBit' /\ NoLostWakeup' /\ MutualExclusion'
      BY <2>1, <2>2 DEF SignBit, NoLostWakeup, MutualExclusion, Inside, Waiting
  <2> QED
      BY <2>4, <2>5
<1> QED
    BY <1>1, <1>2, <1>3, <1>4, <1>5, <1>6, <1>7, <1>8 DEF Next, Step

LEMMA Invariance == Spec => []IInv
BY InitIInv, NextIInv, PTL DEF Spec

\* Every variable keeps its type.
THEOREM TypeCorrect == Spec => []TypeOK
<1>1. IInv => TypeOK
    BY DEF IInv
<1> QED
    BY <1>1, Invariance, PTL

\* __lock and __unlock exclude one another's critical sections, however many
\* threads there are and whenever they are created and exit.
THEOREM LockExcludes == Spec => []MutualExclusion
<1>1. IInv => MutualExclusion
    BY DEF IInv
<1> QED
    BY <1>1, Invariance, PTL

\* The word is the congestion count with the sign bit as the lock flag.
THEOREM CongestionIsExact == Spec => []Congestion
<1>1. IInv => Congestion
    BY Consequences
<1> QED
    BY <1>1, Invariance, PTL

\* The assertion that a lock is held never fails inside the critical section.
THEOREM AssertHeldHolds == Spec => []HeldInside
<1>1. IInv => HeldInside
    BY Consequences
<1> QED
    BY <1>1, Invariance, PTL

\* A free lock never leaves all of its waiters asleep.
THEOREM WakeupsAreNotLost == Spec => []NoLostWakeup
<1>1. IInv => NoLostWakeup
    BY DEF IInv
<1> QED
    BY <1>1, Invariance, PTL

=============================================================================
