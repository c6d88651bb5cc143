----------------------- MODULE DescriptorTableProofs -----------------------
(***************************************************************************)
(* Proofs about DescriptorTable, for any number of threads, objects and    *)
(* entries.  HintSound, RefCountExact and NoUseAfterFree are not inductive *)
(* by themselves: IInv adds which call holds the lock, which calls hold an *)
(* entry, and which objects are being destroyed.                           *)
(***************************************************************************)
EXTENDS DescriptorTable, FiniteSetTheorems, TLAPS

\* The call that holds the lock across a suspension is dropping an entry or
\* clearing the table, and only a clear leaves entries already dropped.
LockDiscipline ==
    /\ owner = NoThread => cleared = 0
    /\ \A t \in Thread :
        /\ owner = t => pc[t] \in {"dec", "free", "clear"}
        /\ owner = t /\ op[t] # "clear" => cleared = 0
        /\ op[t] = "clear" /\ pc[t] # "lock" => owner = t
        /\ pc[t] = "clear" => op[t] = "clear"
        /\ pc[t] \in {"stdio", "lock"} => op[t] # "none"
        /\ pc[t] = "stdio" => op[t] # "clear"
        /\ pc[t] = "idle" => op[t] = "none"

\* A call has an entry in hand exactly while it inserts or drops one, and the
\* table has none beyond its length.
EntryInHand ==
    /\ \A fd \in Fd : fd >= len => slot[fd] = NoObj
    /\ \A t \in Thread :
        IF \/ pc[t] \in {"dec", "free"}
           \/ pc[t] \in {"stdio", "lock"} /\ op[t] = "insert"
        THEN ref[t][0] \in Obj
        ELSE ref[t][0] = NoObj

\* Counted objects are allocated, an object is destroyed once, and
\* live_descriptors counts the allocated ones.
Lifetime ==
    /\ \A o \in Obj : cnt[o] > 0 => o \in alive
    /\ \A t \in Thread : pc[t] = "free" => ref[t][0] \in alive /\ cnt[ref[t][0]] = 0
    /\ \A t, u \in Thread :
        pc[t] = "free" /\ pc[u] = "free" /\ t # u => ref[t][0] # ref[u][0]
    /\ IsFiniteSet(alive)
    /\ live_descriptors = Cardinality(alive)

IInv == TypeOK /\ LockDiscipline /\ EntryInHand /\ HintSound /\ RefCountExact /\ Lifetime

-----------------------------------------------------------------------------
(* Counting.                                                               *)

LEMMA AddOne ==
    ASSUME NEW S, NEW x, IsFiniteSet(S), x \notin S
    PROVE  Cardinality(S \cup {x}) = Cardinality(S) + 1
BY FS_AddElement

LEMMA RemoveOne ==
    ASSUME NEW S, NEW x, IsFiniteSet(S), x \in S
    PROVE  Cardinality(S \ {x}) = Cardinality(S) - 1
BY FS_RemoveElement

\* References are finite in number, in this state and in the next.
LEMMA FiniteRefs ==
    ASSUME NEW o
    PROVE  /\ IsFiniteSet(SlotRefs(o)) /\ IsFiniteSet(SlotRefs(o)')
           /\ IsFiniteSet(ThreadRefs(o)) /\ IsFiniteSet(ThreadRefs(o)')
           /\ Cardinality(SlotRefs(o)) \in Nat /\ Cardinality(SlotRefs(o)') \in Nat
           /\ Cardinality(ThreadRefs(o)) \in Nat /\ Cardinality(ThreadRefs(o)') \in Nat
<1>1. IsFiniteSet(Fd)
    BY ConstantsOK, FS_Interval DEF Fd
<1>2. IsFiniteSet(0 .. MaxRefs)
    BY ConstantsOK, FS_Interval
<1>3. IsFiniteSet(Thread \X (0 .. MaxRefs))
    BY <1>2, ConstantsOK, FS_Product
<1>4. /\ SlotRefs(o) \in SUBSET Fd /\ SlotRefs(o)' \in SUBSET Fd
      /\ ThreadRefs(o) \in SUBSET (Thread \X (0 .. MaxRefs))
      /\ ThreadRefs(o)' \in SUBSET (Thread \X (0 .. MaxRefs))
    BY DEF SlotRefs, ThreadRefs
<1>5. /\ IsFiniteSet(SlotRefs(o)) /\ IsFiniteSet(SlotRefs(o)')
      /\ IsFiniteSet(ThreadRefs(o)) /\ IsFiniteSet(ThreadRefs(o)')
    BY <1>1, <1>3, <1>4, FS_Subset
<1> QED
    BY <1>5, FS_CardinalityType

-----------------------------------------------------------------------------
(* Types, the lock, entries in hand and the hint.                          *)

\* What a call drops is still counted.
LEMMA HeldIsCounted ==
    ASSUME IInv, NEW t \in Thread, NEW i \in 0 .. MaxRefs, ref[t][i] \in Obj,
           i = 0 => pc[t] # "free"
    PROVE  cnt[ref[t][i]] > 0
<1>1. <<t, i>> \in ThreadRefs(ref[t][i])
    BY DEF ThreadRefs
<1>2. Cardinality(ThreadRefs(ref[t][i])) # 0
    BY <1>1, FiniteRefs, FS_EmptySet
<1> QED
    BY <1>2, FiniteRefs DEF IInv, RefCountExact

\* table_grow leaves room for the entry it is asked for, and never shrinks.
LEMMA GrowBound ==
    ASSUME len \in Nat, NEW needed \in Nat, NEW n \in Nat, Grow(needed, n)
    PROVE  n >= needed /\ n >= len
<1>1. CASE needed <= len
    BY <1>1 DEF Grow, GrownLen
<1>2. CASE needed > len
    BY <1>2 DEF Grow, GrownLen
<1> QED
    BY <1>1, <1>2

LEMMA StepShape ==
    ASSUME IInv, NEW t \in Thread, Step(t)
    PROVE  (TypeOK /\ LockDiscipline /\ EntryInHand /\ HintSound)'
<1> DEFINE Shape == TypeOK /\ LockDiscipline /\ EntryInHand /\ HintSound
<1> USE ConstantsOK DEF IInv, TypeOK, LockDiscipline, EntryInHand, HintSound,
        Occupied, Fd, MaybeObj, table, objects
<1>1. ASSUME NEW call \in Calls, Call(t, call) PROVE Shape'
    BY <1>1 DEF Call, EnterCall, Goto, Calls
<1>2. ASSUME CallInsert(t) PROVE Shape'
    BY <1>2 DEF CallInsert, EnterCall, Goto, Calls
<1>3. ASSUME AddStdio(t) PROVE Shape'
  <2>1. PICK o \in Obj \ alive, fd \in 0 .. (MaxLen - 1), n \in 0 .. MaxLen :
            /\ cnt' = [cnt EXCEPT ![o] = 1]
            /\ alive' = alive \cup {o}
            /\ live_descriptors' = live_descriptors + 1
            /\ FirstFree(next_fd, fd)
            /\ Grow(fd + 1, n)
            /\ len' = n
            /\ slot' = [slot EXCEPT ![fd] = o]
            /\ next_fd' = fd + 1
      BY <1>3, Zenon DEF AddStdio, Allocate
  <2>0. n >= fd + 1 /\ n >= len /\ fd \in next_fd .. len
      BY <2>1, GrowBound DEF FirstFree
  <2>2. /\ pc[t] = "stdio" /\ owner = NoThread
        /\ pc' = pc \/ pc' = [pc EXCEPT ![t] = "lock"]
        /\ added' = [added EXCEPT ![t] = IF @ = 2 THEN 0 ELSE @ + 1]
        /\ UNCHANGED <<cur, owner, cleared, stdio_initialized, op, ref>>
      BY <1>3 DEF AddStdio, Goto
  <2>3. added' \in [Thread -> 0 .. 2]
      BY <2>2
  <2>7. /\ slot' \in [Fd -> MaybeObj] /\ cnt' \in [Obj -> Nat]
        /\ pc' \in [Thread -> {"idle", "stdio", "lock", "dec", "free", "clear"}]
      BY <2>0, <2>1, <2>2
  <2>4. TypeOK'
      BY <2>0, <2>1, <2>2, <2>3, <2>7
  <2>5. LockDiscipline' /\ EntryInHand'
      BY <2>0, <2>1, <2>2
  <2>6. HintSound'
      BY <2>1 DEF FirstFree
  <2> QED
      BY <2>4, <2>5, <2>6
<1>4. ASSUME AddStdioFails(t) PROVE Shape'
  <2>1. /\ pc[t] = "stdio" /\ added' = [added EXCEPT ![t] = 0]
        /\ UNCHANGED <<cur, owner, len, next_fd, slot, cleared, stdio_initialized>>
        /\ UNCHANGED <<cnt, alive, live_descriptors, ref>>
      BY <1>4 DEF AddStdioFails
  <2>2. CASE op[t] = "insert"
    <3>1. pc' = [pc EXCEPT ![t] = "dec"] /\ op' = op
        BY <1>4, <2>2 DEF AddStdioFails, Goto
    <3> QED
        BY <2>1, <2>2, <3>1
  <2>3. CASE op[t] # "insert"
    <3>1. pc' = [pc EXCEPT ![t] = "idle"] /\ op' = [op EXCEPT ![t] = "none"]
        BY <1>4, <2>3 DEF AddStdioFails, Goto, Return
    <3>2. op' \in [Thread -> Calls \cup {"none"}]
        BY <3>1
    <3>3. TypeOK'
        BY <2>1, <3>1, <3>2
    <3>4. LockDiscipline' /\ EntryInHand' /\ HintSound'
        BY <2>1, <2>3, <3>1
    <3> QED
        BY <3>3, <3>4
  <2> QED
      BY <2>2, <2>3
<1>5. ASSUME ReturnsUnchanged(t) PROVE Shape'
    BY <1>5 DEF ReturnsUnchanged, Holds, Goto, Return
<1>6. ASSUME Insert(t) PROVE Shape'
    BY <1>6 DEF Insert, Holds, Allocate, FirstFree, Grow, GrownLen, Goto, Return
<1>7. ASSUME InsertFails(t) PROVE Shape'
    BY <1>7 DEF InsertFails, Holds, Goto
<1>8. ASSUME Get(t) PROVE Shape'
    BY <1>8 DEF Get, Holds, Lookup, Goto, Return, EntryInc
<1>9. ASSUME Dup(t) PROVE Shape'
    BY <1>9 DEF Dup, Holds, Lookup, Allocate, FirstFree, Grow, GrownLen, Goto, Return, EntryInc
<1>10. ASSUME Dup2(t) PROVE Shape'
  <2>1. PICK fd \in 0 .. (MaxLen - 1), newfd \in 0 .. (MaxLen - 1), n \in 0 .. MaxLen :
            /\ Lookup(fd)
            /\ Grow(newfd + 1, n)
            /\ len' = n
            /\ slot' = [slot EXCEPT ![newfd] = slot[fd]]
            /\ cnt' = [cnt EXCEPT ![slot[fd]] = @ + 1]
            /\ ref' = [ref EXCEPT ![t][0] = slot[newfd]]
            /\ IF slot[newfd] # NoObj
               THEN pc' = [pc EXCEPT ![t] = "dec"] /\ owner' = t /\ op' = op
               ELSE /\ pc' = [pc EXCEPT ![t] = "idle"] /\ owner' = owner
                    /\ op' = [op EXCEPT ![t] = "none"]
      BY <1>10, Zenon DEF Dup2, Goto, Return, EntryInc
  <2>0. n >= newfd + 1 /\ n >= len
      BY <2>1, GrowBound
  <2>2. /\ pc[t] = "lock" /\ owner = NoThread /\ op[t] \in {"dup2", "dup3"}
        /\ UNCHANGED <<cur, next_fd, cleared, stdio_initialized, alive, live_descriptors, added>>
      BY <1>10 DEF Dup2, Holds, EntryInc
  <2>3. slot[fd] \in Obj
      BY <2>1 DEF Lookup
  <2>4. /\ slot' \in [Fd -> MaybeObj] /\ cnt' \in [Obj -> Nat]
        /\ ref' \in [Thread -> [0 .. MaxRefs -> MaybeObj]]
      BY <2>1, <2>3
  <2>5. HintSound' /\ \A g \in Fd : g >= len' => slot'[g] = NoObj
      BY <2>0, <2>1, <2>2, <2>3
  <2>6. CASE slot[newfd] # NoObj
    <3>1. slot[newfd] \in Obj /\ pc' = [pc EXCEPT ![t] = "dec"] /\ owner' = t /\ op' = op
        BY <2>1, <2>6
    <3> QED
        BY <2>0, <2>1, <2>2, <2>4, <2>5, <3>1
  <2>7. CASE slot[newfd] = NoObj
    <3>1. /\ pc' = [pc EXCEPT ![t] = "idle"] /\ owner' = owner
          /\ op' = [op EXCEPT ![t] = "none"]
        BY <2>1, <2>7
    <3>2. op' \in [Thread -> Calls \cup {"none"}]
        BY <3>1
    <3> QED
        BY <2>0, <2>1, <2>2, <2>4, <2>5, <2>7, <3>1, <3>2
  <2> QED
      BY <2>6, <2>7
<1>11. ASSUME Dupfd(t) PROVE Shape'
  <2>1. PICK fd \in 0 .. (MaxLen - 1), minfd \in 0 .. (MaxLen - 1), n \in 0 .. MaxLen :
            /\ Lookup(fd)
            /\ Grow(minfd + 1, n)
            /\ len' = n
            /\ slot' = [slot EXCEPT ![minfd] = slot[fd]]
            /\ cnt' = [cnt EXCEPT ![slot[fd]] = @ + 1]
      BY <1>11, Zenon DEF Dupfd, EntryInc
  <2>0. n >= minfd + 1 /\ n >= len
      BY <2>1, GrowBound
  <2>2. /\ pc[t] = "lock" /\ owner = NoThread /\ op[t] = "dupfd"
        /\ pc' = [pc EXCEPT ![t] = "idle"] /\ op' = [op EXCEPT ![t] = "none"]
        /\ UNCHANGED <<cur, owner, next_fd, cleared, stdio_initialized, alive, live_descriptors, added, ref>>
      BY <1>11 DEF Dupfd, Holds, Goto, Return, EntryInc
  <2>3. slot[fd] \in Obj
      BY <2>1 DEF Lookup
  <2>4. slot' \in [Fd -> MaybeObj] /\ cnt' \in [Obj -> Nat]
      BY <2>1, <2>3
  <2>5. HintSound' /\ \A g \in Fd : g >= len' => slot'[g] = NoObj
      BY <2>0, <2>1, <2>2, <2>3
  <2> QED
      BY <2>0, <2>1, <2>2, <2>4, <2>5
<1>12. ASSUME Remove(t) PROVE Shape'
    BY <1>12 DEF Remove, Holds, Lookup, Goto, LoweredHint
<1>13. ASSUME StartClear(t) PROVE Shape'
    BY <1>13 DEF StartClear, Holds, Goto
<1>14. ASSUME ClearEntry(t) PROVE Shape'
  <2>1. /\ pc[t] = "clear" /\ cleared < len /\ cleared' = cleared + 1
        /\ ref' = [ref EXCEPT ![t][0] = slot[cleared]]
        /\ UNCHANGED <<cur, owner, len, next_fd, slot, stdio_initialized, op, added>>
        /\ UNCHANGED <<cnt, alive, live_descriptors>>
        /\ pc' = IF slot[cleared] # NoObj THEN [pc EXCEPT ![t] = "dec"] ELSE pc
      BY <1>14 DEF ClearEntry, Goto
  <2>2. slot[cleared] \in MaybeObj
      BY <2>1
  <2>3. ref' \in [Thread -> [0 .. MaxRefs -> MaybeObj]]
      BY <2>1, <2>2
  <2>4. TypeOK' /\ LockDiscipline' /\ HintSound'
      BY <2>1, <2>3
  <2>5. EntryInHand'
      BY <2>1, <2>2
  <2> QED
      BY <2>4, <2>5
<1>15. ASSUME FinishClear(t) PROVE Shape'
  <2>1. /\ pc[t] = "clear" /\ slot' = [fd \in Fd |-> NoObj]
        /\ len' = 0 /\ next_fd' = 0 /\ cleared' = 0 /\ stdio_initialized' = FALSE
        /\ owner' = NoThread
        /\ pc' = [pc EXCEPT ![t] = "idle"] /\ op' = [op EXCEPT ![t] = "none"]
        /\ UNCHANGED <<cur, cnt, alive, live_descriptors, added, ref>>
      BY <1>15 DEF FinishClear, Goto, Return
  <2>2. slot' \in [Fd -> MaybeObj] /\ op' \in [Thread -> Calls \cup {"none"}]
      BY <2>1
  <2>3. len' \in 0 .. MaxLen /\ next_fd' \in 0 .. len' /\ cleared' \in 0 .. len' /\ HintSound'
      BY <2>1
  <2>5. TypeOK'
      BY <2>1, <2>2, <2>3
  <2>4. LockDiscipline' /\ EntryInHand'
      BY <2>1
  <2> QED
      BY <2>3, <2>4, <2>5
<1>16. ASSUME EntryDec(t) PROVE Shape'
  <2>1. /\ pc[t] = "dec" /\ ref[t][0] \in Obj /\ 0 \in 0 .. MaxRefs
        /\ cnt' = [cnt EXCEPT ![ref[t][0]] = @ - 1]
        /\ UNCHANGED <<cur, len, next_fd, slot, cleared, stdio_initialized, alive, live_descriptors, added>>
      BY <1>16 DEF EntryDec, LastReference
  <2>2. cnt[ref[t][0]] > 0
      BY <2>1, HeldIsCounted
  <2>3. cnt' \in [Obj -> Nat]
      BY <2>1, <2>2
  <2>4. CASE cnt[ref[t][0]] = 1
    <3>1. pc' = [pc EXCEPT ![t] = "free"] /\ UNCHANGED <<owner, op, ref>>
        BY <1>16, <2>4 DEF EntryDec, Goto, LastReference
    <3> QED
        BY <2>1, <2>3, <3>1
  <2>5. CASE cnt[ref[t][0]] # 1 /\ op[t] = "clear"
    <3>1. /\ pc' = [pc EXCEPT ![t] = "clear"]
          /\ ref' = [ref EXCEPT ![t][0] = NoObj]
          /\ UNCHANGED <<owner, op>>
        BY <1>16, <2>5 DEF EntryDec, AfterDrop, Goto, LastReference
    <3>2. ref' \in [Thread -> [0 .. MaxRefs -> MaybeObj]]
        BY <3>1
    <3>3. TypeOK' /\ LockDiscipline' /\ HintSound'
        BY <2>1, <2>3, <2>5, <3>1, <3>2
    <3>4. EntryInHand'
        BY <2>1, <3>1
    <3> QED
        BY <3>3, <3>4
  <2>6. CASE cnt[ref[t][0]] # 1 /\ op[t] # "clear"
    <3>1. /\ pc' = [pc EXCEPT ![t] = "idle"]
          /\ op' = [op EXCEPT ![t] = "none"]
          /\ ref' = [ref EXCEPT ![t][0] = NoObj]
          /\ owner' = IF owner = t THEN NoThread ELSE owner
        BY <1>16, <2>6 DEF EntryDec, AfterDrop, Goto, Return, LastReference
    <3>2. ref' \in [Thread -> [0 .. MaxRefs -> MaybeObj]]
        BY <3>1
    <3>3. TypeOK'
        BY <2>1, <2>3, <3>1, <3>2
    <3>4. LockDiscipline' /\ HintSound'
        BY <2>1, <2>6, <3>1
    <3>5. EntryInHand'
        BY <2>1, <3>1
    <3> QED
        BY <3>3, <3>4, <3>5
  <2> QED
      BY <2>4, <2>5, <2>6
<1>17. ASSUME Deallocate(t) PROVE Shape'
  <2>1. live_descriptors - 1 \in Nat
    <3>1. pc[t] = "free" /\ ref[t][0] \in alive
        BY <1>17 DEF Deallocate, Lifetime
    <3>2. alive # {} /\ IsFiniteSet(alive) /\ live_descriptors = Cardinality(alive)
        BY <3>1 DEF Lifetime
    <3>3. live_descriptors \in Nat /\ live_descriptors # 0
        BY <3>2, FS_EmptySet, FS_CardinalityType
    <3> QED
        BY <3>3
  <2>2. /\ pc[t] = "free" /\ alive' = alive \ {ref[t][0]}
        /\ live_descriptors' = live_descriptors - 1
        /\ ref' = [ref EXCEPT ![t][0] = NoObj]
        /\ UNCHANGED <<cur, len, next_fd, slot, cleared, stdio_initialized, cnt, added>>
      BY <1>17 DEF Deallocate
  <2>3. ref' \in [Thread -> [0 .. MaxRefs -> MaybeObj]]
      BY <2>2
  <2>4. CASE op[t] = "clear"
    <3>1. pc' = [pc EXCEPT ![t] = "clear"] /\ UNCHANGED <<owner, op>>
        BY <1>17, <2>4 DEF Deallocate, AfterDrop, Goto
    <3>2. TypeOK' /\ LockDiscipline' /\ HintSound'
        BY <2>1, <2>2, <2>3, <2>4, <3>1
    <3> QED
        BY <2>2, <3>1, <3>2
  <2>5. CASE op[t] # "clear"
    <3>1. /\ pc' = [pc EXCEPT ![t] = "idle"]
          /\ op' = [op EXCEPT ![t] = "none"]
          /\ owner' = IF owner = t THEN NoThread ELSE owner
        BY <1>17, <2>5 DEF Deallocate, AfterDrop, Goto, Return
    <3>2. TypeOK'
        BY <2>1, <2>2, <2>3, <3>1
    <3>3. LockDiscipline' /\ HintSound'
        BY <2>2, <2>5, <3>1
    <3>4. EntryInHand'
        BY <2>2, <3>1
    <3> QED
        BY <3>2, <3>3, <3>4
  <2> QED
      BY <2>4, <2>5
<1>18. ASSUME Release(t) PROVE Shape'
    BY <1>18 DEF Release, Goto
<1> QED
    BY <1>1, <1>2, <1>3, <1>4, <1>5, <1>6, <1>7, <1>8, <1>9, <1>10, <1>11, <1>12,
       <1>13, <1>14, <1>15, <1>16, <1>17, <1>18 DEF Step

-----------------------------------------------------------------------------
(* The reference counts.                                                   *)

\* Reference i of thread u keeps o alive.
Keeps(u, i, o) == ref[u][i] = o /\ ~(i = 0 /\ pc[u] = "free")

\* A thread's references to o change only where it takes or gives one up.
LEMMA ThreadRefsSame ==
    ASSUME NEW o,
           \A u \in Thread, i \in 0 .. MaxRefs :
               Keeps(u, i, o)' <=> Keeps(u, i, o)
    PROVE  ThreadRefs(o)' = ThreadRefs(o)
BY DEF ThreadRefs, Keeps

LEMMA ThreadRefsAdd ==
    ASSUME NEW o, NEW t \in Thread, NEW j \in 0 .. MaxRefs,
           \A u \in Thread, i \in 0 .. MaxRefs :
               Keeps(u, i, o)' <=> (Keeps(u, i, o) \/ (u = t /\ i = j)),
           ~Keeps(t, j, o)
    PROVE  Cardinality(ThreadRefs(o)') = Cardinality(ThreadRefs(o)) + 1
<1>1. ThreadRefs(o)' = ThreadRefs(o) \cup {<<t, j>>}
    BY DEF ThreadRefs, Keeps
<1>2. <<t, j>> \notin ThreadRefs(o)
    BY DEF ThreadRefs, Keeps
<1> QED
    BY <1>1, <1>2, AddOne, FiniteRefs

LEMMA ThreadRefsRemove ==
    ASSUME NEW o, NEW t \in Thread, NEW j \in 0 .. MaxRefs,
           \A u \in Thread, i \in 0 .. MaxRefs :
               Keeps(u, i, o)' <=> (Keeps(u, i, o) /\ ~(u = t /\ i = j)),
           Keeps(t, j, o)
    PROVE  Cardinality(ThreadRefs(o)') = Cardinality(ThreadRefs(o)) - 1
<1>1. ThreadRefs(o)' = ThreadRefs(o) \ {<<t, j>>}
    BY DEF ThreadRefs, Keeps
<1>2. <<t, j>> \in ThreadRefs(o)
    BY DEF ThreadRefs, Keeps
<1> QED
    BY <1>1, <1>2, RemoveOne, FiniteRefs

\* The same for the table's entries.
LEMMA SlotRefsAdd ==
    ASSUME NEW o, NEW fd \in Fd, fd \notin SlotRefs(o), fd \in SlotRefs(o)',
           \A g \in Fd \ {fd} : g \in SlotRefs(o)' <=> g \in SlotRefs(o)
    PROVE  Cardinality(SlotRefs(o)') = Cardinality(SlotRefs(o)) + 1
<1>1. SlotRefs(o)' = SlotRefs(o) \cup {fd}
    BY DEF SlotRefs
<1> QED
    BY <1>1, AddOne, FiniteRefs

LEMMA SlotRefsRemove ==
    ASSUME NEW o, NEW fd \in Fd, fd \in SlotRefs(o), fd \notin SlotRefs(o)',
           \A g \in Fd \ {fd} : g \in SlotRefs(o)' <=> g \in SlotRefs(o)
    PROVE  Cardinality(SlotRefs(o)') = Cardinality(SlotRefs(o)) - 1
<1>1. SlotRefs(o)' = SlotRefs(o) \ {fd}
    BY DEF SlotRefs
<1> QED
    BY <1>1, RemoveOne, FiniteRefs

\* Every step keeps the counts exact.
LEMMA StepCount ==
    ASSUME IInv, NEW t \in Thread, Step(t)
    PROVE  RefCountExact'
<1> SUFFICES ASSUME NEW o \in Obj
             PROVE  cnt'[o] = Cardinality(SlotRefs(o)') + Cardinality(ThreadRefs(o)')
    BY DEF RefCountExact
<1> DEFINE S == Cardinality(SlotRefs(o))
           T == Cardinality(ThreadRefs(o))
<1>a. /\ cnt[o] = S + T /\ S \in Nat /\ T \in Nat
      /\ 0 \in 0 .. MaxRefs
      /\ NoObj \notin Obj
    BY FiniteRefs, ConstantsOK DEF IInv, RefCountExact
<1>b. TypeOK /\ LockDiscipline /\ EntryInHand /\ Lifetime
    BY DEF IInv
<1> HIDE DEF S, T
<1> USE DEF TypeOK, MaybeObj, Occupied
\* Calls that move no reference.
<1>same. ASSUME UNCHANGED <<slot, cleared, cnt, ref>>,
                \A u \in Thread : pc'[u] = "free" <=> pc[u] = "free"
         PROVE  cnt'[o] = S' + T'
  <2>1. ThreadRefs(o)' = ThreadRefs(o)
      BY <1>same, ThreadRefsSame DEF Keeps
  <2>2. SlotRefs(o)' = SlotRefs(o)
      BY <1>same DEF SlotRefs
  <2> QED
      BY <1>a, <1>same, <2>1, <2>2 DEF S, T
<1>1. ASSUME NEW call \in Calls, Call(t, call) PROVE cnt'[o] = S' + T'
    BY <1>1, <1>b, <1>same DEF Call, EnterCall, Goto, objects
<1>2. ASSUME CallInsert(t) PROVE cnt'[o] = S' + T'
  <2>1. PICK p \in Obj \ alive :
            cnt' = [cnt EXCEPT ![p] = 1] /\ ref' = [ref EXCEPT ![t][0] = p]
      BY <1>2 DEF CallInsert
  <2>2. /\ pc[t] = "idle" /\ ref[t][0] = NoObj
        /\ pc' = [pc EXCEPT ![t] = IF stdio_initialized THEN "lock" ELSE "stdio"]
        /\ UNCHANGED <<slot, cleared>>
      BY <1>2, <1>b DEF CallInsert, EnterCall, Goto, EntryInHand
  <2>3. S' = S
      BY <2>2 DEF S, SlotRefs
  <2>4. CASE o = p
    <3>1. cnt[o] = 0
        BY <1>b, <2>4 DEF Lifetime
    <3>2. T' = T + 1
        <4>1. \A u \in Thread, k \in 0 .. MaxRefs :
                  Keeps(u, k, o)' <=> (Keeps(u, k, o) \/ (u = t /\ k = 0))
            BY <1>a, <1>b, <2>1, <2>2, <2>4 DEF Keeps
        <4>2. ~Keeps(t, 0, o)
            BY <1>a, <1>b, <2>1, <2>2, <2>4 DEF Keeps
        <4> QED
            BY <4>1, <4>2, <1>a, ThreadRefsAdd DEF T
    <3> QED
        BY <1>a, <1>b, <2>1, <2>3, <2>4, <3>1, <3>2
  <2>5. CASE o # p
    <3>1. ThreadRefs(o)' = ThreadRefs(o)
        BY <1>a, <1>b, <2>1, <2>2, <2>5, ThreadRefsSame DEF Keeps
    <3> QED
        BY <1>a, <1>b, <2>1, <2>3, <2>5, <3>1 DEF T
  <2> QED
      BY <2>4, <2>5
\* A free entry gets an object that the caller counts.
<1>fill. ASSUME NEW fd \in Fd, NEW p \in Obj, slot[fd] = NoObj, cleared = 0,
                slot' = [slot EXCEPT ![fd] = p], cleared' = 0
         PROVE  S' = IF o = p THEN S + 1 ELSE S
  <2>1. CASE o = p
      BY <1>fill, <1>a, <1>b, <2>1, SlotRefsAdd DEF S, SlotRefs, Fd
  <2>2. CASE o # p
    <3>1. SlotRefs(o)' = SlotRefs(o)
        BY <1>fill, <1>a, <1>b, <2>2 DEF SlotRefs
    <3> QED
        BY <2>2, <3>1 DEF S
  <2> QED
      BY <2>1, <2>2
<1>3. ASSUME AddStdio(t) PROVE cnt'[o] = S' + T'
  <2>1. PICK p \in Obj \ alive, fd \in Fd :
            /\ cnt' = [cnt EXCEPT ![p] = 1]
            /\ FirstFree(next_fd, fd)
            /\ slot' = [slot EXCEPT ![fd] = p]
      BY <1>3, Zenon DEF AddStdio, Allocate
  <2>2. /\ cleared = 0 /\ cleared' = 0 /\ ref' = ref
        /\ \A u \in Thread : pc'[u] = "free" <=> pc[u] = "free"
      BY <1>3, <1>b DEF AddStdio, Goto, LockDiscipline
  <2>3. slot[fd] = NoObj
      BY <1>b, <2>1 DEF FirstFree, EntryInHand
  <2>4. T' = T
      BY <2>2, ThreadRefsSame DEF T, Keeps
  <2>5. S' = IF o = p THEN S + 1 ELSE S
      BY <1>fill, <2>1, <2>2, <2>3
  <2>6. o = p => cnt[o] = 0
      BY <1>b, <2>1 DEF Lifetime
  <2> QED
      BY <1>a, <1>b, <2>1, <2>4, <2>5, <2>6
<1>4. ASSUME AddStdioFails(t) PROVE cnt'[o] = S' + T'
    BY <1>4, <1>b, <1>same DEF AddStdioFails, Goto, Return, table, objects
<1>5. ASSUME ReturnsUnchanged(t) PROVE cnt'[o] = S' + T'
    BY <1>5, <1>b, <1>same DEF ReturnsUnchanged, Holds, Goto, Return, table, objects
<1>6. ASSUME Insert(t) PROVE cnt'[o] = S' + T'
  <2> DEFINE p == ref[t][0]
  <2>1. PICK fd \in Fd : FirstFree(next_fd, fd) /\ slot' = [slot EXCEPT ![fd] = p]
      BY <1>6, Zenon DEF Insert, Allocate
  <2>2. /\ p \in Obj /\ pc[t] = "lock"
        /\ cleared = 0 /\ cleared' = 0 /\ cnt' = cnt
        /\ ref' = [ref EXCEPT ![t][0] = NoObj]
        /\ pc' = [pc EXCEPT ![t] = "idle"]
      BY <1>6, <1>b DEF Insert, Holds, Goto, Return, LockDiscipline, EntryInHand, objects
  <2>3. slot[fd] = NoObj
      BY <1>b, <2>1 DEF FirstFree, EntryInHand
  <2>4. S' = IF o = p THEN S + 1 ELSE S
      BY <1>fill, <2>1, <2>2, <2>3
  <2>5. CASE o = p
    <3>1. T' = T - 1
        <4>1. \A u \in Thread, k \in 0 .. MaxRefs :
                  Keeps(u, k, o)' <=> (Keeps(u, k, o) /\ ~ (u = t /\ k = 0))
            BY <1>a, <1>b, <2>2, <2>5 DEF Keeps
        <4>2. Keeps(t, 0, o)
            BY <1>a, <1>b, <2>2, <2>5 DEF Keeps
        <4> QED
            BY <4>1, <4>2, <1>a, ThreadRefsRemove DEF T
    <3> QED
        BY <1>a, <2>2, <2>4, <2>5, <3>1
  <2>6. CASE o # p
    <3>1. ThreadRefs(o)' = ThreadRefs(o)
        BY <1>a, <1>b, <2>2, <2>6, ThreadRefsSame DEF Keeps
    <3> QED
        BY <1>a, <2>2, <2>4, <2>6, <3>1 DEF T
  <2> QED
      BY <2>5, <2>6
<1>7. ASSUME InsertFails(t) PROVE cnt'[o] = S' + T'
    BY <1>7, <1>b, <1>same DEF InsertFails, Holds, Goto, table, objects
<1>8. ASSUME Get(t) PROVE cnt'[o] = S' + T'
  <2>1. PICK fd \in Fd, i \in 1 .. MaxRefs :
            /\ Lookup(fd)
            /\ ref[t][i] = NoObj
            /\ cnt' = [cnt EXCEPT ![slot[fd]] = @ + 1]
            /\ ref' = [ref EXCEPT ![t][i] = slot[fd]]
      BY <1>8 DEF Get, EntryInc
  <2>2. /\ pc[t] = "lock" /\ pc' = [pc EXCEPT ![t] = "idle"]
        /\ UNCHANGED <<slot, cleared>>
      BY <1>8 DEF Get, Holds, Goto, Return, table, EntryInc
  <2>3. slot[fd] \in Obj /\ i \in 0 .. MaxRefs
      BY <1>b, <2>1, ConstantsOK DEF Lookup
  <2>4. S' = S
      BY <2>2 DEF S, SlotRefs
  <2>5. CASE o = slot[fd]
    <3>1. T' = T + 1
        <4>1. \A u \in Thread, k \in 0 .. MaxRefs :
                  Keeps(u, k, o)' <=> (Keeps(u, k, o) \/ (u = t /\ k = i))
            BY <1>a, <1>b, <2>1, <2>2, <2>3, <2>5 DEF Keeps
        <4>2. ~Keeps(t, i, o)
            BY <1>a, <1>b, <2>1, <2>2, <2>3, <2>5 DEF Keeps
        <4> QED
            BY <4>1, <4>2, <2>3, <1>a, ThreadRefsAdd DEF T
    <3> QED
        BY <1>a, <1>b, <2>1, <2>4, <2>5, <3>1
  <2>6. CASE o # slot[fd]
    <3>1. ThreadRefs(o)' = ThreadRefs(o)
        BY <1>a, <1>b, <2>1, <2>2, <2>3, <2>6, ThreadRefsSame DEF Keeps
    <3> QED
        BY <1>a, <1>b, <2>1, <2>3, <2>4, <2>6, <3>1 DEF T
  <2> QED
      BY <2>5, <2>6
<1>9. ASSUME Dup(t) PROVE cnt'[o] = S' + T'
  <2>1. PICK old \in Fd, fd \in Fd :
            /\ Lookup(old)
            /\ FirstFree(next_fd, fd)
            /\ slot' = [slot EXCEPT ![fd] = slot[old]]
            /\ cnt' = [cnt EXCEPT ![slot[old]] = @ + 1]
      BY <1>9, Zenon DEF Dup, Allocate, EntryInc
  <2>2. /\ cleared = 0 /\ cleared' = 0 /\ ref' = ref
        /\ \A u \in Thread : pc'[u] = "free" <=> pc[u] = "free"
      BY <1>9, <1>b DEF Dup, Holds, Goto, Return, LockDiscipline, EntryInc
  <2>3. slot[fd] = NoObj /\ slot[old] \in Obj
      BY <1>b, <2>1 DEF FirstFree, EntryInHand, Lookup
  <2>4. T' = T
      BY <2>2, ThreadRefsSame DEF T, Keeps
  <2>5. S' = IF o = slot[old] THEN S + 1 ELSE S
      BY <1>fill, <2>1, <2>2, <2>3
  <2> QED
      BY <1>a, <1>b, <2>1, <2>3, <2>4, <2>5
<1>10. ASSUME Dup2(t) PROVE cnt'[o] = S' + T'
  <2>1. PICK fd \in Fd, newfd \in Fd :
            /\ Lookup(fd)
            /\ slot' = [slot EXCEPT ![newfd] = slot[fd]]
            /\ cnt' = [cnt EXCEPT ![slot[fd]] = @ + 1]
            /\ ref' = [ref EXCEPT ![t][0] = slot[newfd]]
            /\ pc' = [pc EXCEPT ![t] = "dec"] \/ pc' = [pc EXCEPT ![t] = "idle"]
      BY <1>10, Zenon DEF Dup2, Goto, Return, EntryInc
  <2>2. /\ pc[t] = "lock" /\ ref[t][0] = NoObj
        /\ cleared = 0 /\ cleared' = 0
      BY <1>10, <1>b DEF Dup2, Holds, LockDiscipline, EntryInHand, EntryInc
  <2>9. \A u \in Thread : pc'[u] = "free" <=> pc[u] = "free"
      BY <1>b, <2>1, <2>2
  <2> DEFINE p == slot[fd]
             q == slot[newfd]
  <2>3. p \in Obj /\ q \in MaybeObj
      BY <1>b, <2>1 DEF Lookup
  <2>4. T' = IF o = q THEN T + 1 ELSE T
    <3>1. CASE o = q
        <4>1. \A u \in Thread, k \in 0 .. MaxRefs :
                  Keeps(u, k, o)' <=> (Keeps(u, k, o) \/ (u = t /\ k = 0))
            BY <1>a, <1>b, <2>1, <2>2, <2>9, <3>1 DEF Keeps
        <4>2. ~Keeps(t, 0, o)
            BY <1>a, <1>b, <2>1, <2>2, <2>9, <3>1 DEF Keeps
        <4>3. T' = T + 1
            BY <4>1, <4>2, <1>a, ThreadRefsAdd DEF T
        <4> QED
            BY <3>1, <4>3
    <3>2. CASE o # q
      <4>1. ThreadRefs(o)' = ThreadRefs(o)
        <5>1. \A u \in Thread, k \in 0 .. MaxRefs : Keeps(u, k, o)' <=> Keeps(u, k, o)
            BY <1>a, <1>b, <2>1, <2>2, <2>9, <3>2 DEF Keeps
        <5> QED
            BY <5>1, ThreadRefsSame
      <4> QED
          BY <3>2, <4>1 DEF T
    <3> QED
        BY <3>1, <3>2
  <2>5. CASE q = p
    <3>1. slot' = slot
        BY <1>b, <2>1, <2>5
    <3>2. SlotRefs(o)' = SlotRefs(o)
        BY <2>2, <3>1 DEF SlotRefs
    <3> QED
        BY <1>a, <1>b, <2>1, <2>3, <2>4, <2>5, <3>2 DEF S
  <2>6. CASE q # p /\ o = p
    <3>1. S' = S + 1
      <4>1. /\ newfd \notin SlotRefs(o) /\ newfd \in SlotRefs(o)'
            /\ \A g \in Fd \ {newfd} : g \in SlotRefs(o)' <=> g \in SlotRefs(o)
          BY <1>b, <2>1, <2>2, <2>6 DEF SlotRefs, Fd
      <4> QED
          BY <4>1, <2>1, SlotRefsAdd DEF S
    <3> QED
        BY <1>a, <1>b, <2>1, <2>4, <2>6, <3>1
  <2>7. CASE q # p /\ o = q
    <3>1. S' = S - 1
      <4>1. /\ newfd \in SlotRefs(o) /\ newfd \notin SlotRefs(o)'
            /\ \A g \in Fd \ {newfd} : g \in SlotRefs(o)' <=> g \in SlotRefs(o)
          BY <1>b, <2>1, <2>2, <2>7 DEF SlotRefs, Fd
      <4> QED
          BY <4>1, <2>1, SlotRefsRemove DEF S
    <3> QED
        BY <1>a, <1>b, <2>1, <2>3, <2>4, <2>7, <3>1
  <2>8. CASE o # p /\ o # q
    <3>1. SlotRefs(o)' = SlotRefs(o)
        BY <1>b, <2>1, <2>2, <2>8 DEF SlotRefs
    <3> QED
        BY <1>a, <1>b, <2>1, <2>3, <2>4, <2>8, <3>1 DEF S
  <2> QED
      BY <2>5, <2>6, <2>7, <2>8
<1>11. ASSUME Dupfd(t) PROVE cnt'[o] = S' + T'
  <2>1. PICK old \in Fd, arg \in 0 .. (MAX_DESCRIPTOR - 1), fd \in Fd :
            /\ Lookup(old)
            /\ IF (IF arg < next_fd THEN next_fd ELSE arg) < len
               THEN FirstFree(IF arg < next_fd THEN next_fd ELSE arg, fd)
               ELSE fd = (IF arg < next_fd THEN next_fd ELSE arg)
            /\ slot' = [slot EXCEPT ![fd] = slot[old]]
            /\ cnt' = [cnt EXCEPT ![slot[old]] = @ + 1]
      BY <1>11, Zenon DEF Dupfd, EntryInc
  <2>2. /\ cleared = 0 /\ cleared' = 0 /\ ref' = ref
        /\ \A u \in Thread : pc'[u] = "free" <=> pc[u] = "free"
      BY <1>11, <1>b DEF Dupfd, Holds, Goto, Return, LockDiscipline, EntryInc
  <2>3. slot[fd] = NoObj /\ slot[old] \in Obj
      BY <1>b, <2>1, ConstantsOK DEF FirstFree, EntryInHand, Lookup, Fd
  <2>4. T' = T
      BY <2>2, ThreadRefsSame DEF T, Keeps
  <2>5. S' = IF o = slot[old] THEN S + 1 ELSE S
      BY <1>fill, <2>1, <2>2, <2>3
  <2> QED
      BY <1>a, <1>b, <2>1, <2>3, <2>4, <2>5
\* A reference leaves the table for the call that drops it.
<1>take. ASSUME NEW fd \in Fd, slot[fd] \in MaybeObj, fd >= cleared,
                ref[t][0] = NoObj, ref' = [ref EXCEPT ![t][0] = slot[fd]],
                \A u \in Thread : pc'[u] = "free" <=> pc[u] = "free",
                pc[t] # "free", cnt' = cnt,
                \A g \in Fd : (slot'[g] = o /\ g >= cleared')
                                  <=> (slot[g] = o /\ g >= cleared) /\ g # fd
         PROVE  cnt'[o] = S' + T'
  <2>1. CASE o = slot[fd]
    <3>1. T' = T + 1
        <4>1. \A u \in Thread, k \in 0 .. MaxRefs :
                  Keeps(u, k, o)' <=> (Keeps(u, k, o) \/ (u = t /\ k = 0))
            BY <1>take, <1>a, <1>b, <2>1 DEF Keeps
        <4>2. ~Keeps(t, 0, o)
            BY <1>take, <1>a, <1>b, <2>1 DEF Keeps
        <4> QED
            BY <4>1, <4>2, <1>a, ThreadRefsAdd DEF T
    <3>2. S' = S - 1
        BY <1>take, <2>1, SlotRefsRemove DEF S, SlotRefs
    <3> QED
        BY <1>take, <1>a, <3>1, <3>2
  <2>2. CASE o # slot[fd]
    <3>1. ThreadRefs(o)' = ThreadRefs(o)
        BY <1>take, <1>a, <1>b, <2>2, ThreadRefsSame DEF Keeps
    <3>2. SlotRefs(o)' = SlotRefs(o)
        BY <1>take, <2>2 DEF SlotRefs
    <3> QED
        BY <1>take, <1>a, <3>1, <3>2 DEF S, T
  <2> QED
      BY <2>1, <2>2
<1>12. ASSUME Remove(t) PROVE cnt'[o] = S' + T'
  <2>1. PICK fd \in Fd :
            /\ Lookup(fd)
            /\ ref' = [ref EXCEPT ![t][0] = slot[fd]]
            /\ slot' = [slot EXCEPT ![fd] = NoObj]
      BY <1>12 DEF Remove, LoweredHint
  <2>2. /\ pc[t] = "lock" /\ pc' = [pc EXCEPT ![t] = "dec"] /\ ref[t][0] = NoObj
        /\ cleared = 0 /\ cleared' = 0 /\ cnt' = cnt
      BY <1>12, <1>b DEF Remove, Holds, Goto, LockDiscipline, EntryInHand, objects, LoweredHint
  <2>3. /\ \A g \in Fd : (slot'[g] = o /\ g >= cleared')
                             <=> (slot[g] = o /\ g >= cleared) /\ g # fd
        /\ \A u \in Thread : pc'[u] = "free" <=> pc[u] = "free"
      BY <1>a, <1>b, <2>1, <2>2
  <2>4. fd >= cleared /\ pc[t] # "free" /\ slot[fd] \in MaybeObj
      BY <1>b, <2>2 DEF Fd
  <2> QED
      BY <1>take, <2>1, <2>2, <2>3, <2>4, Zenon
<1>13. ASSUME StartClear(t) PROVE cnt'[o] = S' + T'
    BY <1>13, <1>b, <1>same DEF StartClear, Holds, Goto, table, objects
<1>14. ASSUME ClearEntry(t) PROVE cnt'[o] = S' + T'
  <2>1. /\ pc[t] = "clear" /\ cleared < len /\ cleared' = cleared + 1 /\ ref[t][0] = NoObj
        /\ ref' = [ref EXCEPT ![t][0] = slot[cleared]]
        /\ UNCHANGED <<slot, cnt>>
        /\ \A u \in Thread : pc'[u] = "free" <=> pc[u] = "free"
      BY <1>14, <1>b DEF ClearEntry, Goto, EntryInHand, objects
  <2>2. cleared \in Fd
      BY <1>b, <2>1, ConstantsOK DEF Fd
  <2>3. \A g \in Fd : (slot'[g] = o /\ g >= cleared')
                          <=> (slot[g] = o /\ g >= cleared) /\ g # cleared
      BY <1>b, <2>1 DEF Fd
  <2>4. cleared >= cleared /\ pc[t] # "free" /\ slot[cleared] \in MaybeObj /\ cnt' = cnt
      BY <1>b, <2>1, <2>2 DEF Fd
  <2> QED
      BY <1>take, <2>1, <2>2, <2>3, <2>4, Zenon
<1>15. ASSUME FinishClear(t) PROVE cnt'[o] = S' + T'
  <2>1. /\ pc[t] = "clear" /\ pc' = [pc EXCEPT ![t] = "idle"]
        /\ cleared = len /\ slot' = [fd \in Fd |-> NoObj]
        /\ UNCHANGED <<cnt, ref>>
      BY <1>15 DEF FinishClear, Goto, Return, objects
  <2>2. SlotRefs(o) = {} /\ SlotRefs(o)' = {}
      BY <1>a, <1>b, <2>1 DEF SlotRefs, EntryInHand
  <2>3. ThreadRefs(o)' = ThreadRefs(o)
      BY <1>b, <2>1, ThreadRefsSame DEF Keeps
  <2> QED
      BY <1>a, <2>1, <2>2, <2>3 DEF S, T
<1>16. ASSUME EntryDec(t) PROVE cnt'[o] = S' + T'
  <2> DEFINE p == ref[t][0]
  <2>1. /\ pc[t] = "dec" /\ p \in Obj
        /\ cnt' = [cnt EXCEPT ![p] = @ - 1]
        /\ UNCHANGED <<slot, cleared>>
        /\ \/ pc' = [pc EXCEPT ![t] = "free"] /\ ref' = ref
           \/ /\ pc' = [pc EXCEPT ![t] = "clear"] \/ pc' = [pc EXCEPT ![t] = "idle"]
              /\ ref' = [ref EXCEPT ![t][0] = NoObj]
      BY <1>16, <1>b DEF EntryDec, AfterDrop, Goto, Return, EntryInHand, table, LastReference
  <2>5. \A u \in Thread, k \in 0 .. MaxRefs :
            Keeps(u, k, o)' <=> (Keeps(u, k, o) /\ ~(u = t /\ k = 0))
    <3>1. CASE pc' = [pc EXCEPT ![t] = "free"] /\ ref' = ref
        BY <1>a, <1>b, <2>1, <3>1 DEF Keeps
    <3>2. CASE /\ pc' = [pc EXCEPT ![t] = "clear"] \/ pc' = [pc EXCEPT ![t] = "idle"]
               /\ ref' = [ref EXCEPT ![t][0] = NoObj]
        BY <1>a, <1>b, <2>1, <3>2 DEF Keeps
    <3> QED
        BY <2>1, <3>1, <3>2
  <2>2. S' = S
      BY <2>1 DEF S, SlotRefs
  <2>3. CASE o = p
    <3>1. T' = T - 1
        <4>2. Keeps(t, 0, o)
            BY <2>1, <2>3 DEF Keeps
        <4> QED
            BY <2>5, <4>2, <1>a, ThreadRefsRemove DEF T
    <3> QED
        BY <1>a, <1>b, <2>1, <2>2, <2>3, <3>1
  <2>4. CASE o # p
    <3>1. ThreadRefs(o)' = ThreadRefs(o)
        <4>1. ~Keeps(t, 0, o)
            BY <2>4 DEF Keeps
        <4> QED
            BY <2>5, <4>1, ThreadRefsSame
    <3> QED
        BY <1>a, <1>b, <2>1, <2>2, <2>4, <3>1 DEF T
  <2> QED
      BY <2>3, <2>4
<1>17. ASSUME Deallocate(t) PROVE cnt'[o] = S' + T'
  <2>1. /\ pc[t] = "free"
        /\ pc' = [pc EXCEPT ![t] = "clear"] \/ pc' = [pc EXCEPT ![t] = "idle"]
        /\ ref' = [ref EXCEPT ![t][0] = NoObj]
        /\ UNCHANGED <<slot, cleared, cnt>>
      BY <1>17 DEF Deallocate, AfterDrop, Goto, Return, table
  <2>2. SlotRefs(o)' = SlotRefs(o)
      BY <2>1 DEF SlotRefs
  <2>3. ThreadRefs(o)' = ThreadRefs(o)
      BY <1>a, <1>b, <2>1, ThreadRefsSame DEF Keeps
  <2> QED
      BY <1>a, <2>1, <2>2, <2>3 DEF S, T
<1>18. ASSUME Release(t) PROVE cnt'[o] = S' + T'
  <2>1. PICK i \in 1 .. MaxRefs :
            ref[t][i] # NoObj /\ ref' = [ref EXCEPT ![t][0] = ref[t][i], ![t][i] = NoObj]
      BY <1>18 DEF Release
  <2>2. /\ pc[t] = "idle" /\ pc' = [pc EXCEPT ![t] = "dec"] /\ ref[t][0] = NoObj
        /\ UNCHANGED <<slot, cleared, cnt>>
      BY <1>18, <1>b DEF Release, Goto, EntryInHand, table, objects
  <2>3. i \in 0 .. MaxRefs /\ i # 0
      BY <2>1, ConstantsOK
  <2>4. SlotRefs(o)' = SlotRefs(o)
      BY <2>2 DEF SlotRefs
  <2>5. CASE o = ref[t][i]
    <3>8. \A u \in Thread, k \in 0 .. MaxRefs :
              ref'[u][k] = IF u = t /\ k = i THEN NoObj
                           ELSE IF u = t /\ k = 0 THEN ref[t][i] ELSE ref[u][k]
        BY <1>a, <1>b, <2>1, <2>3
    <3>9. \A u \in Thread : pc'[u] = "free" <=> pc[u] = "free"
        BY <1>b, <2>2
    <3>7. \A u \in Thread, k \in 0 .. MaxRefs :
              Keeps(u, k, o)' <=> ((Keeps(u, k, o) /\ ~(u = t /\ k = i)) \/ (u = t /\ k = 0))
        BY <1>a, <2>2, <2>3, <2>5, <3>8, <3>9 DEF Keeps
    <3>1. ThreadRefs(o)' = (ThreadRefs(o) \ {<<t, i>>}) \cup {<<t, 0>>}
        BY <1>a, <2>3, <3>7 DEF ThreadRefs, Keeps
    <3>2. <<t, i>> \in ThreadRefs(o) /\ <<t, 0>> \notin ThreadRefs(o)
        BY <1>a, <2>2, <2>3, <2>5 DEF ThreadRefs
    <3>3. /\ Cardinality(ThreadRefs(o) \ {<<t, i>>}) = T - 1
          /\ IsFiniteSet(ThreadRefs(o) \ {<<t, i>>})
        BY <3>2, FiniteRefs, FS_RemoveElement DEF T
    <3>4. <<t, 0>> \notin ThreadRefs(o) \ {<<t, i>>}
        BY <3>2
    <3>5. T' = (T - 1) + 1
        BY <3>1, <3>3, <3>4, AddOne DEF T
    <3>6. T' = T
        BY <1>a, <3>5
    <3> QED
        BY <1>a, <2>2, <2>4, <3>6 DEF S
  <2>6. CASE o # ref[t][i]
    <3>1. ThreadRefs(o)' = ThreadRefs(o)
        BY <1>a, <1>b, <2>1, <2>2, <2>3, <2>6, ThreadRefsSame DEF Keeps
    <3> QED
        BY <1>a, <2>2, <2>4, <3>1 DEF S, T
  <2> QED
      BY <2>5, <2>6
<1> QED
    BY <1>1, <1>2, <1>3, <1>4, <1>5, <1>6, <1>7, <1>8, <1>9, <1>10, <1>11, <1>12,
       <1>13, <1>14, <1>15, <1>16, <1>17, <1>18 DEF Step, S, T

-----------------------------------------------------------------------------
(* Lifetimes.                                                              *)

\* Every step keeps counted objects allocated and destroys an object once.
LEMMA StepLifetime ==
    ASSUME IInv, NEW t \in Thread, Step(t)
    PROVE  Lifetime'
<1>a. TypeOK /\ LockDiscipline /\ EntryInHand /\ Lifetime
    BY DEF IInv
<1> USE DEF TypeOK, MaybeObj
\* Calls that neither allocate nor destroy, and count only what is counted.
<1>same. ASSUME UNCHANGED <<alive, live_descriptors>>,
                \A o \in Obj : cnt'[o] = cnt[o] \/ (cnt[o] > 0 /\ cnt'[o] > 0),
                \A u \in Thread : pc'[u] = "free" <=> pc[u] = "free",
                \A u \in Thread : pc[u] = "free" => ref'[u][0] = ref[u][0]
         PROVE  Lifetime'
    BY <1>same, <1>a DEF Lifetime, EntryInHand
\* An object is allocated.
<1>new. ASSUME NEW p \in Obj \ alive, alive' = alive \cup {p},
               live_descriptors' = live_descriptors + 1,
               cnt' = [cnt EXCEPT ![p] = 1],
               \A u \in Thread : pc'[u] = "free" <=> pc[u] = "free",
               \A u \in Thread : pc[u] = "free" => ref'[u][0] = ref[u][0]
        PROVE  Lifetime'
  <2>1. IsFiniteSet(alive') /\ live_descriptors' = Cardinality(alive')
      BY <1>new, <1>a, FS_AddElement DEF Lifetime
  <2> QED
      BY <1>new, <1>a, <2>1 DEF Lifetime, EntryInHand
<1>1. ASSUME NEW call \in Calls, Call(t, call) PROVE Lifetime'
    BY <1>1, <1>a, <1>same DEF Call, EnterCall, Goto, objects
<1>2. ASSUME CallInsert(t) PROVE Lifetime'
    BY <1>2, <1>a, <1>new DEF CallInsert, EnterCall, Goto
<1>3. ASSUME AddStdio(t) PROVE Lifetime'
    BY <1>3, <1>a, <1>new DEF AddStdio, Goto
<1>4. ASSUME AddStdioFails(t) PROVE Lifetime'
    BY <1>4, <1>a, <1>same DEF AddStdioFails, Goto, Return, objects
<1>5. ASSUME ReturnsUnchanged(t) PROVE Lifetime'
    BY <1>5, <1>a, <1>same DEF ReturnsUnchanged, Holds, Goto, Return, objects
<1>6. ASSUME Insert(t) PROVE Lifetime'
    BY <1>6, <1>a, <1>same DEF Insert, Holds, Goto, Return, objects
<1>7. ASSUME InsertFails(t) PROVE Lifetime'
    BY <1>7, <1>a, <1>same DEF InsertFails, Holds, Goto, objects
\* An entry outside a clear counts as a reference to its object.
<1>slot. ASSUME NEW fd \in Fd, Lookup(fd), owner = NoThread
         PROVE  slot[fd] \in Obj /\ cnt[slot[fd]] > 0
  <2>1. slot[fd] \in Obj /\ fd \in SlotRefs(slot[fd])
      BY <1>slot, <1>a DEF Lookup, Occupied, SlotRefs, LockDiscipline, Fd
  <2>2. Cardinality(SlotRefs(slot[fd])) # 0
      BY <2>1, FiniteRefs, FS_EmptySet
  <2> QED
      BY <2>1, <2>2, FiniteRefs DEF IInv, RefCountExact
<1>8. ASSUME Get(t) PROVE Lifetime'
    BY <1>8, <1>a, <1>slot, <1>same DEF Get, Holds, Goto, Return, EntryInc
<1>9. ASSUME Dup(t) PROVE Lifetime'
    BY <1>9, <1>a, <1>slot, <1>same DEF Dup, Holds, Goto, Return, EntryInc
<1>10. ASSUME Dup2(t) PROVE Lifetime'
    BY <1>10, <1>a, <1>slot, <1>same DEF Dup2, Holds, Goto, Return, EntryInc
<1>11. ASSUME Dupfd(t) PROVE Lifetime'
    BY <1>11, <1>a, <1>slot, <1>same DEF Dupfd, Holds, Goto, Return, EntryInc
<1>12. ASSUME Remove(t) PROVE Lifetime'
    BY <1>12, <1>a, <1>same DEF Remove, Holds, Goto, objects, LoweredHint
<1>13. ASSUME StartClear(t) PROVE Lifetime'
    BY <1>13, <1>a, <1>same DEF StartClear, Holds, Goto, objects
<1>14. ASSUME ClearEntry(t) PROVE Lifetime'
    BY <1>14, <1>a, <1>same DEF ClearEntry, Goto, objects
<1>15. ASSUME FinishClear(t) PROVE Lifetime'
    BY <1>15, <1>a, <1>same DEF FinishClear, Goto, Return, objects
<1>16. ASSUME EntryDec(t) PROVE Lifetime'
  <2> DEFINE p == ref[t][0]
  <2>1. /\ pc[t] = "dec" /\ p \in Obj
        /\ cnt' = [cnt EXCEPT ![p] = @ - 1]
        /\ UNCHANGED <<alive, live_descriptors>>
        /\ IF cnt[p] = 1 THEN pc' = [pc EXCEPT ![t] = "free"] /\ ref' = ref
           ELSE /\ pc' = [pc EXCEPT ![t] = "clear"] \/ pc' = [pc EXCEPT ![t] = "idle"]
                /\ ref' = [ref EXCEPT ![t][0] = NoObj]
      BY <1>16, <1>a DEF EntryDec, AfterDrop, Goto, Return, EntryInHand, LastReference
  <2>2. cnt[p] > 0
      BY <2>1, HeldIsCounted, ConstantsOK
  <2>3. CASE cnt[p] = 1
      BY <1>a, <2>1, <2>2, <2>3 DEF Lifetime, EntryInHand
  <2>4. CASE cnt[p] # 1
    <3>1. \A o \in Obj : cnt'[o] = cnt[o] \/ (cnt[o] > 0 /\ cnt'[o] > 0)
        BY <1>a, <2>1, <2>2, <2>4
    <3>2. /\ \A u \in Thread : pc'[u] = "free" <=> pc[u] = "free"
          /\ \A u \in Thread : pc[u] = "free" => ref'[u][0] = ref[u][0]
        BY <1>a, <2>1, <2>4
    <3> QED
        BY <1>same, <2>1, <3>1, <3>2
  <2> QED
      BY <2>3, <2>4
<1>17. ASSUME Deallocate(t) PROVE Lifetime'
  <2> DEFINE p == ref[t][0]
  <2>1. /\ pc[t] = "free" /\ p \in alive /\ cnt[p] = 0
        /\ alive' = alive \ {p} /\ live_descriptors' = live_descriptors - 1
        /\ cnt' = cnt /\ ref' = [ref EXCEPT ![t][0] = NoObj]
        /\ pc' = [pc EXCEPT ![t] = "clear"] \/ pc' = [pc EXCEPT ![t] = "idle"]
      BY <1>17, <1>a DEF Deallocate, AfterDrop, Goto, Return, Lifetime
  <2>2. IsFiniteSet(alive') /\ live_descriptors' = Cardinality(alive')
    <3>1. IsFiniteSet(alive) /\ live_descriptors = Cardinality(alive)
        BY <1>a DEF Lifetime
    <3>2. Cardinality(alive \ {p}) = Cardinality(alive) - 1 /\ IsFiniteSet(alive \ {p})
        BY <2>1, <3>1, FS_RemoveElement
    <3> QED
        BY <2>1, <3>1, <3>2
  <2> QED
      BY <1>a, <2>1, <2>2 DEF Lifetime, EntryInHand
<1>18. ASSUME Release(t) PROVE Lifetime'
    BY <1>18, <1>a, <1>same DEF Release, Goto, objects
<1> QED
    BY <1>1, <1>2, <1>3, <1>4, <1>5, <1>6, <1>7, <1>8, <1>9, <1>10, <1>11, <1>12,
       <1>13, <1>14, <1>15, <1>16, <1>17, <1>18 DEF Step

-----------------------------------------------------------------------------
(* Theorems.                                                               *)

LEMMA InitIInv == Init => IInv
<1> SUFFICES ASSUME Init PROVE IInv
    OBVIOUS
<1>1. TypeOK
  <2>1. /\ slot \in [Fd -> MaybeObj] /\ cnt \in [Obj -> Nat]
        /\ ref \in [Thread -> [0 .. MaxRefs -> MaybeObj]]
        /\ added \in [Thread -> 0 .. 2]
      BY DEF Init, MaybeObj
  <2>2. /\ pc \in [Thread -> {"idle", "stdio", "lock", "dec", "free", "clear"}]
        /\ op \in [Thread -> Calls \cup {"none"}]
      BY DEF Init
  <2>3. /\ len \in 0 .. MaxLen /\ next_fd \in 0 .. len /\ cleared \in 0 .. len
        /\ live_descriptors \in Nat
      BY ConstantsOK DEF Init
  <2> QED
      BY <2>1, <2>2, <2>3 DEF Init, TypeOK
<1>5. LockDiscipline /\ EntryInHand /\ HintSound
    BY ConstantsOK DEF Init, LockDiscipline, EntryInHand, HintSound
<1>2. \A o \in Obj : SlotRefs(o) = {} /\ ThreadRefs(o) = {}
    BY ConstantsOK DEF Init, SlotRefs, ThreadRefs
<1>3. RefCountExact
  <2> SUFFICES ASSUME NEW o \in Obj
               PROVE  cnt[o] = Cardinality(SlotRefs(o)) + Cardinality(ThreadRefs(o))
      BY DEF RefCountExact
  <2>1. Cardinality(SlotRefs(o)) = 0 /\ Cardinality(ThreadRefs(o)) = 0
      BY <1>2, FS_EmptySet
  <2>2. cnt[o] = 0
      BY DEF Init
  <2> QED
      BY <2>1, <2>2
<1>4. Lifetime
    BY FS_EmptySet DEF Init, Lifetime
<1> QED
    BY <1>1, <1>3, <1>4, <1>5 DEF IInv

\* The inductive step: a step of the running thread, a switch or a stutter.
LEMMA NextIInv == IInv /\ [Next]_vars => IInv'
<1> SUFFICES ASSUME IInv, [Next]_vars PROVE IInv'
    OBVIOUS
<1>1. CASE Step(cur)
    BY <1>1, StepShape, StepCount, StepLifetime DEF IInv, TypeOK
<1>2. CASE Switch \/ UNCHANGED vars
  <2>1. /\ cur' \in Thread
        /\ UNCHANGED <<owner, len, next_fd, slot, cleared, stdio_initialized>>
        /\ UNCHANGED <<cnt, alive, live_descriptors, pc, op, added, ref>>
      BY <1>2 DEF IInv, TypeOK, Switch, vars, table, objects
  <2>2. TypeOK' /\ LockDiscipline' /\ EntryInHand' /\ HintSound' /\ Lifetime'
      BY <2>1 DEF IInv, TypeOK, LockDiscipline, EntryInHand, HintSound, Occupied, Lifetime
  <2>3. \A o \in Obj : SlotRefs(o)' = SlotRefs(o) /\ ThreadRefs(o)' = ThreadRefs(o)
      BY <2>1 DEF SlotRefs, ThreadRefs
  <2>4. RefCountExact'
      BY <2>1, <2>3 DEF IInv, RefCountExact
  <2> QED
      BY <2>2, <2>4 DEF IInv
<1> QED
    BY <1>1, <1>2 DEF Next

THEOREM Invariance == Spec => []IInv
BY InitIInv, NextIInv, PTL DEF Spec

\* Every variable keeps its type: in particular neither a reference count nor
\* live_descriptors is ever decremented below zero, which the assertions in
\* live_descriptors_dec and descriptor_table_insert_entry test at run time.
THEOREM TypeCorrect == Spec => []TypeOK
BY Invariance, PTL DEF IInv

\* The allocation hint is sound in every reachable state of any table.
THEOREM HintIsSound == Spec => []HintSound
BY Invariance, PTL DEF IInv

\* Reference counts are exact in every reachable state of any table.
THEOREM CountsAreExact == Spec => []RefCountExact
BY Invariance, PTL DEF IInv

\* No thread count, object count or interleaving makes the table or a blocked
\* call refer to a descriptor object whose destructor has started.
THEOREM NeverUsedAfterFree == Spec => []NoUseAfterFree
<1>1. IInv => NoUseAfterFree
  <2> SUFFICES ASSUME IInv, NEW o \in Obj, SlotRefs(o) # {} \/ ThreadRefs(o) # {}
               PROVE  o \in alive /\ cnt[o] > 0
      BY DEF NoUseAfterFree
  <2>1. Cardinality(SlotRefs(o)) # 0 \/ Cardinality(ThreadRefs(o)) # 0
      BY FiniteRefs, FS_EmptySet
  <2>2. cnt[o] > 0
      BY <2>1, FiniteRefs DEF IInv, RefCountExact
  <2> QED
      BY <2>2 DEF IInv, Lifetime
<1> QED
    BY <1>1, Invariance, PTL

\* table_allocate returns the lowest unoccupied descriptor although it starts
\* its search at the hint.
THEOREM AllocatesLowestFree == Spec => LowestFree
<1> DEFINE Lowest == \A fd \in Fd : ~Occupied(fd) /\ slot'[fd] # NoObj =>
                         \/ pc[cur] = "lock" /\ op[cur] \in {"dup2", "dup3", "dupfd"}
                         \/ \A g \in 0 .. (fd - 1) : Occupied(g)
<1>1. IInv /\ [Next]_vars => [Lowest]_vars
  <2> SUFFICES ASSUME IInv, Next,
                      ~(pc[cur] = "lock" /\ op[cur] \in {"dup2", "dup3", "dupfd"}),
                      NEW fd \in Fd, ~Occupied(fd), slot'[fd] # NoObj,
                      NEW g \in 0 .. (fd - 1)
               PROVE  Occupied(g)
      BY DEF Fd
  <2>1. slot' # slot
      BY DEF Occupied
  <2>2. ASSUME NEW o, Allocate(o) PROVE Occupied(g)
    <3>1. PICK f \in Fd : FirstFree(next_fd, f) /\ slot' = [slot EXCEPT ![f] = o]
        BY <2>2, Zenon DEF Allocate
    <3>2. f = fd
        BY <3>1 DEF IInv, TypeOK, Occupied
    <3> QED
        BY <3>1, <3>2, ConstantsOK DEF FirstFree, IInv, HintSound, TypeOK, Fd
  <2>3. ~FinishClear(cur) /\ ~Remove(cur)
      BY DEF FinishClear, Remove, IInv, TypeOK, Occupied
  <2>4. ~Dup2(cur) /\ ~Dupfd(cur)
      BY DEF Dup2, Dupfd, Holds
  <2>5. AddStdio(cur) \/ Insert(cur) \/ Dup(cur)
      BY <2>1, <2>3, <2>4 DEF Next, Step, Switch, Call, CallInsert, EnterCall, AddStdioFails,
         ReturnsUnchanged, InsertFails, Get, StartClear, ClearEntry,
         EntryDec, Deallocate, Release, table, EntryInc, LastReference
  <2> QED
      BY <2>2, <2>5 DEF AddStdio, Insert, Dup, EntryInc
<1> QED
    BY <1>1, Invariance, PTL DEF Spec, LowestFree

============================================================================
