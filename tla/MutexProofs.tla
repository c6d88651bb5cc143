---------------------------- MODULE MutexProofs ----------------------------
(***************************************************************************)
(* The safety of a mutex of any type, for any finite set of threads.       *)
(***************************************************************************)
EXTENDS Mutex, FiniteSetTheorems, TLAPS

Places == {"run", "try", "read", "count", "mark", "wait", "uncount", "timedout",
           "unlock", "wake"}

\* The threads that _m_waiters counts.
CountedPlaces == {"mark", "wait", "uncount", "timedout"}
Counted == {t \in Thread : pc[t] \in CountedPlaces}

\* A thread that sleeps has yet to take itself off the count, and every call is
\* made by the application.
Control ==
    /\ MutexTypeOK
    /\ pc \in [Thread -> Places]
    /\ ret = [t \in Thread |-> "run"]
    /\ \A t \in m_asleep : pc[t] = "uncount"

WaitersAreCounted == m_waiters = Cardinality(Counted)

\* What a locker has read: a locked word, which it waits for only with the sign bit.
Readings ==
    \A t \in Thread :
        /\ pc[t] \in {"count", "mark"} => r[t].own # NoThread
        /\ pc[t] = "wait" => r[t].sleepers

\* An unlocker has given up its last lock, and only recursive mutexes count.
Unlocking ==
    /\ m_type # "RECURSIVE" => m_count = 0
    /\ \A t \in Thread : pc[t] = "unlock" => depth[t] = 0 /\ m_count = 0

\* An unlocker knows of a sleeper, either from the count or from the sign bit.
SleepersAreSeen ==
    \A t \in Thread : (pc[t] = "unlock" /\ m_asleep # {}) => wake[t] \/ m_lock.sleepers

\* The inductive invariant.
IInv ==
    /\ Control /\ WaitersAreCounted /\ Readings /\ Unlocking /\ SleepersAreSeen
    /\ MutexExcludes /\ NobodyOversleeps

-----------------------------------------------------------------------------
(* Words and counts.                                                       *)

LEMMA FreeWord ==
    /\ Free \in Word /\ Free.own = NoThread /\ Free.sleepers = FALSE
    /\ \A w \in Word : /\ w.own \in Thread \cup {NoThread, EBUSY}
                       /\ w.sleepers \in BOOLEAN
BY DEF Free, Word

LEMMA MarkedWord ==
    ASSUME NEW w \in Word
    PROVE  Marked(w) \in Word /\ Marked(w).own = w.own /\ Marked(w).sleepers = TRUE
BY DEF Marked, Word

LEMMA TheOwnWord ==
    ASSUME NEW t \in Thread
    PROVE  /\ OwnWord(t) \in Word /\ OwnWord(t).sleepers = FALSE
           /\ OwnWord(t).own # NoThread
           /\ m_type # "NORMAL" => OwnWord(t).own = t
BY MutexConstants DEF OwnWord, Word

LEMMA CountedIsFinite ==
    /\ IsFiniteSet(Counted) /\ Cardinality(Counted) \in Nat
    /\ Cardinality(Counted) = 0 <=> Counted = {}
<1>1. IsFiniteSet(Counted)
    BY FS_Subset, MutexConstants DEF Counted
<1> QED
    BY <1>1, FS_CardinalityType, FS_EmptySet

\* A thread that moves to another place is counted as that place is.
LEMMA Move ==
    ASSUME NEW t \in Thread, NEW where \in Places, pc \in [Thread -> Places], Goto(t, where)
    PROVE  /\ pc' \in [Thread -> Places] /\ pc'[t] = where
           /\ \A u \in Thread : u # t => pc'[u] = pc[u]
           /\ (pc[t] \in CountedPlaces /\ where \in CountedPlaces)
                => Cardinality(Counted') = Cardinality(Counted)
           /\ (pc[t] \notin CountedPlaces /\ where \notin CountedPlaces)
                => Cardinality(Counted') = Cardinality(Counted)
           /\ (pc[t] \notin CountedPlaces /\ where \in CountedPlaces)
                => Cardinality(Counted') = Cardinality(Counted) + 1
           /\ (pc[t] \in CountedPlaces /\ where \notin CountedPlaces)
                => /\ Cardinality(Counted') = Cardinality(Counted) - 1
                   /\ Cardinality(Counted) > 0
<1>1. /\ pc' \in [Thread -> Places] /\ pc'[t] = where
      /\ \A u \in Thread : u # t => pc'[u] = pc[u]
    BY DEF Goto
<1>2. ASSUME pc[t] \in CountedPlaces <=> where \in CountedPlaces
      PROVE  Cardinality(Counted') = Cardinality(Counted)
  <2>1. Counted' = Counted
      BY <1>1, <1>2 DEF Counted
  <2> QED
      BY <2>1
<1>3. ASSUME pc[t] \notin CountedPlaces, where \in CountedPlaces
      PROVE  Cardinality(Counted') = Cardinality(Counted) + 1
  <2>1. Counted' = Counted \cup {t} /\ t \notin Counted
      BY <1>1, <1>3 DEF Counted
  <2> QED
      BY <2>1, FS_AddElement, CountedIsFinite
<1>4. ASSUME pc[t] \in CountedPlaces, where \notin CountedPlaces
      PROVE  /\ Cardinality(Counted') = Cardinality(Counted) - 1
             /\ Cardinality(Counted) > 0
  <2>1. Counted' = Counted \ {t} /\ t \in Counted
      BY <1>1, <1>4 DEF Counted
  <2>2. Cardinality(Counted \ {t}) = Cardinality(Counted) - 1
      BY <2>1, FS_RemoveElement, CountedIsFinite
  <2>3. Cardinality(Counted) \in Nat /\ Cardinality(Counted) # 0
      BY <2>1, CountedIsFinite
  <2> QED
      BY <2>1, <2>2, <2>3
<1> QED
    BY <1>1, <1>2, <1>3, <1>4

-----------------------------------------------------------------------------
(* One lemma per action.                                                   *)

\* A word that is not free has a holder, whom it names if the mutex keeps owners.
LEMMA Owners ==
    ASSUME IInv, NEW t \in Thread
    PROVE  /\ Holds(t) => m_lock # Free /\ m_lock.own # NoThread
           /\ m_lock = Free <=> m_lock.own = NoThread
           /\ (m_type # "NORMAL" /\ m_lock.own = t) => Holds(t)
<1> USE DEF IInv, MutexExcludes
<1>1. \A u \in Thread : Holds(u) => m_lock.own = OwnWord(u).own /\ m_lock.own # NoThread
    BY TheOwnWord
<1>2. m_lock # Free => \E u \in Thread : Holds(u)
    OBVIOUS
<1>3. ASSUME m_type # "NORMAL", m_lock.own = t PROVE Holds(t)
  <2>1. m_lock # Free
      BY <1>3, FreeWord, MutexConstants
  <2>2. PICK u \in Thread : Holds(u)
      BY <1>2, <2>1
  <2>3. u = t
      BY <1>1, <1>3, <2>2, TheOwnWord
  <2> QED
      BY <2>2, <2>3
<1> QED
    BY <1>1, <1>2, <1>3, FreeWord

\* A call that returns to the application leaves the locals of the others alone.
LEMMA Returned ==
    ASSUME Control, NEW t \in Thread, Return(t)
    PROVE  /\ Goto(t, "run")
           /\ ret' = [u \in Thread |-> "run"]
           /\ op' \in [Thread -> {"lock", "timed", "try"}]
           /\ r' \in [Thread -> Word] /\ wake' \in [Thread -> BOOLEAN]
           /\ \A u \in Thread : u # t => r'[u] = r[u] /\ wake'[u] = wake[u]
BY FreeWord DEF Control, MutexTypeOK, Return

LEMMA MutexCallKeeps ==
    ASSUME IInv, NEW t \in Thread, NEW o \in {"lock", "timed", "try"}, MutexCall(t, o)
    PROVE  IInv'
<1> USE DEF IInv, Control, MutexTypeOK, At, mutex, MutexCall
<1>0. Goto(t, "try") /\ "try" \in Places
    BY DEF Places
<1>1. Control'
    BY <1>0, Move
<1>2. WaitersAreCounted'
    BY <1>0, Move DEF WaitersAreCounted, CountedPlaces
<1>3. Readings'
    BY <1>0, Move DEF Readings
<1>4. Unlocking'
    BY <1>0, Move DEF Unlocking
<1>5. SleepersAreSeen'
    BY <1>0, Move DEF SleepersAreSeen
<1>6. MutexExcludes'
    BY <1>0, Move, FreeWord DEF MutexExcludes, Holds, OwnWord
<1>7. NobodyOversleeps'
    BY <1>0, Move, FreeWord DEF NobodyOversleeps
<1> QED
    BY <1>1, <1>2, <1>3, <1>4, <1>5, <1>6, <1>7 DEF IInv

LEMMA ReadKeeps ==
    ASSUME IInv, NEW t \in Thread, Read(t)
    PROVE  IInv'
<1> USE DEF IInv, Control, MutexTypeOK, At, mutex, Read
<1>1. CASE m_lock = Free
  <2>0. Goto(t, "try") /\ "try" \in Places
      BY <1>1 DEF Places
  <2>1. Control'
      BY <1>1, <2>0, Move
  <2>2. WaitersAreCounted'
      BY <1>1, <2>0, Move DEF WaitersAreCounted, CountedPlaces
  <2>3. Readings'
      BY <1>1, <2>0, Move DEF Readings
  <2>4. Unlocking'
      BY <1>1, <2>0, Move DEF Unlocking
  <2>5. SleepersAreSeen'
      BY <1>1, <2>0, Move DEF SleepersAreSeen
  <2>6. MutexExcludes'
      BY <1>1, <2>0, Move, FreeWord DEF MutexExcludes, Holds, OwnWord
  <2>7. NobodyOversleeps'
      BY <1>1, <2>0, Move, FreeWord DEF NobodyOversleeps
  <2> QED
      BY <2>1, <2>2, <2>3, <2>4, <2>5, <2>6, <2>7 DEF IInv
<1>2. CASE m_lock # Free /\ m_type = "ERRORCHECK" /\ m_lock.own = t
  <2>0. Goto(t, "run") /\ "run" \in Places
      BY <1>2, Returned DEF Places
  <2>1. Control'
      BY <1>2, <2>0, Move, Returned
  <2>2. WaitersAreCounted'
      BY <1>2, <2>0, Move, Returned DEF WaitersAreCounted, CountedPlaces
  <2>3. Readings'
      BY <1>2, <2>0, Move, Returned DEF Readings
  <2>4. Unlocking'
      BY <1>2, <2>0, Move, Returned DEF Unlocking
  <2>5. SleepersAreSeen'
      BY <1>2, <2>0, Move, Returned DEF SleepersAreSeen
  <2>6. MutexExcludes'
      BY <1>2, <2>0, Move, Returned, FreeWord DEF MutexExcludes, Holds, OwnWord
  <2>7. NobodyOversleeps'
      BY <1>2, <2>0, Move, Returned, FreeWord DEF NobodyOversleeps
  <2> QED
      BY <2>1, <2>2, <2>3, <2>4, <2>5, <2>6, <2>7 DEF IInv
<1>3. CASE m_lock # Free /\ ~(m_type = "ERRORCHECK" /\ m_lock.own = t)
  <2>0. Goto(t, "count") /\ "count" \in Places
      BY <1>3 DEF Places
  <2>1. Control'
      BY <1>3, <2>0, Move, Owners
  <2>2. WaitersAreCounted'
      BY <1>3, <2>0, Move, Owners DEF WaitersAreCounted, CountedPlaces
  <2>3. Readings'
      BY <1>3, <2>0, Move, Owners DEF Readings
  <2>4. Unlocking'
      BY <1>3, <2>0, Move, Owners DEF Unlocking
  <2>5. SleepersAreSeen'
      BY <1>3, <2>0, Move, Owners DEF SleepersAreSeen
  <2>6. MutexExcludes'
      BY <1>3, <2>0, Move, Owners, FreeWord DEF MutexExcludes, Holds, OwnWord
  <2>7. NobodyOversleeps'
      BY <1>3, <2>0, Move, Owners, FreeWord DEF NobodyOversleeps
  <2> QED
      BY <2>1, <2>2, <2>3, <2>4, <2>5, <2>6, <2>7 DEF IInv
<1> QED
    BY <1>1, <1>2, <1>3

LEMMA CountWaiterKeeps ==
    ASSUME IInv, NEW t \in Thread, CountWaiter(t)
    PROVE  IInv'
<1> USE DEF IInv, Control, MutexTypeOK, At, mutex, CountWaiter
<1>0. Goto(t, "mark") /\ "mark" \in Places
    BY DEF Places
<1>1. Control'
    BY <1>0, Move
<1>2. WaitersAreCounted'
    BY <1>0, Move DEF WaitersAreCounted, CountedPlaces
<1>3. Readings'
    BY <1>0, Move DEF Readings
<1>4. Unlocking'
    BY <1>0, Move DEF Unlocking
<1>5. SleepersAreSeen'
    BY <1>0, Move DEF SleepersAreSeen
<1>6. MutexExcludes'
    BY <1>0, Move, FreeWord DEF MutexExcludes, Holds, OwnWord
<1>7. NobodyOversleeps'
    BY <1>0, Move, FreeWord DEF NobodyOversleeps
<1> QED
    BY <1>1, <1>2, <1>3, <1>4, <1>5, <1>6, <1>7 DEF IInv

LEMMA MarkKeeps ==
    ASSUME IInv, NEW t \in Thread, Mark(t)
    PROVE  IInv'
<1> USE DEF IInv, Control, MutexTypeOK, At, mutex, Mark
<1>0. Goto(t, "wait") /\ "wait" \in Places
    BY DEF Places
<1>a. /\ m_lock'.own = m_lock.own
      /\ m_lock' = Free <=> m_lock = Free
      /\ m_lock.sleepers => m_lock'.sleepers
      /\ r'[t].sleepers /\ m_lock' \in Word /\ r' \in [Thread -> Word]
    BY MarkedWord, FreeWord, Owners DEF Readings
<1>1. Control'
    BY <1>0, Move, <1>a
<1>2. WaitersAreCounted'
    BY <1>0, Move, <1>a DEF WaitersAreCounted, CountedPlaces
<1>3. Readings'
    BY <1>0, Move, <1>a DEF Readings
<1>4. Unlocking'
    BY <1>0, Move, <1>a DEF Unlocking
<1>5. SleepersAreSeen'
    BY <1>0, Move, <1>a DEF SleepersAreSeen
<1>6. MutexExcludes'
    BY <1>0, Move, <1>a, FreeWord DEF MutexExcludes, Holds, OwnWord
<1>7. NobodyOversleeps'
    BY <1>0, Move, <1>a, FreeWord DEF NobodyOversleeps
<1> QED
    BY <1>1, <1>2, <1>3, <1>4, <1>5, <1>6, <1>7 DEF IInv

LEMMA WaitKeeps ==
    ASSUME IInv, NEW t \in Thread, Wait(t)
    PROVE  IInv'
<1> USE DEF IInv, Control, MutexTypeOK, At, mutex, Wait
<1>0. Goto(t, "uncount") /\ "uncount" \in Places
    BY DEF Places
<1>a. m_asleep' # m_asleep => m_lock.sleepers /\ m_lock # Free
    BY FreeWord DEF Readings
<1>1. Control'
    BY <1>0, Move, <1>a, FreeWord
<1>2. WaitersAreCounted'
    BY <1>0, Move, <1>a DEF WaitersAreCounted, CountedPlaces
<1>3. Readings'
    BY <1>0, Move, <1>a DEF Readings
<1>4. Unlocking'
    BY <1>0, Move, <1>a DEF Unlocking
<1>5. SleepersAreSeen'
    BY <1>0, Move, <1>a DEF SleepersAreSeen
<1>6. MutexExcludes'
    BY <1>0, Move, <1>a, FreeWord DEF MutexExcludes, Holds, OwnWord
<1>7. NobodyOversleeps'
    BY <1>0, Move, <1>a, FreeWord DEF NobodyOversleeps
<1> QED
    BY <1>1, <1>2, <1>3, <1>4, <1>5, <1>6, <1>7 DEF IInv

LEMMA UncountWaiterKeeps ==
    ASSUME IInv, NEW t \in Thread, UncountWaiter(t)
    PROVE  IInv'
<1> USE DEF IInv, Control, MutexTypeOK, At, mutex, UncountWaiter
<1>0. Goto(t, "try") /\ "try" \in Places
    BY DEF Places
<1>a. m_waiters - 1 \in Nat
    BY <1>0, Move DEF WaitersAreCounted, CountedPlaces
<1>1. Control'
    BY <1>0, Move, <1>a
<1>2. WaitersAreCounted'
    BY <1>0, Move, <1>a DEF WaitersAreCounted, CountedPlaces
<1>3. Readings'
    BY <1>0, Move, <1>a DEF Readings
<1>4. Unlocking'
    BY <1>0, Move, <1>a DEF Unlocking
<1>5. SleepersAreSeen'
    BY <1>0, Move, <1>a DEF SleepersAreSeen
<1>6. MutexExcludes'
    BY <1>0, Move, <1>a, FreeWord DEF MutexExcludes, Holds, OwnWord
<1>7. NobodyOversleeps'
    BY <1>0, Move, <1>a, FreeWord DEF NobodyOversleeps
<1> QED
    BY <1>1, <1>2, <1>3, <1>4, <1>5, <1>6, <1>7 DEF IInv

LEMMA TimesOutKeeps ==
    ASSUME IInv, NEW t \in Thread, TimesOut(t)
    PROVE  IInv'
<1> USE DEF IInv, Control, MutexTypeOK, At, mutex, TimesOut
<1>0. Goto(t, "timedout") /\ "timedout" \in Places
    BY DEF Places
<1>1. Control'
    BY <1>0, Move
<1>2. WaitersAreCounted'
    BY <1>0, Move DEF WaitersAreCounted, CountedPlaces
<1>3. Readings'
    BY <1>0, Move DEF Readings
<1>4. Unlocking'
    BY <1>0, Move DEF Unlocking
<1>5. SleepersAreSeen'
    BY <1>0, Move DEF SleepersAreSeen
<1>6. MutexExcludes'
    BY <1>0, Move, FreeWord DEF MutexExcludes, Holds, OwnWord
<1>7. NobodyOversleeps'
    BY <1>0, Move, FreeWord DEF NobodyOversleeps
<1> QED
    BY <1>1, <1>2, <1>3, <1>4, <1>5, <1>6, <1>7 DEF IInv

LEMMA UncountTimedOutKeeps ==
    ASSUME IInv, NEW t \in Thread, UncountTimedOut(t)
    PROVE  IInv'
<1> USE DEF IInv, Control, MutexTypeOK, At, mutex, UncountTimedOut
<1>0. Goto(t, "run") /\ "run" \in Places
    BY Returned DEF Places
<1>a. m_waiters - 1 \in Nat
    BY <1>0, Move DEF WaitersAreCounted, CountedPlaces
<1>1. Control'
    BY <1>0, Move, <1>a, Returned
<1>2. WaitersAreCounted'
    BY <1>0, Move, <1>a, Returned DEF WaitersAreCounted, CountedPlaces
<1>3. Readings'
    BY <1>0, Move, <1>a, Returned DEF Readings
<1>4. Unlocking'
    BY <1>0, Move, <1>a, Returned DEF Unlocking
<1>5. SleepersAreSeen'
    BY <1>0, Move, <1>a, Returned DEF SleepersAreSeen
<1>6. MutexExcludes'
    BY <1>0, Move, <1>a, Returned, FreeWord DEF MutexExcludes, Holds, OwnWord
<1>7. NobodyOversleeps'
    BY <1>0, Move, <1>a, Returned, FreeWord DEF NobodyOversleeps
<1> QED
    BY <1>1, <1>2, <1>3, <1>4, <1>5, <1>6, <1>7 DEF IInv

LEMMA TryKeeps ==
    ASSUME IInv, NEW t \in Thread, Try(t)
    PROVE  IInv'
<1> USE DEF IInv, Control, MutexTypeOK, At, mutex, Try
<1>1. CASE m_lock = Free
  <2>0. Goto(t, "run") /\ "run" \in Places
      BY <1>1, Returned DEF Places
  <2>a. \A u \in Thread : ~Holds(u) /\ pc[u] # "unlock"
      BY <1>1, Owners DEF Holds
  <2>b. m_lock.own # t
      BY <1>1, FreeWord, MutexConstants
  <2>c. /\ m_lock' = OwnWord(t)
        /\ depth' = [depth EXCEPT ![t] = depth[t] + 1]
        /\ UNCHANGED <<m_type, m_waiters, m_count, m_asleep>>
      BY <1>1, <2>b
  <2>d. depth[t] = 0
      BY <2>a DEF Holds
  <2>e. m_lock'.own = OwnWord(t).own /\ m_lock' # Free /\ m_lock' \in Word
      BY <2>c, TheOwnWord, FreeWord, Zenon
  <2>1. Control'
      BY <1>1, <2>0, Move, Returned, <2>a, <2>c, <2>d, <2>e
  <2>2. WaitersAreCounted'
      BY <1>1, <2>0, Move, Returned, <2>a, <2>c, <2>d, <2>e DEF WaitersAreCounted, CountedPlaces
  <2>3. Readings'
      BY <1>1, <2>0, Move, Returned, <2>a, <2>c, <2>d, <2>e DEF Readings
  <2>4. Unlocking'
      BY <1>1, <2>0, Move, Returned, <2>a, <2>c, <2>d, <2>e DEF Unlocking
  <2>5. SleepersAreSeen'
      BY <1>1, <2>0, Move, Returned, <2>a, <2>c, <2>d, <2>e DEF SleepersAreSeen
  <2>6. MutexExcludes'
      BY <1>1, <2>0, Move, Returned, <2>a, <2>c, <2>d, <2>e, FreeWord DEF MutexExcludes, Holds, OwnWord
  <2>7. NobodyOversleeps'
      BY <1>1, <2>0, Move, Returned, <2>a, <2>c, <2>d, <2>e, FreeWord DEF NobodyOversleeps
  <2> QED
      BY <2>1, <2>2, <2>3, <2>4, <2>5, <2>6, <2>7 DEF IInv
<1>2. CASE m_type = "RECURSIVE" /\ m_lock.own = t
  <2>0. Goto(t, "run") /\ "run" \in Places
      BY <1>2, Returned DEF Places
  <2>a. /\ Holds(t) /\ depth[t] > 0 /\ m_lock # Free 
        /\ \A u \in Thread : pc[u] # "unlock"
        /\ \/ UNCHANGED <<m_count, depth>>
           \/ /\ m_count < INT_MAX /\ m_count' = m_count + 1
              /\ depth' = [depth EXCEPT ![t] = depth[t] + 1]
        /\ m_count' \in 0 .. INT_MAX /\ depth' \in [Thread -> Nat]
        /\ UNCHANGED <<m_type, m_lock, m_waiters, m_asleep>>
      BY <1>2, Owners, FreeWord, MutexConstants DEF MutexExcludes, Holds
  <2>1. Control'
      BY <1>2, <2>0, Move, Returned, <2>a
  <2>2. WaitersAreCounted'
      BY <1>2, <2>0, Move, Returned, <2>a DEF WaitersAreCounted, CountedPlaces
  <2>3. Readings'
      BY <1>2, <2>0, Move, Returned, <2>a DEF Readings
  <2>4. Unlocking'
      BY <1>2, <2>0, Move, Returned, <2>a DEF Unlocking
  <2>5. SleepersAreSeen'
      BY <1>2, <2>0, Move, Returned, <2>a DEF SleepersAreSeen
  <2>6. MutexExcludes'
      BY <1>2, <2>0, Move, Returned, <2>a, FreeWord DEF MutexExcludes, Holds, OwnWord
  <2>7. NobodyOversleeps'
      BY <1>2, <2>0, Move, Returned, <2>a, FreeWord DEF NobodyOversleeps
  <2> QED
      BY <2>1, <2>2, <2>3, <2>4, <2>5, <2>6, <2>7 DEF IInv
<1>3. CASE m_lock # Free /\ ~(m_type = "RECURSIVE" /\ m_lock.own = t) /\ op[t] = "try"
  <2>0. Goto(t, "run") /\ "run" \in Places
      BY <1>3, Returned DEF Places
  <2>1. Control'
      BY <1>3, <2>0, Move, Returned
  <2>2. WaitersAreCounted'
      BY <1>3, <2>0, Move, Returned DEF WaitersAreCounted, CountedPlaces
  <2>3. Readings'
      BY <1>3, <2>0, Move, Returned DEF Readings
  <2>4. Unlocking'
      BY <1>3, <2>0, Move, Returned DEF Unlocking
  <2>5. SleepersAreSeen'
      BY <1>3, <2>0, Move, Returned DEF SleepersAreSeen
  <2>6. MutexExcludes'
      BY <1>3, <2>0, Move, Returned, FreeWord DEF MutexExcludes, Holds, OwnWord
  <2>7. NobodyOversleeps'
      BY <1>3, <2>0, Move, Returned, FreeWord DEF NobodyOversleeps
  <2> QED
      BY <2>1, <2>2, <2>3, <2>4, <2>5, <2>6, <2>7 DEF IInv
<1>4. CASE m_lock # Free /\ ~(m_type = "RECURSIVE" /\ m_lock.own = t) /\ op[t] # "try"
  <2>0. Goto(t, "read") /\ "read" \in Places
      BY <1>4 DEF Places
  <2>1. Control'
      BY <1>4, <2>0, Move
  <2>2. WaitersAreCounted'
      BY <1>4, <2>0, Move DEF WaitersAreCounted, CountedPlaces
  <2>3. Readings'
      BY <1>4, <2>0, Move DEF Readings
  <2>4. Unlocking'
      BY <1>4, <2>0, Move DEF Unlocking
  <2>5. SleepersAreSeen'
      BY <1>4, <2>0, Move DEF SleepersAreSeen
  <2>6. MutexExcludes'
      BY <1>4, <2>0, Move, FreeWord DEF MutexExcludes, Holds, OwnWord
  <2>7. NobodyOversleeps'
      BY <1>4, <2>0, Move, FreeWord DEF NobodyOversleeps
  <2> QED
      BY <2>1, <2>2, <2>3, <2>4, <2>5, <2>6, <2>7 DEF IInv
<1> QED
    BY <1>1, <1>2, <1>3, <1>4

LEMMA MutexUnlockKeeps ==
    ASSUME IInv, NEW t \in Thread, MutexUnlock(t)
    PROVE  IInv'
<1> USE DEF IInv, Control, MutexTypeOK, At, mutex, MutexUnlock, UnlockReads
<1>1. CASE m_type # "NORMAL" /\ m_lock.own # t
  <2>0. Goto(t, "run") /\ "run" \in Places
      BY <1>1 DEF Places
  <2>1. Control'
      BY <1>1, <2>0, Move
  <2>2. WaitersAreCounted'
      BY <1>1, <2>0, Move DEF WaitersAreCounted, CountedPlaces
  <2>3. Readings'
      BY <1>1, <2>0, Move DEF Readings
  <2>4. Unlocking'
      BY <1>1, <2>0, Move DEF Unlocking
  <2>5. SleepersAreSeen'
      BY <1>1, <2>0, Move DEF SleepersAreSeen
  <2>6. MutexExcludes'
      BY <1>1, <2>0, Move, FreeWord DEF MutexExcludes, Holds, OwnWord
  <2>7. NobodyOversleeps'
      BY <1>1, <2>0, Move, FreeWord DEF NobodyOversleeps
  <2> QED
      BY <2>1, <2>2, <2>3, <2>4, <2>5, <2>6, <2>7 DEF IInv
<1>2. CASE m_type = "RECURSIVE" /\ m_lock.own = t /\ m_count # 0
  <2>0. Goto(t, "run") /\ "run" \in Places
      BY <1>2 DEF Places
  <2>b. depth[t] = m_count + 1 /\ depth[t] \in Nat
      BY <1>2, Owners DEF MutexExcludes, Holds
  <2>a. m_count' \in 0 .. INT_MAX /\ depth' \in [Thread -> Nat]
      BY <1>2, <2>b, MutexConstants
  <2>1. Control'
      BY <1>2, <2>0, Move, <2>b, <2>a
  <2>2. WaitersAreCounted'
      BY <1>2, <2>0, Move, <2>b, <2>a DEF WaitersAreCounted, CountedPlaces
  <2>3. Readings'
      BY <1>2, <2>0, Move, <2>b, <2>a DEF Readings
  <2>4. Unlocking'
      BY <1>2, <2>0, Move, <2>b, <2>a DEF Unlocking
  <2>5. SleepersAreSeen'
      BY <1>2, <2>0, Move, <2>b, <2>a DEF SleepersAreSeen
  <2>6. MutexExcludes'
      BY <1>2, <2>0, Move, <2>b, <2>a, FreeWord DEF MutexExcludes, Holds, OwnWord
  <2>7. NobodyOversleeps'
      BY <1>2, <2>0, Move, <2>b, <2>a, FreeWord DEF NobodyOversleeps
  <2> QED
      BY <2>1, <2>2, <2>3, <2>4, <2>5, <2>6, <2>7 DEF IInv
<1>3. CASE (m_type # "NORMAL" => m_lock.own = t) /\ (m_type = "RECURSIVE" => m_count = 0)
  <2>0. Goto(t, "unlock") /\ "unlock" \in Places
      BY <1>3 DEF Places
  <2>a. depth[t] = 1 /\ m_count = 0 /\ Holds(t)
      BY <1>3, Owners DEF MutexExcludes, Unlocking, Holds
  <2>b. wake' \in [Thread -> BOOLEAN] /\ (m_asleep # {} => wake'[t])
      BY <1>3, CountedIsFinite DEF WaitersAreCounted, Counted, CountedPlaces
  <2>1. Control'
      BY <1>3, <2>0, Move, <2>a, <2>b
  <2>2. WaitersAreCounted'
      BY <1>3, <2>0, Move, <2>a, <2>b DEF WaitersAreCounted, CountedPlaces
  <2>3. Readings'
      BY <1>3, <2>0, Move, <2>a, <2>b DEF Readings
  <2>4. Unlocking'
      BY <1>3, <2>0, Move, <2>a, <2>b DEF Unlocking
  <2>5. SleepersAreSeen'
      BY <1>3, <2>0, Move, <2>a, <2>b DEF SleepersAreSeen
  <2>6. MutexExcludes'
      BY <1>3, <2>0, Move, <2>a, <2>b, FreeWord DEF MutexExcludes, Holds, OwnWord
  <2>7. NobodyOversleeps'
      BY <1>3, <2>0, Move, <2>a, <2>b, FreeWord DEF NobodyOversleeps
  <2> QED
      BY <2>1, <2>2, <2>3, <2>4, <2>5, <2>6, <2>7 DEF IInv
<1> QED
    BY <1>1, <1>2, <1>3

LEMMA UnlockSwapsKeeps ==
    ASSUME IInv, NEW t \in Thread, UnlockSwaps(t)
    PROVE  IInv'
<1> USE DEF IInv, Control, MutexTypeOK, At, mutex, UnlockSwaps
<1>0. Goto(t, "wake") /\ "wake" \in Places
    BY DEF Places
<1>a. /\ depth[t] = 0 /\ m_count = 0
      /\ \A u \in Thread : Holds(u) \/ pc[u] = "unlock" => u = t
      /\ m_lock' = Free /\ m_lock' \in Word
    BY FreeWord DEF MutexExcludes, Unlocking, Holds
<1>b. m_asleep # {} => wake'[t]
    BY DEF SleepersAreSeen
<1>1. Control'
    BY <1>0, Move, <1>a, <1>b
<1>2. WaitersAreCounted'
    BY <1>0, Move, <1>a, <1>b DEF WaitersAreCounted, CountedPlaces
<1>3. Readings'
    BY <1>0, Move, <1>a, <1>b DEF Readings
<1>4. Unlocking'
    BY <1>0, Move, <1>a, <1>b DEF Unlocking
<1>5. SleepersAreSeen'
    BY <1>0, Move, <1>a, <1>b DEF SleepersAreSeen
<1>6. MutexExcludes'
    BY <1>0, Move, <1>a, <1>b, FreeWord DEF MutexExcludes, Holds, OwnWord
<1>7. NobodyOversleeps'
    BY <1>0, Move, <1>a, <1>b, FreeWord DEF NobodyOversleeps
<1> QED
    BY <1>1, <1>2, <1>3, <1>4, <1>5, <1>6, <1>7 DEF IInv

LEMMA UnlockWakesKeeps ==
    ASSUME IInv, NEW t \in Thread, UnlockWakes(t)
    PROVE  IInv'
<1> USE DEF IInv, Control, MutexTypeOK, At, mutex, UnlockWakes
<1>0. Goto(t, "run") /\ "run" \in Places
    BY Returned DEF Places
<1>1. Control'
    BY <1>0, Move, Returned
<1>2. WaitersAreCounted'
    BY <1>0, Move, Returned DEF WaitersAreCounted, CountedPlaces
<1>3. Readings'
    BY <1>0, Move, Returned DEF Readings
<1>4. Unlocking'
    BY <1>0, Move, Returned DEF Unlocking
<1>5. SleepersAreSeen'
    BY <1>0, Move, Returned DEF SleepersAreSeen
<1>6. MutexExcludes'
    BY <1>0, Move, Returned, FreeWord DEF MutexExcludes, Holds, OwnWord
<1>7. NobodyOversleeps'
    BY <1>0, Move, Returned, FreeWord DEF NobodyOversleeps
<1> QED
    BY <1>1, <1>2, <1>3, <1>4, <1>5, <1>6, <1>7 DEF IInv

LEMMA InitIInv == MutexInit => IInv
<1> SUFFICES ASSUME MutexInit PROVE IInv
    OBVIOUS
<1> USE DEF MutexInit
<1>1. Control
    BY FreeWord, MutexConstants DEF Control, MutexTypeOK, Places
<1>2. WaitersAreCounted
  <2>1. Counted = {}
      BY DEF Counted, CountedPlaces
  <2> QED
      BY <2>1, FS_EmptySet DEF WaitersAreCounted
<1>3. Readings /\ Unlocking /\ SleepersAreSeen /\ MutexExcludes /\ NobodyOversleeps
    BY DEF Readings, Unlocking, SleepersAreSeen, MutexExcludes, Holds, NobodyOversleeps
<1> QED
    BY <1>1, <1>2, <1>3 DEF IInv

LEMMA NextIInv == IInv /\ [MutexNext]_mvars => IInv'
<1> SUFFICES ASSUME IInv, [MutexNext]_mvars PROVE IInv'
    OBVIOUS
<1>1. CASE UNCHANGED mvars
    BY <1>1 DEF mvars, mutex, IInv, Control, MutexTypeOK, WaitersAreCounted, Counted, Readings,
                Unlocking, SleepersAreSeen, MutexExcludes, Holds, OwnWord, NobodyOversleeps
<1>2. ASSUME NEW t \in Thread, NEW o \in {"lock", "timed", "try"}, MutexCall(t, o) PROVE IInv'
    BY <1>2, MutexCallKeeps
<1>3. ASSUME NEW t \in Thread, MutexUnlock(t) \/ TimesOut(t) PROVE IInv'
    BY <1>3, MutexUnlockKeeps, TimesOutKeeps
<1>4. ASSUME NEW t \in Thread, MutexStep(t) PROVE IInv'
    BY <1>4, TryKeeps, ReadKeeps, CountWaiterKeeps, MarkKeeps, WaitKeeps, UncountWaiterKeeps,
       UncountTimedOutKeeps, UnlockSwapsKeeps, UnlockWakesKeeps DEF MutexStep
<1> QED
    BY <1>1, <1>2, <1>3, <1>4 DEF MutexNext

\* The inductive invariant holds of every behaviour of the mutex functions.
THEOREM Invariance == MutexSpec => []IInv
BY InitIInv, NextIInv, PTL DEF MutexSpec

-----------------------------------------------------------------------------
(* The results.                                                            *)

\* Every variable of the mutex and of its callers keeps its type; in particular the
\* count of waiters never goes below zero.
THEOREM TypeCorrect == MutexSpec => []MutexTypeOK
<1>1. IInv => MutexTypeOK
    BY DEF IInv, Control
<1> QED
    BY <1>1, Invariance, PTL

\* pthread_mutex_lock, _timedlock, _trylock and _unlock exclude, for all three types
\* of mutex: one holder at a time, whom the lock word and the recursion count agree with.
THEOREM MutexIsExclusive == MutexSpec => []MutexExcludes
<1>1. IInv => MutexExcludes
    BY DEF IInv
<1> QED
    BY <1>1, Invariance, PTL

\* pthread_mutex_unlock never leaves a sleeper behind with nobody awake to wake it or
\* to take the lock, although it reads the count of waiters before it lets go.
THEOREM SleepersAreWoken == MutexSpec => []NobodyOversleeps
<1>1. IInv => NobodyOversleeps
    BY DEF IInv
<1> QED
    BY <1>1, Invariance, PTL

\* _m_waiters is the number of threads between their increment and their decrement.
THEOREM WaitersAreExact == MutexSpec => []WaitersAreCounted
<1>1. IInv => WaitersAreCounted
    BY DEF IInv
<1> QED
    BY <1>1, Invariance, PTL

=============================================================================
