------------------------------- MODULE Rwlock -------------------------------
(***************************************************************************)
(* pthread_rwlock: timedrdlock, timedwrlock, their try forms and unlock.   *)
(* The word holds the number of readers, or Writer (0x7fffffff), and in    *)
(* the sign bit whether somebody may be asleep.  unlock reads the word,    *)
(* then the waiters, and swaps; the last one out wakes everybody after a   *)
(* writer and one thread after readers.                                    *)
(***************************************************************************)
EXTENDS FutexObject

CONSTANT MaxReaders     \* 0x7ffffffe, where rdlock gives EAGAIN

Writer == MaxReaders + 1
Words == [cnt : 0 .. Writer, neg : BOOLEAN]
Free == [cnt |-> 0, neg |-> FALSE]
Held(n) == [cnt |-> n, neg |-> FALSE]
Marked(w) == [w EXCEPT !.neg = TRUE]

\* loc: what the thread wants or holds, and the word and the waiters it has read.
Idle == [mode |-> "none", word |-> Free, waiters |-> 0]
Modes == {"none", "read", "write"}

TypeOK ==
    /\ word \in Words
    /\ waiters \in 0 .. Cardinality(Thread)
    /\ asleep \subseteq Thread
    /\ loc \in [Thread -> [mode : Modes, word : Words, waiters : 0 .. Cardinality(Thread)]]

Init ==
    /\ word = Free
    /\ waiters = 0
    /\ asleep = {}
    /\ pc = [t \in Thread |-> "run"]
    /\ loc = [t \in Thread |-> Idle]

\* Outside of the library, mode is what the thread holds.
Call(t) ==
    /\ At(t, "run")
    /\ loc[t].mode = "none"
    /\ \E m \in {"read", "write"} : loc' = [loc EXCEPT ![t].mode = m]
    /\ Goto(t, "lock") \/ Goto(t, "trylock")
    /\ UNCHANGED <<word, waiters, asleep>>

Fails(t) == loc' = [loc EXCEPT ![t] = Idle] /\ Goto(t, "run")

\* tryrdlock and trywrlock; EAGAIN when there are too many readers.
TryLock(t) ==
    LET m == loc[t].mode
    IN  /\ At(t, "lock") \/ At(t, "trylock")
        /\ \/ /\ IF m = "read" THEN word.cnt < MaxReaders ELSE word = Free
              /\ word' = IF m = "read" THEN [word EXCEPT !.cnt = @ + 1] ELSE Held(Writer)
              /\ Goto(t, "run")
              /\ UNCHANGED loc
           \/ m = "read" /\ word.cnt = MaxReaders /\ Fails(t) /\ UNCHANGED word
           \/ /\ IF m = "read" THEN word.cnt = Writer ELSE word # Free
              /\ IF pc[t] = "trylock" THEN Fails(t) ELSE Goto(t, "read") /\ UNCHANGED loc
              /\ UNCHANGED word
        /\ UNCHANGED <<waiters, asleep>>

\* A reader waits only for a writer to go.
ReadWord(t) ==
    /\ At(t, "read")
    /\ IF (IF loc[t].mode = "read" THEN word.cnt = Writer ELSE word # Free)
       THEN loc' = [loc EXCEPT ![t].word = word] /\ Goto(t, "count")
       ELSE Goto(t, "lock") /\ UNCHANGED loc
    /\ UNCHANGED <<word, waiters, asleep>>

Mark(t) ==
    /\ At(t, "mark")
    /\ word' = IF word = loc[t].word THEN Marked(word) ELSE word
    /\ loc' = [loc EXCEPT ![t].word = Marked(@)]
    /\ Goto(t, "sleep")
    /\ UNCHANGED <<waiters, asleep>>

Uncount(t, from, to, l) ==
    /\ At(t, from)
    /\ waiters' = waiters - 1
    /\ loc' = [loc EXCEPT ![t] = l]
    /\ Goto(t, to)
    /\ UNCHANGED <<word, asleep>>

Lock(t) ==
    \/ TryLock(t)
    \/ ReadWord(t)
    \/ CountIn(t, "count", "mark")
    \/ Mark(t)
    \/ SleepOn(t, "sleep", loc[t].word, "woken")
    \/ Uncount(t, "woken", "lock", [loc[t] EXCEPT !.word = Free])
    \/ Uncount(t, "late", "run", Idle)

TimesOut(t) == WakesLate(t, "woken", "late")

UnlockReadsWord(t) ==
    /\ At(t, "run")
    /\ loc[t].mode # "none"
    /\ loc' = [loc EXCEPT ![t].word = word]
    /\ Goto(t, "unlock_waiters")
    /\ UNCHANGED <<word, waiters, asleep>>

UnlockReadsAgain(t) ==
    /\ At(t, "unlock_word")
    /\ loc' = [loc EXCEPT ![t].word = word]
    /\ Goto(t, "unlock_waiters")
    /\ UNCHANGED <<word, waiters, asleep>>

UnlockReadsWaiters(t) ==
    /\ At(t, "unlock_waiters")
    /\ loc' = [loc EXCEPT ![t].waiters = waiters]
    /\ Goto(t, "unlock_cas")
    /\ UNCHANGED <<word, waiters, asleep>>

Unlocked(w) == IF w.cnt \in {1, Writer} THEN Free ELSE [w EXCEPT !.cnt = @ - 1]

UnlockSwaps(t) ==
    /\ At(t, "unlock_cas")
    /\ IF word = loc[t].word
       THEN /\ word' = Unlocked(word)
            /\ loc' = [loc EXCEPT ![t].mode = "none"]
            /\ Goto(t, "unlock_wake")
       ELSE /\ loc' = [loc EXCEPT ![t].word = Free, ![t].waiters = 0]
            /\ Goto(t, "unlock_word")
            /\ UNCHANGED word
    /\ UNCHANGED <<waiters, asleep>>

UnlockWakes(t) ==
    LET l == loc[t]
    IN  /\ At(t, "unlock_wake")
        /\ IF Unlocked(l.word) = Free /\ (l.waiters > 0 \/ l.word.neg)
           THEN IF l.word.cnt = Writer THEN WakeAll ELSE WakeOne
           ELSE UNCHANGED asleep
        /\ loc' = [loc EXCEPT ![t] = Idle]
        /\ Goto(t, "run")
        /\ UNCHANGED <<word, waiters>>

Unlock(t) ==
    UnlockReadsWord(t) \/ UnlockReadsAgain(t) \/ UnlockReadsWaiters(t) \/ UnlockSwaps(t)
        \/ UnlockWakes(t)

\* Whoever holds the lock releases it at some time.
Steps(t) == Lock(t) \/ Unlock(t)

Next == \E t \in Thread : Call(t) \/ Steps(t) \/ TimesOut(t)

-----------------------------------------------------------------------------
(* Properties.                                                             *)

Holders(m) ==
    {t \in Thread : loc[t].mode = m
                    /\ pc[t] \in {"run", "unlock_word", "unlock_waiters", "unlock_cas"}}

\* A writer is alone, and the word counts the readers.
RwlockExcludes ==
    /\ Holders("write") # {} => Cardinality(Holders("write")) = 1 /\ Holders("read") = {}
    /\ word.cnt = IF Holders("write") # {} THEN Writer ELSE Cardinality(Holders("read"))

\* In the end, when holders unlock, everybody has had the lock: waking one thread
\* after readers and all after a writer is enough, and no unlocker trusts a count
\* of waiters that is out of date.
Settled(t) == pc[t] = "run"

=============================================================================
