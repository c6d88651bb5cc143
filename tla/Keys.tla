-------------------------------- MODULE Keys --------------------------------
(***************************************************************************)
(* Thread-specific data: pthread_key_create, pthread_key_delete,           *)
(* pthread_setspecific, and the destructors that run when a thread exits.  *)
(*                                                                         *)
(* Keys are used again after they were deleted.  The model numbers the     *)
(* creations, and a value is the number of the creation it was set under.  *)
(* What a thread does while it holds the lock is one step.                 *)
(***************************************************************************)
EXTENDS Integers, FiniteSets, FiniteSetsExt

CONSTANTS
    Thread,
    KEYS_MAX, ITERATIONS,     \* 128 and 4 in the code
    MaxCreated                \* the bound on the creations

VARIABLES
    keys,     \* by key: the creation, or 0, and whether it has a destructor
    next_key,
    created,  \* how many creations there were
    tsd,      \* by thread and key: the value, or 0
    used,     \* by thread: tsd_used
    th        \* where each thread is, in which round, and at which key

vars == <<keys, next_key, created, tsd, used, th>>

Key == 0 .. KEYS_MAX - 1

NoKey == [id |-> 0, dtor |-> FALSE]

Init ==
    /\ keys = [k \in Key |-> NoKey] /\ next_key = 0 /\ created = 0
    /\ tsd = [t \in Thread |-> [k \in Key |-> 0]]
    /\ used = [t \in Thread |-> FALSE]
    /\ th = [t \in Thread |-> [pc |-> "run", round |-> 0, at |-> 0, dtor |-> 0, val |-> 0]]

-----------------------------------------------------------------------------

\* The program's code runs in a thread, or in a destructor.
Runs(t) == th[t].pc \in {"run", "dtor"}

Free == {k \in Key : keys[k].id = 0}

\* __pthread_key_create: the first free key from next_key on; EAGAIN if there is none.
KeyCreate(t, dtor) ==
    LET distance(k) == (k - next_key) % KEYS_MAX
    IN  /\ Runs(t) /\ created < MaxCreated
        /\ \E k \in Free :
             /\ \A m \in Free : distance(k) <= distance(m)
             /\ keys' = [keys EXCEPT ![k] = [id |-> created + 1, dtor |-> dtor]]
             /\ next_key' = k
        /\ created' = created + 1
        /\ UNCHANGED <<tsd, used, th>>

\* Mutant of KeyDelete: only the caller's value is forgotten.
KeyDeleteOwn(t, k) ==
    /\ Runs(t) /\ keys[k].id # 0
    /\ tsd' = [tsd EXCEPT ![t][k] = 0]
    /\ keys' = [keys EXCEPT ![k] = NoKey]
    /\ UNCHANGED <<next_key, created, used, th>>

\* __pthread_key_delete.
KeyDelete(t, k) ==
    /\ Runs(t) /\ keys[k].id # 0
    /\ tsd' = [u \in Thread |-> IF th[u].pc = "gone" THEN tsd[u] ELSE [tsd[u] EXCEPT ![k] = 0]]
    /\ keys' = [keys EXCEPT ![k] = NoKey]
    /\ UNCHANGED <<next_key, created, used, th>>

\* pthread_setspecific, of a key that exists: to null, or to a value.
SetSpecific(t, k, x) ==
    /\ Runs(t) /\ keys[k].id # 0 /\ tsd[t][k] # x
    /\ tsd' = [tsd EXCEPT ![t][k] = x]
    /\ used' = [used EXCEPT ![t] = TRUE]
    /\ UNCHANGED <<keys, next_key, created, th>>

-----------------------------------------------------------------------------
(* __pthread_tsd_run_dtors.                                                *)

Exit(t) ==
    /\ th[t].pc = "run"
    /\ th' = [th EXCEPT ![t].pc = "rounds"]
    /\ UNCHANGED <<keys, next_key, created, tsd, used>>

\* From the key `at' on, with the lock: values are forgotten up to the first one that
\* has a destructor, which is called without the lock; or to the end of the round.
Scan(t, at) ==
    LET found == {k \in Key : k >= at /\ tsd[t][k] # 0 /\ keys[k].dtor}
        stop  == IF found = {} THEN KEYS_MAX - 1 ELSE Min(found)
    IN  /\ tsd' = [tsd EXCEPT ![t] = [k \in Key |-> IF k \in at .. stop THEN 0 ELSE @[k]]]
        /\ th' = [th EXCEPT ![t] =
                    IF found = {} THEN [@ EXCEPT !.pc = "rounds", !.round = @ + 1, !.dtor = 0, !.val = 0]
                    ELSE [@ EXCEPT !.pc = "dtor", !.at = stop, !.dtor = keys[stop].id, !.val = tsd[t][stop]]]
        /\ UNCHANGED <<keys, next_key, created>>

\* A round begins.
Round(t) ==
    /\ th[t].pc = "rounds" /\ used[t] /\ th[t].round < ITERATIONS
    /\ used' = [used EXCEPT ![t] = FALSE]
    /\ Scan(t, 0)

\* A destructor returns.
GoOn(t) ==
    /\ th[t].pc = "dtor"
    /\ Scan(t, th[t].at + 1)
    /\ UNCHANGED used

\* There is nothing left, or enough is enough.
Gone(t) ==
    /\ th[t].pc = "rounds" /\ (~used[t] \/ th[t].round = ITERATIONS)
    /\ th' = [th EXCEPT ![t].pc = "gone"]
    /\ UNCHANGED <<keys, next_key, created, tsd, used>>

Next ==
    \E t \in Thread :
      \/ \E dtor \in BOOLEAN : KeyCreate(t, dtor)
      \/ \E k \in Key : KeyDelete(t, k) \/ \E x \in {0, keys[k].id} : SetSpecific(t, k, x)
      \/ Exit(t) \/ Round(t) \/ GoOn(t) \/ Gone(t)

Spec == Init /\ [][Next]_vars

-----------------------------------------------------------------------------
(* Properties.                                                             *)

\* A value belongs to the key that it was set under: once a key was deleted and its
\* number is given out again, no thread has a value of the old key, and no destructor
\* is called with one.
ValuesBelong ==
    \A t \in Thread :
      /\ th[t].pc # "gone" => \A k \in Key : tsd[t][k] \in {0, keys[k].id}
      /\ th[t].dtor = th[t].val

\* A thread leaves a value behind only if its destructors have set values in every one
\* of the rounds.
NothingIsLeft ==
    \A t \in Thread :
      th[t].pc = "gone" /\ th[t].round < ITERATIONS => \A k \in Key : tsd[t][k] = 0

=============================================================================
