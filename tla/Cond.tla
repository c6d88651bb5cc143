-------------------------------- MODULE Cond --------------------------------
(***************************************************************************)
(* A process-private condition variable (pthread_cond_timedwait.c) with    *)
(* its mutex, at the granularity of Mutex.                                 *)
(*                                                                         *)
(* Each waiter has a node on its own stack, named here after the waiter.   *)
(* The nodes form a list from _c_head (newest) over next to _c_tail, under *)
(* _c_lock.  A signaller takes nodes off the tail and opens the barrier of *)
(* the first; each waiter, once it has the mutex, opens the barrier of the *)
(* one after it (its prev).  A waiter whose time is up leaves the list by  *)
(* itself; a signaller that meets it waits until it has left.  Locks on    *)
(* _c_lock and on the barriers are words 0, 1 (held) and 2 (held, perhaps  *)
(* with sleepers).  Cancellation is left out: no futex wait reports it.    *)
(***************************************************************************)
EXTENDS Mutex

CONSTANTS
    Cv,           \* the address of _c_lock, as Thread are those of the barriers
    Ref,          \* the address of a signaller's count of leaving waiters
    Waiters,      \* threads that wait
    Signallers    \* threads that signal and broadcast

ASSUME CondConstants ==
    /\ Cv \notin Thread /\ Ref \notin Thread /\ Cv # Ref
    /\ Cv # NoThread /\ Ref # NoThread
    /\ Waiters \subseteq Thread
    /\ Signallers \subseteq Thread

VARIABLES
    lk,           \* the lock words: _c_lock and the barriers
    c_head, c_tail,
    prev, next,   \* the links of each node
    state,        \* the state of each node
    notify,       \* the signaller that a leaving node must notify
    ref,          \* how many leaving waiters each signaller waits for
    p, first, n,  \* the signaller's locals
    addr,         \* the word that a thread locks, unlocks or sleeps on
    after,        \* where that call returns to
    c_asleep,     \* threads asleep on addr
    inwait,       \* threads whose node exists
    met           \* waiters that a signaller found on the list

list  == <<c_head, c_tail, prev, next>>
nodes == <<state, notify>>
sig   == <<ref, p, first, n, met>>
call  == <<addr, after, c_asleep>>
cvars == <<lk, list, nodes, sig, call, inwait>>
vars  == <<mvars, cvars>>

Pointer == Thread \cup {NoThread}

TypeOK ==
    /\ MutexTypeOK
    /\ lk \in [Thread \cup {Cv} -> 0 .. 2]
    /\ c_head \in Pointer /\ c_tail \in Pointer
    /\ prev \in [Thread -> Pointer] /\ next \in [Thread -> Pointer]
    /\ state \in [Thread -> {"WAITING", "SIGNALED", "LEAVING"}]
    /\ notify \in [Thread -> Pointer]
    /\ ref \in [Thread -> Nat]
    /\ p \in [Thread -> Pointer] /\ first \in [Thread -> Pointer]
    /\ n \in [Thread -> {-1, 0, 1}]
    /\ addr \in [Thread -> Thread \cup {NoThread, Cv, Ref}]
    /\ c_asleep \subseteq Thread
    /\ inwait \subseteq Thread
    /\ met \in [Thread -> SUBSET Thread]

Init ==
    /\ MutexInit
    /\ lk = [x \in Thread \cup {Cv} |-> 0]
    /\ c_head = NoThread /\ c_tail = NoThread
    /\ prev = [t \in Thread |-> NoThread]
    /\ next = [t \in Thread |-> NoThread]
    /\ state = [t \in Thread |-> "WAITING"]
    /\ notify = [t \in Thread |-> NoThread]
    /\ ref = [t \in Thread |-> 0]
    /\ p = [t \in Thread |-> NoThread]
    /\ first = [t \in Thread |-> NoThread]
    /\ n = [t \in Thread |-> 0]
    /\ addr = [t \in Thread |-> NoThread]
    /\ after = [t \in Thread |-> "run"]
    /\ c_asleep = {}
    /\ inwait = {}
    /\ met = [t \in Thread |-> {}]

AtC(t, where) == At(t, where) /\ t \notin c_asleep

\* The locals of the mutex functions, which the rest of a call leaves alone.
mlocals == <<op, ret, r, wake, depth>>

GotoC(t, where) == Goto(t, where) /\ UNCHANGED <<mutex, mlocals>>

-----------------------------------------------------------------------------
(* lock, unlock and the wakeups on a word.                                 *)

LockWord(t, x, then) ==
    /\ addr' = [addr EXCEPT ![t] = x]
    /\ after' = [after EXCEPT ![t] = then]
    /\ UNCHANGED c_asleep
    /\ GotoC(t, "lk_try")

Back(t) ==
    /\ addr' = [addr EXCEPT ![t] = NoThread]
    /\ after' = [after EXCEPT ![t] = "run"]
    /\ GotoC(t, after[t])

LkTry(t) ==
    /\ AtC(t, "lk_try")
    /\ IF lk[addr[t]] = 0
       THEN lk' = [lk EXCEPT ![addr[t]] = 1] /\ Back(t)
       ELSE GotoC(t, "lk_mark") /\ UNCHANGED <<lk, addr, after>>
    /\ UNCHANGED <<list, nodes, sig, c_asleep, inwait>>

LkMark(t) ==
    /\ AtC(t, "lk_mark")
    /\ lk' = [lk EXCEPT ![addr[t]] = IF @ = 1 THEN 2 ELSE @]
    /\ GotoC(t, "lk_wait")
    /\ UNCHANGED <<list, nodes, sig, call, inwait>>

LkWait(t) ==
    /\ AtC(t, "lk_wait")
    /\ IF lk[addr[t]] = 2
       THEN c_asleep' = c_asleep \cup {t} /\ UNCHANGED <<mutex, pc, mlocals>>
       ELSE GotoC(t, "lk_cas") /\ UNCHANGED c_asleep
    /\ UNCHANGED <<lk, list, nodes, sig, addr, after, inwait>>

LkCas(t) ==
    /\ AtC(t, "lk_cas")
    /\ IF lk[addr[t]] = 0
       THEN lk' = [lk EXCEPT ![addr[t]] = 2] /\ Back(t)
       ELSE GotoC(t, "lk_wait") /\ UNCHANGED <<lk, addr, after>>
    /\ UNCHANGED <<list, nodes, sig, c_asleep, inwait>>

\* unlock(x), on the way to `then'; the wakeup is a step of its own.
UnlockWord(t, x, then) ==
    /\ lk' = [lk EXCEPT ![x] = 0]
    /\ IF lk[x] = 2
       THEN /\ addr' = [addr EXCEPT ![t] = x]
            /\ after' = [after EXCEPT ![t] = then]
            /\ Goto(t, "lk_wake")
       ELSE Goto(t, then) /\ UNCHANGED <<addr, after>>
    /\ UNCHANGED c_asleep

\* __wake of one thread that sleeps on addr[t].
LkWake(t) ==
    LET asleep == {u \in c_asleep : addr[u] = addr[t]}
    IN  /\ AtC(t, "lk_wake")
        /\ IF asleep = {} THEN UNCHANGED c_asleep
           ELSE \E u \in asleep : c_asleep' = c_asleep \ {u}
        /\ Back(t)
        /\ UNCHANGED <<lk, list, nodes, sig, inwait>>

-----------------------------------------------------------------------------
(* pthread_cond_timedwait.                                                 *)

\* The caller holds the mutex, once; without it a mutex with an owner gives EPERM.
WaitCall(t) ==
    /\ AtC(t, "run")
    /\ depth[t] = 1
    /\ inwait' = inwait \cup {t}
    /\ LockWord(t, Cv, "enqueue")
    /\ UNCHANGED <<lk, list, nodes, sig>>

\* The node goes in front of the list.
Enqueue(t) ==
    /\ AtC(t, "enqueue")
    /\ state' = [state EXCEPT ![t] = "WAITING"]
    /\ notify' = [notify EXCEPT ![t] = NoThread]
    /\ next' = [next EXCEPT ![t] = c_head]
    /\ prev' = [x \in Thread |-> IF x = t THEN NoThread
                                 ELSE IF x = c_head THEN t ELSE prev[x]]
    /\ c_head' = t
    /\ c_tail' = IF c_tail = NoThread THEN t ELSE c_tail
    /\ lk' = [lk EXCEPT ![t] = 2, ![Cv] = 0]
    /\ IF lk[Cv] = 2
       THEN /\ addr' = [addr EXCEPT ![t] = Cv]
            /\ after' = [after EXCEPT ![t] = "release"]
            /\ Goto(t, "lk_wake")
       ELSE Goto(t, "release") /\ UNCHANGED <<addr, after>>
    /\ UNCHANGED <<mutex, mlocals, sig, c_asleep, inwait>>

Release(t) ==
    /\ AtC(t, "release")
    /\ UnlockReads(t, "await")
    /\ UNCHANGED cvars

\* The futex wait on the barrier, for as long as it is shut.
Await(t) ==
    /\ AtC(t, "await")
    /\ IF lk[t] = 2
       THEN /\ c_asleep' = c_asleep \cup {t}
            /\ addr' = [addr EXCEPT ![t] = t]
            /\ UNCHANGED <<mutex, pc, mlocals>>
       ELSE GotoC(t, "depart") /\ addr' = [addr EXCEPT ![t] = NoThread] /\ UNCHANGED c_asleep
    /\ UNCHANGED <<lk, list, nodes, sig, after, inwait>>

AwaitTimesOut(t) ==
    /\ pc[t] = "await" /\ t \in c_asleep
    /\ c_asleep' = c_asleep \ {t}
    /\ addr' = [addr EXCEPT ![t] = NoThread]
    /\ GotoC(t, "depart")
    /\ UNCHANGED <<lk, list, nodes, sig, after, inwait>>

\* The compare-and-swap competes with a signaller's.
Depart(t) ==
    /\ AtC(t, "depart")
    /\ IF state[t] = "WAITING"
       THEN state' = [state EXCEPT ![t] = "LEAVING"] /\ LockWord(t, Cv, "unlink")
       ELSE LockWord(t, t, "relock") /\ UNCHANGED state
    /\ UNCHANGED <<lk, list, notify, sig, inwait>>

\* The node takes itself off the list.
Unlink(t) ==
    /\ AtC(t, "unlink")
    /\ c_head' = IF c_head = t THEN next[t] ELSE c_head
    /\ c_tail' = IF c_tail = t THEN prev[t] ELSE c_tail
    /\ next' = [x \in Thread |-> IF c_head # t /\ x = prev[t] THEN next[t] ELSE next[x]]
    /\ prev' = [x \in Thread |-> IF c_tail # t /\ x = next[t] THEN prev[t] ELSE prev[x]]
    /\ UnlockWord(t, Cv, "notify")
    /\ UNCHANGED <<mutex, mlocals, nodes, sig, inwait>>

\* The signaller that has met the node learns that it is off the list.
Notify(t) ==
    LET s == notify[t]
    IN  /\ AtC(t, "notify")
        /\ IF s = NoThread
           THEN GotoC(t, "relock") /\ UNCHANGED <<ref, addr, after>>
           ELSE /\ ref' = [ref EXCEPT ![s] = @ - 1]
                /\ IF ref[s] = 1
                   THEN GotoC(t, "ref_wake") /\ UNCHANGED <<addr, after>>
                   ELSE GotoC(t, "relock") /\ UNCHANGED <<addr, after>>
        /\ UNCHANGED <<lk, list, nodes, p, first, n, met, c_asleep, inwait>>

RefWake(t) ==
    /\ AtC(t, "ref_wake")
    /\ c_asleep' = {u \in c_asleep : ~(u = notify[t] /\ addr[u] = Ref)}
    /\ GotoC(t, "relock")
    /\ UNCHANGED <<lk, list, nodes, sig, addr, after, inwait>>

\* Mutant of Relock: the wait returns without the mutex.
RelockNot(t) ==
    /\ AtC(t, "relock")
    /\ Goto(t, "relocked")
    /\ depth' = [depth EXCEPT ![t] = 1]
    /\ UNCHANGED <<mutex, op, ret, r, wake, cvars>>

\* pthread_mutex_lock.
Relock(t) ==
    /\ AtC(t, "relock")
    /\ Goto(t, "try")
    /\ ret' = [ret EXCEPT ![t] = "relocked"]
    /\ UNCHANGED <<mutex, op, r, wake, depth, cvars>>

\* A waiter that was not signalled is done.  The first of a group counts the rest
\* as one more waiter of the mutex.
Relocked(t) ==
    /\ AtC(t, "relocked")
    /\ IF state[t] = "LEAVING"
       THEN Goto(t, "leave") /\ UNCHANGED m_waiters
       ELSE /\ m_waiters' = IF next[t] = NoThread THEN m_waiters + 1 ELSE m_waiters
            /\ Goto(t, "pass")
    /\ UNCHANGED <<m_type, m_lock, m_count, m_asleep, mlocals, cvars>>

\* Mutant of Pass: the barrier is opened without a wakeup.
PassSilently(t) ==
    /\ AtC(t, "pass")
    /\ IF prev[t] # NoThread
       THEN lk' = [lk EXCEPT ![prev[t]] = 0] /\ m_lock' = Marked(m_lock) /\ UNCHANGED m_waiters
       ELSE m_waiters' = m_waiters - 1 /\ UNCHANGED <<m_lock, lk>>
    /\ Goto(t, "leave")
    /\ UNCHANGED <<m_type, m_count, m_asleep, mlocals, list, nodes, sig, call, inwait>>

\* The barrier of the next waiter is opened, or the last one ends the group.
Pass(t) ==
    /\ AtC(t, "pass")
    /\ IF prev[t] # NoThread
       THEN /\ m_lock' = Marked(m_lock)
            /\ lk' = [lk EXCEPT ![prev[t]] = 0]
            /\ addr' = [addr EXCEPT ![t] = prev[t]]
            /\ after' = [after EXCEPT ![t] = "leave"]
            /\ Goto(t, "lk_wake")
            /\ UNCHANGED m_waiters
       ELSE /\ m_waiters' = m_waiters - 1
            /\ Goto(t, "leave")
            /\ UNCHANGED <<m_lock, lk, addr, after>>
    /\ UNCHANGED <<m_type, m_count, m_asleep, mlocals, list, nodes, sig, c_asleep, inwait>>

\* The call returns and the node is gone.
Leave(t) ==
    /\ AtC(t, "leave")
    /\ inwait' = inwait \ {t}
    /\ state' = [state EXCEPT ![t] = "WAITING"]
    /\ notify' = [notify EXCEPT ![t] = NoThread]
    /\ prev' = [prev EXCEPT ![t] = NoThread]
    /\ next' = [next EXCEPT ![t] = NoThread]
    /\ lk' = [lk EXCEPT ![t] = 0]
    /\ met' = [s \in Thread |-> met[s] \ {t}]
    /\ GotoC(t, "run")
    /\ UNCHANGED <<c_head, c_tail, ref, p, first, n, call>>

-----------------------------------------------------------------------------
(* pthread_cond_signal (k = 1) and pthread_cond_broadcast (k = -1).        *)

SignalCall(s, k) ==
    /\ AtC(s, "run")
    /\ n' = [n EXCEPT ![s] = k]
    /\ LockWord(s, Cv, "first_node")
    /\ UNCHANGED <<lk, list, nodes, ref, p, first, met, inwait>>

SignalStarts(s) ==
    /\ AtC(s, "first_node")
    /\ p' = [p EXCEPT ![s] = c_tail]
    /\ GotoC(s, "take")
    /\ UNCHANGED <<lk, list, nodes, ref, first, n, met, call, inwait>>

\* One node from the tail: it is signalled, or it is leaving and will notify.
Take(s) ==
    /\ AtC(s, "take")
    /\ n[s] # 0 /\ p[s] # NoThread
    /\ IF state[p[s]] = "WAITING"
       THEN /\ state' = [state EXCEPT ![p[s]] = "SIGNALED"]
            /\ n' = [n EXCEPT ![s] = IF @ = 1 THEN 0 ELSE @]
            /\ first' = [first EXCEPT ![s] = IF @ = NoThread THEN p[s] ELSE @]
            /\ UNCHANGED <<notify, ref>>
       ELSE /\ ref' = [ref EXCEPT ![s] = @ + 1]
            /\ notify' = [notify EXCEPT ![p[s]] = s]
            /\ UNCHANGED <<state, n, first>>
    /\ met' = [met EXCEPT ![s] = @ \cup {p[s]}]
    /\ p' = [p EXCEPT ![s] = prev[p[s]]]
    /\ UNCHANGED <<mutex, pc, mlocals, lk, list, call, inwait>>

\* Mutant of Split: the rest of the list is not cut off.
SplitNot(s) ==
    LET q == p[s]
    IN  /\ AtC(s, "take")
        /\ n[s] = 0 \/ q = NoThread
        /\ c_head' = IF q = NoThread THEN NoThread ELSE c_head
        /\ c_tail' = q
        /\ p' = [p EXCEPT ![s] = NoThread]
        /\ UnlockWord(s, Cv, "await_leaving")
        /\ UNCHANGED <<mutex, mlocals, prev, next, nodes, ref, first, n, met, inwait>>

\* The nodes that were taken are cut off the list.
Split(s) ==
    LET q == p[s]
    IN  /\ AtC(s, "take")
        /\ n[s] = 0 \/ q = NoThread
        /\ IF q # NoThread
           THEN /\ prev' = [x \in Thread |-> IF x = next[q] THEN NoThread ELSE prev[x]]
                /\ next' = [next EXCEPT ![q] = NoThread]
                /\ UNCHANGED c_head
           ELSE c_head' = NoThread /\ UNCHANGED <<prev, next>>
        /\ c_tail' = q
        /\ p' = [p EXCEPT ![s] = NoThread]
        /\ UnlockWord(s, Cv, "await_leaving")
        /\ UNCHANGED <<mutex, mlocals, nodes, ref, first, n, met, inwait>>

AwaitLeaving(s) ==
    /\ AtC(s, "await_leaving")
    /\ IF ref[s] # 0
       THEN /\ c_asleep' = c_asleep \cup {s}
            /\ addr' = [addr EXCEPT ![s] = Ref]
            /\ UNCHANGED <<mutex, pc, mlocals>>
       ELSE GotoC(s, "open") /\ addr' = [addr EXCEPT ![s] = NoThread] /\ UNCHANGED c_asleep
    /\ UNCHANGED <<lk, list, nodes, sig, after, inwait>>

\* The barrier of the first waiter is opened and the call is over.
Open(s) ==
    /\ AtC(s, "open")
    /\ IF first[s] # NoThread
       THEN UnlockWord(s, first[s], "run")
       ELSE Goto(s, "run") /\ UNCHANGED <<lk, addr, after, c_asleep>>
    /\ first' = [first EXCEPT ![s] = NoThread]
    /\ n' = [n EXCEPT ![s] = 0]
    /\ met' = [met EXCEPT ![s] = {}]
    /\ UNCHANGED <<mutex, mlocals, list, nodes, ref, p, inwait>>

-----------------------------------------------------------------------------
CondStep(t) ==
    \/ LkTry(t) \/ LkMark(t) \/ LkWait(t) \/ LkCas(t) \/ LkWake(t)
    \/ Enqueue(t) \/ Release(t) \/ Await(t) \/ Depart(t) \/ Unlink(t) \/ Notify(t)
    \/ RefWake(t) \/ Relock(t) \/ Relocked(t) \/ Pass(t) \/ Leave(t)
    \/ SignalStarts(t) \/ Take(t) \/ Split(t) \/ AwaitLeaving(t) \/ Open(t)

MStep(t) == MutexStep(t) /\ UNCHANGED cvars
MUnlock(t) == depth[t] > 0 /\ MutexUnlock(t) /\ UNCHANGED cvars
MLock(t) == MutexCall(t, "lock") /\ UNCHANGED cvars

Next ==
    \/ \E t \in Waiters : WaitCall(t) \/ MLock(t) \/ AwaitTimesOut(t)
    \/ \E s \in Signallers, k \in {1, -1} : SignalCall(s, k)
    \/ \E t \in Thread : MUnlock(t) \/ MStep(t) \/ CondStep(t)

Fairness == \A t \in Thread : WF_vars(MStep(t) \/ CondStep(t)) /\ WF_vars(MUnlock(t))

Spec == Init /\ [][Next]_vars /\ Fairness

-----------------------------------------------------------------------------
(* Properties.                                                             *)

\* The nodes that a thread reads or writes in its next step.
Uses(t) ==
    (CASE pc[t] = "enqueue" -> {c_head}
       [] pc[t] = "unlink"  -> {prev[t], next[t]}
       [] pc[t] = "pass"    -> {prev[t]}
       [] pc[t] = "take"    -> {p[t]} \cup (IF p[t] = NoThread THEN {} ELSE {next[p[t]]})
       [] pc[t] = "open"    -> {first[t]}
       [] OTHER             -> {}) \ {NoThread}

\* No thread touches a node whose waiter has returned: the nodes are on stacks.
NodesOutliveUse == \A t \in Thread : Uses(t) \subseteq inwait

\* When a signaller that has seen every waiter goes on, none of those that it saw
\* will touch the condition variable again, so it may be destroyed after a
\* broadcast: those who were leaving have left.
CvIsLeft ==
    \A s, t \in Thread :
        (pc[s] = "open" /\ t \in met[s]) =>
            /\ pc[t] \notin {"unlink", "enqueue"}
            /\ ~(pc[t] \in {"lk_try", "lk_mark", "lk_wait", "lk_cas"} /\ addr[t] = Cv)

\* The queue of waiters is safe to walk, for the signaller and for a waiter that leaves
\* it by a timeout, and safe to throw away with the condition variable afterwards.
QueueIsSafe == TypeOK /\ NodesOutliveUse /\ CvIsLeft

\* When the application makes no more calls but to unlock, everybody who was
\* signalled returns with the mutex, and every signaller and every locker returns:
\* no barrier stays shut, no leaving waiter is forgotten and no unlock fails to
\* wake.
SignalsArrive ==
    (<>[][\A t \in Thread : pc[t] = "run" => pc'[t] \in {"run", "unlock"}]_vars)
        => <>[](\A t \in Thread :
                  \/ pc[t] = "run"
                  \/ pc[t] = "await" /\ t \in c_asleep /\ state[t] = "WAITING")

=============================================================================
