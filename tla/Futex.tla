------------------------------- MODULE Futex -------------------------------
(***************************************************************************)
(* The futex of the cooperative-threads build                              *)
(* (musl/src/thread/coop-threads/futex.c).  A map from addresses to        *)
(* heap-allocated waitlists; a waiter counts itself in its waitlist, links *)
(* a node that lives on its stack, and suspends.  An indefinite wait is    *)
(* resumed by its waker; a timed one sleeps on a future and a deadline.    *)
(* Only a suspension lets another thread run, so each stretch between two  *)
(* suspensions is one step.  The values at the addresses are left out: a   *)
(* wait finds the expected value or it does not.                           *)
(***************************************************************************)
EXTENDS Integers, FiniteSets, Sequences, SequencesExt

CONSTANTS
    Thread,
    Addr,
    List,     \* identities of waitlists on the heap
    NoList,
    MaxRefs   \* bound on a waitlist's reference count

ASSUME ConstantsOK == NoList \notin List /\ MaxRefs \in Nat

VARIABLES
    map,      \* futex_map
    heap,     \* the waitlists that are allocated
    nodes,    \* the linked list of each waitlist, head first
    refcnt,
    wait,     \* the __wasilibc_futex_wait each thread is in
    woken,    \* the `woken' flag of each thread's node
    result    \* what the last wait to return returned

vars == <<map, heap, nodes, refcnt, wait, woken, result>>

Running == [kind |-> "none", addr |-> CHOOSE a \in Addr : TRUE, list |-> NoList]

Kind   == {"none", "tid", "future"}
Result == {"0", "-EWOULDBLOCK", "-ETIMEDOUT", "-EINVAL", "-ENOMEM"}

TypeOK ==
    /\ map \in [Addr -> List \cup {NoList}]
    /\ heap \subseteq List
    /\ DOMAIN nodes = List /\ \A l \in List : nodes[l] \in Seq(Thread)
    /\ refcnt \in [List -> 0 .. MaxRefs]
    /\ wait \in [Thread -> [kind : Kind, addr : Addr, list : List \cup {NoList}]]
    /\ woken \in [Thread -> BOOLEAN]
    /\ result \in Result \cup {"ENOMEM"}

Init ==
    /\ map = [a \in Addr |-> NoList]
    /\ heap = {}
    /\ nodes = [l \in List |-> <<>>]
    /\ refcnt = [l \in List |-> 0]
    /\ wait = [t \in Thread |-> Running]
    /\ woken = [t \in Thread |-> FALSE]
    /\ result = "0"

CanRun(t) == wait[t].kind = "none"

-----------------------------------------------------------------------------
(* The waitlists.                                                          *)

\* find_futex_entry with create: the waitlist of a, allocated if a has none.
Found(a, l) == IF map[a] # NoList THEN l = map[a] ELSE l \in List \ heap

\* Mutant of Released: the waitlist goes with the first waiter that leaves.
ReleasedByFirst(a, l) ==
    /\ refcnt' = [refcnt EXCEPT ![l] = @ - 1]
    /\ map' = [map EXCEPT ![a] = NoList]
    /\ heap' = heap \ {l}

\* release_futex_entry.
Released(a, l) ==
    /\ refcnt' = [refcnt EXCEPT ![l] = @ - 1]
    /\ IF refcnt[l] = 1
       THEN /\ map' = [map EXCEPT ![a] = NoList]
            /\ heap' = heap \ {l}
       ELSE UNCHANGED <<map, heap>>

-----------------------------------------------------------------------------
(* __wasilibc_futex_wait.                                                  *)

\* The waiter takes a reference to a waitlist, with the entry in place.
Reference(a, l) ==
    /\ Found(a, l)
    /\ refcnt[l] < MaxRefs
    /\ map' = [map EXCEPT ![a] = l]
    /\ heap' = heap \cup {l}
    /\ refcnt' = [refcnt EXCEPT ![l] = @ + 1]

\* The value at the address is the expected one.  Suspend, with the node at the
\* head of the list.
Wait(t, a, kind) ==
    /\ CanRun(t)
    /\ \E l \in List :
        /\ Reference(a, l)
        /\ nodes' = [nodes EXCEPT ![l] = <<t>> \o @]
        /\ wait' = [wait EXCEPT ![t] = [kind |-> kind, addr |-> a, list |-> l]]
    /\ woken' = [woken EXCEPT ![t] = FALSE]
    /\ UNCHANGED result

\* The value has changed (-EWOULDBLOCK), the arguments are refused before the
\* waitlist is looked up (-EINVAL), or the deadline has passed already, which
\* takes and releases the reference in one go.
WaitRefused(t, r) ==
    /\ CanRun(t)
    /\ result' = r
    /\ UNCHANGED <<map, heap, nodes, refcnt, wait, woken>>

\* find_futex_entry cannot allocate.
WaitNoMemory(t, a) ==
    /\ CanRun(t)
    /\ map[a] = NoList
    /\ result' = "ENOMEM"
    /\ UNCHANGED <<map, heap, nodes, refcnt, wait, woken>>

\* A relative timeout with a negative tv_sec is refused after the reference has
\* been taken.
WaitNegative(t, a) ==
    /\ CanRun(t)
    /\ \E l \in List : Reference(a, l)
    /\ result' = "-EINVAL"
    /\ UNCHANGED <<nodes, wait, woken>>

\* Mutant of Leave: the reference is not given back.
LeaveReferenced(t, r) ==
    /\ wait' = [wait EXCEPT ![t] = Running]
    /\ result' = r
    /\ UNCHANGED <<map, heap, refcnt, woken>>

Leave(t, r) ==
    /\ Released(wait[t].addr, wait[t].list)
    /\ wait' = [wait EXCEPT ![t] = Running]
    /\ result' = r
    /\ UNCHANGED woken

\* thread.suspend returns, or the future's event arrives.
Resume(t) ==
    /\ ~CanRun(t)
    /\ woken[t]
    /\ Leave(t, "0")
    /\ UNCHANGED nodes


\* The deadline's event arrives: if no one has woken the node it is unlinked.
Deadline(t) ==
    /\ wait[t].kind = "future"
    /\ IF woken[t]
       THEN UNCHANGED nodes /\ Leave(t, "0")
       ELSE /\ nodes' = [nodes EXCEPT ![wait[t].list] = SelectSeq(@, LAMBDA u : u # t)]
            /\ Leave(t, "-ETIMEDOUT")

-----------------------------------------------------------------------------
(* __wasilibc_futex_wake.                                                  *)

\* How many nodes a wake of `count' takes from the head of a list.
Count(l, count) == IF count < Len(nodes[l]) THEN count ELSE Len(nodes[l])

\* Up to count waiters are unlinked and then woken.
Wake(a, count) ==
    /\ map[a] # NoList
    /\ LET l == map[a]
           n == Count(l, count)
       IN  /\ nodes' = [nodes EXCEPT ![l] = SubSeq(@, n + 1, Len(@))]
           /\ woken' = [t \in Thread |-> woken[t] \/ \E i \in 1 .. n : nodes[l][i] = t]
    /\ UNCHANGED <<map, heap, refcnt, wait, result>>

Next ==
    \/ \E t \in Thread, a \in Addr, kind \in {"tid", "future"} : Wait(t, a, kind)
    \/ \E t \in Thread, r \in {"-EWOULDBLOCK", "-EINVAL", "-ETIMEDOUT"} : WaitRefused(t, r)
    \/ \E t \in Thread, a \in Addr : WaitNoMemory(t, a) \/ WaitNegative(t, a)
    \/ \E t \in Thread : Resume(t) \/ Deadline(t)
    \/ \E a \in Addr :
            /\ \E t \in Thread : CanRun(t)
            /\ \E count \in 1 .. Cardinality(Thread) : Wake(a, count)

Spec == Init /\ [][Next]_vars /\ \A t \in Thread : WF_vars(Resume(t))

-----------------------------------------------------------------------------
(* Properties.                                                             *)

Waiters(l) == {t \in Thread : ~CanRun(t) /\ wait[t].list = l}

\* A waitlist outlives its waiters, also across wakeups, deadlines and new
\* waits on the address: the list a suspended thread goes back to is allocated,
\* is the one the map has, and counts at least the threads that use it.
WaitlistLives ==
    \A l \in List :
        /\ Waiters(l) # {} => l \in heap
        /\ \A t \in Waiters(l) : map[wait[t].addr] = l
        /\ Cardinality(Waiters(l)) <= refcnt[l]

\* A linked list holds the nodes of exactly the waiters that have not been
\* woken, each once: the nodes are on the waiters' stacks.
LinkedAreAsleep ==
    \A l \in List :
        /\ ToSet(nodes[l]) = {t \in Waiters(l) : ~woken[t]}
        /\ Len(nodes[l]) = Cardinality(ToSet(nodes[l]))

\* Waitlists are allocated, counted and linked for exactly the threads that wait: the
\* map never leads a wait or a wake to freed memory or to a node that is gone.
WaitlistsAreExact == TypeOK /\ WaitlistLives /\ LinkedAreAsleep

\* The futex keeps the promises of AbstractFutex.
asleep == [a \in Addr |-> {t \in Thread : ~CanRun(t) /\ wait[t].addr = a /\ ~woken[t]}]
notified == {t \in Thread : ~CanRun(t) /\ woken[t]}

Promise == INSTANCE AbstractFutex WITH Error <- (Result \ {"0"}) \cup {"ENOMEM"}


\* References that no waiter holds.
Lost(l) == refcnt[l] - Cardinality(Waiters(l))

\* A waitlist is allocated exactly while it is referenced, and every way out of
\* __wasilibc_futex_wait gives its reference back, but for one: the early return
\* for a negative relative timeout, after which the entry outlives its waiters.
OnlyNegativeLeaks ==
    [][/\ heap' = {l \in List : refcnt'[l] > 0}
       /\ \A l \in List : Lost(l)' # Lost(l) => \E t \in Thread, a \in Addr : WaitNegative(t, a)]_vars

=============================================================================
