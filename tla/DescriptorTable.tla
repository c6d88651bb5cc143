-------------------------- MODULE DescriptorTable --------------------------
(***************************************************************************)
(* The table that maps file descriptors to reference-counted descriptor    *)
(* objects (libc-bottom-half/sources/descriptor_table.c and the inline     *)
(* functions of headers/private/wasi/descriptor_table.h), as cooperative   *)
(* threads use it.                                                         *)
(*                                                                         *)
(* Cooperative threads are not preempted: `cur' is the thread that runs,   *)
(* and another one runs only after `cur' suspends (Switch).  A call        *)
(* suspends when it waits for the table's lock, and inside a descriptor's  *)
(* destructor, which may flush a stream or wait for a packet to be sent.   *)
(* dup2, a failed insert and clear run destructors while they hold the     *)
(* lock.                                                                   *)
(***************************************************************************)
EXTENDS Integers, FiniteSets

CONSTANTS
    Thread,          \* the threads of the program
    NoThread,        \* no thread
    Obj,             \* heap addresses at which a descriptor object may live
    NoObj,           \* no object
    MINSIZE,         \* first length of the table
    MAX_DESCRIPTOR,  \* bound on the argument of dup2, dup3 and F_DUPFD
    MaxLen,          \* bound: realloc fails beyond this many entries
    MaxRefs          \* bound: references a thread keeps across its calls

ASSUME ConstantsOK ==
    /\ IsFiniteSet(Thread)
    /\ NoThread \notin Thread
    /\ NoObj \notin Obj
    /\ MINSIZE \in Nat \ {0}
    /\ MAX_DESCRIPTOR \in Nat
    /\ MaxLen \in Nat
    /\ MaxRefs \in Nat

VARIABLES
    cur,       \* the running thread
    owner,     \* holder of global_table.lock, or NoThread
    len,       \* global_table.len
    next_fd,   \* global_table.next_fd, the allocation hint
    slot,      \* the object of each entry, NoObj where it is not occupied
    cleared,   \* entries already dropped by a running clear()
    stdio_initialized,
    cnt,       \* reference count of each object
    alive,     \* objects allocated and not yet freed
    live_descriptors,
    pc,        \* where each thread is
    op,        \* the call each thread is in
    added,     \* stdio descriptors added by a thread's init_stdio
    ref        \* references of each thread: index 0 is the entry its call is
               \* inserting or dropping, the others come from descriptor_table_get

table   == <<len, next_fd, slot, cleared, stdio_initialized>>
objects == <<cnt, alive, live_descriptors>>
vars    == <<cur, owner, table, objects, pc, op, added, ref>>

Fd       == 0 .. (MaxLen - 1)
MaybeObj == Obj \cup {NoObj}
Calls    == {"insert", "get", "dup", "dup2", "dup3", "dupfd", "remove", "clear"}
Occupied(fd) == slot[fd] # NoObj

TypeOK ==
    /\ cur \in Thread
    /\ owner \in Thread \cup {NoThread}
    /\ len \in 0 .. MaxLen
    /\ next_fd \in 0 .. len
    /\ slot \in [Fd -> MaybeObj]
    /\ cleared \in 0 .. len
    /\ stdio_initialized \in BOOLEAN
    /\ cnt \in [Obj -> Nat]
    /\ alive \in SUBSET Obj
    /\ live_descriptors \in Nat
    /\ pc \in [Thread -> {"idle", "stdio", "lock", "dec", "free", "clear"}]
    /\ op \in [Thread -> Calls \cup {"none"}]
    /\ added \in [Thread -> 0 .. 2]
    /\ ref \in [Thread -> [0 .. MaxRefs -> MaybeObj]]

Init ==
    /\ cur \in Thread
    /\ owner = NoThread
    /\ len = 0
    /\ next_fd = 0
    /\ slot = [fd \in Fd |-> NoObj]
    /\ cleared = 0
    /\ stdio_initialized = FALSE
    /\ cnt = [o \in Obj |-> 0]
    /\ alive = {}
    /\ live_descriptors = 0
    /\ pc = [t \in Thread |-> "idle"]
    /\ op = [t \in Thread |-> "none"]
    /\ added = [t \in Thread |-> 0]
    /\ ref = [t \in Thread |-> [i \in 0 .. MaxRefs |-> NoObj]]

-----------------------------------------------------------------------------
(* The slab.                                                               *)

\* The lengths table_grow's doubling loop can stop at, for `needed' entries.
GrownLen(needed) ==
    LET first   == IF len = 0 THEN MINSIZE ELSE len
        doubled == {first * 2^k : k \in 0 .. MaxLen}
    IN  IF needed <= len THEN {len}
        ELSE {n \in doubled : n >= needed /\ \A m \in doubled : m >= needed => n <= m}

\* table_grow succeeds with length n; beyond MaxLen entries realloc fails.
Grow(needed, n) == n \in GrownLen(needed) /\ n <= MaxLen

\* fd is the first index from `from' on that is not occupied, len if all are.
FirstFree(from, fd) ==
    /\ fd \in from .. len
    /\ fd < len => ~Occupied(fd)
    /\ \A g \in from .. (fd - 1) : Occupied(g)

\* table_allocate puts o at the first free index.
Allocate(o) ==
    \E fd \in Fd, n \in 0 .. MaxLen :
        /\ FirstFree(next_fd, fd)
        /\ Grow(fd + 1, n)
        /\ len' = n
        /\ slot' = [slot EXCEPT ![fd] = o]
        /\ next_fd' = fd + 1

\* It fails where every entry is occupied and realloc fails.
AllocateFails == FirstFree(next_fd, len)

\* Mutant of LoweredHint: removal leaves the hint alone.
HintKept(fd) == next_fd

\* The hint after table_remove of fd.
LoweredHint(fd) == IF fd < next_fd THEN fd ELSE next_fd

Lookup(fd) == fd \in 0 .. (len - 1) /\ Occupied(fd)

\* Mutant of EntryInc: a copied entry is not counted.
EntryIncLost(o) == UNCHANGED cnt

\* descriptor_table_entry_inc.
EntryInc(o) == cnt' = [cnt EXCEPT ![o] = @ + 1]

\* Mutant of LastReference: the object goes with the last but one reference.
LastButOneReference(o) == cnt[o] <= 2

\* descriptor_table_entry_dec finds the count at zero.
LastReference(o) == cnt[o] = 1

-----------------------------------------------------------------------------
(* Suspension and scheduling.                                              *)

Waiting(t) == pc[t] \in {"stdio", "lock"} /\ owner \notin {NoThread, t}

\* The running thread can give up control: between calls (it blocks in I/O or
\* yields), while a destructor waits, and while it waits for the lock.  An
\* unlock only makes the woken thread runnable.
CanSuspend(t) == pc[t] \in {"idle", "free"} \/ Waiting(t)

Switch ==
    /\ CanSuspend(cur)
    /\ cur' \in Thread \ {cur}
    /\ UNCHANGED <<owner, table, objects, pc, op, added, ref>>

Goto(t, where) == pc' = [pc EXCEPT ![t] = where]

\* The call of t returns.
Return(t) ==
    /\ Goto(t, "idle")
    /\ op' = [op EXCEPT ![t] = "none"]

-----------------------------------------------------------------------------
(* Calls.                                                                  *)

\* The stdio check every operation but clear starts with.
EnterCall(t, call) ==
    /\ pc[t] = "idle"
    /\ op' = [op EXCEPT ![t] = call]
    /\ Goto(t, IF call = "clear" \/ stdio_initialized THEN "lock" ELSE "stdio")
    /\ stdio_initialized' = (stdio_initialized \/ call # "clear")
    /\ UNCHANGED <<cur, owner, len, next_fd, slot, cleared, added>>

Call(t, call) ==
    /\ call # "insert"
    /\ EnterCall(t, call)
    /\ UNCHANGED <<objects, ref>>

\* descriptor_table_insert counts the new object before anything else.
CallInsert(t) ==
    /\ EnterCall(t, "insert")
    /\ \E o \in Obj \ alive :
        /\ cnt' = [cnt EXCEPT ![o] = 1]
        /\ alive' = alive \cup {o}
        /\ live_descriptors' = live_descriptors + 1
        /\ ref' = [ref EXCEPT ![t][0] = o]

\* One of the three descriptors of __wasilibc_init_stdio.
AddStdio(t) ==
    /\ pc[t] = "stdio"
    /\ owner = NoThread
    /\ \E o \in Obj \ alive :
        /\ cnt' = [cnt EXCEPT ![o] = 1]
        /\ alive' = alive \cup {o}
        /\ live_descriptors' = live_descriptors + 1
        /\ Allocate(o)
    /\ added' = [added EXCEPT ![t] = IF @ = 2 THEN 0 ELSE @ + 1]
    /\ IF added[t] = 2 THEN Goto(t, "lock") ELSE UNCHANGED pc
    /\ UNCHANGED <<cur, owner, cleared, stdio_initialized, op, ref>>

\* calloc or realloc fails: the call fails, and stdio_initialized stays set.
AddStdioFails(t) ==
    /\ pc[t] = "stdio"
    /\ owner = NoThread
    /\ IF op[t] = "insert" THEN Goto(t, "dec") /\ UNCHANGED op ELSE Return(t)
    /\ added' = [added EXCEPT ![t] = 0]
    /\ UNCHANGED <<cur, owner, table, objects, ref>>

\* t has the lock and runs the body of its call.
Holds(t, call) ==
    /\ pc[t] = "lock"
    /\ op[t] = call
    /\ owner = NoThread

\* EBADF, EINVAL or ENOMEM with nothing changed, and dup2(fd, fd).
ReturnsUnchanged(t) ==
    /\ \/ Holds(t, "remove") \/ Holds(t, "get")
       \/ Holds(t, "dup") \/ Holds(t, "dup2") \/ Holds(t, "dup3") \/ Holds(t, "dupfd")
    /\ Return(t)
    /\ UNCHANGED <<cur, owner, table, objects, added, ref>>

Insert(t) ==
    /\ Holds(t, "insert")
    /\ Allocate(ref[t][0])
    /\ ref' = [ref EXCEPT ![t][0] = NoObj]
    /\ Return(t)
    /\ UNCHANGED <<cur, owner, cleared, stdio_initialized, objects, added>>

\* The entry of a failed insert is dropped with the lock still held.
InsertFails(t) ==
    /\ Holds(t, "insert")
    /\ AllocateFails
    /\ owner' = t
    /\ Goto(t, "dec")
    /\ UNCHANGED <<cur, table, objects, op, added, ref>>

Get(t) ==
    /\ Holds(t, "get")
    /\ \E fd \in Fd, i \in 1 .. MaxRefs :
        /\ Lookup(fd)
        /\ ref[t][i] = NoObj
        /\ EntryInc(slot[fd])
        /\ ref' = [ref EXCEPT ![t][i] = slot[fd]]
    /\ Return(t)
    /\ UNCHANGED <<cur, owner, table, alive, live_descriptors, added>>

Dup(t) ==
    /\ Holds(t, "dup")
    /\ \E fd \in Fd :
        /\ Lookup(fd)
        /\ Allocate(slot[fd])
        /\ EntryInc(slot[fd])
    /\ Return(t)
    /\ UNCHANGED <<cur, owner, cleared, stdio_initialized, alive, live_descriptors, added, ref>>

\* dup2 and dup3 replace whatever newfd holds; the hint is left alone.
Dup2(t) ==
    /\ Holds(t, "dup2") \/ Holds(t, "dup3")
    /\ \E fd \in Fd, newfd \in Fd, n \in 0 .. MaxLen :
        /\ Lookup(fd)
        /\ fd # newfd
        /\ newfd < MAX_DESCRIPTOR
        /\ Grow(newfd + 1, n)
        /\ len' = n
        /\ slot' = [slot EXCEPT ![newfd] = slot[fd]]
        /\ EntryInc(slot[fd])
        /\ ref' = [ref EXCEPT ![t][0] = slot[newfd]]
        /\ IF Occupied(newfd)
           THEN Goto(t, "dec") /\ owner' = t /\ UNCHANGED op
           ELSE Return(t) /\ UNCHANGED owner
    /\ UNCHANGED <<cur, next_fd, cleared, stdio_initialized, alive, live_descriptors, added>>

Dupfd(t) ==
    /\ Holds(t, "dupfd")
    /\ \E fd \in Fd, arg \in 0 .. (MAX_DESCRIPTOR - 1), minfd \in Fd, n \in 0 .. MaxLen :
        LET from == IF arg < next_fd THEN next_fd ELSE arg
        IN  /\ Lookup(fd)
            /\ IF from < len THEN FirstFree(from, minfd) ELSE minfd = from
            /\ Grow(minfd + 1, n)
            /\ len' = n
            /\ slot' = [slot EXCEPT ![minfd] = slot[fd]]
            /\ EntryInc(slot[fd])
    /\ Return(t)
    /\ UNCHANGED <<cur, owner, next_fd, cleared, stdio_initialized, alive, live_descriptors, added, ref>>

\* table_remove under the lock; the entry is dropped after the unlock.
Remove(t) ==
    /\ Holds(t, "remove")
    /\ \E fd \in Fd :
        /\ Lookup(fd)
        /\ ref' = [ref EXCEPT ![t][0] = slot[fd]]
        /\ slot' = [slot EXCEPT ![fd] = NoObj]
        /\ next_fd' = LoweredHint(fd)
    /\ Goto(t, "dec")
    /\ UNCHANGED <<cur, owner, len, cleared, stdio_initialized, objects, op, added>>

StartClear(t) ==
    /\ Holds(t, "clear")
    /\ owner' = t
    /\ Goto(t, "clear")
    /\ UNCHANGED <<cur, table, objects, op, added, ref>>

\* clear drops the entries in order and leaves them in place meanwhile.
ClearEntry(t) ==
    /\ pc[t] = "clear"
    /\ cleared < len
    /\ cleared' = cleared + 1
    /\ ref' = [ref EXCEPT ![t][0] = slot[cleared]]
    /\ IF Occupied(cleared) THEN Goto(t, "dec") ELSE UNCHANGED pc
    /\ UNCHANGED <<cur, owner, len, next_fd, slot, stdio_initialized, objects, op, added>>

FinishClear(t) ==
    /\ pc[t] = "clear"
    /\ cleared = len
    /\ slot' = [fd \in Fd |-> NoObj]
    /\ len' = 0
    /\ next_fd' = 0
    /\ cleared' = 0
    /\ stdio_initialized' = FALSE
    /\ owner' = NoThread
    /\ Return(t)
    /\ UNCHANGED <<cur, objects, added, ref>>

-----------------------------------------------------------------------------
(* Reference counts.                                                       *)

\* What a call does once the entry it dropped is gone.
AfterDrop(t) ==
    IF op[t] = "clear"
    THEN Goto(t, "clear") /\ UNCHANGED <<owner, op>>
    ELSE Return(t) /\ owner' = IF owner = t THEN NoThread ELSE owner

\* descriptor_table_entry_dec of ref[t][0].
EntryDec(t) ==
    /\ pc[t] = "dec"
    /\ cnt' = [cnt EXCEPT ![ref[t][0]] = @ - 1]
    /\ IF LastReference(ref[t][0])
       THEN Goto(t, "free") /\ UNCHANGED <<owner, op, ref>>
       ELSE AfterDrop(t) /\ ref' = [ref EXCEPT ![t][0] = NoObj]
    /\ UNCHANGED <<cur, table, alive, live_descriptors, added>>

\* The destructor returns: the memory is free and the live count drops.
Deallocate(t) ==
    /\ pc[t] = "free"
    /\ alive' = alive \ {ref[t][0]}
    /\ live_descriptors' = live_descriptors - 1
    /\ ref' = [ref EXCEPT ![t][0] = NoObj]
    /\ AfterDrop(t)
    /\ UNCHANGED <<cur, table, cnt, added>>

\* The caller of descriptor_table_get is done with reference i.
Release(t) ==
    /\ pc[t] = "idle"
    /\ \E i \in 1 .. MaxRefs :
        /\ ref[t][i] # NoObj
        /\ ref' = [ref EXCEPT ![t][0] = ref[t][i], ![t][i] = NoObj]
    /\ Goto(t, "dec")
    /\ UNCHANGED <<cur, owner, table, objects, op, added>>

-----------------------------------------------------------------------------
Step(t) ==
    \/ \E call \in Calls : Call(t, call)
    \/ CallInsert(t)
    \/ AddStdio(t)
    \/ AddStdioFails(t)
    \/ ReturnsUnchanged(t)
    \/ Insert(t)
    \/ InsertFails(t)
    \/ Get(t)
    \/ Dup(t)
    \/ Dup2(t)
    \/ Dupfd(t)
    \/ Remove(t)
    \/ StartClear(t)
    \/ ClearEntry(t)
    \/ FinishClear(t)
    \/ EntryDec(t)
    \/ Deallocate(t)
    \/ Release(t)

Next == Step(cur) \/ Switch

Spec == Init /\ [][Next]_vars

-----------------------------------------------------------------------------
(* Properties.                                                             *)

\* The comment on descriptor_table_t.next_fd: every entry below the allocation
\* hint is occupied, although dup2, F_DUPFD, close and clear move entries
\* without going through the allocator.
HintSound == \A fd \in 0 .. (next_fd - 1) : Occupied(fd)

\* References to o from the table; clear has already given up those it passed.
SlotRefs(o) == {fd \in Fd : slot[fd] = o /\ fd >= cleared}

\* References to o from calls in progress.
ThreadRefs(o) ==
    {r \in Thread \X (0 .. MaxRefs) :
        ref[r[1]][r[2]] = o /\ ~(r[2] = 0 /\ pc[r[1]] = "free")}

\* An object's count is the number of table entries and of calls in progress
\* that refer to it: close, dup2 over an open descriptor, clear and a failed
\* insert neither leak a reference nor drop one twice.
RefCountExact ==
    \A o \in Obj : cnt[o] = Cardinality(SlotRefs(o)) + Cardinality(ThreadRefs(o))

\* A descriptor object is never used after its destructor has started: whatever
\* the table or a blocked call refers to is allocated and counted.
NoUseAfterFree ==
    \A o \in Obj : SlotRefs(o) # {} \/ ThreadRefs(o) # {} => o \in alive /\ cnt[o] > 0

\* table_allocate's promise: insert, dup and the stdio descriptors get the lowest
\* unoccupied descriptor, whatever was closed or duplicated in between.  Only
\* dup2, dup3 and F_DUPFD may leave a gap below.
LowestFree ==
    [][\A fd \in Fd : ~Occupied(fd) /\ slot'[fd] # NoObj =>
            \/ pc[cur] = "lock" /\ op[cur] \in {"dup2", "dup3", "dupfd"}
            \/ \A g \in 0 .. (fd - 1) : Occupied(g)]_vars

=============================================================================
