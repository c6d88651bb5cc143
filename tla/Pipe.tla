-------------------------------- MODULE Pipe --------------------------------
(***************************************************************************)
(* An in-process pipe (libc-bottom-half/sources/pipe.c) shared by          *)
(* cooperative threads.  A thread that has to wait sleeps on its half of a *)
(* component-model stream that carries no data; the other half completes   *)
(* that operation to wake it.  The pipe's lock is never held across a      *)
(* suspension, so each stretch of code between two suspensions is a step.  *)
(*                                                                         *)
(* An end of the stream has at most one operation: it is "idle", "copying" *)
(* (an operation is pending) or "done" (the operation completed and its    *)
(* event has not been delivered).  The component model traps when an       *)
(* operation starts on an end that is not idle, and when such an end is    *)
(* dropped.  `broken' records such a trap or a failed assertion of pipe.c. *)
(***************************************************************************)
EXTENDS Integers, FiniteSets

CONSTANTS
    Readers,   \* threads that use the read half
    Writers,   \* threads that use the write half
    Pollers,   \* threads that also poll the halves they use
    PIPE_BUF,  \* capacity, and longest write that is atomic
    MaxIO      \* bound: longest read or write

ASSUME ConstantsOK ==
    /\ PIPE_BUF \in Nat \ {0}
    /\ MaxIO \in Nat \ {0}

VARIABLES
    alive,     \* PIPE_READER_ALIVE and PIPE_WRITER_ALIVE
    blocking,  \* the mode of each half
    buffer,    \* the buffer has been allocated
    cap,       \* buffer_cap
    len,       \* buffer_len
    st,        \* flags and stream ends that blocking and waking go through
    call       \* what each thread is doing

vars == <<alive, blocking, buffer, cap, len, st, call>>

Thread == Readers \cup Writers
Side   == {"r", "w"}
Other(side) == IF side = "r" THEN "w" ELSE "r"
Users(side) == IF side = "r" THEN Readers ELSE Writers

Idle == [at |-> "idle", side |-> "r", n |-> 0]

State == [blocked : [Side -> BOOLEAN],   \* PIPE_*_BLOCKED
          woken   : [Side -> BOOLEAN],   \* PIPE_*_WOKEN
          end     : [Side -> {"idle", "copying", "done"}],
          broken  : BOOLEAN]

TypeOK ==
    /\ alive \in [Side -> BOOLEAN]
    /\ blocking \in [Side -> BOOLEAN]
    /\ buffer \in BOOLEAN
    /\ cap \in {0, PIPE_BUF}
    /\ len \in 0 .. cap
    /\ st \in State
    /\ call \in [Thread -> [at   : {"idle", "block", "register", "poll", "teardown"},
                            side : Side,
                            n    : 0 .. MaxIO]]

Init ==
    /\ alive = [s \in Side |-> TRUE]
    /\ \E b \in BOOLEAN : blocking = [s \in Side |-> b]
    /\ buffer = FALSE
    /\ cap = 0
    /\ len = 0
    /\ st = [blocked |-> [s \in Side |-> FALSE],
             woken   |-> [s \in Side |-> FALSE],
             end     |-> [s \in Side |-> "idle"],
             broken  |-> FALSE]
    /\ call = [t \in Thread |-> Idle]

-----------------------------------------------------------------------------
(* Blocking and waking, as functions of the state s.                       *)

\* Mutant of Unblock: a half that has been woken is woken again.
UnblockAgain(s, side) ==
    IF ~s.blocked[side] THEN s
    ELSE IF s.end[Other(side)] = "idle" /\ s.end[side] = "copying"
         THEN [s EXCEPT !.woken[side] = TRUE, !.end[side] = "done"]
         ELSE [s EXCEPT !.woken[side] = TRUE, !.broken = TRUE]

\* pipe_unblock_reader and pipe_unblock_writer: complete the operation that the
\* blocked half has pending, through the opposite end of the stream.
Unblock(s, side) ==
    IF ~s.blocked[side] \/ s.woken[side] THEN s
    ELSE IF s.end[Other(side)] = "idle" /\ s.end[side] = "copying"
         THEN [s EXCEPT !.woken[side] = TRUE, !.end[side] = "done"]
         ELSE [s EXCEPT !.woken[side] = TRUE, !.broken = TRUE]

\* pipe_block_reader_enter and pipe_block_writer_enter, where the half is not
\* blocked: the operation must be left pending.
BlockEnter(s, side) ==
    IF /\ ~s.woken[side]
       /\ s.end[side] = "idle"
       /\ s.end[Other(side)] # "copying"
    THEN [s EXCEPT !.blocked[side] = TRUE, !.end[side] = "copying"]
    ELSE [s EXCEPT !.blocked[side] = TRUE, !.broken = TRUE]

\* pipe_block_reader_exit and pipe_block_writer_exit: an operation that no one
\* completed is cancelled.
BlockExit(s, side) ==
    LET left == [s EXCEPT !.blocked[side] = FALSE, !.woken[side] = FALSE]
    IN  IF s.woken[side] THEN left
        ELSE IF s.end[side] = "copying" THEN [left EXCEPT !.end[side] = "idle"]
        ELSE [left EXCEPT !.broken = TRUE]

\* The waitable set delivers the event of a completed operation.
Deliver(s, side) == [s EXCEPT !.end[side] = "idle"]

-----------------------------------------------------------------------------
(* Reading and writing: one pass of the loop in state s.                   *)

Return(t, s) ==
    /\ call' = [call EXCEPT ![t] = Idle]
    /\ st' = s

\* Only one thread may block on a half: a second one gets EOPNOTSUPP.
Block(t, side, n, s) ==
    IF s.blocked[side] THEN Return(t, s)
    ELSE /\ call' = [call EXCEPT ![t] = [at |-> "block", side |-> side, n |-> n]]
         /\ st' = BlockEnter(s, side)

\* The shorter of the length asked for and what the buffer holds.
AmountRead(n) == IF n < len THEN n ELSE len

TryRead(t, n, s) ==
    /\ UNCHANGED <<alive, blocking, buffer, cap>>
    /\ \/ /\ len > 0
          /\ len' = len - AmountRead(n)
          /\ Return(t, Unblock(s, "w"))
       \/ /\ len = 0
          /\ UNCHANGED len
          /\ IF alive["w"] /\ blocking["r"] THEN Block(t, "r", n, s) ELSE Return(t, s)

\* A write of up to PIPE_BUF bytes goes in whole; a longer one takes what fits.
Fits(n) == len < PIPE_BUF /\ (n > PIPE_BUF \/ n <= PIPE_BUF - len)

TryWrite(t, n, s) ==
    /\ buffer' = TRUE
    /\ cap' = PIPE_BUF
    /\ UNCHANGED <<alive, blocking>>
    /\ \/ /\ alive["r"] /\ Fits(n)
          /\ len' = IF len + n < PIPE_BUF THEN len + n ELSE PIPE_BUF
          /\ Return(t, Unblock(s, "r"))
       \/ /\ ~(alive["r"] /\ Fits(n))
          /\ UNCHANGED len
          /\ IF alive["r"] /\ blocking["w"] THEN Block(t, "w", n, s) ELSE Return(t, s)

Try(t, side, n, s) == IF side = "r" THEN TryRead(t, n, s) ELSE TryWrite(t, n, s)

CanStart(t, side) ==
    /\ call[t] = Idle
    /\ t \in Users(side)
    /\ alive[side]
    /\ ~st.broken

\* pipe_recvfrom and pipe_sendto, up to the return or the first suspension.
Start(t, side, n) == CanStart(t, side) /\ Try(t, side, n, st)

\* The buffer cannot be allocated: ENOMEM, with buffer_cap already set.
WriteNoMemory(t) ==
    /\ CanStart(t, "w")
    /\ ~buffer
    /\ cap' = PIPE_BUF
    /\ UNCHANGED <<alive, blocking, buffer, len, st, call>>

\* pipe_block_thread returns with the event, and the loop goes on.
Resume(t) ==
    LET c == call[t] IN
    /\ ~st.broken
    /\ c.at = "block"
    /\ st.end[c.side] = "done"
    /\ Try(t, c.side, c.n, BlockExit(Deliver(st, c.side), c.side))

-----------------------------------------------------------------------------
(* Polling: pipe_poll_register and the callbacks ppoll invokes.            *)

Pollable(side) ==
    IF side = "r" THEN len > 0 \/ ~alive["w"]
    ELSE cap = 0 \/ len < cap \/ ~alive["r"]

\* The half is registered; descriptors later in the list are registered next,
\* and that may suspend.
PollRegister(t, side) ==
    /\ t \in Pollers
    /\ CanStart(t, side)
    /\ ~Pollable(side)
    /\ ~st.blocked[side]
    /\ st' = BlockEnter(st, side)
    /\ call' = [call EXCEPT ![t] = [at |-> "register", side |-> side, n |-> 0]]
    /\ UNCHANGED <<alive, blocking, buffer, cap, len>>

At(t, where) == call[t].at = where /\ ~st.broken

Goto(t, where) ==
    /\ call' = [call EXCEPT ![t].at = where]
    /\ UNCHANGED <<alive, blocking, buffer, cap, len, st>>

\* ppoll waits on the set, or gives up because a later descriptor failed.
PollWait(t)  == At(t, "register") /\ Goto(t, "poll")
PollFails(t) == At(t, "register") /\ Goto(t, "teardown")

\* The event arrives and ppoll calls pipe_read_ready or pipe_write_ready.
PollReady(t) ==
    LET side == call[t].side
        s    == Deliver(st, side)
    IN  /\ At(t, "poll")
        /\ st.end[side] = "done"
        /\ Return(t, IF st.woken[side] THEN BlockExit(s, side) ELSE [s EXCEPT !.broken = TRUE])
        /\ UNCHANGED <<alive, blocking, buffer, cap, len>>

\* Another descriptor or the timeout ends the wait.  The set holds no event of
\* this pipe; cancelling the timeout and cleaning up the descriptors earlier in
\* the list may suspend.
PollOther(t) ==
    /\ At(t, "poll")
    /\ st.end[call[t].side] # "done"
    /\ Goto(t, "teardown")

\* ppoll's cleanup calls the callback without an event.
PollTeardown(t) ==
    /\ At(t, "teardown")
    /\ Return(t, BlockExit(st, call[t].side))
    /\ UNCHANGED <<alive, blocking, buffer, cap, len>>

-----------------------------------------------------------------------------
\* Mutant of Close: the other half is not woken.
CloseSilently(side) ==
    /\ alive[side]
    /\ ~st.broken
    /\ \A t \in Thread : call[t] # Idle => call[t].side # side
    /\ alive' = [alive EXCEPT ![side] = FALSE]
    /\ UNCHANGED <<blocking, buffer, cap, len, st, call>>

\* pipe_free, once no call uses the half: wake the other half or free the state.
Close(side) ==
    /\ alive[side]
    /\ ~st.broken
    /\ \A t \in Thread : call[t] # Idle => call[t].side # side
    /\ alive' = [alive EXCEPT ![side] = FALSE]
    /\ st' = IF alive[Other(side)] THEN Unblock(st, Other(side))
             ELSE [st EXCEPT !.broken = \E s \in Side : st.end[s] # "idle"]
    /\ UNCHANGED <<blocking, buffer, cap, len, call>>

\* pipe_fcntl_setfl and pipe_set_blocking.
SetBlocking(side) ==
    /\ alive[side]
    /\ ~st.broken
    /\ blocking' = [blocking EXCEPT ![side] = ~@]
    /\ UNCHANGED <<alive, buffer, cap, len, st, call>>

\* Both halves are closed, or the program has trapped.
Over == (\A s \in Side : ~alive[s]) \/ st.broken

Terminated == Over /\ UNCHANGED vars

Step(t) ==
    \/ \E side \in Side, n \in 1 .. MaxIO : Start(t, side, n)
    \/ WriteNoMemory(t)
    \/ Resume(t)
    \/ \E side \in Side : PollRegister(t, side)
    \/ PollWait(t)
    \/ PollFails(t)
    \/ PollReady(t)
    \/ PollOther(t)
    \/ PollTeardown(t)

Next ==
    \/ \E t \in Thread : Step(t)
    \/ \E side \in Side : Close(side) \/ SetBlocking(side)
    \/ Terminated

Spec == Init /\ [][Next]_vars

\* The host resumes a thread whose event has arrived, and ppoll's own steps
\* do not wait for anyone.
Fairness ==
    \A t \in Thread : WF_vars(Resume(t) \/ PollWait(t) \/ PollReady(t) \/ PollTeardown(t))

FairSpec == Spec /\ Fairness

-----------------------------------------------------------------------------
(* Properties.                                                             *)

\* A thread sleeps only while it has a reason to: unless it has been woken, a
\* blocked reader faces an empty buffer with a live writer, and a blocked
\* writer a live reader and a buffer its write does not fit into (a poller: a
\* full one).  Every read, write and close that ends the reason wakes it.
NoLostWakeup ==
    \A t \in Thread : call[t] # Idle /\ ~st.woken[call[t].side] /\ ~st.broken =>
        IF call[t].side = "r" THEN len = 0 /\ alive["w"]
        ELSE /\ alive["r"]
             /\ IF call[t].at = "block" THEN ~Fits(call[t].n) ELSE len = PIPE_BUF

\* PIPE_*_BLOCKED is set exactly while one thread sleeps on that half, and the
\* half is woken only then, so that no wakeup is left over for a later call.
OneSleeper ==
    \A side \in Side :
        LET sleepers == {t \in Thread : call[t] # Idle /\ call[t].side = side}
        IN  /\ Cardinality(sleepers) = IF st.blocked[side] THEN 1 ELSE 0
            /\ st.woken[side] => st.blocked[side]

\* None of pipe.c's assertions on the status of a stream operation fails, and
\* no operation starts on an end of the stream that is not idle.
NoTrap == ~st.broken

\* With one thread on each half, a blocked call returns once it can: a read
\* when there is data or the writer is gone, a write when the buffer has been
\* emptied or the reader is gone.
SleepersReturn ==
    \A t \in Thread :
        /\ call[t].at = "block" /\ call[t].side = "r" /\ (len > 0 \/ ~alive["w"])
               ~> call[t] = Idle
        /\ call[t].at = "block" /\ call[t].side = "w" /\ (len = 0 \/ ~alive["r"])
               ~> call[t] = Idle

=============================================================================
