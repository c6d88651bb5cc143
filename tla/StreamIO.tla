------------------------------ MODULE StreamIO ------------------------------
(***************************************************************************)
(* One half of a wasip3 stream descriptor: the wasip3_io_state_t through   *)
(* which threads read, write, poll and shut down one end of a component    *)
(* model stream (file_utils.c, with the blocking helpers of                *)
(* wasip3_block_on.c and the users of tcp.c).  The variable dir says which *)
(* half it is.                                                             *)
(*                                                                         *)
(* The object's lock is dropped only where a thread waits for the stream   *)
(* or bounces on blocking_lock, so each stretch of code between two such   *)
(* waits is one step.  What a synchronous cancel or the eof callback waits *)
(* for is waited for with the lock held, and is part of the step.          *)
(***************************************************************************)
EXTENDS Integers, FiniteSets

CONSTANTS Thread,   \* the threads that share the descriptor
          MaxIO     \* the longest read or write

ASSUME MaxIOAssumption == MaxIO \in Nat \ {0}

VARIABLES dir,      \* "read" or "write": which half of the descriptor this is
          io,       \* the io_state, the stream end behind it and its peer
          call      \* what each thread is doing

vars == <<dir, io, call>>

\* buf when state->buf is NULL
NULL == -1

Flag == {"DONE", "INPROGRESS", "ZERO_INPROGRESS", "SHOULD_BE_READY",
         "MUST_BUFFER", "BLOCKED"}

\* A status or event code of the canonical ABI, with its count.
Res(code, k) == [code |-> code, k |-> k]
NoRes == Res("BLOCKED", 0)

\* The end of the stream: no operation, one of n bytes under way, or one
\* that ended with r and whose event was not delivered yet.
Idle == [at |-> "idle", n |-> 0, r |-> NoRes]

\* Where a thread waits for the stream, holding blocking_lock.
Sleeping == {"pending", "direct", "poll", "closing"}
Resting == [at |-> "idle", n |-> 0]

Sleepers == {t \in Thread : call[t].at \in Sleeping}
Bouncers == {t \in Thread : call[t].at = "bounce"}

-----------------------------------------------------------------------------
(* The host's side of the stream                                           *)

\* The bytes that changed hands, against the bytes the callers know of:
\* reported as written and not taken by the peer, or given by the peer and
\* not returned by a read.
Moved(s, k) == [s EXCEPT !.gap = IF dir = "write" THEN @ - k ELSE @ + k]
Returned(s, k) == [s EXCEPT !.gap = IF dir = "write" THEN @ + k ELSE @ - k]

Checked(s, holds) == [s EXCEPT !.broken = IF holds \/ @ # "no" THEN @ ELSE "trap"]

\* How an operation of n bytes may end: completed (with at least one byte,
\* unless it was asked for none) or with the peer's end dropped.
Ends(n) == {Res("COMPLETED", k) : k \in IF n = 0 THEN {0} ELSE 1 .. n}
             \cup {Res("DROPPED", k) : k \in 0 .. n}

Ended(s, r) == [Moved(s, r.k) EXCEPT !.gone = @ \/ r.code = "DROPPED"]

\* stream.read or stream.write of n bytes, which traps unless the end is idle.
Start(s, n) ==
    LET c == Checked(s, s.end = Idle)
    IN IF s.gone
       THEN {[io |-> c, r |-> Res("DROPPED", 0)]}
       ELSE {[io |-> [c EXCEPT !.end = [at |-> "copying", n |-> n, r |-> NoRes]],
              r |-> NoRes]}
            \cup {[io |-> Ended(c, r), r |-> r] : r \in Ends(n)}

\* stream.cancel-read or stream.cancel-write: the outcome of an operation that
\* ended already, or what raced with the cancellation.
Cancel(s) ==
    LET c == [Checked(s, s.end # Idle) EXCEPT !.end = Idle]
    IN IF s.end.at = "done"
       THEN {[io |-> c, r |-> s.end.r]}
       ELSE {[io |-> Ended(c, r), r |-> r] :
               r \in Ends(s.end.n) \cup {Res("CANCELLED", k) : k \in 0 .. s.end.n}}

\* The event of the operation is delivered by a waitable set.
Delivered(s) == [s EXCEPT !.end = Idle]

-----------------------------------------------------------------------------
(* The flags                                                               *)

With(s, fs) == [s EXCEPT !.flags = @ \cup fs]
Without(s, fs) == [s EXCEPT !.flags = @ \ fs]

wasip3_io_update_code(s, r) ==
    LET c == Checked(s, /\ "INPROGRESS" \in s.flags
                        /\ ~({"ZERO_INPROGRESS", "SHOULD_BE_READY"} \subseteq s.flags))
        ready == IF "ZERO_INPROGRESS" \in s.flags THEN {"SHOULD_BE_READY"} ELSE {}
        done == IF r.code = "DROPPED" THEN {"DONE"} ELSE {}
    IN With(Without(c, {"INPROGRESS", "ZERO_INPROGRESS"}), ready \cup done)

\* Entering takes blocking_lock: its holder is the thread in Sleepers.
wasip3_enter_blocking_operation(s) ==
    With(Checked(s, "BLOCKED" \notin s.flags), {"BLOCKED"})

wasip3_exit_blocking_operation(s) ==
    Without(Checked(s, "BLOCKED" \in s.flags), {"BLOCKED"})

wasip3_start_zero_length(s) ==
    LET c == Checked(s, s.flags \cap {"INPROGRESS", "ZERO_INPROGRESS",
                                      "SHOULD_BE_READY", "DONE"} = {})
    IN {LET z == With(a.io, {"INPROGRESS", "ZERO_INPROGRESS"})
        IN [io |-> IF a.r = NoRes THEN z ELSE wasip3_io_update_code(z, a.r),
            blocked |-> a.r = NoRes] : a \in Start(c, 0)}

-----------------------------------------------------------------------------
(* Buffered operations                                                     *)

\* The call is over: k bytes are reported to the caller (0 also for an error).
Return(s, k) == [io |-> Returned(s, k), at |-> "idle"]

\* The buffer has left bytes to write: the follow-up writes complete with
\* some of them before one blocks or is dropped, or with all of them.
FollowUp(s, left) ==
    IF s.gone THEN {[io |-> With(s, {"DONE"}), ready |-> TRUE]}
    ELSE {[io |-> With([Moved(s, k) EXCEPT !.buf = left - k,
                          !.end = [at |-> "copying", n |-> left - k, r |-> NoRes]],
                       {"INPROGRESS"}),
           ready |-> FALSE] : k \in 0 .. left - 1}
         \cup {[io |-> With(Ended(s, Res("DROPPED", k)), {"DONE"}), ready |-> TRUE] :
                 k \in 0 .. left}
         \cup {[io |-> Moved(s, left), ready |-> TRUE]}

wasip3_advance_pending_write(s, r) ==
    LET u == wasip3_io_update_code(s, r)
        left == IF s.buf = NULL THEN 0 ELSE s.buf - r.k
        ended == IF "DONE" \in u.flags \/ left = 0
                 THEN {[io |-> u, ready |-> TRUE]}
                 ELSE FollowUp(Checked(u, s.end = Idle), left)
    IN {[e EXCEPT !.io.buf = IF e.ready THEN NULL ELSE @] : e \in ended}

\* A read of n bytes into an internal buffer.
wasip3_read_start_nonzero(s, n) ==
    LET c == Checked(s, /\ "MUST_BUFFER" \in s.flags
                        /\ s.buf = NULL
                        /\ s.flags \cap {"INPROGRESS", "ZERO_INPROGRESS",
                                         "SHOULD_BE_READY", "DONE"} = {})
    IN {[io |-> c, status |-> "ENOMEM"]}
       \cup {LET b == With([a.io EXCEPT !.buf = a.r.k], {"INPROGRESS"})
             IN IF a.r = NoRes THEN [io |-> b, status |-> "EWOULDBLOCK"]
                ELSE [io |-> wasip3_io_update_code(b, a.r), status |-> "ready"] :
             a \in Start(c, n)}

wasip3_read_complete_internally(s, n) ==
    LET amount == IF s.buf < n THEN s.buf ELSE n
    IN Return([s EXCEPT !.buf = IF amount = @ THEN NULL ELSE @ - amount], amount)

\* A write of n bytes from a copy of the caller's buffer.  One that blocks is
\* reported as written.
BufferedWrite(s, n) ==
    LET c == Checked(s, /\ s.buf = NULL
                        /\ s.flags \cap {"INPROGRESS", "ZERO_INPROGRESS",
                                         "SHOULD_BE_READY", "DONE"} = {})
    IN {Return(c, 0)}
       \cup {LET b == With(a.io, {"INPROGRESS"})
             IN IF a.r = NoRes THEN Return([b EXCEPT !.buf = n], n)
                ELSE Return(wasip3_io_update_code(b, a.r), a.r.k) :
             a \in Start(c, n)}

BufferedRead(s, n) ==
    {IF b.status = "ready" THEN wasip3_read_complete_internally(b.io, n)
     ELSE Return(b.io, 0) : b \in wasip3_read_start_nonzero(s, n)}

Buffered(s, n) == IF dir = "write" THEN BufferedWrite(s, n) ELSE BufferedRead(s, n)

-----------------------------------------------------------------------------
(* Reads and writes                                                        *)

\* The opportunistic operation on the caller's own memory, which is cancelled
\* when it blocks.  One that blocks although it should have been ready turns
\* buffering on.
Attempt(s, n) ==
    LET c == Without(s, {"SHOULD_BE_READY"})
        must == IF "SHOULD_BE_READY" \in s.flags THEN {"MUST_BUFFER"} ELSE {}
        Cancelled(b) == Cancel(With(b, must))
    IN IF "MUST_BUFFER" \in s.flags THEN {[io |-> c, k |-> 0]}
       ELSE UNION {{[io |-> wasip3_io_update_code(With(e.io, {"INPROGRESS"}), e.r),
                     k |-> e.r.k] :
                      e \in IF a.r = NoRes THEN Cancelled(a.io) ELSE {a}} :
                   a \in Start(c, n)}

\* One turn of the loop of a nonblocking operation.
Turn(s, n) ==
    UNION {IF a.k > 0 \/ "DONE" \in a.io.flags THEN {Return(a.io, a.k)}
           ELSE IF "MUST_BUFFER" \in a.io.flags THEN Buffered(a.io, n)
           ELSE {IF z.blocked \/ "DONE" \in z.io.flags THEN Return(z.io, 0)
                 ELSE [io |-> z.io, at |-> "again"] :
                   z \in wasip3_start_zero_length(a.io)} :
           a \in Attempt(s, n)}

\* The loop turns at most twice: the second turn should be ready, so it either
\* moves bytes or turns buffering on.
Nonblocking(s, n) ==
    LET first == Turn(s, n)
        second == UNION {Turn(o.io, n) : o \in {f \in first : f.at = "again"}}
    IN {f \in first : f.at # "again"}
       \cup {[io |-> Checked(o.io, o.at # "again"), at |-> "idle"] : o \in second}

EndDirect(s, r) ==
    LET x == wasip3_exit_blocking_operation(s)
    IN Return(IF r.code = "DROPPED" THEN With(x, {"DONE"}) ELSE x, r.k)

\* A blocking operation on the caller's own memory.
Direct(s, n) ==
    LET c == wasip3_enter_blocking_operation(Without(s, {"SHOULD_BE_READY"}))
    IN {IF a.r = NoRes THEN [io |-> a.io, at |-> "direct"] ELSE EndDirect(a.io, a.r) :
          a \in Start(c, n)}

\* The operation itself, once nothing is in progress.
Operate(s, n, blocking) ==
    IF dir = "read" /\ s.buf # NULL THEN {wasip3_read_complete_internally(s, n)}
    ELSE IF n = 0 \/ "DONE" \in s.flags THEN {Return(s, 0)}
    ELSE IF blocking THEN Direct(s, n)
    ELSE Nonblocking(s, n)

AwaitPending(s) == [io |-> wasip3_enter_blocking_operation(s), at |-> "pending"]

\* The operation in progress ended with r: its result goes to the buffer, and
\* what is left of a buffered write is started again.
ReadEvent(s, r) ==
    [wasip3_io_update_code(s, r) EXCEPT !.buf = IF @ = NULL THEN NULL ELSE r.k]

Resolved(s, r, n, blocking) ==
    IF dir = "read" THEN Operate(ReadEvent(s, r), n, blocking)
    ELSE UNION {IF e.ready THEN Operate(e.io, n, blocking)
                ELSE {IF blocking THEN AwaitPending(e.io) ELSE Return(e.io, 0)} :
                e \in wasip3_advance_pending_write(s, r)}

\* __wasilibc_read and __wasilibc_write, from wasip3_io_sync on.
Entered(s, n, blocking) ==
    IF "BLOCKED" \in s.flags
    THEN {[io |-> s, at |-> IF blocking THEN "bounce" ELSE "idle"]}
    ELSE IF ~s.stream THEN {Return(s, 0)}
    ELSE IF "INPROGRESS" \notin s.flags THEN Operate(s, n, blocking)
    ELSE IF blocking THEN {AwaitPending(s)}
    ELSE IF s.end.at = "done" THEN Resolved(Delivered(s), s.end.r, n, FALSE)
    ELSE {Return(s, 0)}

-----------------------------------------------------------------------------
(* The steps of a thread                                                   *)

\* Thread t continues with outcome o of a call for n bytes.
Goes(t, o, n) ==
    /\ io' = o.io
    /\ call' = [call EXCEPT ![t] = IF o.at = "idle" THEN Resting ELSE [at |-> o.at, n |-> n]]
    /\ UNCHANGED dir

\* A read or write, blocking or not (O_NONBLOCK, MSG_DONTWAIT).
ReadOrWrite(t) ==
    /\ call[t].at = "idle"
    /\ \E n \in 0 .. MaxIO, blocking \in BOOLEAN :
         \E o \in Entered(io, n, blocking) : Goes(t, o, n)

\* blocking_lock was taken and released: the operation is tried again.
Bounced(t) ==
    /\ call[t].at = "bounce"
    /\ Sleepers = {}
    /\ \E o \in Entered(io, call[t].n, TRUE) : Goes(t, o, call[t].n)

\* The event a thread sleeps for arrives.
PendingEnds(t) ==
    /\ call[t].at = "pending"
    /\ io.end.at = "done"
    /\ \E o \in Resolved(wasip3_exit_blocking_operation(Delivered(io)), io.end.r,
                         call[t].n, TRUE) : Goes(t, o, call[t].n)

DirectEnds(t) ==
    /\ call[t].at = "direct"
    /\ io.end.at = "done"
    /\ Goes(t, EndDirect(Delivered(io), io.end.r), call[t].n)

\* The timer of SO_RCVTIMEO or SO_SNDTIMEO arrives first: a buffered operation
\* stays in progress, one on the caller's memory is cancelled.
PendingTimesOut(t) ==
    /\ call[t].at = "pending"
    /\ Goes(t, Return(wasip3_exit_blocking_operation(io), 0), 0)

DirectTimesOut(t) ==
    /\ call[t].at = "direct"
    /\ \E c \in Cancel(io) : Goes(t, EndDirect(c.io, c.r), 0)

-----------------------------------------------------------------------------
(* poll                                                                    *)

\* wasip3_stream_poll_init: the states it may leave, and its status.
wasip3_stream_poll_init(s) ==
    IF ~s.stream \/ "DONE" \in s.flags THEN {[io |-> s, blocked |-> FALSE]}
    ELSE IF "INPROGRESS" \in s.flags THEN {[io |-> s, blocked |-> TRUE]}
    ELSE IF dir = "read" /\ s.buf # NULL THEN {[io |-> s, blocked |-> FALSE]}
    ELSE IF "MUST_BUFFER" \in s.flags
    THEN IF dir = "write" THEN {[io |-> s, blocked |-> FALSE]}
         ELSE {[io |-> b.io, blocked |-> b.status = "EWOULDBLOCK"] :
                 b \in wasip3_read_start_nonzero(s, MaxIO)}
    ELSE IF "SHOULD_BE_READY" \in s.flags THEN {[io |-> s, blocked |-> FALSE]}
    ELSE wasip3_start_zero_length(s)

\* wasip3_io_sync fails with EOPNOTSUPP while another thread is blocked.
StreamPoll(t) ==
    /\ call[t].at = "idle"
    /\ "BLOCKED" \notin io.flags
    /\ \E p \in wasip3_stream_poll_init(io) :
         Goes(t, IF p.blocked
                 THEN [io |-> wasip3_enter_blocking_operation(p.io), at |-> "poll"]
                 ELSE [io |-> p.io, at |-> "idle"], 0)

\* The ready callback with the stream's event ...
PollReady(t) ==
    /\ call[t].at = "poll"
    /\ io.end.at = "done"
    /\ LET x == wasip3_exit_blocking_operation(Delivered(io))
       IN \E s \in IF dir = "read" THEN {ReadEvent(x, io.end.r)}
                   ELSE {e.io : e \in wasip3_advance_pending_write(x, io.end.r)} :
            Goes(t, [io |-> s, at |-> "idle"], 0)

\* Mutant of PollTeardown: the blocking operation is not exited.
TeardownStaysBlocked(t) ==
    /\ call[t].at = "poll"
    /\ Goes(t, [io |-> io, at |-> "idle"], 0)

\* ... and without one, when poll returns for another reason.
PollTeardown(t) ==
    /\ call[t].at = "poll"
    /\ Goes(t, [io |-> wasip3_exit_blocking_operation(io), at |-> "idle"], 0)

-----------------------------------------------------------------------------
(* shutdown and close                                                      *)

\* STRONG_ASSERT_EMPTY(state->blocking_lock), then the end is dropped and the
\* io_state zeroed.
StateClose(s) ==
    LET w == [s EXCEPT !.broken = IF @ = "no" /\ Bouncers # {} THEN "waiters" ELSE @]
        c == IF "INPROGRESS" \in s.flags THEN {e.io : e \in Cancel(w)} ELSE {w}
    IN {[io |-> [Checked(e, s.stream => e.end = Idle) EXCEPT
                   !.stream = FALSE, !.flags = {}, !.buf = NULL, !.end = Idle],
         at |-> "idle"] : e \in c}

\* Mutant of Unflushed: closing cancels a buffered write.
NeverUnflushed(s) == FALSE

Unflushed(s) ==
    dir = "write" /\ "INPROGRESS" \in s.flags /\ "ZERO_INPROGRESS" \notin s.flags

wasip3_io_state_blocked == "BLOCKED" \in io.flags \/ Bouncers # {}

AwaitFlush(s) == [io |-> wasip3_enter_blocking_operation(s), at |-> "closing"]

\* The half is closed unless a thread is blocked on it (EOPNOTSUPP); closing
\* the write half first waits for a buffered write.
Shutdown(t) ==
    /\ call[t].at = "idle"
    /\ ~wasip3_io_state_blocked
    /\ \E o \in IF Unflushed(io) THEN {AwaitFlush(io)} ELSE StateClose(io) :
         Goes(t, o, 0)

FlushEnds(t) ==
    /\ call[t].at = "closing"
    /\ io.end.at = "done"
    /\ \E e \in wasip3_advance_pending_write(
                  wasip3_exit_blocking_operation(Delivered(io)), io.end.r) :
         \E o \in IF e.ready THEN StateClose(e.io) ELSE {AwaitFlush(e.io)} :
           Goes(t, o, 0)

-----------------------------------------------------------------------------
(* The peer                                                                *)

PeerEnds ==
    /\ io.end.at = "copying"
    /\ \E r \in Ends(io.end.n) :
         io' = [Ended(io, r) EXCEPT !.end.at = "done", !.end.r = r]
    /\ UNCHANGED <<dir, call>>

\* The peer drops its end while no operation is under way.
PeerDrops ==
    /\ io.stream /\ ~io.gone /\ io.end.at # "copying"
    /\ io' = [io EXCEPT !.gone = TRUE]
    /\ UNCHANGED <<dir, call>>

-----------------------------------------------------------------------------

Init ==
    /\ dir \in {"read", "write"}
    /\ io = [stream |-> TRUE, flags |-> {}, buf |-> NULL, end |-> Idle,
             gap |-> 0, gone |-> FALSE, broken |-> "no"]
    /\ call = [t \in Thread |-> Resting]

Wakes(t) == Bounced(t) \/ PendingEnds(t) \/ DirectEnds(t) \/ PollReady(t) \/ FlushEnds(t)

Step(t) == ReadOrWrite(t) \/ Wakes(t) \/ PendingTimesOut(t) \/ DirectTimesOut(t)
             \/ StreamPoll(t) \/ PollTeardown(t) \/ Shutdown(t)

Running == io.broken = "no"

\* A failed assertion or a trap ends the program.
Halted == ~Running /\ UNCHANGED vars

Next == (Running /\ ((\E t \in Thread : Step(t)) \/ PeerEnds \/ PeerDrops)) \/ Halted

Spec == Init /\ [][Next]_vars

FairSpec == Spec /\ \A t \in Thread : WF_vars(Running /\ Wakes(t))

-----------------------------------------------------------------------------

TypeOK ==
    /\ dir \in {"read", "write"}
    /\ io.stream \in BOOLEAN /\ io.gone \in BOOLEAN
    /\ io.flags \subseteq Flag
    /\ io.buf \in NULL .. MaxIO
    /\ io.end.at \in {"idle", "copying", "done"} /\ io.end.n \in 0 .. MaxIO
    /\ io.gap \in -MaxIO .. MaxIO
    /\ io.broken \in {"no", "trap", "waiters"}
    /\ call \in [Thread -> [at : Sleeping \cup {"idle", "bounce"}, n : 0 .. MaxIO]]

\* No assertion of the I/O paths fails and no operation is started, cancelled
\* or dropped on a stream end in the wrong state, whatever the order of
\* calls, polls, timeouts, shutdowns and events.
NoTrap == io.broken # "trap"

\* The flags tell the truth about the stream end: BLOCKED is set exactly while
\* one thread sleeps, and an operation is under way (or its event undelivered)
\* exactly when INPROGRESS is set or a thread sleeps in an operation on its own
\* memory.
FlagsAgree ==
    Running =>
      /\ Cardinality(Sleepers) = IF "BLOCKED" \in io.flags THEN 1 ELSE 0
      /\ (io.end # Idle) <=> \/ "INPROGRESS" \in io.flags
                             \/ \E t \in Thread : call[t].at = "direct"

\* Bytes neither get lost nor are sent or returned twice: what was reported as
\* written and not taken by the peer is in the buffer, and what the peer gave
\* and no read returned is in the buffer, up to an event not yet delivered.
\* Only a write half whose peer is gone may have lost what it had buffered.
BytesConserved ==
    LET buffered == IF io.buf = NULL THEN 0 ELSE io.buf
        undelivered == IF io.end.at = "done" THEN io.end.r.k ELSE 0
    IN Running /\ io.stream =>
         IF dir = "read" THEN io.gap = buffered + undelivered
         ELSE "DONE" \in io.flags \/ io.gap = buffered - undelivered

\* The write half is dropped only after the peer took every byte that was
\* reported as written, unless the peer is gone.
ShutdownFlushes ==
    [][io.stream /\ ~io'.stream /\ dir = "write" => io'.gone \/ io'.gap = 0]_vars

\* Once the peer dropped its end no thread keeps sleeping for the stream: a
\* read, write, poll or shutdown that waits for it goes on to return.  (A
\* bouncing thread has no such guarantee: another thread may take its turn
\* again and again.)
SleepersReturn ==
    \A t \in Thread :
        (io.gone /\ call[t].at \in Sleeping) ~> (call[t].at = "idle" \/ ~Running)

\* The io_state is reset only while no thread waits on its blocking_lock: the
\* breadcrumb a bouncing thread leaves rejects a shutdown.
NotResetWhileUsed == io.broken # "waiters"
=============================================================================
