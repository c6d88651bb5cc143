-------------------------------- MODULE Tcp --------------------------------
(***************************************************************************)
(* A wasip3 TCP socket (tcp.c) shared by cooperative threads: bind,        *)
(* connect, listen, accept, poll and close.  The bytes of a connected      *)
(* socket are the subject of StreamIO.                                     *)
(*                                                                         *)
(* connect is a subtask of the host.  A blocking connect drops the         *)
(* socket's lock and keeps the subtask to itself; a nonblocking one leaves *)
(* it in the socket, for poll.  A listening socket reads connections from  *)
(* a stream of the host, one at a time, into accept_result; the read       *)
(* outlives the call that started it.  No wait holds the socket's lock, so *)
(* a stretch of code between two waits is a step.                          *)
(***************************************************************************)
EXTENDS Integers, FiniteSets

CONSTANT Thread

VARIABLES
    k,        \* the socket, the host's subtask and its stream of connections
    call      \* what each thread is doing

vars == <<k, call>>

\* TCP_LISTENING_DONE, ACCEPTING, ACCEPT_READY and BLOCKING.
Zeroed == [done |-> FALSE, accepting |-> FALSE, ready |-> FALSE, blocking |-> FALSE]

\* What has come of a read of the stream of connections: a connection, the end of
\* the stream, or both.
Events == {"one", "end", "last"}

TypeOK ==
    /\ k.tag \in {"UNBOUND", "BOUND", "CONNECTING", "CONNECTED", "CONNECT_FAILED",
                  "LISTENING", "CLOSED"}
    /\ k.blocking \in BOOLEAN
    /\ k.subtask \in BOOLEAN /\ k.polling \in BOOLEAN
    /\ k.host \in {"none", "started", "returned"}
    /\ k.flags \in [{"done", "accepting", "ready", "blocking"} -> BOOLEAN]
    /\ k.read \in {"none", "started"} \cup Events
    /\ k.clients \in 0 .. 1
    /\ k.trapped \in BOOLEAN
    /\ call \in [Thread -> {"idle", "connect", "accept", "bounce", "poll_connect", "poll_accept"}]

Init ==
    /\ k = [tag |-> "UNBOUND", blocking |-> TRUE,
            subtask |-> FALSE, polling |-> FALSE, host |-> "none",
            flags |-> Zeroed, read |-> "none", clients |-> 0, trapped |-> FALSE]
    /\ call = [t \in Thread |-> "idle"]

Checked(s, holds) == [s EXCEPT !.trapped = @ \/ ~holds]

\* Outcomes of a stretch of code: the state it leaves and where the thread is then.
To(s, at) == [k |-> s, at |-> at]
Return(s) == To(s, "idle")

-----------------------------------------------------------------------------
(* bind, connect and listen.                                               *)

\* tcp_do_bind: EINVAL, an error of the host, or success.
Bind(s) == IF s.tag = "UNBOUND" THEN {s, [s EXCEPT !.tag = "BOUND"]} ELSE {s}

\* tcp_connect_finish, with either result.
ConnectFinish(s) ==
    {[Checked(s, s.tag = "CONNECTING" /\ ~s.subtask) EXCEPT !.tag = tag] :
       tag \in {"CONNECTED", "CONNECT_FAILED"}}

\* EALREADY, EISCONN, EOPNOTSUPP; the host returns at once or leaves a subtask.
Connect(s) ==
    LET c == [s EXCEPT !.tag = "CONNECTING", !.subtask = FALSE, !.polling = FALSE]
        started == [Checked(c, c.host = "none") EXCEPT !.host = "started"]
    IN  IF s.tag \notin {"UNBOUND", "BOUND"} THEN {Return(s)}
        ELSE {Return(f) : f \in ConnectFinish(c)}
             \cup {IF s.blocking THEN To(started, "connect")
                   ELSE Return([started EXCEPT !.subtask = TRUE])}

\* The host may refuse to bind, to set the backlog, or to listen.
Listen(s) ==
    LET bound == IF s.tag \in {"UNBOUND", "BOUND"} THEN Bind(s) ELSE {s}
    IN  bound \cup {[b EXCEPT !.tag = "LISTENING", !.flags = Zeroed] :
                      b \in {c \in bound : c.tag = "BOUND"}}

-----------------------------------------------------------------------------
(* accept.                                                                 *)

\* wasip3_accept_enter_blocking and wasip3_accept_exit_blocking.
Enter(s) == [Checked(s, s.tag = "LISTENING" /\ ~s.flags.blocking) EXCEPT !.flags.blocking = TRUE]
Exit(s)  == [Checked(s, s.tag = "LISTENING" /\ s.flags.blocking) EXCEPT !.flags.blocking = FALSE]

\* wasip3_tcp_accept_finish.
AcceptFinish(s) ==
    [Checked(s, s.flags.accepting /\ ~s.flags.done /\ ~s.flags.ready) EXCEPT
       !.flags.accepting = FALSE,
       !.flags.done = @ \/ s.read \in {"end", "last"},
       !.flags.ready = @ \/ s.read \in {"one", "last"},
       !.read = "none"]

\* The host completes a read; the handle of a connection is written over whatever
\* accept_result holds.
Delivered(s, event) ==
    [s EXCEPT !.read = event, !.clients = IF event = "end" THEN @ ELSE @ + 1]

\* Mutant of AcceptStart: a connection that is there already is read over.
AcceptStartAgain(s) ==
    IF s.flags.done \/ s.flags.accepting THEN {s}
    ELSE LET reading == [s EXCEPT !.flags.accepting = TRUE]
         IN  {[reading EXCEPT !.read = "started"]}
             \cup {AcceptFinish(Delivered(reading, e)) : e \in Events}

\* wasip3_tcp_accept_start.
AcceptStart(s) ==
    IF s.flags.done \/ s.flags.accepting \/ s.flags.ready THEN {s}
    ELSE LET reading == [Checked(s, s.read = "none") EXCEPT !.flags.accepting = TRUE]
         IN  {[reading EXCEPT !.read = "started"]}
             \cup {AcceptFinish(Delivered(reading, e)) : e \in Events}

\* The connection goes to a new descriptor, or is dropped where there is none.
Take(s) ==
    Return([Checked(s, ~s.flags.accepting) EXCEPT !.flags.ready = FALSE, !.clients = @ - 1])

\* What accept does with a read that has ended: ENOTSUP at the end of the stream.
Taken(s) == IF s.flags.ready THEN Take(s) ELSE Return(s)

\* The loop of tcp_accept4.  A read that was there before is waited for or looked
\* at; one that was just started is not looked at.
Accept(s) ==
    {IF ~a.flags.accepting THEN Taken(a)
     ELSE IF s.blocking THEN To(Enter(a), "accept")
     ELSE IF s.flags.accepting /\ a.read \in Events THEN Taken(AcceptFinish(a))
     ELSE Return(a) : a \in AcceptStart(s)}

\* wasip3_accept_sync and what follows it.
AcceptSync(s, block) ==
    IF s.flags.blocking THEN {IF block THEN To(s, "bounce") ELSE Return(s)} ELSE Accept(s)

-----------------------------------------------------------------------------
(* poll and close.                                                         *)

\* tcp_poll_register: a connect that a thread is blocked in or that is polled
\* already is not supported, nor is a socket that is neither connected nor about to
\* be.  There may be no room to register.
Poll(s) ==
    CASE s.tag = "CONNECTING" /\ s.subtask /\ ~s.polling ->
           {Return(s), To([s EXCEPT !.polling = TRUE], "poll_connect")}
      [] s.tag = "LISTENING" /\ ~s.flags.blocking ->
           UNION {IF a.flags.accepting THEN {Return(a), To(Enter(a), "poll_accept")} ELSE {Return(a)} :
                    a \in AcceptStart(s)}
      [] OTHER -> {Return(s)}

\* tcp_free: a connect is cancelled and dropped, and so is a read, which may have
\* ended with a connection just before.
Free(s) ==
    LET cancelled == IF ~s.flags.accepting THEN {s}
                     ELSE IF s.read \in Events THEN {AcceptFinish(s)}
                     ELSE {AcceptFinish(s)} \cup {AcceptFinish(Delivered(s, e)) : e \in Events}
    IN  {[c EXCEPT !.tag = "CLOSED", !.flags = Zeroed,
                   !.subtask = FALSE, !.host = IF c.subtask THEN "none" ELSE @,
                   !.clients = IF c.flags.ready THEN @ - 1 ELSE @] : c \in cancelled}

-----------------------------------------------------------------------------
(* The steps of a thread.                                                  *)

Running == ~k.trapped

At(t, where) == Running /\ call[t] = where

Goes(t, o) == k' = o.k /\ call' = [call EXCEPT ![t] = o.at]

Idle(t) == At(t, "idle") /\ k.tag # "CLOSED"

SetBlocking(t) == Idle(t) /\ Goes(t, Return([k EXCEPT !.blocking = ~@]))

BindCall(t) == Idle(t) /\ \E b \in Bind(k) : Goes(t, Return(b))

ConnectCall(t) == Idle(t) /\ \E o \in Connect(k) : Goes(t, o)

ListenCall(t) == Idle(t) /\ \E l \in Listen(k) : Goes(t, Return(l))

\* EINVAL unless the socket listens.
AcceptCall(t) ==
    Idle(t) /\ k.tag = "LISTENING" /\ \E o \in AcceptSync(k, k.blocking) : Goes(t, o)

PollCall(t) == Idle(t) /\ \E o \in Poll(k) : Goes(t, o)

\* The last reference to the descriptor is gone: no call uses the socket.
CloseCall(t) ==
    /\ Idle(t) /\ \A x \in Thread : call[x] = "idle"
    /\ \E f \in Free(k) : Goes(t, Return(f))

\* The blocking connect goes on, and takes the state it left for granted.
ConnectEnds(t) ==
    /\ At(t, "connect") /\ k.host = "returned"
    /\ \E f \in ConnectFinish([k EXCEPT !.host = "none"]) : Goes(t, Return(f))

\* The blocking accept goes on, and its loop turns once more.
AcceptEnds(t) ==
    /\ At(t, "accept") /\ k.read \in Events
    /\ Goes(t, Taken(AcceptFinish(Exit(k))))

\* Mutant of AcceptBounced: it gives way again to whoever comes.
BouncesForever(t) ==
    /\ At(t, "bounce") /\ ~k.flags.blocking /\ ~k.flags.accepting
    /\ \E o \in AcceptSync(k, TRUE) : Goes(t, o)

\* The blocking lock was taken and released.
AcceptBounced(t) ==
    /\ At(t, "bounce") /\ ~k.flags.blocking
    /\ \E o \in AcceptSync(k, TRUE) : Goes(t, o)

\* tcp_connect_ready with its event.
ConnectReady(t) ==
    /\ At(t, "poll_connect") /\ k.host = "returned"
    /\ \E f \in ConnectFinish([Checked(k, k.polling) EXCEPT !.polling = FALSE, !.subtask = FALSE,
                                                           !.host = "none"]) :
         Goes(t, Return(f))

\* tcp_accept_ready with its event.
AcceptReady(t) ==
    /\ At(t, "poll_accept") /\ k.read \in Events
    /\ Goes(t, Return(AcceptFinish(Exit(k))))

\* Both, when poll returns without the event: it timed out, another descriptor was
\* ready, or the registration of another one failed.
PollTeardown(t) ==
    \/ /\ At(t, "poll_connect")
       /\ Goes(t, Return([Checked(k, k.tag = "CONNECTING" /\ k.polling) EXCEPT !.polling = FALSE]))
    \/ At(t, "poll_accept") /\ Goes(t, Return(Exit(k)))

HostConnects ==
    /\ Running /\ k.host = "started"
    /\ k' = [k EXCEPT !.host = "returned"] /\ UNCHANGED call

HostDelivers ==
    /\ Running /\ k.read = "started"
    /\ \E e \in Events : k' = Delivered(k, e)
    /\ UNCHANGED call

Wakes(t) == ConnectEnds(t) \/ AcceptEnds(t) \/ AcceptBounced(t) \/ ConnectReady(t) \/ AcceptReady(t)

Step(t) ==
    \/ SetBlocking(t) \/ BindCall(t) \/ ConnectCall(t) \/ ListenCall(t) \/ AcceptCall(t)
    \/ PollCall(t) \/ CloseCall(t) \/ Wakes(t) \/ PollTeardown(t)

\* The socket is closed, or an assertion has failed.
Over == (k.tag = "CLOSED" \/ ~Running) /\ UNCHANGED vars

Next == (\E t \in Thread : Step(t)) \/ HostConnects \/ HostDelivers \/ Over

Fairness == \A t \in Thread : WF_vars(Wakes(t))

Spec == Init /\ [][Next]_vars /\ Fairness

-----------------------------------------------------------------------------
(* Properties.                                                             *)

In(where) == {t \in Thread : call[t] \in where}

\* No assertion of tcp.c fails.  A blocking connect asserts after its wait that the
\* socket still connects, although it has dropped the lock.
NoTrap == Running

\* TCP_LISTENING_BLOCKING is set exactly while one thread waits for the read, in
\* accept or in poll, and `polling' exactly while one poll has the subtask in its
\* waitable set, which a subtask can be in one of at a time.
WaitsAreMarked ==
    /\ Cardinality(In({"accept", "poll_accept"})) = IF k.flags.blocking THEN 1 ELSE 0
    /\ Cardinality(In({"poll_connect"})) = IF k.polling THEN 1 ELSE 0
    /\ In({"connect"}) # {} => k.tag = "CONNECTING" /\ In({"poll_connect"}) = {}

\* No connection and no subtask is lost: each connection the host has delivered is in
\* accept_result, flagged or about to be, and no read overwrites it; the subtask of a
\* connect is in the socket or with the one thread blocked in connect; and nothing is
\* left behind by close.
ConnectionsAreKept ==
    /\ k.clients = IF k.flags.ready \/ k.read \in {"one", "last"} THEN 1 ELSE 0
    /\ k.read # "none" <=> k.flags.accepting
    /\ k.host # "none" <=> (k.subtask \/ In({"connect"}) # {})
    /\ k.tag = "CLOSED" => k.clients = 0 /\ k.host = "none" /\ k.read = "none"

\* What the host has done reaches a thread that waits for it; and one that has stood
\* aside for a blocked accept goes on if the socket is not blocked again and again.
WaitsEnd ==
    /\ \A t \in Thread :
         /\ (call[t] = "connect" /\ k.host = "returned") ~> call[t] = "idle"
         /\ (call[t] = "accept" /\ k.read \in Events) ~> call[t] = "idle"
    /\ \A t \in Thread : (<>[](~k.flags.blocking)) => []<>(call[t] # "bounce")

=============================================================================
