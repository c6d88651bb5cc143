-------------------------------- MODULE Udp --------------------------------
(***************************************************************************)
(* A wasip3 UDP socket (udp.c) shared by cooperative threads: bind,        *)
(* connect, recvfrom, sendto, poll and close.                              *)
(*                                                                         *)
(* Each direction has at most one subtask of the host, which is started by *)
(* a call or by poll and outlives it; its result waits in the socket.  A   *)
(* thread that waits for the subtask drops the socket's lock and holds the *)
(* direction's blocking lock instead, on which other threads bounce.  A    *)
(* stretch of code between two waits is a step.  connect and close wait    *)
(* for an unfinished send with the socket's lock held.                     *)
(***************************************************************************)
EXTENDS Integers, FiniteSets

CONSTANTS Thread, NoThread

VARIABLES
    u,        \* the socket and the host's subtasks
    call      \* what each thread is doing

vars == <<u, call>>

Dir == {"recv", "send"}

\* One direction: the subtask field, UDP_STREAMS_*_READY and *_BLOCKING, and what
\* the host makes of the subtask.
Quiet == [subtask |-> FALSE, ready |-> FALSE, blocking |-> FALSE, host |-> "none"]

Resting == [at |-> "idle", addr |-> FALSE, reg |-> {}]

TypeOK ==
    /\ u.tag \in {"UNBOUND", "BOUND_NOSTREAMS", "BOUND_STREAMING", "CONNECTED", "CLOSED"}
    /\ u.blocking \in BOOLEAN
    /\ \A d \in Dir : u.dir[d] \in [subtask : BOOLEAN, ready : BOOLEAN, blocking : BOOLEAN,
                                    host : {"none", "started", "returned"}]
    /\ u.ptr \in BOOLEAN /\ u.heap \in 0 .. 1
    /\ u.held \in Thread \cup {NoThread}
    /\ u.astray \in BOOLEAN
    /\ u.broken \in {"no", "trap", "waiters"}
    /\ call \in [Thread -> [at : {"idle", "recv", "recv_bounce", "send_last", "send_own",
                                  "send_bounce", "poll", "polled", "connect", "close"},
                            addr : BOOLEAN,
                            reg : SUBSET Dir]]

Init ==
    /\ u = [tag |-> "UNBOUND", blocking |-> TRUE, dir |-> [d \in Dir |-> Quiet],
            ptr |-> FALSE, heap |-> 0,
            held |-> NoThread, astray |-> FALSE, broken |-> "no"]
    /\ call = [t \in Thread |-> Resting]

Bouncers == {t \in Thread : call[t].at \in {"recv_bounce", "send_bounce"}}

Checked(s, holds) == [s EXCEPT !.broken = IF holds \/ @ # "no" THEN @ ELSE "trap"]

Streaming(s) == s.tag \in {"BOUND_STREAMING", "CONNECTED"}

\* Outcomes of a stretch of code: the state it leaves and where the thread is then.
To(s, at) == [u |-> s, at |-> at]
Return(s) == To(s, "idle")

-----------------------------------------------------------------------------
(* Streams, and what the host does.                                        *)


\* STRONG_ASSERT_EMPTY of both blocking locks.
AssertEmpty(s) == [s EXCEPT !.broken = IF @ = "no" /\ Bouncers # {} THEN "waiters" ELSE @]

\* udp_create_streams: everything is zeroed.  Only connecting may fail.
Create(s, connected) ==
    LET zeroed == [AssertEmpty(Checked(s, s.tag = "BOUND_NOSTREAMS")) EXCEPT
                     !.dir = [d \in Dir |-> [Quiet EXCEPT !.host = s.dir[d].host]],
                     !.ptr = FALSE]
    IN  IF connected THEN {[zeroed EXCEPT !.tag = "CONNECTED"], zeroed}
        ELSE {[zeroed EXCEPT !.tag = "BOUND_STREAMING"]}

\* The blocking lock and the flag of a direction.
Enter(s, d) == [Checked(s, Streaming(s) /\ ~s.dir[d].blocking) EXCEPT !.dir[d].blocking = TRUE]
Exit(s, d)  == [Checked(s, Streaming(s) /\ s.dir[d].blocking) EXCEPT !.dir[d].blocking = FALSE]

\* The event of a subtask has been received: drop it, its result is ready.
Ended(s, d) ==
    [Checked(s, s.dir[d].subtask /\ ~s.dir[d].ready /\ s.dir[d].host = "returned") EXCEPT
       !.dir[d].subtask = FALSE, !.dir[d].ready = TRUE, !.dir[d].host = "none"]

\* A call of the host that returns at once or leaves a subtask behind.
Started(s, d) ==
    {[s EXCEPT !.dir[d].ready = TRUE],
     [Checked(s, s.dir[d].host = "none") EXCEPT !.dir[d].subtask = TRUE, !.dir[d].host = "started"]}

\* Free the buffer of a send, if there is one.
FreeBuffer(s) == [s EXCEPT !.heap = IF s.ptr THEN @ - 1 ELSE @, !.ptr = FALSE]

-----------------------------------------------------------------------------
(* recvfrom.                                                               *)

\* The result is handed to the caller.
Take(s) ==
    Return([Checked(s, s.dir["recv"].ready /\ ~s.dir["recv"].subtask) EXCEPT
              !.dir["recv"].ready = FALSE])

\* wasip3_recv_start.
RecvStart(s) ==
    LET c == Checked(s, ~s.dir["recv"].blocking)
    IN  IF s.dir["recv"].subtask \/ s.dir["recv"].ready THEN {c} ELSE Started(c, "recv")

\* The subtask is waited for, or looked at if it was there before.
Receive(s, block) ==
    {IF ~a.dir["recv"].subtask THEN Take(a)
     ELSE IF block THEN To(Enter(a, "recv"), "recv")
     ELSE IF s.dir["recv"].subtask /\ a.dir["recv"].host = "returned" THEN Take(Ended(a, "recv"))
     ELSE Return(a) : a \in RecvStart(s)}

\* wasip3_udp_recv_sync and what follows it.
Recv(s, block) ==
    IF ~Streaming(s) THEN {Return(s)}
    ELSE IF s.dir["recv"].blocking THEN {IF block THEN To(s, "recv_bounce") ELSE Return(s)}
    ELSE Receive(s, block)

\* An unbound socket gives EINVAL.
Recvfrom(s, block) ==
    UNION {Recv(c, block) : c \in IF s.tag = "BOUND_NOSTREAMS" THEN Create(s, FALSE) ELSE {s}}

-----------------------------------------------------------------------------
(* sendto.                                                                 *)

\* The result of the last send has been looked at.
Settled(s) == IF s.dir["send"].ready THEN [FreeBuffer(s) EXCEPT !.dir["send"].ready = FALSE] ELSE s

\* A send from the caller's buffer, which is cancelled if it does not return, and
\* then repeated from a copy, for which there may be no memory.
Issue(s, addr) ==
    LET c == [Checked(s, ~s.dir["send"].subtask /\ ~s.dir["send"].ready /\ ~s.ptr) EXCEPT
                !.astray = @ \/ (addr <=> s.tag = "CONNECTED")]
    IN  {[c EXCEPT !.dir["send"].ready = TRUE], c}
        \cup Started([c EXCEPT !.ptr = TRUE, !.heap = @ + 1], "send")

\* Issue and wasip3_send_resolve; a nonblocking send may stay in the background.
SendNew(s, addr, block) ==
    {IF a.dir["send"].subtask /\ block THEN To(Enter(a, "send"), "send_own")
     ELSE Return(Settled(a)) : a \in Issue(s, addr)}

\* The last send has ended, or there was none: its error is reported, or the new
\* one is issued.
SendNext(s, addr, block) ==
    SendNew(Settled(s), addr, block) \cup (IF s.dir["send"].ready THEN {Return(Settled(s))} ELSE {})

Send(s, addr, block) ==
    IF ~Streaming(s) THEN {Return(s)}
    ELSE IF s.dir["send"].blocking THEN {IF block THEN To(s, "send_bounce") ELSE Return(s)}
    ELSE IF ~s.dir["send"].subtask THEN SendNext(s, addr, block)
    ELSE IF block THEN {To(Enter(s, "send"), "send_last")}
    ELSE IF s.dir["send"].host = "returned" THEN SendNext(Ended(s, "send"), addr, FALSE)
    ELSE {Return(s)}

\* udp_do_bind may fail.
Bind(s) == IF s.tag = "UNBOUND" THEN {s, [s EXCEPT !.tag = "BOUND_NOSTREAMS"]} ELSE {s}

\* EISCONN, EDESTADDRREQ; an unbound socket is bound first.
Sendto(s, addr, block) ==
    IF addr <=> s.tag = "CONNECTED" THEN {Return(s)}
    ELSE UNION {UNION {Send(c, addr, block) :
                         c \in IF b.tag = "BOUND_NOSTREAMS" THEN Create(b, FALSE) ELSE {b}} :
                  b \in Bind(s)}

-----------------------------------------------------------------------------
(* connect and close.                                                      *)

\* udp_close_streams up to the wait for a send: a receive is cancelled, or has
\* returned just before, and what it received is freed.
CloseRecv(s) ==
    [Checked(AssertEmpty(s), /\ ~s.dir["recv"].blocking /\ ~s.dir["send"].blocking
                             /\ s.dir["recv"].subtask => ~s.dir["recv"].ready
                             /\ s.dir["send"].subtask => ~s.dir["send"].ready) EXCEPT
       !.dir["recv"] = [@ EXCEPT !.subtask = FALSE, !.ready = FALSE,
                                 !.host = IF s.dir["recv"].subtask THEN "none" ELSE @]]

\* Mutant of CloseSend: the buffer is forgotten.
CloseSendKeeps(s) == [s EXCEPT !.dir["send"] = Quiet, !.held = NoThread]

\* The rest of udp_close_streams.
CloseSend(s) ==
    [FreeBuffer(s) EXCEPT !.dir["send"] = [Quiet EXCEPT !.host = IF s.dir["send"].subtask
                                                                  THEN "none" ELSE @],
                          !.held = NoThread]

Connected(s, addr) ==
    {Return(c) : c \in Create([CloseSend(s) EXCEPT !.tag = "BOUND_NOSTREAMS"], addr)}

\* EOPNOTSUPP while a thread is blocked.
Connect(t, s, addr) ==
    IF ~Streaming(s)
    THEN UNION {IF b.tag = "BOUND_NOSTREAMS" THEN {Return(c) : c \in Create(b, addr)}
                ELSE {Return(b)} : b \in Bind(s)}
    ELSE IF \E d \in Dir : s.dir[d].blocking THEN {Return(s)}
    ELSE IF s.dir["send"].subtask THEN {To([CloseRecv(s) EXCEPT !.held = t], "connect")}
    ELSE Connected(CloseRecv(s), addr)

Closed(s) == {Return([CloseSend(s) EXCEPT !.tag = "CLOSED"])}

Close(t, s) ==
    IF ~Streaming(s) THEN {Return([s EXCEPT !.tag = "CLOSED"])}
    ELSE IF s.dir["send"].subtask THEN {To([CloseRecv(s) EXCEPT !.held = t], "close")}
    ELSE Closed(CloseRecv(s))

-----------------------------------------------------------------------------
(* poll.                                                                   *)

\* One direction: its subtask is registered, for which there may be no memory, or
\* it is ready.  The first direction that fails ends the registration.
PollDir(o, d) ==
    IF o.at = "failed" THEN {o}
    ELSE IF o.u.dir[d].blocking THEN {[o EXCEPT !.at = "failed"]}
    ELSE UNION {IF a.dir[d].subtask
                THEN {[o EXCEPT !.u = Enter(a, d), !.reg = @ \cup {d}],
                      [o EXCEPT !.u = a, !.at = "failed"]}
                ELSE {[o EXCEPT !.u = a, !.at = "polled"]} :
                a \in IF d = "recv" THEN RecvStart(o.u) ELSE {o.u}}

Poll(s, events) ==
    LET open == {[u |-> c, at |-> "poll", reg |-> {}] :
                   c \in IF s.tag = "BOUND_NOSTREAMS" THEN Create(s, FALSE) ELSE {s}}
        recv == IF "recv" \in events THEN UNION {PollDir(o, "recv") : o \in open} ELSE open
    IN  IF "send" \in events THEN UNION {PollDir(o, "send") : o \in recv} ELSE recv

-----------------------------------------------------------------------------
(* The steps of a thread.  All of them take the socket's lock first.       *)

Running == u.broken = "no"
Unlocked == u.held = NoThread /\ Running

Goes(t, o, addr) ==
    /\ u' = o.u
    /\ call' = [call EXCEPT ![t] = IF o.at = "idle" THEN Resting
                                   ELSE [at |-> o.at, addr |-> addr, reg |-> {}]]

At(t, where) == call[t].at = where /\ Unlocked

Idle(t) == At(t, "idle") /\ u.tag # "CLOSED"

SetBlocking(t) == Idle(t) /\ Goes(t, Return([u EXCEPT !.blocking = ~@]), FALSE)

BindCall(t) == Idle(t) /\ \E b \in Bind(u) : Goes(t, Return(b), FALSE)

\* MSG_DONTWAIT or a nonblocking socket.
RecvCall(t) ==
    /\ Idle(t)
    /\ \E block \in {FALSE, u.blocking} : \E o \in Recvfrom(u, block) : Goes(t, o, FALSE)

SendCall(t) ==
    /\ Idle(t)
    /\ \E addr \in BOOLEAN, block \in {FALSE, u.blocking} :
         \E o \in Sendto(u, addr, block) : Goes(t, o, addr)

ConnectCall(t) ==
    /\ Idle(t)
    /\ \E addr \in BOOLEAN : \E o \in Connect(t, u, addr) : Goes(t, o, addr)

\* udp_free runs when no call uses the socket.
CloseCall(t) ==
    /\ Idle(t)
    /\ \A x \in Thread : call[x] = Resting
    /\ \E o \in Close(t, u) : Goes(t, o, FALSE)

PollCall(t) ==
    /\ Idle(t)
    /\ u.tag # "UNBOUND"
    /\ \E events \in SUBSET Dir \ {{}} : \E o \in Poll(u, events) :
         /\ u' = o.u
         /\ call' = [call EXCEPT ![t] = IF o.reg = {} THEN Resting
                                        ELSE [at |-> IF o.at = "poll" THEN "poll" ELSE "polled",
                                              addr |-> FALSE, reg |-> o.reg]]

\* The blocking lock was taken and released, and the call goes on where it was.
RecvBounced(t) ==
    /\ At(t, "recv_bounce") /\ ~u.dir["recv"].blocking
    /\ \E o \in Recv(u, TRUE) : Goes(t, o, FALSE)

SendBounced(t) ==
    /\ At(t, "send_bounce") /\ ~u.dir["send"].blocking
    /\ \E o \in Send(u, call[t].addr, TRUE) : Goes(t, o, call[t].addr)

Returned(d) == u.dir[d].host = "returned"

RecvEnds(t) ==
    /\ At(t, "recv") /\ Returned("recv")
    /\ Goes(t, Take(Ended(Exit(u, "recv"), "recv")), FALSE)

SendLastEnds(t) ==
    /\ At(t, "send_last") /\ Returned("send")
    /\ \E o \in SendNext(Ended(Exit(u, "send"), "send"), call[t].addr, TRUE) : Goes(t, o, call[t].addr)

SendOwnEnds(t) ==
    /\ At(t, "send_own") /\ Returned("send")
    /\ Goes(t, Return(Settled(Ended(Exit(u, "send"), "send"))), FALSE)

\* SO_RCVTIMEO and SO_SNDTIMEO: the subtask stays.
TimesOut(t) ==
    \/ At(t, "recv") /\ Goes(t, Return(Exit(u, "recv")), FALSE)
    \/ (At(t, "send_last") \/ At(t, "send_own")) /\ Goes(t, Return(Exit(u, "send")), FALSE)

\* The ready callback with its event ...
PollReady(t, d) ==
    LET rest == call[t].reg \ {d}
    IN  /\ At(t, "poll") \/ At(t, "polled")
        /\ d \in call[t].reg /\ Returned(d)
        /\ u' = Ended(Exit(u, d), d)
        /\ call' = [call EXCEPT ![t] = IF rest = {} THEN Resting
                                       ELSE [at |-> "polled", addr |-> FALSE, reg |-> rest]]

ExitAll(s, ds) ==
    [Checked(s, Streaming(s) /\ \A d \in ds : s.dir[d].blocking) EXCEPT
       !.dir = [d \in Dir |-> IF d \in ds THEN [s.dir[d] EXCEPT !.blocking = FALSE] ELSE s.dir[d]]]

\* ... and without one, for what is still registered when poll returns.
PollTeardown(t) ==
    /\ At(t, "poll") \/ At(t, "polled")
    /\ Goes(t, Return(ExitAll(u, call[t].reg)), FALSE)

\* The wait for the last send is over, with the lock held.
ConnectEnds(t) ==
    /\ Running /\ call[t].at = "connect" /\ Returned("send")
    /\ \E o \in Connected(u, call[t].addr) : Goes(t, o, FALSE)

CloseEnds(t) ==
    /\ Running /\ call[t].at = "close" /\ Returned("send")
    /\ \E o \in Closed(u) : Goes(t, o, FALSE)

HostReturns(d) ==
    /\ Running /\ u.dir[d].host = "started"
    /\ u' = [u EXCEPT !.dir[d].host = "returned"]
    /\ UNCHANGED call

Wakes(t) ==
    \/ RecvBounced(t) \/ SendBounced(t) \/ RecvEnds(t) \/ SendLastEnds(t) \/ SendOwnEnds(t)
    \/ (\E d \in Dir : PollReady(t, d)) \/ ConnectEnds(t) \/ CloseEnds(t)

Step(t) ==
    \/ SetBlocking(t) \/ BindCall(t) \/ RecvCall(t) \/ SendCall(t) \/ ConnectCall(t)
    \/ CloseCall(t) \/ PollCall(t) \/ Wakes(t) \/ TimesOut(t) \/ PollTeardown(t)

\* The socket is closed, or an assertion has failed.
Over == (u.tag = "CLOSED" \/ ~Running) /\ UNCHANGED vars

Next == (\E t \in Thread : Step(t)) \/ (\E d \in Dir : HostReturns(d)) \/ Over

Fairness == \A t \in Thread : WF_vars(Wakes(t))

-----------------------------------------------------------------------------
(* Properties.                                                             *)

\* Threads that hold the blocking lock of a direction.
Waits(t, d) ==
    \/ d = "recv" /\ call[t].at = "recv"
    \/ d = "send" /\ call[t].at \in {"send_last", "send_own"}
    \/ d \in call[t].reg

\* No assertion of udp.c fails, whatever the order of calls, polls, timeouts and
\* results; the assertions that nobody waits on a blocking lock are left to the
\* value "waiters".
NoTrap == u.broken # "trap"

\* UDP_STREAMS_RECV_BLOCKING and UDP_STREAMS_SEND_BLOCKING are set exactly while
\* one thread holds the blocking lock, also across poll's teardown.
FlagsAgree ==
    Running => \A d \in Dir :
        Cardinality({t \in Thread : Waits(t, d)}) = IF u.dir[d].blocking THEN 1 ELSE 0

\* No subtask and no buffer is ever lost: the socket knows every subtask the host
\* has and the one copy there may be of a datagram, and it knows none where it has
\* no streams: after a connect that failed half-way, or after close.
NothingLeaks ==
    Running =>
      /\ \A d \in Dir : u.dir[d].subtask <=> u.dir[d].host # "none"
      /\ u.heap = IF u.ptr THEN 1 ELSE 0
      /\ u.ptr => u.dir["send"].subtask \/ u.dir["send"].ready
      /\ ~Streaming(u) => u.dir = [d \in Dir |-> Quiet]


\* A subtask that has returned while somebody waits for it is taken from the host,
\* unless the wait times out.
ResultsArrive ==
    \A d \in Dir :
        LET awaited == \/ \E t \in Thread : Waits(t, d)
                       \/ d = "send" /\ u.held # NoThread
        IN  (awaited /\ Returned(d)) ~> (~awaited \/ ~Returned(d) \/ ~Running)

=============================================================================
