----------------------------- MODULE MCStreamIO -----------------------------
(***************************************************************************)
(* Model checking the wasip3 descriptors that threads block on: one half   *)
(* of a stream, a UDP socket, or a TCP socket up to its connection.        *)
(* `object' says which; the others keep their initial state.               *)
(***************************************************************************)
EXTENDS StreamIO, TLC

CONSTANTS t1, t2, t3, NoThread

VARIABLES object, u, ucall, k, kcall

U == INSTANCE Udp WITH call <- ucall
T == INSTANCE Tcp WITH call <- kcall

uvars == <<u, ucall>>
kvars == <<k, kcall>>
mvars == <<object, vars, uvars, kvars>>

MCInit ==
    /\ object \in {"stream", "udp", "tcp"}
    /\ Init /\ (object # "stream" => dir = "read")
    /\ U!Init /\ T!Init

MCNext ==
    /\ UNCHANGED object
    /\ \/ object = "stream" /\ Next /\ UNCHANGED <<uvars, kvars>>
       \/ object = "udp" /\ U!Next /\ UNCHANGED <<vars, kvars>>
       \/ object = "tcp" /\ T!Next /\ UNCHANGED <<vars, uvars>>

MCSpec ==
    /\ MCInit /\ [][MCNext]_mvars
    /\ \A t \in Thread : WF_vars(Running /\ Wakes(t))
    /\ U!Fairness /\ T!Fairness

-----------------------------------------------------------------------------
(* The properties of all three.                                            *)

\* No assertion of the I/O paths, of udp.c or of tcp.c fails, and no operation is
\* started on, or dropped with, a stream end in the wrong state, whatever the order of
\* calls, polls, timeouts and results; not even that of a blocking connect, which
\* asserts after its wait what it knew before.  Apart are the assertions that nobody
\* waits on a blocking lock that is reset, which do not always hold.
NeverTraps == NoTrap /\ U!NoTrap /\ T!NoTrap

\* The marks tell the truth about who waits: BLOCKED, UDP_STREAMS_*_BLOCKING,
\* TCP_LISTENING_BLOCKING and `polling' are set exactly while one thread sleeps for
\* that operation, also across the teardown of a poll that ended for another reason.
MarksAgree ==
    /\ TypeOK /\ FlagsAgree
    /\ U!TypeOK /\ U!FlagsAgree
    /\ T!TypeOK /\ T!WaitsAreMarked

\* Nothing is lost or used twice: no byte of a stream; no subtask, buffer or result
\* of a UDP socket, also not by a connect that fails half-way; no connection that the
\* host delivers to a listening socket and no subtask of a connect; and close leaves
\* nothing behind.
NothingIsLost == BytesConserved /\ U!NothingLeaks /\ T!ConnectionsAreKept


\* What the host has done reaches the thread that waits for it in read, write, poll,
\* shutdown, sendto, recvfrom, connect or accept, unless its wait times out.
WaitersReturn == SleepersReturn /\ U!ResultsArrive /\ T!WaitsEnd

=============================================================================
