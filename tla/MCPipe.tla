------------------------------- MODULE MCPipe -------------------------------
(***************************************************************************)
(* A pipe with a buffer of two bytes and up to two threads on each half.   *)
(* `mode' says who uses it: a reader and a writer that only read and write *)
(* ("pair"), the same two, also polling ("poll"), a second reader beside   *)
(* them ("readers"), or everybody ("all").                                 *)
(***************************************************************************)
EXTENDS Pipe

CONSTANTS r1, r2, w1, w2,
          Modes    \* the modes to look at

VARIABLE mode

MCInit == Init /\ mode \in Modes

Active(t) == mode = "all" \/ t \in {r1, w1} \/ (mode = "readers" /\ t = r2)

MCNext ==
    /\ UNCHANGED mode
    /\ \/ \E t \in Thread :
            /\ Active(t)
            /\ IF mode \in {"all", "poll"} THEN Step(t)
               ELSE \/ \E side \in Side, n \in 1 .. MaxIO : Start(t, side, n)
                    \/ WriteNoMemory(t)
                    \/ Resume(t)
       \/ \E side \in Side : Close(side) \/ SetBlocking(side)
       \/ Terminated

MCSpec == MCInit /\ [][MCNext]_<<vars, mode>> /\ Fairness

\* Whoever sleeps is marked as blocked, alone on its half, and has a reason to sleep
\* or has been woken: no wakeup is lost and none is left over for a later call.
WakeupsAreExact == TypeOK /\ OneSleeper /\ NoLostWakeup

\* With one thread on each half, every blocked call returns once it can.
PairReturns == mode = "pair" => SleepersReturn

\* With one thread on each half that reads or writes, none of pipe.c's assertions
\* fails and no stream operation traps.  With polling too, the only way to a trap is an
\* end of the stream that keeps a completed operation after the poll that started it:
\* one whose pipe was woken before poll's teardown ran pipe_block_reader_exit or
\* pipe_block_writer_exit.
OnlyLeftoversTrap ==
    [][(mode \in {"pair", "poll"} /\ ~st.broken /\ st'.broken)
          => \E side \in Side : mode = "poll" /\ st.end[side] = "done" /\ ~st.woken[side]]_vars

=============================================================================
