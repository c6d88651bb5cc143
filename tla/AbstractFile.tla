---------------------------- MODULE AbstractFile ----------------------------
(***************************************************************************)
(* What a stream promises while no error has occurred: it is the file      *)
(* itself, with a position and with what was pushed back before it.        *)
(***************************************************************************)
EXTENDS Integers, Sequences, SequencesExt, FiniteSetsExt

VARIABLES
    content,  \* the file, with everything that was written to the stream
    at,       \* the position in it
    ahead,    \* what a reader gets from here
    got,      \* what the last read has returned
    failed    \* an error has occurred: nothing is promised

avars == <<content, at, ahead, got, failed>>

From(c, p) == SubSeq(c, p + 1, Len(c))

\* What is in c, and data over it from p on.
Overlay(c, p, data) == SubSeq(c, 1, p) \o data \o From(c, p + Len(data))

AInit == at = 0 /\ ahead = content /\ got = <<>> /\ failed = FALSE

ARead(n) ==
    /\ got' = SubSeq(ahead, 1, Min({n, Len(ahead)}))
    /\ ahead' = From(ahead, Len(got'))
    /\ at' = at + Len(got')
    /\ UNCHANGED <<content, failed>>

APushBack(c) ==
    /\ ahead' = <<c>> \o ahead /\ at' = at - 1
    /\ UNCHANGED <<content, got, failed>>

AMove(p) ==
    /\ at' = p /\ ahead' = From(content, p)
    /\ UNCHANGED <<content, got, failed>>

AWrite(data) ==
    /\ content' = Overlay(content, at, data)
    /\ at' = at + Len(data) /\ ahead' = From(content', at')
    /\ UNCHANGED <<got, failed>>

=============================================================================
