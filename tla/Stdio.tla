------------------------------- MODULE Stdio -------------------------------
(***************************************************************************)
(* musl's FILE over a regular file: fread and getc, fwrite and putc,       *)
(* ungetc, fflush and fseek.                                               *)
(*                                                                         *)
(* The pointers rpos and rend are modelled by what lies between them and   *)
(* by where rend is; wbase and wpos by what lies between them.  The host   *)
(* may read less than it is asked for, and may fail at any point.          *)
(***************************************************************************)
EXTENDS Integers, Sequences, SequencesExt, FiniteSetsExt

CONSTANTS
    Bytes, Newline,
    MaxLen,           \* of the file and of one request
    BufSizes,         \* buf_size; 0 is an unbuffered stream
    UNGET             \* the room before buf

VARIABLES
    file,     \* what is on the disk
    f,        \* the FILE, and the offset of its descriptor
    ret       \* the bytes that the last read has returned

vars == <<file, f, ret>>

Init ==
    /\ file \in SeqOf(Bytes, MaxLen)
    /\ ret = <<>>
    /\ \E size \in BufSizes, lbf \in BOOLEAN :
         f = [off |-> 0, size |-> size, lbf |-> lbf,
              reading |-> FALSE, unread |-> <<>>, rend |-> 0,
              writing |-> FALSE, pending |-> <<>>,
              eof |-> FALSE, err |-> FALSE]

-----------------------------------------------------------------------------
(* The outcomes of a stretch of code: the FILE, the file, what was read.   *)

From(c, p) == SubSeq(c, p + 1, Len(c))

\* What is in c, and data over it from p on.
Overlay(c, p, data) == SubSeq(c, 1, p) \o data \o From(c, p + Len(data))

NotWriting(s) == [s EXCEPT !.writing = FALSE, !.pending = <<>>]
NotReading(s) == [s EXCEPT !.reading = FALSE, !.unread = <<>>, !.rend = 0]

\* __stdio_write: what is pending and then data, or an error after some of it.
StdioWrite(o, data) ==
    LET all == o.f.pending \o data
        done(k) == [o EXCEPT !.file = Overlay(@, o.f.off, SubSeq(all, 1, k)), !.f.off = @ + k]
    IN  {[done(Len(all)) EXCEPT !.f.pending = <<>>]}
        \cup {[done(k) EXCEPT !.f = [NotWriting(@) EXCEPT !.err = TRUE]] : k \in 0 .. Len(all) - 1}

\* f->write(f, 0, 0), if something is pending.
FlushPending(o) == IF o.f.pending = <<>> THEN {o} ELSE StdioWrite(o, <<>>)

\* __toread; its result is the flag.
ToRead(o) ==
    {[p EXCEPT !.f = [NotWriting(@) EXCEPT !.reading = TRUE, !.unread = <<>>, !.rend = o.f.size]] :
       p \in FlushPending(o)}

\* __stdio_read: all but the last byte goes to the caller, the rest to the buffer,
\* whose first byte is then the caller's last.
StdioRead(o, len) ==
    LET here   == From(o.file, o.f.off)
        direct == len - (IF o.f.size = 0 THEN 0 ELSE 1)
        most   == Min({direct + o.f.size, Len(here)})
        read(k) == [o EXCEPT !.f.off = @ + k, !.ret = @ \o SubSeq(here, 1, Min({k, len}))]
    IN  {[o EXCEPT !.f.err = TRUE]}
        \cup (IF here = <<>> THEN {[o EXCEPT !.f.eof = TRUE]} ELSE {})
        \cup {IF k <= direct THEN read(k)
              ELSE [read(k) EXCEPT !.f.unread = SubSeq(here, len + 1, k), !.f.rend = k - direct] :
                k \in 1 .. most}

\* The loop of fread, for the len bytes that are still missing; with one byte it is
\* __uflow.
RECURSIVE ReadRest(_, _)
ReadRest(o, len) ==
    IF len = 0 THEN {o}
    ELSE UNION {IF p.f.eof THEN {p}
                ELSE UNION {LET k == Len(q.ret) - Len(o.ret)
                            IN  IF k = 0 THEN {q} ELSE ReadRest(q, len - k) : q \in StdioRead(p, len)} :
                  p \in ToRead(o)}

\* The buffer is exhausted first.
Fread(o, len) ==
    LET k == Min({Len(o.f.unread), len})
    IN  ReadRest([o EXCEPT !.ret = SubSeq(o.f.unread, 1, k), !.f.unread = From(@, k)], len - k)

\* The length of the longest prefix that ends in a newline.
ToNewline(data) == Max({0} \cup {i \in 1 .. Len(data) : data[i] = Newline})

\* __fwritex: past the buffer, or what ends in a newline now and the rest later.
Fwritex(o, data) ==
    LET s == IF o.f.writing THEN o.f ELSE [NotReading(o.f) EXCEPT !.writing = TRUE]
        w == [o EXCEPT !.f = s]
        i == IF s.lbf THEN ToNewline(data) ELSE 0
    IN  IF Len(data) > s.size - Len(s.pending) THEN StdioWrite(w, data)
        ELSE {IF p.f.err THEN p
              ELSE [p EXCEPT !.f.pending = @ \o From(data, i)] :
                p \in IF i > 0 THEN StdioWrite(w, SubSeq(data, 1, i)) ELSE {w}}

\* Mutant of Flush: the descriptor is left after what was read ahead.
FlushUnsynced(o) ==
    {IF p.f.err THEN p ELSE [p EXCEPT !.f = NotReading(NotWriting(@))] : p \in FlushPending(o)}

\* fflush: what is pending is written, what was read ahead is given back.
Flush(o) ==
    {IF p.f.err THEN p
     ELSE [p EXCEPT !.f = NotReading(NotWriting([@ EXCEPT !.off = @ - Len(p.f.unread)]))] :
       p \in FlushPending(o)}

\* __fseeko_unlocked, to where `goal' is; a negative one fails.
Seek(o, whence, by) ==
    LET goal(p) == by + (CASE whence = "SET" -> 0
                           [] whence = "CUR" -> p.f.off - Len(o.f.unread)
                           [] whence = "END" -> Len(p.file))
    IN  {IF p.f.err THEN p
         ELSE IF goal(p) < 0 THEN [p EXCEPT !.f = NotWriting(@)]
         ELSE [p EXCEPT !.f = [NotReading(NotWriting(@)) EXCEPT !.off = goal(p), !.eof = FALSE]] :
           p \in FlushPending(o)}

-----------------------------------------------------------------------------
(* The calls.  After an error the position is indeterminate, and the       *)
(* program stops.                                                          *)

\* Where the stream is: ftell.
Tell == f.off - Len(f.unread) + Len(f.pending)

Now == [f |-> f, file |-> file, ret |-> ret]

Returns(o) == f' = o.f /\ file' = o.file /\ ret' = o.ret

FreadCall(n) == ~f.err /\ \E o \in Fread(Now, n) : Returns(o)

\* Output may follow input only where the input has met the end of the file.
FwriteCall(data) == ~f.err /\ f.unread = <<>> /\ \E o \in Fwritex(Now, data) : Returns(o)

\* ungetc; at the beginning of the file the position after it is indeterminate.
UngetcCall(c) ==
    /\ ~f.err /\ Tell > 0
    /\ \E o \in IF f.reading THEN {Now} ELSE ToRead(Now) :
         Returns(IF o.f.rend - Len(o.f.unread) <= -UNGET THEN o
                 ELSE [o EXCEPT !.f.unread = <<c>> \o @, !.f.eof = FALSE])

FflushCall == ~f.err /\ \E o \in Flush(Now) : Returns(o)

\* The program does not seek past the end.
FseekCall(whence, by) ==
    ~f.err /\ \E o \in Seek(Now, whence, by) : o.f.off <= Len(o.file) /\ Returns(o)

Data == SeqOf(Bytes, MaxLen) \ {<<>>}
Whence == {"SET", "CUR", "END"}
Offsets == -1 .. 1

Stopped == f.err /\ UNCHANGED vars

Next ==
    \/ \E n \in 1 .. MaxLen : FreadCall(n)
    \/ \E data \in Data : Tell + Len(data) <= MaxLen /\ FwriteCall(data)
    \/ \E c \in Bytes : UngetcCall(c)
    \/ FflushCall
    \/ \E whence \in Whence, by \in Offsets : FseekCall(whence, by)
    \/ Stopped

Spec == Init /\ [][Next]_vars

-----------------------------------------------------------------------------
(* Properties.                                                             *)

Content == Overlay(file, f.off, f.pending)

A == INSTANCE AbstractFile WITH
       content <- Content, at <- Tell, got <- ret, failed <- f.err,
       ahead <- f.unread \o From(Content, Tell + Len(f.unread))

\* Where a seek leads to, seen from outside.
Goal(whence, by) ==
    by + (CASE whence = "SET" -> 0 [] whence = "CUR" -> Tell [] whence = "END" -> Len(Content))

\* As long as no error has occurred, buffering cannot be seen: every call does to
\* the stream what it does to AbstractFile.  A read returns what the file and
\* earlier writes say, in full unless the file ends, after any mixture of reads,
\* writes, pushed back bytes, flushes and seeks; and ftell says where the stream is.
BufferingStep ==
    \/ f'.err
    \/ /\ \A n \in 1 .. MaxLen : FreadCall(n) => A!ARead(n)
       /\ \A data \in Data : FwriteCall(data) => A!AWrite(data)
       /\ \A c \in Bytes : UngetcCall(c) => A!APushBack(c) \/ UNCHANGED A!avars
       /\ FflushCall => A!AMove(Tell)
       /\ \A whence \in Whence, by \in Offsets :
            FseekCall(whence, by) => IF Goal(whence, by) < 0 THEN UNCHANGED A!avars
                                     ELSE A!AMove(Goal(whence, by))

BufferingIsUnseen == A!AInit /\ [][BufferingStep]_vars

\* A line-buffered stream holds back no line that is complete.
LinesAreOut == f.lbf => Newline \notin ToSet(f.pending)

\* The FILE is well formed: it does not read and write at once, and neither buffer
\* is longer than its room.
StdioTypeOK ==
    /\ file \in SeqOf(Bytes, MaxLen) /\ ret \in SeqOf(Bytes, MaxLen)
    /\ f.off \in 0 .. Len(file)
    /\ Len(f.pending) <= f.size
    /\ f.rend \in 0 .. f.size /\ f.rend - Len(f.unread) >= -UNGET
    /\ ~(f.reading /\ f.writing)
    /\ f.pending # <<>> => f.writing
    /\ f.unread # <<>> => f.reading

=============================================================================
