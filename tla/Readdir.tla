------------------------------ MODULE Readdir ------------------------------
(***************************************************************************)
(* Directory streams of wasip1: readdir over the buffer that fd_readdir    *)
(* fills, seekdir, telldir and rewinddir.  The host truncates the listing  *)
(* at the end of the buffer, wherever in an entry that is, and files       *)
(* disappear between the listing and the fstatat.                          *)
(*                                                                         *)
(* An entry is the number that is its cookie.  A step is a turn of         *)
(* readdir's loop.                                                         *)
(***************************************************************************)
EXTENDS Integers, Sequences, FiniteSets, SequencesExt, FiniteSetsExt

CONSTANTS
    Header,           \* sizeof(__wasi_dirent_t); 24 in the code
    BufferSize,       \* DIRENT_DEFAULT_BUFFER_SIZE; 4096 in the code
    Lengths,          \* of names; 0 is an invalid one
    MaxFiles

VARIABLES
    names,    \* the directory: the length of each name
    gone,     \* the files that have disappeared
    d,        \* the DIR: cookie, the buffer and how much of it is used and processed
    log       \* where reading began, what was returned, the turns of this call, its result

vars == <<names, gone, d, log>>

Size(e) == Header + names[e]

\* The bytes of a listing.
Total(list) == FoldSeq(LAMBDA e, n : Size(e) + n, 0, list)

\* fd_readdir.
Listing(cookie) == SetToSortSeq({e \in DOMAIN names : e > cookie /\ e \notin gone}, <)

Filled(s) ==
    LET list == Listing(s.cookie)
    IN  [s EXCEPT !.list = list, !.used = Min({Total(list), s.size}), !.processed = 0]

\* The host lists few invalid names: the buffer has room for them and a valid one.
\* readdir passes them over without moving its cookie, so with a buffer full of them
\* it would read the same ones for ever.
FewInvalid ==
    LET invalid == {e \in DOMAIN names : names[e] = 0}
    IN  invalid # {} => \A e \in DOMAIN names : Header * Cardinality(invalid) + Size(e) <= BufferSize

\* fdopendir.
Init ==
    /\ names \in SeqOf(Lengths, MaxFiles) /\ FewInvalid
    /\ gone = {}
    /\ d = Filled([cookie |-> 0, list |-> <<>>, size |-> BufferSize, used |-> 0, processed |-> 0])
    /\ log = [from |-> 0, got |-> <<>>, turns |-> 0, result |-> "none"]

-----------------------------------------------------------------------------

\* The entry at the place that is processed next.
Entry ==
    LET k == CHOOSE k \in 0 .. Len(d.list) - 1 : Total(SubSeq(d.list, 1, k)) = d.processed
    IN  d.list[k + 1]

Left == d.used - d.processed

\* grow.
RECURSIVE Grown(_, _)
Grown(size, target) == IF size < target THEN Grown(2 * size, target) ELSE size

Returns(result) == log' = [log EXCEPT !.result = result]
GoesOn == log' = [log EXCEPT !.turns = @ + 1]

Discarded(s) == [s EXCEPT !.used = s.size, !.processed = s.size]

\* read_entries.
ReadEntries(s) ==
    \/ d' = Filled(Discarded(s)) /\ GoesOn
    \/ d' = Discarded(s) /\ Returns("error")

Skip(e) == d' = [d EXCEPT !.processed = @ + Size(e)] /\ GoesOn

\* The end of the directory, or only of the buffer.
Exhausted ==
    /\ Left < Header
    /\ IF d.used < d.size THEN Returns("end") /\ UNCHANGED d ELSE ReadEntries(d)


\* Part of the entry is behind the end of the buffer, which then is made large enough.
Truncated(e) ==
    /\ names[e] # 0 /\ Left < Size(e)
    /\ \/ ReadEntries([d EXCEPT !.size = Grown(@, Size(e))])
       \/ Returns("error") /\ UNCHANGED d

\* The entry is there.  Its inode may have to be asked for, and the file be gone; or
\* that fails, or memory does.
Whole(e) ==
    /\ names[e] # 0 /\ Left >= Size(e)
    /\ \/ Returns("error") /\ UNCHANGED d
       \/ e \in gone /\ Skip(e)
       \/ /\ d' = [d EXCEPT !.cookie = e, !.processed = @ + Size(e)]
          /\ log' = [log EXCEPT !.got = Append(@, e), !.result = "entry"]

Turn ==
    /\ log.result = "none"
    /\ \/ Exhausted
       \/ Left >= Header /\ (Truncated(Entry) \/ Whole(Entry) \/ (names[Entry] = 0 /\ Skip(Entry)))
    /\ UNCHANGED <<names, gone>>

\* The program calls readdir again.
Again ==
    /\ log.result # "none"
    /\ log' = [log EXCEPT !.result = "none", !.turns = 0]
    /\ UNCHANGED <<names, gone, d>>

\* seekdir, to what telldir has said or to the beginning, which is rewinddir.
Seek(loc) ==
    /\ log.result # "none"
    /\ d' = Discarded([d EXCEPT !.cookie = loc])
    /\ log' = [from |-> loc, got |-> <<>>, turns |-> 0, result |-> "none"]
    /\ UNCHANGED <<names, gone>>

Disappear(e) ==
    /\ gone' = gone \cup {e}
    /\ UNCHANGED <<names, d, log>>

Next ==
    \/ Turn \/ Again
    \/ \E loc \in {0, d.cookie} : Seek(loc)
    \/ \E e \in DOMAIN names \ gone : Disappear(e)

Spec == Init /\ [][Next]_vars

-----------------------------------------------------------------------------
(* Properties.                                                             *)


\* A call of readdir comes to an end: each turn of its loop skips an entry or reads new
\* ones, and it passes through the directory again only after a file has disappeared.
ReaddirEnds == log.turns <= (Len(names) + 2) * (Cardinality(gone) + 2)

=============================================================================
