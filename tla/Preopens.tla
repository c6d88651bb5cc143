------------------------------ MODULE Preopens ------------------------------
(***************************************************************************)
(* The table of preopened directories (preopens.c), and the current        *)
(* directory that paths are looked up against (chdir.c), in the build with *)
(* threads.                                                                *)
(*                                                                         *)
(* A path is a sequence of characters.  What a lock protects is one step:  *)
(* threads meet between the check whether the table is populated, the      *)
(* population, and the search.                                             *)
(***************************************************************************)
EXTENDS Integers, Sequences, FiniteSets, SequencesExt, FiniteSetsExt

CONSTANTS
    Thread,
    HostDirs,         \* the directories that the host may pass: sequences of paths
    Paths,            \* what the program looks up
    NewPrefixes,      \* what it registers
    StartCapacity,    \* 4 in the code
    MaxEntries,       \* the bound on the table
    MaxCwd            \* the bound on the current directory

VARIABLES
    host,     \* the directories of this process, by descriptor
    pre,      \* the table, its capacity, whether it is populated; or the process is gone
    cwd,      \* __wasilibc_cwd
    cwdLock,  \* the thread inside a lookup, or none
    call      \* what each thread is in

vars == <<host, pre, cwd, cwdLock, call>>

Idle == [pc |-> "idle", op |-> "none"]

Init ==
    /\ host \in HostDirs
    /\ pre = [table |-> <<>>, capacity |-> 0, populated |-> FALSE, exited |-> FALSE]
    /\ cwd = <<"/">>
    /\ cwdLock = {}
    /\ call = [t \in Thread |-> Idle]

-----------------------------------------------------------------------------
(* Paths.                                                                  *)

Drop(p, n) == SubSeq(p, n + 1, Len(p))

RECURSIVE StripSlashes(_)
StripSlashes(p) == IF IsPrefix(<<"/">>, p) THEN StripSlashes(Tail(p)) ELSE p

\* strip_prefixes.
RECURSIVE StripPrefixes(_)
StripPrefixes(p) ==
    IF IsPrefix(<<"/">>, p) THEN StripPrefixes(Tail(p))
    ELSE IF IsPrefix(<<".", "/">>, p) THEN StripPrefixes(Drop(p, 2))
    ELSE IF p = <<".">> THEN <<>>
    ELSE p

\* The length of a prefix without the slashes that end it.
Untrailed(p) == Max({0} \cup {i \in 1 .. Len(p) : p[i] # "/"})

\* Mutant of PrefixMatches: part of a name will do.
PrefixMatchesPart(prefix, path) == prefix = <<>> \/ IsPrefix(prefix, path)

\* prefix_matches: only complete components do.
PrefixMatches(prefix, path) ==
    \/ prefix = <<>>
    \/ /\ IsPrefix(prefix, path)
       /\ LET i == Untrailed(prefix)
          IN  Len(path) = i \/ path[i + 1] = "/"

\* The loop of __wasilibc_find_abspath: the longest prefix, of equal ones the newest.
\* Empty if none matches.
Best(table, path) ==
    LET match == {i \in DOMAIN table : PrefixMatches(table[i].prefix, path)}
        longest == {i \in match : \A j \in match : Len(table[j].prefix) <= Len(table[i].prefix)}
    IN  {Max(longest) : i \in longest}

\* The part of the path after the prefix.
Relative(prefix, path) ==
    LET rest == StripSlashes(Drop(path, Len(prefix))) IN IF rest = <<>> THEN <<".">> ELSE rest

\* make_absolute.
MakeAbsolute(dir, path) ==
    LET rest == IF IsPrefix(<<".", "/">>, path) THEN Drop(path, 2) ELSE path
    IN  IF IsPrefix(<<"/">>, path) THEN path
        ELSE IF rest \in {<<>>, <<".">>} THEN dir
        ELSE dir \o (IF Last(dir) = "/" THEN <<>> ELSE <<"/">>) \o rest

\* The directory that chdir puts together.
NewCwd(prefix, rel) ==
    <<"/">> \o prefix
    \o (IF rel = <<".">> THEN <<>> ELSE (IF prefix = <<>> THEN <<>> ELSE <<"/">>) \o rel)

-----------------------------------------------------------------------------
(* The table.                                                              *)

\* resize, where the table is full.
Grow(p) ==
    IF Len(p.table) # p.capacity THEN p
    ELSE [p EXCEPT !.capacity = IF @ = 0 THEN StartCapacity ELSE 2 * @]

\* internal_register_preopened_fd_unlocked, where memory suffices.
Register(p, fd, prefix) ==
    [Grow(p) EXCEPT !.table = Append(@, [fd |-> fd, prefix |-> StripPrefixes(prefix)])]

RECURSIVE RegisterAll(_, _)
RegisterAll(p, fd) == IF fd > Len(host) THEN p ELSE RegisterAll(Register(p, fd, host[fd]), fd + 1)

Goto(t, pc) == call' = [call EXCEPT ![t].pc = pc]

\* A call begins with the look at preopens_populated outside of the lock.
Begin(t, c) ==
    /\ call[t] = Idle
    /\ call' = [call EXCEPT ![t] = c @@ [pc |-> IF pre.populated THEN c.op ELSE "populate",
                                         reset |-> FALSE]]

\* __wasilibc_find_relpath and chdir, with the lock of the current directory.
BeginLookup(t, op, path) ==
    /\ cwdLock = {} /\ cwdLock' = {t}
    /\ Begin(t, [op |-> op, asked |-> path, path |-> MakeAbsolute(cwd, path)])
    /\ UNCHANGED <<host, pre, cwd>>

\* __wasilibc_register_preopened_fd.
BeginRegister(t, prefix) ==
    /\ Len(pre.table) + Len(host) < MaxEntries
    /\ Begin(t, [op |-> "register", prefix |-> prefix])
    /\ UNCHANGED <<host, pre, cwd, cwdLock>>

\* __wasilibc_populate_preopens after its fast path; without memory the process exits.
Populate(t) ==
    /\ call[t].pc = "populate"
    /\ IF pre.populated THEN UNCHANGED pre
       ELSE \/ pre' = [RegisterAll(pre, 1) EXCEPT !.populated = TRUE]
            \/ pre' = [pre EXCEPT !.exited = TRUE]
    /\ Goto(t, call[t].op)
    /\ UNCHANGED <<host, cwd, cwdLock>>

\* The rest of __wasilibc_find_abspath.  A chdir goes on with the
\* answer.
Search(t) ==
    LET path == StripSlashes(call[t].path)
    IN  /\ call[t].pc \in {"find", "chdir"}
        /\ cwdLock' = {}
        /\ \/ /\ Best(pre.table, path) = {}
              /\ call' = [call EXCEPT ![t] = Idle]
           \/ \E i \in Best(pre.table, path) :
                call' = [call EXCEPT ![t] = [pc |-> IF @.op = "find" THEN "found" ELSE "stat", op |-> @.op,
                                             asked |-> @.asked, prefix |-> pre.table[i].prefix,
                                             fd |-> pre.table[i].fd,
                                             rel |-> Relative(pre.table[i].prefix, path)]]
        /\ UNCHANGED <<host, pre, cwd>>

\* There is no memory for the absolute path, or no room for the relative one.
LookupFails(t) ==
    /\ call[t].pc \in {"find", "chdir"}
    /\ cwdLock' = {}
    /\ call' = [call EXCEPT ![t] = Idle]
    /\ UNCHANGED <<host, pre, cwd>>

\* The caller of a lookup is done with what it was handed.
Found(t) ==
    /\ call[t].pc = "found"
    /\ call' = [call EXCEPT ![t] = Idle]
    /\ UNCHANGED <<host, pre, cwd, cwdLock>>

\* The rest of registering; without memory the table has the same entries.
RegisterEnds(t) ==
    /\ call[t].pc = "register"
    /\ \/ pre' = Register(pre, Len(host) + 1, call[t].prefix)
       \/ pre' \in {pre, Grow(pre)}
    /\ call' = [call EXCEPT ![t] = Idle]
    /\ UNCHANGED <<host, cwd, cwdLock>>

\* The rest of chdir: it is a directory, or chdir fails.
ChdirEnds(t) ==
    /\ call[t].pc = "stat"
    /\ \/ UNCHANGED cwd
       \/ /\ cwdLock = {}
          /\ cwd' = NewCwd(call[t].prefix, call[t].rel)
    /\ call' = [call EXCEPT ![t] = Idle]
    /\ UNCHANGED <<host, pre, cwdLock>>

\* __wasilibc_reset_preopens.  It frees the prefixes, so the program does not call it
\* while one of its threads has been handed one.
Reset ==
    /\ \A t \in Thread : call[t].pc \notin {"stat", "found"}
    /\ pre' = [pre EXCEPT !.table = <<>>, !.capacity = 0, !.populated = FALSE]
    /\ call' = [t \in Thread |-> IF call[t] = Idle THEN Idle ELSE [call[t] EXCEPT !.reset = TRUE]]
    /\ UNCHANGED <<host, cwd, cwdLock>>

\* The program does not let two threads be in chdir: its buffer is static.
Next ==
    /\ ~pre.exited
    /\ \/ Reset
       \/ \E t \in Thread :
            \/ \E path \in Paths : BeginLookup(t, "find", path)
            \/ /\ \A u \in Thread : call[u].op # "chdir"
               /\ Len(cwd) < MaxCwd
               /\ \E path \in Paths : BeginLookup(t, "chdir", path)
            \/ \E prefix \in NewPrefixes : BeginRegister(t, prefix)
            \/ Populate(t) \/ Search(t) \/ LookupFails(t) \/ Found(t) \/ RegisterEnds(t) \/ ChdirEnds(t)

Spec == Init /\ [][Next]_vars

-----------------------------------------------------------------------------
(* Properties.                                                             *)

\* The names of a path, between its slashes, the empty ones included.
RECURSIVE Split(_)
Split(p) ==
    IF "/" \notin ToSet(p) THEN <<p>>
    ELSE LET i == Min({j \in DOMAIN p : p[j] = "/"})
         IN  <<SubSeq(p, 1, i - 1)>> \o Split(Drop(p, i))

\* The same without those that lead nowhere.
Names(p) == SelectSeq(Split(p), LAMBDA n : n \notin {<<>>, <<".">>})

\* The entry's directory is on the path, name by name.
OnPath(e, path) ==
    e.prefix = <<>> \/ (Last(e.prefix) # "/" /\ IsPrefix(Split(e.prefix), Split(path)))

\* A lookup that succeeds hands out a prefix and a relative path that name what the
\* path names, the relative one neither empty nor absolute; no entry on the path is
\* longer, and none with that prefix is newer.  A lookup fails only if no entry is on
\* the path.  (An entry whose prefix ends in a slash may be passed over.)
LookupStep ==
    \A t \in Thread : Search(t) =>
         LET path == StripSlashes(call[t].path)
             entries == {i \in DOMAIN pre.table : OnPath(pre.table[i], path)}
             c == call'[t]
         IN  IF c = Idle THEN entries = {}
             ELSE /\ Names(c.prefix) \o Names(c.rel) = Names(path)
                  /\ c.rel # <<>> /\ Head(c.rel) # "/"
                  /\ \A i \in entries : Len(pre.table[i].prefix) <= Len(c.prefix)
                  /\ c.fd = pre.table[Max({i \in DOMAIN pre.table : pre.table[i].prefix = c.prefix})].fd

LookupIsRight == [][LookupStep]_vars

\* Where a chdir leads is where its path leads, seen from the directory before it.
CwdStep ==
    \A t \in Thread : ChdirEnds(t) /\ cwd' # cwd =>
         LET asked == call[t].asked
         IN  Names(cwd') = (IF IsPrefix(<<"/">>, asked) THEN <<>> ELSE Names(cwd)) \o Names(asked)

CwdIsTarget == [][CwdStep]_vars

\* Whatever threads race to populate the table, it holds each directory of the host
\* once when they go on to search it, unless the table was reset in between.
PopulatedOnce ==
    \A t \in Thread :
      call[t].pc \in {"find", "chdir", "register"} /\ ~call[t].reset /\ ~pre.exited =>
        \A fd \in DOMAIN host : Cardinality({i \in DOMAIN pre.table : pre.table[i].fd = fd}) = 1

\* The assertions of assert_invariants, the lock is held by whoever is in a lookup,
\* and the current directory is absolute.
PreopensTypeOK ==
    /\ Len(pre.table) <= pre.capacity
    /\ \A i \in DOMAIN pre.table : pre.table[i].fd \in 1 .. Len(host) + 1
    /\ cwdLock = {t \in Thread : call[t].pc \in {"find", "chdir", "populate"} /\ call[t].op # "register"}
    /\ Head(cwd) = "/"

=============================================================================
