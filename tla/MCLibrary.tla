----------------------------- MODULE MCLibrary -----------------------------
(***************************************************************************)
(* Model checking the parts of the library that share no state with each   *)
(* other: one behaviour runs one of them, and object says which.  Their    *)
(* variables are v1 to v6 here, of which an object leaves some unused.     *)
(***************************************************************************)
EXTENDS Integers, Sequences

CONSTANTS t1, t2

VARIABLES object, v1, v2, v3, v4, v5, v6

mvars == <<object, v1, v2, v3, v4, v5, v6>>

\* The paths of the preopened directories, of the program, and of what it registers.
HostDirs ==
    {<<<<"/">>, <<"/", "a">>>>, <<<<".">>, <<".", "/", "a", "/", "b">>>>, <<<<"a", "/">>>>}

Paths ==
    {<<"a">>, <<"/", "a", "b">>, <<"/", "a", "/", "b">>, <<".">>, <<".", "/", "a">>}

NewPrefixes == {<<"/", "a">>, <<"a", "/">>}

\* Around the ends of leap years, centuries and the cycle of 400 years.
Days ==
    UNION {(365 * y + y \div 4 - 420) .. (365 * y + y \div 4 + 100) :
             y \in {-371, -270, -170, -70, -1, 1, 30, 68, 130, 230, 330, 430}}

Em == INSTANCE Emmalloc WITH
       h <- v1, live <- v2,
       HeapBase <- 4, HeapEnd <- 24, MemoryEnd <- 64, PageWords <- 20,
       LargeBucket <- 3, MaxTries <- 1, Sizes <- {2, 6}, Alignments <- {4, 8}, MaxLive <- 2

St == INSTANCE Stdio WITH
       file <- v1, f <- v2, ret <- v3,
       Bytes <- {0, 10}, Newline <- 10, MaxLen <- 3, BufSizes <- {0, 1, 2}, UNGET <- 1

Po == INSTANCE Preopens WITH
       host <- v1, pre <- v2, cwd <- v3, cwdLock <- v4, call <- v5,
       Thread <- {t1, t2}, HostDirs <- HostDirs, Paths <- Paths, NewPrefixes <- NewPrefixes,
       StartCapacity <- 1, MaxEntries <- 3, MaxCwd <- 4

Rd == INSTANCE Readdir WITH
       names <- v1, gone <- v2, d <- v3, log <- v4,
       Header <- 2, BufferSize <- 7, Lengths <- {0, 1, 3, 7}, MaxFiles <- 3

En == INSTANCE Environ WITH
       str <- v1, env <- v2, alloced <- v3, lost <- v4, map <- v5,
       Name <- {1, 2}, Value <- {1, 2}, NoValue <- 0, MaxStrings <- 4,
       HostEnvs <- {<<>>, <<<<1, 1>>, <<1, 2>>>>}

Ax == INSTANCE Atexit WITH
       head <- v1, slot <- v2, finished <- v3, exiting <- v4, log <- v5,
       COUNT <- 2, MaxFuncs <- 7

Ke == INSTANCE Keys WITH
       keys <- v1, next_key <- v2, created <- v3, tsd <- v4, used <- v5, th <- v6,
       Thread <- {t1, t2}, KEYS_MAX <- 2, ITERATIONS <- 2, MaxCreated <- 3

Hs == INSTANCE Hsearch WITH
       tab <- v1, entered <- v2, ret <- v3,
       Key <- {<<c>> : c \in {1, 3, 4, 8, 16}} \cup {<<1, 1>>, <<1, 9>>}, MINSIZE <- 4,
       Sizes <- {0, 5}, SizeBits <- 5

Ts == INSTANCE Tsearch WITH
       root <- v1, keys <- v2,
       Key <- 1 .. 9

Qs == INSTANCE Qsort WITH
       input <- v1, q <- v2,
       Value <- 1 .. 3, MaxLen <- 8

Ss == INSTANCE Strstr WITH
       hay <- v1, ndl <- v2, pre <- v3, s <- v4,
       Char <- 1 .. 2, Needles <- {5, 6}, MaxHaystack <- 9

Is == INSTANCE Intscan WITH
       in <- v1, out <- v2,
       UBits <- 7, Bits <- 10, Chars <- {101, 102, 0, 1, 2, 9, 33}, MaxText <- 5,
       Bases <- {0, 10, 16, 34}, Lims <- {64, 127, 512, 1023}

Ut == INSTANCE Utf8 WITH
       st <- v1, fed <- v2, result <- v3,
       Byte <- {0, 128, 143, 144, 159, 160, 191, 194, 224, 237, 240, 244, 245}, MaxPiece <- 2,
       Wide <- {0, 127, 128, 2047, 2048, 55295, 55296, 57343, 57344, 65535, 65536, 1114111, 1114112}

Ca == INSTANCE Calendar WITH
       day <- v1,
       Days <- Days

Init ==
    \/ object = "emmalloc" /\ Em!Init /\ v3 = 0 /\ v4 = 0 /\ v5 = 0 /\ v6 = 0
    \/ object = "stdio" /\ St!Init /\ v4 = 0 /\ v5 = 0 /\ v6 = 0
    \/ object = "preopens" /\ Po!Init /\ v6 = 0
    \/ object = "readdir" /\ Rd!Init /\ v5 = 0 /\ v6 = 0
    \/ object = "environ" /\ En!Init /\ v6 = 0
    \/ object = "atexit" /\ Ax!Init /\ v6 = 0
    \/ object = "keys" /\ Ke!Init
    \/ object = "hsearch" /\ Hs!Init /\ v4 = 0 /\ v5 = 0 /\ v6 = 0
    \/ object = "tsearch" /\ Ts!Init /\ v3 = 0 /\ v4 = 0 /\ v5 = 0 /\ v6 = 0
    \/ object = "qsort" /\ Qs!Init /\ v3 = 0 /\ v4 = 0 /\ v5 = 0 /\ v6 = 0
    \/ object = "strstr" /\ Ss!Init /\ v5 = 0 /\ v6 = 0
    \/ object = "intscan" /\ Is!Init /\ v3 = 0 /\ v4 = 0 /\ v5 = 0 /\ v6 = 0
    \/ object = "utf8" /\ Ut!Init /\ v4 = 0 /\ v5 = 0 /\ v6 = 0
    \/ object = "calendar" /\ Ca!Init /\ v2 = 0 /\ v3 = 0 /\ v4 = 0 /\ v5 = 0 /\ v6 = 0

Next ==
    /\ UNCHANGED object
    /\ \/ object = "emmalloc" /\ Em!Next /\ UNCHANGED <<v3, v4, v5, v6>>
       \/ object = "stdio" /\ St!Next /\ UNCHANGED <<v4, v5, v6>>
       \/ object = "preopens" /\ Po!Next /\ UNCHANGED <<v6>>
       \/ object = "readdir" /\ Rd!Next /\ UNCHANGED <<v5, v6>>
       \/ object = "environ" /\ En!Next /\ UNCHANGED <<v6>>
       \/ object = "atexit" /\ Ax!Next /\ UNCHANGED <<v6>>
       \/ object = "keys" /\ Ke!Next
       \/ object = "hsearch" /\ Hs!Next /\ UNCHANGED <<v4, v5, v6>>
       \/ object = "tsearch" /\ Ts!Next /\ UNCHANGED <<v3, v4, v5, v6>>
       \/ object = "qsort" /\ Qs!Next /\ UNCHANGED <<v3, v4, v5, v6>>
       \/ object = "strstr" /\ Ss!Next /\ UNCHANGED <<v5, v6>>
       \/ object = "intscan" /\ Is!Next /\ UNCHANGED <<v3, v4, v5, v6>>
       \/ object = "utf8" /\ Ut!Next /\ UNCHANGED <<v4, v5, v6>>
       \/ object = "calendar" /\ Ca!Next /\ UNCHANGED <<v2, v3, v4, v5, v6>>

Spec == Init /\ [][Next]_mvars

-----------------------------------------------------------------------------
(* The properties of the modules, each for its object.                     *)

\* The invariants at the head of emmalloc.c.  Regions lie next to each other without
\* gaps and their two tags agree, no two neighbours are free, and each free region is
\* in one list, once, in the bucket of its size, whose bit is set.  Each allocation is
\* the payload of a region of its own, aligned and long enough, and nothing else is in
\* use.  Every region of a bucket above that of a size can hold it.
AllocatorIsSound ==
    object = "emmalloc" =>
        Em!RegionsTile /\ Em!ListsAreExact /\ Em!AllocationsHold /\ Em!BucketsAscend

\* As long as no error has occurred, buffering cannot be seen: every call does to
\* the stream what it does to AbstractFile.  A read returns what the file and
\* earlier writes say, in full unless the file ends, after any mixture of reads,
\* writes, pushed back bytes, flushes and seeks; and ftell says where the stream is.
\* A line-buffered stream holds back no line that is complete.
BufferingIsUnseen ==
    /\ [](object = "stdio" => St!StdioTypeOK /\ St!LinesAreOut)
    /\ [][object = "stdio" => St!BufferingStep]_mvars

\* Whatever threads race to populate the table of preopens, it holds each directory of
\* the host once when they search it.  A lookup that succeeds hands out a prefix and a
\* relative path that name what the path names; no entry on the path is longer, and
\* none with that prefix is newer; and it fails only if no entry is on the path.  (An
\* entry whose prefix ends in a slash may be passed over.)  A chdir leads where its
\* path leads, seen from the directory before it.
LookupIsRight ==
    /\ [](object = "preopens" => Po!PreopensTypeOK /\ Po!PopulatedOnce)
    /\ [][object = "preopens" => Po!LookupStep /\ Po!CwdStep]_mvars


\* getenv finds of every name what the calls before it promise, however often the host
\* has passed the name, which call fails and where the strings are kept.  The strings
\* of the host and of the program are never freed; those of setenv are freed once when
\* they leave the environment, unless the table could not grow to hold them.
EnvironIsMap == object = "environ" => En!EnvironIsMap /\ En!StringsAreOwned

\* Every function given to atexit is called once, also those that are registered while
\* others run, and in the reverse order of registration.
HandlersRunInOrder ==
    /\ [](object = "atexit" => Ax!EachIsCalledOnce)
    /\ [][object = "atexit" => Ax!LastIsFirst]_mvars

\* A value belongs to the key that it was set under: once a key was deleted and its
\* number is given out again, no thread has a value of the old key, and no destructor
\* is called with one.  A thread leaves a value behind only if its destructors have set
\* values in every one of the rounds.
ValuesBelong == object = "keys" => Ke!ValuesBelong /\ Ke!NothingIsLeft

\* hsearch's table and tsearch's tree hold exactly the keys put into them: a search
\* ends and finds its key, before and after the table grows and after it has failed to
\* ("the state of tab is still usable"); and the tree stays ordered and balanced, which
\* keeps a path within the MAXH elements of its array.
TablesAreExact ==
    /\ object = "hsearch" => Hs!SearchesEnd /\ Hs!EntriesAreReturned
    /\ object = "tsearch" => Ts!TreeIsBalanced /\ Ts!TreeIsSet

\* The pure algorithms agree with their definitions.  qsort: what lies behind the heaps
\* is sorted and final, and a permutation of the input.  strstr: no occurrence is
\* skipped.  strtol: the value of the longest number, clamped to the type.  mbrtowc and
\* wcrtomb: however a text is cut into pieces, exactly the characters it encodes.
\* gmtime and timegm: each day follows the one before, and every date comes back.
AlgorithmsAgree ==
    /\ [](CASE object = "qsort"    -> Qs!TailIsFinal
            [] object = "strstr"   -> Ss!NoneIsSkipped
            [] object = "intscan"  -> Is!ScansRight
            [] object = "utf8"     -> Ut!PiecesDecode /\ Ut!WritesDecode
            [] object = "calendar" -> Ca!DatesComeBack
            [] OTHER               -> TRUE)
    /\ [][object = "calendar" => Ca!DaysFollow]_mvars

=============================================================================
