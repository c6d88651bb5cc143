------------------------------- MODULE Strstr -------------------------------
(***************************************************************************)
(* The search of strstr for needles of five bytes and more (two-way string *)
(* matching).  Characters are numbers, positions count from 0 as in the    *)
(* code, and the byte after the end of a string is 0.  A step is a turn of *)
(* the search loop.                                                        *)
(***************************************************************************)
EXTENDS Integers, Sequences, SequencesExt, FiniteSetsExt

CONSTANTS Char, Needles, MaxHaystack      \* lengths

VARIABLES
    hay, ndl,     \* the two strings
    pre,          \* what is computed of the needle: ms, p, mem0
    s             \* where h is, mem, and the result: -2 before there is one, -1 for null

vars == <<hay, ndl, pre, s>>

At(str, i) == IF i < Len(str) THEN str[i + 1] ELSE 0

l == Len(ndl)

-----------------------------------------------------------------------------
(* The needle.                                                             *)

\* The loop for the maximal suffix, with > if up and with < otherwise.
RECURSIVE Suffix(_, _, _, _, _, _)
Suffix(n, up, ip, jp, k, p) ==
    LET a == At(n, ip + k)
        b == At(n, jp + k)
    IN  IF jp + k >= Len(n) THEN [ms |-> ip, p |-> p]
        ELSE IF a = b THEN IF k = p THEN Suffix(n, up, ip, jp + p, 1, p) ELSE Suffix(n, up, ip, jp, k + 1, p)
        ELSE IF (IF up THEN a > b ELSE a < b) THEN Suffix(n, up, ip, jp + k, 1, jp + k - ip)
        ELSE Suffix(n, up, jp, jp + 1, 1, 1)

\* Mutant of Factor: every needle is taken for a periodic one.
FactorPeriodic(n) ==
    LET x == Suffix(n, TRUE, -1, 0, 1, 1)
        y == Suffix(n, FALSE, -1, 0, 1, 1)
        f == IF y.ms > x.ms THEN y ELSE x
    IN  [ms |-> f.ms, p |-> f.p, mem0 |-> Len(n) - f.p]

\* The critical factorization and the period.
Factor(n) ==
    LET x == Suffix(n, TRUE, -1, 0, 1, 1)
        y == Suffix(n, FALSE, -1, 0, 1, 1)
        f == IF y.ms > x.ms THEN y ELSE x
        periodic == \A i \in 0 .. f.ms : At(n, i) = At(n, i + f.p)
    IN  IF periodic THEN [ms |-> f.ms, p |-> f.p, mem0 |-> Len(n) - f.p]
        ELSE [ms |-> f.ms, p |-> Max({f.ms, Len(n) - f.ms - 1}) + 1, mem0 |-> 0]

\* The shift of a byte: the place behind its last occurrence, 0 if it is not in the set.
Shift(n, c) == Max({0} \cup {i \in 1 .. Len(n) : n[i] = c})

\* The short cuts of strstr: the search begins at the first byte of the needle, and
\* there are three bytes after it.
Init ==
    /\ ndl \in UNION {[1 .. m -> Char] : m \in Needles}
    /\ hay \in SeqOf(Char, MaxHaystack) /\ Len(hay) >= 4 /\ hay[1] = ndl[1]
    /\ pre = Factor(ndl)
    /\ s = [h |-> 0, mem |-> 0, found |-> -2]

-----------------------------------------------------------------------------
(* The search.                                                             *)

\* The first place from k on where the halves differ, or the needle's end.
Right(k) == Min({l} \cup {i \in k .. l : At(ndl, i) # At(hay, s.h + i)})

\* The left half matches down to mem.
LeftMatches == \A i \in s.mem .. pre.ms : At(ndl, i) = At(hay, s.h + i)

Forward(by, mem) == s' = [s EXCEPT !.h = @ + by, !.mem = mem]

\* A turn of the loop: the last byte, the right half, the left half.
Search ==
    LET k == l - Shift(ndl, At(hay, s.h + l - 1))
        right == Right(Max({pre.ms + 1, s.mem}))
    IN  /\ s.found = -2
        /\ IF s.h + l > Len(hay) THEN s' = [s EXCEPT !.found = -1]
           ELSE IF k > 0 THEN Forward(IF k < l THEN Max({k, s.mem}) ELSE k, 0)
           ELSE IF right < l THEN Forward(right - pre.ms, 0)
           ELSE IF LeftMatches THEN s' = [s EXCEPT !.found = s.h]
           ELSE Forward(pre.p, pre.mem0)
        /\ UNCHANGED <<hay, ndl, pre>>

Found == s.found # -2 /\ UNCHANGED vars

Next == Search \/ Found

Spec == Init /\ [][Next]_vars

-----------------------------------------------------------------------------
(* Properties.                                                             *)

Occurs(i) == i + l <= Len(hay) /\ \A j \in 0 .. l - 1 : At(hay, i + j) = At(ndl, j)

\* No occurrence is skipped: none lies before h, and what strstr returns is the first.
\* What mem says is known to match does match.
NoneIsSkipped ==
    /\ \A i \in 0 .. s.h - 1 : ~Occurs(i)
    /\ s.found = -1 => \A i \in 0 .. Len(hay) : ~Occurs(i)
    /\ s.found >= 0 => Occurs(s.found)
    /\ s.found = -2 => \A j \in 0 .. s.mem - 1 : At(hay, s.h + j) = At(ndl, j)

=============================================================================
