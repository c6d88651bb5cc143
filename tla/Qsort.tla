------------------------------- MODULE Qsort -------------------------------
(***************************************************************************)
(* qsort_r, a smoothsort.  An element stands for `width' bytes, an index   *)
(* for a pointer into the array, and the two words of p for the number     *)
(* whose bits they hold.  A step is a turn of one of the two loops.        *)
(***************************************************************************)
EXTENDS Integers, Sequences, SequencesExt, FiniteSetsExt

CONSTANTS Value, MaxLen       \* the values to be sorted, and the longest array

VARIABLES
    input,    \* the array before the call
    q         \* the array, head, p and pshift, and which loop is being run

vars == <<input, q>>

Init ==
    /\ input \in SeqOf(Value, MaxLen) \ {<<>>}
    /\ q = [arr |-> input, head |-> 1, p |-> 1, pshift |-> 1, phase |-> "build"]

-----------------------------------------------------------------------------

\* The Leonardo numbers: lp.
lp[i \in 0 .. 40] == IF i < 2 THEN 1 ELSE lp[i - 1] + lp[i - 2] + 1

shl(p, n) == p * 2^n
shr(p, n) == p \div 2^n

\* pntz: the first bit that is set, the lowest one excluded.
pntz(p) == IF p = 1 THEN 0 ELSE Min({i \in 1 .. 30 : (p \div 2^i) % 2 = 1})

\* cycle: each element moves to the place before its own in ar, the first to the last.
Cycle(arr, ar) ==
    [i \in DOMAIN arr |-> IF i \notin ToSet(ar) THEN arr[i]
                          ELSE LET k == CHOOSE k \in DOMAIN ar : ar[k] = i
                               IN  IF k = Len(ar) THEN arr[ar[1]] ELSE arr[ar[k + 1]]]

\* The loop of sift: the places along which x sinks.
RECURSIVE SiftPath(_, _, _, _)
SiftPath(arr, x, head, pshift) ==
    LET rt == head - 1
        lf == head - 1 - lp[pshift - 2]
    IN  IF pshift <= 1 \/ (x >= arr[lf] /\ x >= arr[rt]) THEN <<head>>
        ELSE <<head>> \o IF arr[lf] >= arr[rt] THEN SiftPath(arr, x, lf, pshift - 1)
                         ELSE SiftPath(arr, x, rt, pshift - 2)

Sift(arr, head, pshift) == Cycle(arr, SiftPath(arr, arr[head], head, pshift))

\* The loop of trinkle, over the roots of the trees before this one: the places that
\* x passes, and the tree that it ends in.
RECURSIVE TrinklePath(_, _, _, _, _, _, _)
TrinklePath(arr, x, ar, head, p, pshift, trusty) ==
    LET stepson == head - lp[pshift]
        rt == head - 1
        lf == head - 1 - lp[pshift - 2]
        trail == pntz(p)
    IN  IF \/ p = 1
           \/ arr[stepson] <= x
           \/ ~trusty /\ pshift > 1 /\ (arr[rt] >= arr[stepson] \/ arr[lf] >= arr[stepson])
        THEN [ar |-> ar, head |-> head, pshift |-> pshift, trusty |-> trusty]
        ELSE TrinklePath(arr, x, Append(ar, stepson), stepson, shr(p, trail), pshift + trail, FALSE)

Trinkle(arr, head, p, pshift, trusty) ==
    LET path == TrinklePath(arr, arr[head], <<head>>, head, p, pshift, trusty)
    IN  IF path.trusty THEN arr ELSE Sift(Cycle(arr, path.ar), path.head, path.pshift)

-----------------------------------------------------------------------------

High == Len(input)

\* A turn of the first loop: two trees become one, or a tree of one element is begun.
Build ==
    LET merge == q.p % 4 = 3
        up    == IF q.pshift = 1 THEN 1 ELSE q.pshift - 1
        low   == IF merge THEN shr(q.p, 2) ELSE shl(q.p, up)
    IN  /\ q.phase = "build" /\ q.head < High
        /\ q' = [q EXCEPT !.arr = IF ~merge /\ lp[q.pshift - 1] >= High - q.head
                                  THEN Trinkle(@, q.head, q.p, q.pshift, FALSE)
                                  ELSE Sift(@, q.head, q.pshift),
                          !.p = IF low % 2 = 0 THEN low + 1 ELSE low,
                          !.pshift = IF merge THEN @ + 2 ELSE IF @ = 1 THEN 0 ELSE 1,
                          !.head = @ + 1]
        /\ UNCHANGED input

\* The first loop has ended.
Built ==
    /\ q.phase = "build" /\ q.head = High
    /\ q' = [q EXCEPT !.arr = Trinkle(@, q.head, q.p, q.pshift, FALSE), !.phase = "shrink"]
    /\ UNCHANGED input

\* p[0] ^= 7, after two bits have been shifted in, and one out.
Split(p) == shr(IF shl(p, 2) % 8 = 4 THEN shl(p, 2) - 1 ELSE shl(p, 2) + 7, 1)

\* A turn of the second loop: the last element is in its place, and its two subtrees
\* become trees.
Shrink ==
    LET trail == pntz(q.p)
        half  == Split(q.p)
        low   == shl(half, 1) + 1
        first == Trinkle(q.arr, q.head - lp[q.pshift - 2] - 1, half, q.pshift - 1, TRUE)
    IN  /\ q.phase = "shrink" /\ (q.pshift # 1 \/ q.p # 1)
        /\ q' = IF q.pshift <= 1
                THEN [q EXCEPT !.p = shr(@, trail), !.pshift = @ + trail, !.head = @ - 1]
                ELSE [q EXCEPT !.arr = Trinkle(first, q.head - 1, low, q.pshift - 2, TRUE),
                               !.p = low, !.pshift = @ - 2, !.head = @ - 1]
        /\ UNCHANGED input

Sorted ==
    /\ q.phase = "shrink" /\ q.pshift = 1 /\ q.p = 1
    /\ q' = [q EXCEPT !.phase = "sorted"]
    /\ UNCHANGED input

Done == q.phase = "sorted" /\ UNCHANGED vars

Next == Build \/ Built \/ Shrink \/ Sorted \/ Done

Spec == Init /\ [][Next]_vars

-----------------------------------------------------------------------------
(* Properties.                                                             *)

Count(s, v) == Len(SelectSeq(s, LAMBDA x : x = v))

\* While the heaps are taken apart, what lies behind them is sorted and not below
\* anything before it, and the array is a permutation of the input throughout.
TailIsFinal ==
    LET n == Len(input)
    IN  /\ \A v \in Value : Count(q.arr, v) = Count(input, v)
        /\ q.phase # "build" =>
             \A i \in q.head .. n, j \in 1 .. n : j < i => q.arr[j] <= q.arr[i]
        /\ q.phase = "sorted" => \A i \in 1 .. n - 1 : q.arr[i] <= q.arr[i + 1]

=============================================================================
