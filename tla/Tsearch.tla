------------------------------ MODULE Tsearch ------------------------------
(***************************************************************************)
(* The balanced trees of search.h: tsearch, tdelete and tfind.             *)
(*                                                                         *)
(* The code keeps the path to a node in an array and walks back up along   *)
(* it; the model walks back out of a recursion.  `changed' is what the     *)
(* code's balance returned: as soon as it is 0, no ancestor is looked at.  *)
(***************************************************************************)
EXTENDS Integers, Sequences, FiniteSets, FiniteSetsExt

CONSTANT Key          \* a set of integers, ordered as cmp orders them

VARIABLES
    root,     \* the tree: <<>>, or a node with its key, height and children
    keys      \* what the program has put into it

vars == <<root, keys>>

Nil == <<>>

Init == root = Nil /\ keys = {}

-----------------------------------------------------------------------------

Height(n) == IF n = Nil THEN 0 ELSE n.h

\* A node, with a child for either side.
Node(key, h, l, r) == [key |-> key, h |-> h, a |-> [d \in {0, 1} |-> IF d = 0 THEN l ELSE r]]

\* rot: the deeper side is dir; the tree that takes the place of x.
Rot(x, dir) ==
    LET other == 1 - dir
        y  == x.a[dir]
        z  == y.a[other]
        hz == Height(z)
    IN  IF hz > Height(y.a[dir])
        THEN [z EXCEPT !.h = hz + 1,
                       !.a[other] = [x EXCEPT !.h = hz, !.a[dir] = z.a[other]],
                       !.a[dir]   = [y EXCEPT !.h = hz, !.a[other] = z.a[dir]]]
        ELSE [y EXCEPT !.h = hz + 2, !.a[other] = [x EXCEPT !.h = hz + 1, !.a[dir] = z]]

\* Mutant of Balance: sides that differ by two are left alone.
BalanceLoosely(n) ==
    LET h0 == Height(n.a[0])
        h1 == Height(n.a[1])
        new == IF h0 - h1 \in -2 .. 2 THEN [n EXCEPT !.h = Max({h0, h1}) + 1]
               ELSE Rot(n, IF h0 < h1 THEN 1 ELSE 0)
    IN  [tree |-> new, changed |-> new.h # n.h]

\* __tsearch_balance.
Balance(n) ==
    LET h0 == Height(n.a[0])
        h1 == Height(n.a[1])
        new == IF h0 - h1 \in -1 .. 1 THEN [n EXCEPT !.h = Max({h0, h1}) + 1]
               ELSE Rot(n, IF h0 < h1 THEN 1 ELSE 0)
    IN  [tree |-> new, changed |-> new.h # n.h]

\* n, once its child on the side d is what sub says.
Rise(n, d, sub) ==
    LET m == [n EXCEPT !.a[d] = sub.tree]
    IN  IF sub.changed THEN Balance(m) ELSE [tree |-> m, changed |-> FALSE]

\* cmp: the side on which key lies.
Side(key, n) == IF key > n.key THEN 1 ELSE 0

\* tsearch.
RECURSIVE Insert(_, _)
Insert(n, key) ==
    IF n = Nil THEN [tree |-> Node(key, 1, Nil, Nil), changed |-> TRUE]
    ELSE IF key = n.key THEN [tree |-> n, changed |-> FALSE]
    ELSE Rise(n, Side(key, n), Insert(n.a[Side(key, n)], key))

\* A node with at most the child on the side d is freed.
Without(n, d) == [tree |-> n.a[d], changed |-> TRUE]

\* The last node of a tree is freed.
RECURSIVE RemoveLast(_)
RemoveLast(n) ==
    IF n.a[1] = Nil THEN Without(n, 0) ELSE Rise(n, 1, RemoveLast(n.a[1]))

RECURSIVE LastKey(_)
LastKey(n) == IF n.a[1] = Nil THEN n.key ELSE LastKey(n.a[1])

\* tdelete: the preceding node is freed instead of one with a left child.
RECURSIVE Delete(_, _)
Delete(n, key) ==
    IF n = Nil THEN [tree |-> Nil, changed |-> FALSE]
    ELSE IF key # n.key THEN Rise(n, Side(key, n), Delete(n.a[Side(key, n)], key))
    ELSE IF n.a[0] = Nil THEN Without(n, 1)
    ELSE Rise([n EXCEPT !.key = LastKey(n.a[0])], 0, RemoveLast(n.a[0]))

\* tfind.
RECURSIVE Find(_, _)
Find(n, key) ==
    IF n = Nil THEN FALSE
    ELSE IF key = n.key THEN TRUE
    ELSE Find(n.a[Side(key, n)], key)

-----------------------------------------------------------------------------

\* Without memory the tree stays as it is.
TsearchCall(key) ==
    /\ root' = Insert(root, key).tree
    /\ keys' = keys \cup {key}

TdeleteCall(key) ==
    /\ root' = Delete(root, key).tree
    /\ keys' = keys \ {key}

Next == \E key \in Key : TsearchCall(key) \/ TdeleteCall(key)

Spec == Init /\ [][Next]_vars

-----------------------------------------------------------------------------
(* Properties.                                                             *)

RECURSIVE InOrder(_)
InOrder(n) == IF n = Nil THEN <<>> ELSE InOrder(n.a[0]) \o <<n.key>> \o InOrder(n.a[1])

\* The height of a tree that is balanced and whose nodes know their heights; -1 of
\* any other tree.
RECURSIVE TrueHeight(_)
TrueHeight(n) ==
    IF n = Nil THEN 0
    ELSE LET l == TrueHeight(n.a[0])
             r == TrueHeight(n.a[1])
         IN  IF l >= 0 /\ r >= 0 /\ l - r \in -1 .. 1 /\ n.h = Max({l, r}) + 1 THEN n.h ELSE -1

\* After any insertions and deletions the tree is balanced and every node knows its
\* height, which is what keeps the path within the MAXH elements of its array.
TreeIsBalanced == TrueHeight(root) >= 0

\* The tree is the set of the keys put into it: each occurs once, in order, and tfind
\* finds exactly these.
TreeIsSet ==
    LET order == InOrder(root)
    IN  /\ Len(order) = Cardinality(keys) /\ {order[i] : i \in DOMAIN order} = keys
        /\ \A i \in 1 .. Len(order) - 1 : order[i] < order[i + 1]
        /\ \A key \in Key : Find(root, key) <=> key \in keys

=============================================================================
