------------------------------ MODULE Hsearch ------------------------------
(***************************************************************************)
(* The hash table of hcreate, hsearch and hdestroy: open addressing with   *)
(* quadratic probing in a table of 2^n places that grows as it fills.  A   *)
(* table that cannot grow refuses the entry.  A key is the sequence of its *)
(* characters; an entry's data stays with its key.                         *)
(***************************************************************************)
EXTENDS Integers, Sequences, SequencesExt, FiniteSets, FiniteSetsExt

CONSTANTS
    Key,
    MINSIZE,      \* 8 in the code
    Sizes,        \* the nel that hcreate is called with
    SizeBits      \* the width of size_t

VARIABLES
    tab,        \* the table: its places, from 0, and how many of them are used; or NoTable
    entered,    \* the keys that hsearch has accepted
    ret         \* the last search: its key and the place it returned, or None

vars == <<tab, entered, ret>>

Empty == <<>>        \* no key; the empty string is not one of Key
None == -1
NoTable == [places |-> <<>>, used |-> 0]

Init == tab = NoTable /\ entered = {} /\ ret = [key |-> Empty, place |-> None]

keyhash(k) == FoldLeft(LAMBDA h, c : (31 * h + c) % 2^SizeBits, 0, k)

Size(places) == Cardinality(DOMAIN places)

\* The place of the i-th probe.  They repeat after twice the size.
Probe(places, k, i) == ((keyhash(k) + (i * (i + 1)) \div 2) % 2^SizeBits) % Size(places)

\* The place where probing stops: that of the key, or an empty one; None if it never does.
Place(places, k) ==
    LET stops == {i \in 0 .. 2 * Size(places) - 1 : places[Probe(places, k, i)] \in {Empty, k}}
    IN  IF stops = {} THEN None ELSE Probe(places, k, Min(stops))

RECURSIVE PowerFrom(_, _)
PowerFrom(size, nel) == IF size < nel THEN PowerFrom(2 * size, nel) ELSE size

\* The keys of the old places are put in the new ones, in order, where they find room.
Resized(places, nel) ==
    LET size == PowerFrom(MINSIZE, nel)
        old == [i \in 1 .. Size(places) |-> places[i - 1]]
        Put(new, k) == IF k = Empty THEN new ELSE [new EXCEPT ![Place(new, k)] = k]
    IN  FoldLeft(Put, [i \in 0 .. size - 1 |-> Empty], old)

Hcreate(nel) ==
    /\ tab = NoTable
    /\ tab' = [places |-> Resized(<<>>, nel), used |-> 0]
    /\ UNCHANGED <<entered, ret>>

Hdestroy ==
    /\ tab # NoTable
    /\ tab' = NoTable /\ entered' = {} /\ ret' = [key |-> Empty, place |-> None]

TooFull(used, mask) == used > mask - mask \div 4

Found(k) ==
    /\ Place(tab.places, k) # None /\ tab.places[Place(tab.places, k)] = k
    /\ ret' = [key |-> k, place |-> Place(tab.places, k)]
    /\ UNCHANGED <<tab, entered>>

NotFound(k) ==
    /\ Place(tab.places, k) # None /\ tab.places[Place(tab.places, k)] = Empty
    /\ ret' = [key |-> k, place |-> None]
    /\ UNCHANGED <<tab, entered>>

\* A new key with ENTER, in the place or in a larger table.
Entered(k) ==
    LET e == Place(tab.places, k)
        full == [places |-> [tab.places EXCEPT ![e] = k], used |-> tab.used + 1]
        new == IF TooFull(full.used, Size(tab.places) - 1)
               THEN [full EXCEPT !.places = Resized(@, 2 * full.used)] ELSE full
    IN  /\ e # None /\ tab.places[e] = Empty
        /\ tab' = new
        /\ entered' = entered \cup {k}
        /\ ret' = [key |-> k, place |-> Place(new.places, k)]

\* The larger table cannot be allocated: the entry is taken out again.
Refused(k) ==
    LET e == Place(tab.places, k)
    IN  /\ e # None /\ tab.places[e] = Empty
        /\ TooFull(tab.used + 1, Size(tab.places) - 1)
        /\ ret' = [key |-> k, place |-> None]
        /\ UNCHANGED <<tab, entered>>

Next ==
    \/ \E nel \in Sizes : Hcreate(nel)
    \/ Hdestroy
    \/ tab # NoTable /\ \E k \in Key : Found(k) \/ NotFound(k) \/ Entered(k) \/ Refused(k)

Spec == Init /\ [][Next]_vars

-----------------------------------------------------------------------------
(* Properties.                                                             *)

\* Every search ends, and finds exactly the keys that were entered, before and after the
\* table grows and after it has failed to ("the state of tab is still usable").
SearchesEnd ==
    tab # NoTable => \A k \in Key :
       /\ Place(tab.places, k) # None
       /\ tab.places[Place(tab.places, k)] = IF k \in entered THEN k ELSE Empty

\* The place that a search returned holds its key.
EntriesAreReturned ==
    ret.place # None => ret.place \in DOMAIN tab.places /\ tab.places[ret.place] = ret.key

=============================================================================
