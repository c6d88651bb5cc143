------------------------------ MODULE Emmalloc ------------------------------
(***************************************************************************)
(* The allocator emmalloc.c: malloc, aligned_alloc, realloc and free over  *)
(* regions with boundary tags and bucketed free lists.                     *)
(*                                                                         *)
(* Memory is counted in words of four bytes.  A region of n words holds    *)
(* its size in its first word and again in its last one, with a flag there *)
(* if it is free; the model writes the flag as a sign.  What lies between  *)
(* belongs to the program or is stale: such a word is 0, and no tag is 0.  *)
(***************************************************************************)
EXTENDS Integers, Sequences, FiniteSets, FiniteSetsExt, SequencesExt

CONSTANTS
    HeapBase, HeapEnd,    \* what the linker leaves for the heap
    MemoryEnd,            \* the limit of memory.grow
    PageWords,            \* PAGE_SIZE; 2^14 in the code
    LargeBucket,          \* the first bucket that is searched further; 30 in the code
    MaxTries,             \* how far it is searched; 99 in the code
    Sizes, Alignments,    \* what the program asks for
    MaxLive               \* and how much it holds

VARIABLES
    h,        \* the heap: tags, free lists, bitmask, root regions, end of memory
    live      \* allocation -> the size and alignment asked for

vars == <<h, live>>

Region == 4           \* sizeof(Region), also of the root and of the sentinel
Header == 2           \* REGION_HEADER_SIZE
MinPayload == 2       \* SMALLEST_ALLOCATION_SIZE
MinAlign == 4         \* MALLOC_ALIGNMENT
Buckets == 0 .. 63

Init ==
    /\ h = [mem |-> [a \in 0 .. MemoryEnd - 1 |-> 0], free |-> [b \in Buckets |-> <<>>],
            used |-> {}, roots |-> <<>>, brk |-> HeapEnd]
    /\ live = <<>>

-----------------------------------------------------------------------------
(* Tags.                                                                   *)

Size(s, r)   == s.mem[r]
Next_(s, r)  == r + Size(s, r)
Tag(s, r)    == s.mem[Next_(s, r) - 1]
IsFree(s, r) == Tag(s, r) < 0
Prev(s, r)   == r - (IF s.mem[r - 1] < 0 THEN -s.mem[r - 1] ELSE s.mem[r - 1])

Mark(s, r, n, tag) ==
    [s EXCEPT !.mem = [a \in DOMAIN @ |-> IF a = r THEN n
                                          ELSE IF a = r + n - 1 THEN tag
                                          ELSE IF a \in r .. r + n - 1 THEN 0 ELSE @[a]]]

CreateUsed(s, r, n) == Mark(s, r, n, n)
CreateFree(s, r, n) == Mark(s, r, n, -n)

-----------------------------------------------------------------------------
(* Free lists.                                                             *)

\* 31 - clz.
Log2(n) == CHOOSE e \in 0 .. 31 : 2^e <= n /\ n < 2^(e + 1)

\* compute_free_list_bucket.  The three or two bits after the leading one of the
\* size in bytes, the leading one taken away by the exclusive or.
Bucket(words) ==
    LET bytes == 4 * words
        e == Log2(bytes)
    IN  IF bytes < 128 THEN bytes \div 8 - 1
        ELSE IF e < 12 THEN 110 - 4 * (31 - e) + (bytes \div 2^(e - 2) - 4)
        ELSE Min({71 - 2 * (31 - e) + (bytes \div 2^(e - 1) - 2), 63})

\* Mutant of Link: the header is not subtracted.
LinkGross(s, r) ==
    LET b == Bucket(Size(s, r))
    IN  [s EXCEPT !.free[b] = <<r>> \o @, !.used = @ \cup {b}]

\* link_to_free_list.
Link(s, r) ==
    LET b == Bucket(Size(s, r) - Header)
    IN  [s EXCEPT !.free[b] = <<r>> \o @, !.used = @ \cup {b}]

\* unlink_from_free_list; the bit of an emptied bucket stays.
Unlink(s, r) == [s EXCEPT !.free = [b \in Buckets |-> Remove(@[b], r)]]

LinkNew(s, r, n) == Link(CreateFree(s, r, n), r)

-----------------------------------------------------------------------------
(* Allocation.                                                             *)

AlignUp(a, align) == ((a + align - 1) \div align) * align

Fails(s) == [h |-> s, ptr |-> 0]

\* The region before a free one grows up to where an aligned payload can begin.
Bump(s, r, by) ==
    IF by = 0 THEN s
    ELSE LET p == Prev(s, r)
         IN  [CreateUsed(s, p, Size(s, p) + by) EXCEPT !.mem[r + by] = Size(s, r) - by]

\* The rest of the region is split off if it can be a region.
Carve(s, r, n) ==
    IF Region + Header + n <= Size(s, r)
    THEN CreateUsed(LinkNew(s, r + Header + n, Size(s, r) - n - Header), r, n + Header)
    ELSE [s EXCEPT !.mem[Next_(s, r) - 1] = Size(s, r)]

\* attempt_allocate.
Attempt(s, r, align, n) ==
    LET by == AlignUp(r + 1, align) - (r + 1)
    IN  IF r + 1 + by + n > Next_(s, r) - 1 THEN Fails(s)
        ELSE [h |-> Carve(Bump(Unlink(s, r), r, by), r + by, n), ptr |-> r + by + 1]

\* The first of some regions that can take it.
RECURSIVE Scan(_, _, _, _)
Scan(s, list, align, n) ==
    IF list = <<>> THEN Fails(s)
    ELSE LET try == Attempt(s, Head(list), align, n)
         IN  IF try.ptr # 0 THEN try ELSE Scan(s, Tail(list), align, n)

\* The loop over the bitmask: only the first region of a bucket is tried and then
\* goes to its end; the bit of an empty bucket is cleared.
RECURSIVE Search(_, _, _, _)
Search(s, b, align, n) ==
    LET rest == {c \in s.used : c >= b}
        i    == Min(rest)
        r    == Head(s.free[i])
        try  == Attempt(s, r, align, n)
    IN  IF rest = {} THEN Fails(s)
        ELSE IF s.free[i] = <<>> THEN Search([s EXCEPT !.used = @ \ {i}], i, align, n)
        ELSE IF try.ptr # 0 THEN try
        ELSE Search([s EXCEPT !.free[i] = Append(Tail(@), r)], i + 1, align, n)

\* claim_more_memory where the new memory follows the last block.
Extend(s, start, end) ==
    LET last  == Prev(s, Prev(s, start))
        grown == [s EXCEPT !.roots[1].end = end]
    IN  IF IsFree(s, last) THEN LinkNew(Unlink(grown, last), last, end - Region - last)
        ELSE LinkNew(grown, start - Region, end - start)

\* claim_more_memory where a new block begins.
Begin(s, start, end) ==
    LinkNew([CreateUsed(s, start, Region) EXCEPT !.roots = <<[start |-> start, end |-> end]>> \o @],
            start + Region, end - start - 2 * Region)

\* claim_more_memory with sbrk: the set is empty if it fails.
Claim(s, n) ==
    LET initial == s.roots = <<>> /\ n <= HeapEnd - HeapBase
        start == IF initial THEN HeapBase ELSE s.brk
        end   == IF initial THEN HeapEnd ELSE s.brk + AlignUp(n, PageWords)
        c     == CreateUsed([s EXCEPT !.brk = IF initial THEN @ ELSE end], end - Region, Region)
    IN  IF end > MemoryEnd THEN {}
        ELSE IF s.roots # <<>> /\ Head(s.roots).end = start THEN {Extend(c, start, end)}
        ELSE {Begin(c, start, end)}

\* allocate_memory, for a validated alignment and size.
RECURSIVE Allocate(_, _, _)
Allocate(s, align, n) ==
    LET found   == Search(s, Bucket(n), align, n)
        t       == found.h
        list    == IF t.used = {} THEN <<>> ELSE t.free[Max(t.used)]
        tried   == IF t.used # {} /\ Max(t.used) >= LargeBucket
                   THEN SubSeq(list, 1, Min({MaxTries, Len(list)})) ELSE <<>>
        further == Scan(t, tried, align, n)
        claimed == Claim(t, n + 3 * Region)
    IN  IF found.ptr # 0 THEN found
        ELSE IF further.ptr # 0 THEN further
        ELSE IF claimed # {} THEN Allocate(CHOOSE c \in claimed : TRUE, align, n)
        ELSE Scan(t, SubSeq(list, Len(tried) + 1, Len(list)), align, n)

\* validate_alloc_alignment and validate_alloc_size.
Memalign(s, align, n) == Allocate(s, Max({align, MinAlign}), Max({n, MinPayload}))

-----------------------------------------------------------------------------
(* free and realloc.                                                       *)

\* emmalloc_free: a free neighbour on either side is merged.
Release(s, r) ==
    LET next  == Next_(s, r)
        left  == s.mem[r - 1] < 0
        right == IsFree(s, next)
        start == IF left THEN Prev(s, r) ELSE r
        end   == IF right THEN Next_(s, next) ELSE next
        cut   == IF left THEN Unlink(s, start) ELSE s
    IN  LinkNew(IF right THEN Unlink(cut, next) ELSE cut, start, end - start)

\* attempt_region_resize, to n words with the header: empty if it fails.
Resize(s, r, n) ==
    LET next == Next_(s, r)
        end  == Next_(s, next)
    IN  IF IsFree(s, next)
        THEN IF r + n + Region <= end THEN {CreateUsed(LinkNew(Unlink(s, next), r + n, end - (r + n)), r, n)}
             ELSE IF r + n <= end THEN {CreateUsed(Unlink(s, next), r, end - r)}
             ELSE {}
        ELSE IF n + Region <= Size(s, r) THEN {LinkNew(CreateUsed(s, r, n), r + n, Size(s, r) - n)}
        ELSE IF n <= Size(s, r) THEN {s}
        ELSE {}

-----------------------------------------------------------------------------
(* What the program does.                                                  *)

Granted(found, align, n, kept) ==
    /\ h' = found.h
    /\ live' = IF found.ptr = 0 THEN live
               ELSE [p \in kept \cup {found.ptr} |-> IF p = found.ptr THEN [n |-> n, align |-> align]
                                                     ELSE live[p]]

\* malloc and calloc, and with other alignments posix_memalign and aligned_alloc.
Malloc(align, n) ==
    /\ Cardinality(DOMAIN live) < MaxLive
    /\ Granted(Memalign(h, align, n), align, n, DOMAIN live)

Free(p) ==
    /\ h' = Release(h, p - 1)
    /\ live' = [q \in DOMAIN live \ {p} |-> live[q]]

\* realloc, to a size that is not 0: in place, or by a new allocation after which
\* the old one is freed.
Realloc(p, n) ==
    LET resized == Resize(h, p - 1, Max({n, MinPayload}) + Header)
        new == Memalign(h, MinAlign, n)
    IN  IF resized # {}
        THEN h' \in resized /\ live' = [live EXCEPT ![p].n = n]
        ELSE Granted(IF new.ptr = 0 THEN new ELSE [new EXCEPT !.h = Release(@, p - 1)],
                     MinAlign, n, DOMAIN live \ {p})

\* Somebody else grows the memory.
Sbrk ==
    /\ h.brk + PageWords <= MemoryEnd
    /\ h' = [h EXCEPT !.brk = @ + PageWords]
    /\ UNCHANGED live

Next ==
    \/ \E align \in Alignments, n \in Sizes : Malloc(align, n)
    \/ \E p \in DOMAIN live : Free(p) \/ \E n \in Sizes : Realloc(p, n)
    \/ Sbrk

Spec == Init /\ [][Next]_vars

-----------------------------------------------------------------------------
(* Properties.                                                             *)

\* The regions from r to the end of its block, as far as their tags agree.
RECURSIVE Walk(_, _)
Walk(r, end) ==
    IF r >= end \/ Size(h, r) < Region \/ r + Size(h, r) > end THEN {}
    ELSE {r} \cup Walk(Next_(h, r), end)

Regions == UNION {Walk(b.start, b.end) : b \in ToSet(h.roots)}

FreeRegions == {r \in Regions : IsFree(h, r)}

\* The memory of each block is covered by regions that lie next to each other, the
\* two tags of each agree, the last one is the sentinel, and no two neighbours are
\* free, as the invariants at the head of emmalloc.c say.
RegionsTile ==
    \A b \in ToSet(h.roots) :
      LET block == Walk(b.start, b.end)
          last  == Max(block)
      IN  /\ b.end <= h.brk /\ Next_(h, last) = b.end /\ Size(h, last) = Region /\ ~IsFree(h, last)
          /\ \A r \in block :
               /\ Tag(h, r) \in {Size(h, r), -Size(h, r)}
               /\ IsFree(h, r) => ~IsFree(h, Next_(h, r))

\* Each free region is in one list, once, in the bucket of its size, and the bit of
\* that bucket is set; nothing else is in a list.
ListsAreExact ==
    \A b \in Buckets :
      /\ IsInjective(h.free[b])
      /\ ToSet(h.free[b]) = {r \in FreeRegions : Bucket(Size(h, r) - Header) = b}
      /\ h.free[b] # <<>> => b \in h.used

\* What the program holds is what is in use: each allocation is the payload of a
\* region of its own, aligned and long enough, and apart from roots and sentinels no
\* other region is in use, so that nothing is lost.
AllocationsHold ==
    /\ \A p \in DOMAIN live :
         /\ p % Max({live[p].align, MinAlign}) = 0
         /\ p - 1 \in Regions /\ ~IsFree(h, p - 1)
         /\ Size(h, p - 1) - Header >= live[p].n
    /\ Regions \ FreeRegions =
         {p - 1 : p \in DOMAIN live} \cup {b.start : b \in ToSet(h.roots)}
         \cup {b.end - Region : b \in ToSet(h.roots)}

\* Every region of a bucket above that of a size can hold it, so that a search may
\* stop at the first region it finds there; and there is such a bucket for every size.
\* The sizes are all that are small and those around the powers of two.
BucketsAscend ==
    h.roots = <<>> =>
      \A n \in MinPayload .. 2100 \cup {2^e + d : e \in 11 .. 27, d \in -1 .. 1} :
        Bucket(n) \in Buckets /\ Bucket(n) <= Bucket(n + 1)

=============================================================================
