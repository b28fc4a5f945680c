------------------------------ MODULE PoolOps ------------------------------
(***************************************************************************)
(* The private allocator for file contents in fs/fs.c (fpool_init,         *)
(* fpool_coalesce, fpool_alloc, fpool_free), as operators on its block     *)
(* headers.                                                                *)
(*                                                                         *)
(* The pool is PoolBytes of memory cut into blocks, each an 8-byte header  *)
(* {size, free} followed by size bytes of payload.  There is no list: a    *)
(* walk starts at offset 0 and steps from one header to the next.  Here a  *)
(* pool is a function h from the offsets that hold a header to the header. *)
(* A pointer is a payload's offset, so 0 is free to be the null pointer.   *)
(***************************************************************************)
EXTENDS Integers

CONSTANT PoolBytes    \* fpool_bytes, sized from the RAM present at boot

\* fs_set_pool masks the size down to a multiple of 16.
ASSUME PoolAssumption == /\ PoolBytes \in Nat
                         /\ PoolBytes >= 16
                         /\ PoolBytes % 16 = 0

HDR == 8              \* sizeof(fs_pool_block_t)
MIN_SPLIT == 16       \* smallest payload worth a block of its own
NULL == 0

Block == [size : Nat, free : BOOLEAN]

\* Mutant of RoundUp: the mask is missing.
RoundUpNot(bytes) == bytes + 3

\* (bytes + 3u) & ~3u
RoundUp(bytes) == ((bytes + 3) \div 4) * 4

\* One free block that spans the pool.
fpool_init == [o \in {0} |-> [size |-> PoolBytes - HDR, free |-> TRUE]]

NextOff(h, o) == o + HDR + h[o].size

---------------------------------------------------------------------------
(***************************************************************************)
(* fpool_coalesce walks the whole pool and lets each free block swallow    *)
(* the free blocks behind it.  What remains are the run heads: headers     *)
(* that no free block precedes, or that are allocated.  A free head ends   *)
(* up reaching to the next allocated block or to the end of the pool.      *)
(***************************************************************************)
IsHead(h, o) ==
    ~(h[o].free /\ \E p \in DOMAIN h : h[p].free /\ NextOff(h, p) = o)

IsRunEnd(h, o, e) ==
    /\ e > o
    /\ e = PoolBytes \/ (e \in DOMAIN h /\ ~h[e].free)
    /\ \A p \in DOMAIN h : o <= p /\ p < e => h[p].free

RunEnd(h, o) == CHOOSE e \in DOMAIN h \cup {PoolBytes} : IsRunEnd(h, o, e)

fpool_coalesce(h) ==
    [o \in {q \in DOMAIN h : IsHead(h, q)} |->
        IF h[o].free THEN [size |-> RunEnd(h, o) - o - HDR, free |-> TRUE]
                     ELSE h[o]]

---------------------------------------------------------------------------
(***************************************************************************)
(* fpool_alloc: first fit.  The tail of the block becomes a block of its   *)
(* own when it can hold a header and MIN_SPLIT bytes, and otherwise stays  *)
(* with the allocation.                                                    *)
(***************************************************************************)
\* Mutants of Fits: the free flag is not looked at; a block that fits exactly
\* is passed over.
FitsInUse(h, bytes) == {o \in DOMAIN h : h[o].size >= RoundUp(bytes)}
FitsLoosely(h, bytes) == {o \in DOMAIN h : h[o].free /\ h[o].size > RoundUp(bytes)}

Fits(h, bytes) == {o \in DOMAIN h : h[o].free /\ h[o].size >= RoundUp(bytes)}

IsFirstFit(h, bytes, o) ==
    o \in Fits(h, bytes) /\ \A p \in Fits(h, bytes) : o <= p

\* Mutant of Carve: the header of the tail is not taken off its size.
CarveLong(h, o, bytes) ==
    LET need == RoundUp(bytes)
        tail == o + HDR + need
    IN  IF h[o].size - need >= HDR + MIN_SPLIT
        THEN [p \in DOMAIN h \cup {tail} |->
                IF p = o    THEN [size |-> need, free |-> FALSE]
           ELSE IF p = tail THEN [size |-> h[o].size - need, free |-> TRUE]
                            ELSE h[p]]
        ELSE [h EXCEPT ![o].free = FALSE]

Carve(h, o, bytes) ==
    LET need  == RoundUp(bytes)
        extra == h[o].size - need
        tail  == o + HDR + need
    IN  IF extra >= HDR + MIN_SPLIT
        THEN [p \in DOMAIN h \cup {tail} |->
                IF p = o    THEN [size |-> need, free |-> FALSE]
           ELSE IF p = tail THEN [size |-> extra - HDR, free |-> TRUE]
                            ELSE h[p]]
        ELSE [p \in DOMAIN h |->
                IF p = o THEN [size |-> h[o].size, free |-> FALSE] ELSE h[p]]

\* fpool_free: mark the block behind the pointer free and coalesce.
Release(h, ptr) ==
    [p \in DOMAIN h |->
        IF p = ptr - HDR THEN [size |-> h[p].size, free |-> TRUE] ELSE h[p]]

\* Mutant of fpool_free: it does not coalesce.
FreeOnly(h, ptr) == IF ptr = NULL THEN h ELSE Release(h, ptr)

fpool_free(h, ptr) == IF ptr = NULL THEN h ELSE fpool_coalesce(Release(h, ptr))

---------------------------------------------------------------------------
(***************************************************************************)
(* What a pool in good order looks like.                                   *)
(***************************************************************************)
PoolType(h) == /\ DOMAIN h \subseteq 0 .. PoolBytes
               /\ \A o \in DOMAIN h : h[o] \in Block

\* The walk from 0 meets every header and ends exactly at the end.
Linked(h) == /\ 0 \in DOMAIN h
             /\ \A o \in DOMAIN h : /\ NextOff(h, o) <= PoolBytes
                                    /\ \/ NextOff(h, o) = PoolBytes
                                       \/ NextOff(h, o) \in DOMAIN h

\* No header lies inside another block's payload.
Disjoint(h) == \A o, p \in DOMAIN h : o < p => NextOff(h, o) <= p

\* No byte of the pool is lost between two blocks.
Covered(h) == \A k \in 0 .. PoolBytes - 1 :
                \E o \in DOMAIN h : o <= k /\ k < NextOff(h, o)

Aligned(h) == \A o \in DOMAIN h : o % 4 = 0 /\ h[o].size % 4 = 0

Tiled(h) == Linked(h) /\ Disjoint(h) /\ Covered(h)

\* Free space is never left split in two.
Merged(h) == \A o \in DOMAIN h :
    h[o].free /\ NextOff(h, o) \in DOMAIN h => ~h[NextOff(h, o)].free

\* The live allocations: pointer |-> payload bytes.
Live(h) == [ptr \in {o + HDR : o \in {q \in DOMAIN h : ~h[q].free}} |->
                h[ptr - HDR].size]
=============================================================================
