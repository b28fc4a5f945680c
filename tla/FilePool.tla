------------------------------ MODULE FilePool ------------------------------
(***************************************************************************)
(* The file-data pool of fs/fs.c as a state machine: its callers allocate  *)
(* any of the sizes Requests and free what they hold, in any order.        *)
(***************************************************************************)
EXTENDS PoolOps

CONSTANT Requests      \* the sizes the callers ask for

ASSUME RequestsAssumption == Requests \subseteq Nat \ {0}

VARIABLES blocks,      \* the headers in the pool
          result       \* the last call and the pointer it returned

poolVars == <<blocks, result>>

PoolInit == /\ blocks = fpool_init
            /\ result = [op |-> "init", arg |-> 0, val |-> NULL]

Alloc(bytes) ==
    \E o \in Fits(blocks, bytes) :
        /\ IsFirstFit(blocks, bytes, o)
        /\ blocks' = Carve(blocks, o, bytes)
        /\ result' = [op |-> "alloc", arg |-> bytes, val |-> o + HDR]

AllocFails(bytes) ==
    /\ Fits(blocks, bytes) = {}
    /\ result' = [op |-> "alloc", arg |-> bytes, val |-> NULL]
    /\ UNCHANGED blocks

Free(ptr) == /\ blocks' = fpool_free(blocks, ptr)
             /\ result' = [op |-> "free", arg |-> ptr, val |-> NULL]

PoolNext == \/ \E bytes \in Requests : Alloc(bytes) \/ AllocFails(bytes)
            \/ \E ptr \in DOMAIN Live(blocks) : Free(ptr)

PoolSpec == PoolInit /\ [][PoolNext]_poolVars

---------------------------------------------------------------------------
(***************************************************************************)
(* Properties.                                                             *)
(***************************************************************************)

\* Every header is well formed: the sizes and flags fs_pool_block_t holds.
HeadersOK == /\ PoolType(blocks)
             /\ Aligned(blocks)
             /\ result \in [op : {"init", "alloc", "free"}, arg : Nat, val : Nat]

\* However calls are interleaved, the blocks tile the pool: the walk in
\* fpool_alloc reaches each of them, none overlaps another, no byte leaks.
PoolTiled == Tiled(blocks)

\* fpool_free leaves no two neighbouring free blocks, so a request is never
\* refused because free space was left in pieces.
PoolMerged == Merged(blocks)

\* fs_file_data_ptr hands out pointers into the pool on the promise that
\* "the pool never moves existing allocations": a block in use keeps its
\* place and its size in every step that does not free it.
NeverMoves == [][\A ptr \in DOMAIN Live(blocks) :
                    \/ result'.op = "free" /\ result'.arg = ptr
                    \/ /\ ptr \in DOMAIN Live(blocks')
                       /\ Live(blocks')[ptr] = Live(blocks)[ptr]]_poolVars

\* The pool is a heap: no overlap, no movement, and fpool_alloc returns NULL
\* only when no gap between live allocations could hold the request.
AbstractHeap == INSTANCE Heap WITH Size <- PoolBytes, Overhead <- HDR,
                                   live <- Live(blocks), ret <- result

ImplementsHeap == AbstractHeap!Spec
=============================================================================
