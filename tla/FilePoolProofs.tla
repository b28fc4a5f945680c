--------------------------- MODULE FilePoolProofs ---------------------------
(***************************************************************************)
(* Proofs about the file-data pool of fs/fs.c, for every pool size that is *)
(* a multiple of 16 and every set of request sizes:                        *)
(*                                                                         *)
(*   - the blocks always tile the pool and free blocks are never adjacent; *)
(*   - a block in use never moves or changes size;                         *)
(*   - the pool implements the abstract Heap.                              *)
(*                                                                         *)
(* The argument is about fpool_coalesce.  Run heads and run ends exist     *)
(* because offsets are natural numbers (NatMin); from there CoalesceGood   *)
(* shows that a tiled pool is still tiled after a walk, with its free      *)
(* blocks merged, and CoalesceLive that the walk touches no live block.    *)
(***************************************************************************)
EXTENDS FilePool, TLAPS, WellFoundedInduction

\* The part of the invariant that fpool_coalesce takes and returns.
Good(h) == PoolType(h) /\ Aligned(h) /\ Tiled(h)

---------------------------------------------------------------------------
(***************************************************************************)
(* Arithmetic.                                                             *)
(***************************************************************************)

\* Every non-empty set of offsets has a least one: the walks of fs/fs.c end.
LEMMA NatMin ==
    ASSUME NEW S, S \subseteq Nat, S # {}
    PROVE  \E m \in S : \A k \in S : m <= k
<1>1. PICK m \in S : \A k \in S : ~(<<k, m>> \in OpToRel(<, Nat))
  BY NatLessThanWellFounded, WFMin
<1>2. \A k \in S : ~(k < m)
  BY <1>1 DEF OpToRel
<1> QED BY <1>2

\* Rounding a request up to words never makes it smaller.
LEMMA RoundUpFacts ==
    ASSUME NEW n \in Nat
    PROVE  RoundUp(n) \in Nat /\ RoundUp(n) >= n /\ RoundUp(n) % 4 = 0
BY DEF RoundUp

\* The end of a block lies behind its start, in the natural numbers.
LEMMA NextOffFacts ==
    ASSUME NEW h, PoolType(h), NEW o \in DOMAIN h
    PROVE  /\ o \in Nat /\ h[o].size \in Nat /\ h[o].free \in BOOLEAN
           /\ NextOff(h, o) \in Nat
           /\ NextOff(h, o) = o + 8 + h[o].size
           /\ o < NextOff(h, o)
BY PoolAssumption DEF PoolType, Block, NextOff, HDR

---------------------------------------------------------------------------
(***************************************************************************)
(* fpool_init and fpool_alloc.                                             *)
(***************************************************************************)

\* fpool_init leaves one free block that is the whole pool.
LEMMA InitGood == Good(fpool_init) /\ Merged(fpool_init)
<1>1. /\ DOMAIN fpool_init = {0}
      /\ fpool_init[0] = [size |-> PoolBytes - 8, free |-> TRUE]
      /\ NextOff(fpool_init, 0) = PoolBytes
  BY PoolAssumption DEF fpool_init, NextOff, HDR
<1>2. PoolType(fpool_init)
  <2>1. PoolBytes - 8 \in Nat /\ 0 \in 0 .. PoolBytes
    BY PoolAssumption
  <2>2. [size |-> PoolBytes - 8, free |-> TRUE] \in Block
    BY <2>1 DEF Block
  <2> QED BY <1>1, <2>1, <2>2 DEF PoolType
<1>3. Aligned(fpool_init)
  BY <1>1, PoolAssumption DEF Aligned
<1>4. Tiled(fpool_init)
  BY <1>1, PoolAssumption DEF Tiled, Linked, Disjoint, Covered
<1>5. Merged(fpool_init)
  BY <1>1, PoolAssumption DEF Merged
<1> QED BY <1>2, <1>3, <1>4, <1>5 DEF Good

\* A split puts the new header inside the block it splits, nowhere else.
LEMMA CarveSplit ==
    ASSUME NEW h, Good(h), Merged(h), NEW bytes \in Nat, NEW o \in Fits(h, bytes),
           h[o].size - RoundUp(bytes) >= HDR + MIN_SPLIT
    PROVE  /\ Good(Carve(h, o, bytes))
           /\ Merged(Carve(h, o, bytes))
<1> DEFINE need == RoundUp(bytes)
           t    == o + HDR + need
           c    == Carve(h, o, bytes)
<1>1. /\ o \in DOMAIN h /\ h[o].free /\ h[o].size >= need
      /\ need \in Nat /\ need % 4 = 0
  BY RoundUpFacts DEF Fits
<1>2. PoolType(h) /\ Aligned(h) /\ Linked(h) /\ Disjoint(h) /\ Covered(h)
  BY DEF Good, Tiled
<1>3. /\ DOMAIN c = DOMAIN h \cup {t}
      /\ c[o] = [size |-> need, free |-> FALSE]
      /\ c[t] = [size |-> h[o].size - need - HDR, free |-> TRUE]
      /\ \A p \in DOMAIN h : p # o /\ p # t => c[p] = h[p]
  BY <1>1, <1>2, NextOffFacts DEF Carve, HDR
<1>4. /\ o < t /\ t < NextOff(h, o) /\ t \in Nat /\ t % 4 = 0
      /\ NextOff(c, o) = t
      /\ NextOff(c, t) = NextOff(h, o)
  BY <1>1, <1>2, <1>3, NextOffFacts DEF NextOff, HDR, MIN_SPLIT, Aligned
<1>5. t \notin DOMAIN h
  BY <1>1, <1>2, <1>4, NextOffFacts DEF Disjoint
<1>6. \A p \in DOMAIN h : p # o => c[p] = h[p] /\ NextOff(c, p) = NextOff(h, p)
  BY <1>3, <1>5 DEF NextOff
<1> HIDE DEF c, t, need
<1>7. PoolType(c)
  <2>1. t \in 0 .. PoolBytes
    BY <1>1, <1>2, <1>4, PoolAssumption, NextOffFacts DEF Linked
  <2>2. h[o].size - need - HDR \in Nat
    BY <1>1, <1>2, NextOffFacts DEF HDR, MIN_SPLIT, need
  <2>3. c[t] \in Block /\ c[o] \in Block
    BY <1>1, <1>3, <2>2 DEF Block
  <2> QED BY <1>2, <1>3, <2>1, <2>3 DEF PoolType
<1>8. Aligned(c)
  <2>1. o % 4 = 0 /\ c[o].size % 4 = 0
    BY <1>1, <1>2, <1>3 DEF Aligned
  <2>2. (h[o].size - need - 8) % 4 = 0
    <3>1. h[o].size \in Nat /\ h[o].size % 4 = 0
      BY <1>1, <1>2, NextOffFacts DEF Aligned
    <3> QED  BY <3>1, <1>1
  <2>3. t % 4 = 0 /\ c[t].size % 4 = 0
    BY <1>3, <1>4, <2>2 DEF HDR
  <2>4. \A p \in DOMAIN h : p # o => p % 4 = 0 /\ c[p].size % 4 = 0
    BY <1>2, <1>6 DEF Aligned
  <2> QED  BY <1>3, <2>1, <2>3, <2>4 DEF Aligned
<1>9. Linked(c)
  <2>1. 0 \in DOMAIN c
    BY <1>2, <1>3 DEF Linked
  <2> SUFFICES ASSUME NEW p \in DOMAIN c
               PROVE  /\ NextOff(c, p) <= PoolBytes
                      /\ NextOff(c, p) = PoolBytes \/ NextOff(c, p) \in DOMAIN c
    BY <2>1 DEF Linked
  <2>2. CASE p = o
    <3>1. NextOff(h, o) <= PoolBytes /\ NextOff(h, o) \in Nat
      BY <1>1, <1>2, NextOffFacts DEF Linked
    <3> QED BY <1>3, <1>4, <2>2, <3>1, PoolAssumption
  <2>3. CASE p = t
    BY <1>1, <1>2, <1>3, <1>4, <2>3 DEF Linked
  <2>4. CASE p # o /\ p # t
    BY <1>2, <1>3, <1>6, <2>4 DEF Linked
  <2> QED BY <2>2, <2>3, <2>4
<1>10. Disjoint(c)
  <2> SUFFICES ASSUME NEW a \in DOMAIN c, NEW b \in DOMAIN c, a < b
               PROVE  NextOff(c, a) <= b
    BY DEF Disjoint
  <2>1. CASE a = t
    <3>1. b \in DOMAIN h /\ b # o
      BY <1>1, <1>2, <1>3, <1>4, <2>1, NextOffFacts
    <3>2. o < b
      BY <1>1, <1>2, <1>4, <2>1, <3>1, NextOffFacts
    <3> QED BY <1>1, <1>2, <1>4, <2>1, <3>1, <3>2 DEF Disjoint
  <2>2. CASE a # t /\ b = t
    <3>1. a \in DOMAIN h
      BY <1>3, <2>2
    <3>2. CASE a = o
      BY <1>4, <2>2, <3>2
    <3>3. CASE a # o
      <4>1. a < o
        BY <1>1, <1>2, <1>4, <2>2, <3>1, <3>3, NextOffFacts DEF Disjoint
      <4> QED BY <1>1, <1>2, <1>4, <1>6, <2>2, <3>1, <3>3, <4>1, NextOffFacts
              DEF Disjoint
    <3> QED BY <3>2, <3>3
  <2>3. CASE a # t /\ b # t
    BY <1>1, <1>2, <1>3, <1>4, <1>6, <2>3, NextOffFacts DEF Disjoint
  <2> QED BY <2>1, <2>2, <2>3
<1>11. Covered(c)
  <2> SUFFICES ASSUME NEW k \in 0 .. PoolBytes - 1
               PROVE  \E q \in DOMAIN c : q <= k /\ k < NextOff(c, q)
    BY DEF Covered
  <2>1. PICK q \in DOMAIN h : q <= k /\ k < NextOff(h, q)
    BY <1>2 DEF Covered
  <2>2. CASE q # o
    BY <1>3, <1>6, <2>1, <2>2
  <2>3. CASE q = o
    BY <1>1, <1>3, <1>4, <2>1, <2>3, PoolAssumption
  <2> QED BY <2>2, <2>3
<1>12. Merged(c)
  <2> SUFFICES ASSUME NEW p \in DOMAIN c, c[p].free, NextOff(c, p) \in DOMAIN c
               PROVE  ~c[NextOff(c, p)].free
    BY DEF Merged
  <2>1. CASE p = t
    <3>1. NextOff(h, o) \in DOMAIN h /\ NextOff(h, o) # o
      BY <1>1, <1>2, <1>3, <1>4, <2>1, NextOffFacts
    <3> QED BY <1>1, <1>4, <1>6, <2>1, <3>1 DEF Merged
  <2>2. CASE p # t
    <3>1. p \in DOMAIN h /\ p # o /\ h[p].free /\ NextOff(c, p) = NextOff(h, p)
      BY <1>3, <1>6, <2>2
    <3>2. CASE NextOff(h, p) = o
      BY <1>3, <3>1, <3>2
    <3>3. CASE NextOff(h, p) = t
      <4>1. p < o \/ o < p
        BY <1>1, <1>2, <3>1, NextOffFacts
      <4> QED BY <1>1, <1>2, <1>4, <3>1, <3>3, <4>1, NextOffFacts DEF Disjoint
    <3>4. CASE NextOff(h, p) # o /\ NextOff(h, p) # t
      BY <1>3, <1>6, <3>1, <3>4 DEF Merged
    <3> QED BY <3>2, <3>3, <3>4
  <2> QED BY <2>1, <2>2
<1> QED BY <1>7, <1>8, <1>9, <1>10, <1>11, <1>12 DEF c, Good, Tiled

\* Taking a block whole only clears its free flag.
LEMMA CarveWhole ==
    ASSUME NEW h, Good(h), Merged(h), NEW bytes \in Nat, NEW o \in Fits(h, bytes),
           ~(h[o].size - RoundUp(bytes) >= HDR + MIN_SPLIT)
    PROVE  /\ Good(Carve(h, o, bytes))
           /\ Merged(Carve(h, o, bytes))
<1> DEFINE c == Carve(h, o, bytes)
<1>1. o \in DOMAIN h
  BY DEF Fits
<1>2. /\ DOMAIN c = DOMAIN h
      /\ c[o] = [size |-> h[o].size, free |-> FALSE]
      /\ \A p \in DOMAIN h : p # o => c[p] = h[p]
  BY <1>1 DEF Carve
<1>3. \A p \in DOMAIN h : /\ c[p].size = h[p].size
                          /\ c[p].free => h[p].free
                          /\ NextOff(c, p) = NextOff(h, p)
  BY <1>1, <1>2 DEF NextOff
<1> HIDE DEF c
<1>4. PoolType(c)
  <2>1. h[o].size \in Nat
    BY <1>1, NextOffFacts DEF Good
  <2>2. c[o] \in Block
    BY <1>2, <2>1 DEF Block
  <2> QED BY <1>2, <2>2 DEF Good, PoolType
<1>5. Aligned(c) /\ Tiled(c)
  BY <1>2, <1>3 DEF Good, Aligned, Tiled, Linked, Disjoint, Covered
<1>6. Merged(c)
  BY <1>2, <1>3 DEF Merged
<1> QED BY <1>4, <1>5, <1>6 DEF c, Good

\* fpool_alloc keeps the pool in good order.
LEMMA CarveGood ==
    ASSUME NEW h, Good(h), Merged(h), NEW bytes \in Nat, NEW o \in Fits(h, bytes)
    PROVE  /\ Good(Carve(h, o, bytes))
           /\ Merged(Carve(h, o, bytes))
BY CarveSplit, CarveWhole

---------------------------------------------------------------------------
(***************************************************************************)
(* fpool_coalesce.                                                         *)
(***************************************************************************)

\* The block that ends where p starts: Covered gives it, Disjoint fixes it.
LEMMA Predecessor ==
    ASSUME NEW h, Good(h), NEW p \in DOMAIN h, p > 0
    PROVE  \E q \in DOMAIN h : q < p /\ NextOff(h, q) = p
<1>1. p \in Nat /\ p - 1 \in 0 .. PoolBytes - 1
  BY PoolAssumption DEF Good, PoolType
<1>2. PICK q \in DOMAIN h : q <= p - 1 /\ p - 1 < NextOff(h, q)
  BY <1>1 DEF Good, Tiled, Covered
<1>3. q \in Nat /\ NextOff(h, q) \in Nat
  BY NextOffFacts DEF Good
<1>4. NextOff(h, q) <= p
  BY <1>1, <1>2, <1>3 DEF Good, Tiled, Disjoint
<1> QED BY <1>1, <1>2, <1>3, <1>4

\* Two blocks that end at the same place are the same block.
LEMMA SameEnd ==
    ASSUME NEW h, Good(h), NEW p \in DOMAIN h, NEW q \in DOMAIN h,
           NextOff(h, p) = NextOff(h, q)
    PROVE  p = q
<1>1. /\ p \in Nat /\ q \in Nat /\ NextOff(h, p) \in Nat
      /\ p < NextOff(h, p) /\ q < NextOff(h, q)
  BY NextOffFacts DEF Good
<1> QED BY <1>1 DEF Good, Tiled, Disjoint

\* Every free block starts a run that ends somewhere: the walk of
\* fpool_coalesce stops at the first allocated block or at the end.
LEMMA RunEndExists ==
    ASSUME NEW h, Good(h), NEW o \in DOMAIN h, h[o].free
    PROVE  /\ RunEnd(h, o) \in DOMAIN h \cup {PoolBytes}
           /\ IsRunEnd(h, o, RunEnd(h, o))
<1> DEFINE E == {e \in DOMAIN h \cup {PoolBytes} :
                    e > o /\ (e = PoolBytes \/ (e \in DOMAIN h /\ ~h[e].free))}
<1>1. DOMAIN h \subseteq Nat /\ o \in Nat /\ PoolBytes \in Nat
  BY PoolAssumption DEF Good, PoolType
<1>2. o < PoolBytes
  BY <1>1, NextOffFacts DEF Good, Tiled, Linked
<1>3. E \subseteq Nat /\ E # {}
  BY <1>1, <1>2
<1>4. PICK e \in E : \A k \in E : e <= k
  BY <1>3, NatMin
<1>5. \A p \in DOMAIN h : o <= p /\ p < e => h[p].free
  <2> SUFFICES ASSUME NEW p \in DOMAIN h, o <= p, p < e, ~h[p].free
               PROVE  FALSE
    OBVIOUS
  <2>1. p # o
    OBVIOUS
  <2>2. p \in E
    BY <1>1, <2>1
  <2> QED BY <1>1, <1>3, <1>4, <2>2
<1>6. IsRunEnd(h, o, e)
  BY <1>4, <1>5 DEF IsRunEnd
<1> QED BY <1>4, <1>6 DEF RunEnd

\* The header each walk of fpool_coalesce leaves, and where its block ends.
LEMMA CoalesceShape ==
    ASSUME NEW h, Good(h)
    PROVE  LET c == fpool_coalesce(h)
           IN  /\ DOMAIN c = {o \in DOMAIN h : IsHead(h, o)}
               /\ \A o \in DOMAIN c :
                    /\ c[o].free = h[o].free
                    /\ ~h[o].free => c[o] = h[o] /\ NextOff(c, o) = NextOff(h, o)
                    /\ h[o].free => /\ c[o].size = RunEnd(h, o) - o - HDR
                                    /\ NextOff(c, o) = RunEnd(h, o)
                                    /\ NextOff(h, o) <= RunEnd(h, o)
                    /\ c[o] \in Block
<1> DEFINE c == fpool_coalesce(h)
<1>1. DOMAIN c = {o \in DOMAIN h : IsHead(h, o)}
  BY DEF fpool_coalesce
<1>2. ASSUME NEW o \in DOMAIN c
      PROVE  /\ c[o].free = h[o].free
             /\ ~h[o].free => c[o] = h[o] /\ NextOff(c, o) = NextOff(h, o)
             /\ h[o].free => /\ c[o].size = RunEnd(h, o) - o - HDR
                             /\ NextOff(c, o) = RunEnd(h, o)
                             /\ NextOff(h, o) <= RunEnd(h, o)
             /\ c[o] \in Block
  <2>1. o \in DOMAIN h /\ o \in Nat /\ h[o] \in Block
    BY <1>1, NextOffFacts DEF Good, PoolType
  <2>2. CASE ~h[o].free
    <3>1. c[o] = h[o]
      BY <1>1, <2>2 DEF fpool_coalesce
    <3> QED BY <2>1, <2>2, <3>1 DEF NextOff
  <2>3. CASE h[o].free
    <3>1. c[o] = [size |-> RunEnd(h, o) - o - HDR, free |-> TRUE]
      BY <1>1, <2>3 DEF fpool_coalesce
    <3>2. /\ RunEnd(h, o) \in DOMAIN h \cup {PoolBytes}
          /\ RunEnd(h, o) > o
      BY <2>1, <2>3, RunEndExists DEF IsRunEnd
    <3>3. RunEnd(h, o) \in Nat
      BY <3>2, PoolAssumption, NextOffFacts DEF Good
    <3>4. NextOff(h, o) <= RunEnd(h, o)
      BY <2>1, <3>2, <3>3 DEF Good, Tiled, Disjoint, Linked
    <3>5. h[o].size \in Nat /\ NextOff(h, o) = o + 8 + h[o].size
      BY <2>1, NextOffFacts DEF Good
    <3>6. RunEnd(h, o) - o - HDR \in Nat
      BY <2>1, <3>3, <3>4, <3>5 DEF HDR
    <3>7. c[o] \in Block
      BY <3>1, <3>6 DEF Block
    <3>8. NextOff(c, o) = RunEnd(h, o)
      BY <2>1, <3>1, <3>3 DEF NextOff, HDR
    <3> QED BY <2>3, <3>1, <3>4, <3>7, <3>8
  <2> QED BY <2>2, <2>3
<1> QED BY <1>1, <1>2

\* An allocated block is never swallowed, and neither is the block behind it.
LEMMA AllocatedHeads ==
    ASSUME NEW h, Good(h), NEW o \in DOMAIN h, ~h[o].free
    PROVE  /\ IsHead(h, o)
           /\ NextOff(h, o) \in DOMAIN h => IsHead(h, NextOff(h, o))
<1>1. IsHead(h, o)
  BY DEF IsHead
<1>2. ASSUME NextOff(h, o) \in DOMAIN h
      PROVE  IsHead(h, NextOff(h, o))
  BY SameEnd DEF IsHead
<1> QED BY <1>1, <1>2

\* Every free block belongs to the run of some head.
LEMMA HeadOfRun ==
    ASSUME NEW h, Good(h), NEW q \in DOMAIN h, h[q].free
    PROVE  \E o \in DOMAIN h : /\ IsHead(h, o) /\ h[o].free
                               /\ o <= q /\ NextOff(h, q) <= RunEnd(h, o)
<1> DEFINE S == {o \in DOMAIN h :
                    o <= q /\ \A p \in DOMAIN h : o <= p /\ p <= q => h[p].free}
<1>1. DOMAIN h \subseteq Nat /\ q \in Nat /\ NextOff(h, q) \in Nat
  BY NextOffFacts DEF Good
<1>2. q \in S
  BY <1>1
<1>3. PICK o \in S : \A k \in S : o <= k
  <2>1. S \subseteq Nat /\ S # {}
    BY <1>1, <1>2
  <2> QED BY <2>1, NatMin
<1>4. o \in DOMAIN h /\ o \in Nat /\ h[o].free /\ o <= q
  BY <1>1, <1>3
<1>5. IsHead(h, o)
  <2> SUFFICES ASSUME NEW p \in DOMAIN h, h[p].free, NextOff(h, p) = o
               PROVE  FALSE
    BY DEF IsHead
  <2>1. p \in Nat /\ p < o
    BY NextOffFacts DEF Good
  <2>2. \A r \in DOMAIN h : p < r => o <= r
    BY DEF Good, Tiled, Disjoint
  <2>3. p \in S
    BY <1>1, <1>3, <1>4, <2>1, <2>2
  <2> QED BY <1>3, <1>4, <2>1, <2>3
<1>6. /\ RunEnd(h, o) \in DOMAIN h \cup {PoolBytes}
      /\ IsRunEnd(h, o, RunEnd(h, o))
  BY <1>4, RunEndExists
<1>7. NextOff(h, q) <= RunEnd(h, o)
  <2>1. CASE RunEnd(h, o) = PoolBytes
    BY <2>1 DEF Good, Tiled, Linked
  <2>2. CASE RunEnd(h, o) # PoolBytes
    <3>1. RunEnd(h, o) \in DOMAIN h /\ ~h[RunEnd(h, o)].free /\ RunEnd(h, o) > o
      BY <1>6, <2>2 DEF IsRunEnd
    <3>2. ~(RunEnd(h, o) <= q)
      BY <1>1, <1>3, <1>4, <3>1
    <3> QED BY <1>1, <3>1, <3>2 DEF Good, Tiled, Disjoint
  <2> QED BY <2>1, <2>2
<1> QED BY <1>4, <1>5, <1>7

\* fpool_coalesce returns a tiled pool with no two free neighbours.
LEMMA CoalesceGood ==
    ASSUME NEW h, Good(h)
    PROVE  Good(fpool_coalesce(h)) /\ Merged(fpool_coalesce(h))
<1> DEFINE c == fpool_coalesce(h)
<1>1. /\ DOMAIN c = {o \in DOMAIN h : IsHead(h, o)}
      /\ \A o \in DOMAIN c :
           /\ c[o].free = h[o].free
           /\ ~h[o].free => c[o] = h[o] /\ NextOff(c, o) = NextOff(h, o)
           /\ h[o].free => /\ c[o].size = RunEnd(h, o) - o - HDR
                           /\ NextOff(c, o) = RunEnd(h, o)
                           /\ NextOff(h, o) <= RunEnd(h, o)
           /\ c[o] \in Block
  BY CoalesceShape
<1> HIDE DEF c
<1>2. \A o \in DOMAIN h : h[o].free =>
           /\ RunEnd(h, o) \in DOMAIN h \cup {PoolBytes}
           /\ IsRunEnd(h, o, RunEnd(h, o))
  BY RunEndExists
<1>3. PoolType(c)
  BY <1>1 DEF Good, PoolType
<1>4. DOMAIN h \subseteq Nat /\ PoolBytes \in Nat
  BY PoolAssumption DEF Good, PoolType
<1>5. Aligned(c)
  <2> SUFFICES ASSUME NEW o \in DOMAIN c
               PROVE  o % 4 = 0 /\ c[o].size % 4 = 0
    BY DEF Aligned
  <2>1. o \in DOMAIN h /\ o \in Nat /\ o % 4 = 0 /\ h[o].size % 4 = 0
    BY <1>1, <1>4 DEF Good, Aligned
  <2>2. CASE ~h[o].free
    BY <1>1, <2>1, <2>2
  <2>3. CASE h[o].free
    <3>1. RunEnd(h, o) \in Nat /\ RunEnd(h, o) % 4 = 0
      BY <1>2, <1>4, <2>1, <2>3, PoolAssumption DEF Good, Aligned
    <3>2. c[o].size = RunEnd(h, o) - o - 8
      BY <1>1, <2>3 DEF HDR
    <3> QED BY <2>1, <3>1, <3>2
  <2> QED BY <2>2, <2>3
<1>6. Linked(c)
  <2>1. 0 \in DOMAIN c
    <3>1. 0 \in DOMAIN h
      BY DEF Good, Tiled, Linked
    <3>2. \A p \in DOMAIN h : NextOff(h, p) # 0
      BY NextOffFacts DEF Good
    <3> QED BY <1>1, <3>1, <3>2 DEF IsHead
  <2> SUFFICES ASSUME NEW o \in DOMAIN c
               PROVE  /\ NextOff(c, o) <= PoolBytes
                      /\ NextOff(c, o) = PoolBytes \/ NextOff(c, o) \in DOMAIN c
    BY <2>1 DEF Linked
  <2>2. o \in DOMAIN h
    BY <1>1
  <2>3. CASE h[o].free
    <3>1. NextOff(c, o) = RunEnd(h, o)
      BY <1>1, <2>3
    <3>2. CASE RunEnd(h, o) = PoolBytes
      BY <1>4, <3>1, <3>2
    <3>3. CASE RunEnd(h, o) # PoolBytes
      <4>1. RunEnd(h, o) \in DOMAIN h /\ ~h[RunEnd(h, o)].free
        BY <1>2, <2>2, <2>3, <3>3 DEF IsRunEnd
      <4>2. RunEnd(h, o) <= PoolBytes
        BY <4>1 DEF Good, PoolType
      <4> QED BY <1>1, <3>1, <4>1, <4>2, AllocatedHeads
    <3> QED BY <3>2, <3>3
  <2>4. CASE ~h[o].free
    <3>1. NextOff(c, o) = NextOff(h, o)
      BY <1>1, <2>4
    <3>2. NextOff(h, o) \in DOMAIN h => NextOff(h, o) \in DOMAIN c
      BY <1>1, <2>2, <2>4, AllocatedHeads
    <3> QED BY <2>2, <3>1, <3>2 DEF Good, Tiled, Linked
  <2> QED BY <2>3, <2>4
<1>7. Disjoint(c)
  <2> SUFFICES ASSUME NEW o \in DOMAIN c, NEW p \in DOMAIN c, o < p
               PROVE  NextOff(c, o) <= p
    BY DEF Disjoint
  <2>1. o \in DOMAIN h /\ p \in DOMAIN h /\ IsHead(h, p) /\ o \in Nat /\ p \in Nat
    BY <1>1, <1>4
  <2>2. CASE ~h[o].free
    BY <1>1, <2>1, <2>2 DEF Good, Tiled, Disjoint
  <2>3. CASE h[o].free
    <3> SUFFICES ASSUME p < RunEnd(h, o)
                 PROVE  FALSE
      <4>1. RunEnd(h, o) \in Nat /\ NextOff(c, o) = RunEnd(h, o)
        BY <1>1, <1>2, <1>4, <2>1, <2>3
      <4> QED BY <2>1, <4>1
    <3>1. \A r \in DOMAIN h : o <= r /\ r < RunEnd(h, o) => h[r].free
      BY <1>2, <2>1, <2>3 DEF IsRunEnd
    <3>2. PICK q \in DOMAIN h : q < p /\ NextOff(h, q) = p
      BY <2>1, Predecessor
    <3>3. o <= q
      BY <1>4, <2>1, <3>2 DEF Good, Tiled, Disjoint
    <3>4. RunEnd(h, o) \in Nat /\ q \in Nat
      BY <1>2, <1>4, <2>1, <2>3
    <3>5. h[p].free /\ h[q].free
      BY <2>1, <3>1, <3>2, <3>3, <3>4
    <3> QED BY <2>1, <3>2, <3>5 DEF IsHead
  <2> QED BY <2>2, <2>3
<1>8. Covered(c)
  <2> SUFFICES ASSUME NEW k \in 0 .. PoolBytes - 1
               PROVE  \E o \in DOMAIN c : o <= k /\ k < NextOff(c, o)
    BY DEF Covered
  <2>1. PICK q \in DOMAIN h : q <= k /\ k < NextOff(h, q)
    BY DEF Good, Tiled, Covered
  <2>2. CASE ~h[q].free
    BY <1>1, <2>1, <2>2, AllocatedHeads
  <2>3. CASE h[q].free
    <3>1. PICK o \in DOMAIN h : /\ IsHead(h, o) /\ h[o].free
                                /\ o <= q /\ NextOff(h, q) <= RunEnd(h, o)
      BY <2>3, HeadOfRun
    <3>2. o \in DOMAIN c /\ NextOff(c, o) = RunEnd(h, o)
      BY <1>1, <3>1
    <3>3. o \in Nat /\ q \in Nat /\ NextOff(h, q) \in Nat /\ RunEnd(h, o) \in Nat
      BY <1>2, <1>4, <3>1, NextOffFacts DEF Good
    <3> QED BY <1>4, <2>1, <3>1, <3>2, <3>3
  <2> QED BY <2>2, <2>3
<1>9. Merged(c)
  <2> SUFFICES ASSUME NEW o \in DOMAIN c, c[o].free, NextOff(c, o) \in DOMAIN c
               PROVE  ~c[NextOff(c, o)].free
    BY DEF Merged
  <2>1. h[o].free /\ NextOff(c, o) = RunEnd(h, o) /\ o \in DOMAIN h
    BY <1>1
  <2>2. RunEnd(h, o) \in DOMAIN h /\ RunEnd(h, o) < PoolBytes
    <3>1. RunEnd(h, o) \in DOMAIN h
      BY <1>1, <2>1
    <3> QED BY <3>1, <1>4, NextOffFacts DEF Good, Tiled, Linked
  <2>3. ~h[RunEnd(h, o)].free
    BY <1>2, <1>4, <2>1, <2>2 DEF IsRunEnd
  <2> QED BY <1>1, <2>1, <2>3
<1> QED BY <1>3, <1>5, <1>6, <1>7, <1>8, <1>9 DEF c, Good, Tiled

---------------------------------------------------------------------------
(***************************************************************************)
(* What each operation does to the live allocations.                       *)
(***************************************************************************)

\* A live pointer is the payload of an allocated block, and conversely.
LEMMA LiveFacts ==
    ASSUME NEW h, PoolType(h)
    PROVE  /\ \A o \in DOMAIN h : ~h[o].free =>
                /\ o + HDR \in DOMAIN Live(h)
                /\ Live(h)[o + HDR] = h[o].size
           /\ \A p \in DOMAIN Live(h) :
                /\ p \in Nat /\ p - HDR \in DOMAIN h /\ ~h[p - HDR].free
                /\ Live(h)[p] = h[p - HDR].size
<1>1. DOMAIN h \subseteq Nat
  BY PoolAssumption DEF PoolType
<1>2. \A o \in DOMAIN h : (o + HDR) - HDR = o
  BY <1>1 DEF HDR
<1>3. \A p \in DOMAIN Live(h) : \E o \in DOMAIN h : ~h[o].free /\ p = o + HDR
  BY DEF Live
<1>4. \A o \in DOMAIN h : ~h[o].free => o + HDR \in DOMAIN Live(h)
  BY DEF Live
<1>5. \A p \in DOMAIN Live(h) : Live(h)[p] = h[p - HDR].size
  BY DEF Live
<1>6. \A p \in DOMAIN Live(h) :
         p \in Nat /\ p - HDR \in DOMAIN h /\ ~h[p - HDR].free
  BY <1>1, <1>2, <1>3 DEF HDR
<1> QED BY <1>2, <1>4, <1>5, <1>6

\* Two pools with the same allocated blocks have the same live allocations.
LEMMA SameLive ==
    ASSUME NEW g, PoolType(g), NEW h, PoolType(h),
           \A o : (o \in DOMAIN g /\ ~g[o].free) <=> (o \in DOMAIN h /\ ~h[o].free),
           \A o \in DOMAIN g : ~g[o].free => g[o].size = h[o].size
    PROVE  Live(g) = Live(h)
<1>1. {q \in DOMAIN g : ~g[q].free} = {q \in DOMAIN h : ~h[q].free}
  OBVIOUS
<1>2. DOMAIN Live(g) = DOMAIN Live(h)
  BY <1>1 DEF Live
<1>3. \A p \in DOMAIN Live(g) : Live(g)[p] = Live(h)[p]
  BY <1>2, LiveFacts
<1>4. /\ Live(g) = [p \in DOMAIN Live(g) |-> Live(g)[p]]
      /\ Live(h) = [p \in DOMAIN Live(h) |-> Live(h)[p]]
  BY DEF Live
<1> QED BY <1>2, <1>3, <1>4

\* Coalescing is invisible to whoever holds a pointer.
LEMMA CoalesceLive ==
    ASSUME NEW h, Good(h)
    PROVE  Live(fpool_coalesce(h)) = Live(h)
<1> DEFINE c == fpool_coalesce(h)
<1>1. /\ DOMAIN c = {o \in DOMAIN h : IsHead(h, o)}
      /\ \A o \in DOMAIN c : /\ c[o].free = h[o].free
                             /\ ~h[o].free => c[o] = h[o]
  BY CoalesceShape
<1>2. \A o \in DOMAIN h : ~h[o].free => o \in DOMAIN c
  BY <1>1, AllocatedHeads
<1>3. PoolType(c) /\ PoolType(h)
  BY CoalesceGood DEF Good
<1> HIDE DEF c
<1>4. Live(c) = Live(h)
  BY <1>1, <1>2, <1>3, SameLive
<1> QED BY <1>4 DEF c

\* Marking a block free takes its pointer, and no other, out of use.
LEMMA ReleaseFacts ==
    ASSUME NEW h, Good(h), NEW ptr \in DOMAIN Live(h)
    PROVE  /\ Good(Release(h, ptr))
           /\ Live(Release(h, ptr)) =
                [q \in DOMAIN Live(h) \ {ptr} |-> Live(h)[q]]
<1> DEFINE r == Release(h, ptr)
           o == ptr - HDR
<1>1. ptr \in Nat /\ o \in DOMAIN h /\ ~h[o].free /\ o \in Nat /\ ptr = o + HDR
  <2>1. ptr \in Nat /\ ptr - HDR \in DOMAIN h /\ ~h[ptr - HDR].free
    BY LiveFacts DEF Good
  <2> QED BY <2>1, NextOffFacts DEF Good, HDR
<1>2. /\ DOMAIN r = DOMAIN h
      /\ r[o] = [size |-> h[o].size, free |-> TRUE]
      /\ \A p \in DOMAIN h : p # o => r[p] = h[p]
  BY <1>1 DEF Release
<1> HIDE DEF r, o
<1>3. \A p \in DOMAIN h : r[p].size = h[p].size /\ NextOff(r, p) = NextOff(h, p)
  BY <1>1, <1>2 DEF NextOff
<1>4. PoolType(r)
  <2>1. h[o].size \in Nat
    BY <1>1, NextOffFacts DEF Good
  <2>2. r[o] \in Block
    BY <1>2, <2>1 DEF Block
  <2> QED BY <1>2, <2>2 DEF Good, PoolType
<1>5. Good(r)
  BY <1>2, <1>3, <1>4 DEF Good, Aligned, Tiled, Linked, Disjoint, Covered
<1>6. \A p \in DOMAIN h : ~r[p].free <=> (~h[p].free /\ p # o)
  BY <1>1, <1>2
<1>7. DOMAIN Live(r) = DOMAIN Live(h) \ {ptr}
  <2>1. ASSUME NEW p \in DOMAIN Live(r)
        PROVE  p \in DOMAIN Live(h) \ {ptr}
    <3>1. p \in Nat /\ p - HDR \in DOMAIN h /\ ~h[p - HDR].free /\ p - HDR # o
      BY <1>2, <1>4, <1>6, LiveFacts
    <3>2. (p - HDR) + HDR = p /\ p # ptr
      BY <1>1, <3>1 DEF HDR
    <3> QED BY <3>1, <3>2, LiveFacts DEF Good
  <2>2. ASSUME NEW p \in DOMAIN Live(h), p # ptr
        PROVE  p \in DOMAIN Live(r)
    <3>1. p \in Nat /\ p - HDR \in DOMAIN h /\ ~h[p - HDR].free
      BY LiveFacts DEF Good
    <3>2. (p - HDR) + HDR = p /\ p - HDR # o
      BY <1>1, <2>2, <3>1 DEF HDR
    <3> QED BY <1>2, <1>4, <1>6, <3>1, <3>2, LiveFacts
  <2> QED BY <2>1, <2>2
<1>8. \A p \in DOMAIN Live(r) : Live(r)[p] = Live(h)[p]
  BY <1>2, <1>3, <1>4, <1>7, LiveFacts DEF Good
<1>9. Live(r) = [p \in DOMAIN Live(r) |-> Live(r)[p]]
  BY DEF Live
<1>10. Live(r) = [q \in DOMAIN Live(h) \ {ptr} |-> Live(h)[q]]
  BY <1>7, <1>8, <1>9
<1> QED BY <1>5, <1>10 DEF r

\* The live allocations with one more.
Grow(l, p, len) == [q \in DOMAIN l \cup {p} |-> IF q = p THEN len ELSE l[q]]

\* fpool_alloc adds one live block, large enough, and changes no other.
LEMMA CarveLive ==
    ASSUME NEW h, Good(h), Merged(h), NEW bytes \in Nat, NEW o \in Fits(h, bytes)
    PROVE  /\ Carve(h, o, bytes)[o].size >= bytes
           /\ Carve(h, o, bytes)[o].size \in Nat
           /\ o + HDR + Carve(h, o, bytes)[o].size <= NextOff(h, o)
           /\ Live(Carve(h, o, bytes)) =
                Grow(Live(h), o + HDR, Carve(h, o, bytes)[o].size)
<1> DEFINE c == Carve(h, o, bytes)
           t == o + HDR + RoundUp(bytes)
<1>1. /\ o \in DOMAIN h /\ h[o].free /\ h[o].size >= RoundUp(bytes)
      /\ RoundUp(bytes) \in Nat /\ RoundUp(bytes) >= bytes
      /\ o \in Nat /\ h[o].size \in Nat
      /\ NextOff(h, o) = o + 8 + h[o].size
  BY RoundUpFacts, NextOffFacts DEF Fits, Good
<1>2. Good(c) /\ PoolType(c) /\ PoolType(h)
  BY CarveGood DEF Good
<1>3. /\ c[o].size \in Nat /\ c[o].size >= bytes /\ c[o].size <= h[o].size
      /\ ~c[o].free /\ o \in DOMAIN c /\ DOMAIN h \subseteq DOMAIN c
      /\ \A p \in DOMAIN c : p = o \/ c[p].free \/ (p \in DOMAIN h /\ c[p] = h[p])
      /\ \A p \in DOMAIN h : ~h[p].free => c[p] = h[p]
  <2>1. CASE h[o].size - RoundUp(bytes) >= HDR + MIN_SPLIT
    <3>1. t \notin DOMAIN h
      <4>1. o < t /\ t < NextOff(h, o)
        BY <1>1, <2>1 DEF HDR, MIN_SPLIT
      <4> QED BY <1>1, <4>1, NextOffFacts DEF Good, Tiled, Disjoint
    <3>2. /\ DOMAIN c = DOMAIN h \cup {t}
          /\ c[o] = [size |-> RoundUp(bytes), free |-> FALSE]
          /\ t # o /\ c[t].free
          /\ \A p \in DOMAIN h : p # o => c[p] = h[p]
      BY <1>1, <2>1, <3>1 DEF Carve, HDR
    <3> QED BY <1>1, <3>2
  <2>2. CASE ~(h[o].size - RoundUp(bytes) >= HDR + MIN_SPLIT)
    <3>1. /\ DOMAIN c = DOMAIN h
          /\ c[o] = [size |-> h[o].size, free |-> FALSE]
          /\ \A p \in DOMAIN h : p # o => c[p] = h[p]
      BY <1>1, <2>2 DEF Carve
    <3> QED BY <1>1, <3>1
  <2> QED BY <2>1, <2>2
<1> HIDE DEF c, t
<1>4. DOMAIN Live(c) = DOMAIN Live(h) \cup {o + HDR}
  <2>1. ASSUME NEW p \in DOMAIN Live(c), p # o + HDR
        PROVE  p \in DOMAIN Live(h)
    <3>1. p \in Nat /\ p - HDR \in DOMAIN c /\ ~c[p - HDR].free
      BY <1>2, LiveFacts
    <3>2. (p - HDR) + HDR = p /\ p - HDR # o
      BY <1>1, <2>1, <3>1 DEF HDR
    <3>3. p - HDR \in DOMAIN h /\ ~h[p - HDR].free
      BY <1>3, <3>1, <3>2
    <3> QED BY <1>2, <3>2, <3>3, LiveFacts
  <2>2. ASSUME NEW p \in DOMAIN Live(h)
        PROVE  p \in DOMAIN Live(c)
    <3>1. p \in Nat /\ p - HDR \in DOMAIN h /\ ~h[p - HDR].free
      BY <1>2, LiveFacts
    <3>2. (p - HDR) + HDR = p
      BY <3>1 DEF HDR
    <3>3. p - HDR \in DOMAIN c /\ ~c[p - HDR].free
      BY <1>3, <3>1
    <3> QED BY <1>2, <3>2, <3>3, LiveFacts
  <2>3. o + HDR \in DOMAIN Live(c)
    BY <1>2, <1>3, LiveFacts
  <2> QED BY <2>1, <2>2, <2>3
<1>5. Live(c)[o + HDR] = c[o].size
  BY <1>2, <1>3, LiveFacts
<1>6. \A p \in DOMAIN Live(h) : p # o + HDR => Live(c)[p] = Live(h)[p]
  <2> SUFFICES ASSUME NEW p \in DOMAIN Live(h), p # o + HDR
               PROVE  Live(c)[p] = Live(h)[p]
    OBVIOUS
  <2>1. /\ p - HDR \in DOMAIN h /\ ~h[p - HDR].free
        /\ Live(h)[p] = h[p - HDR].size
        /\ Live(c)[p] = c[p - HDR].size
    BY <1>2, <1>4, LiveFacts
  <2> QED BY <1>3, <2>1
<1>7. Live(c) = [p \in DOMAIN Live(c) |-> Live(c)[p]]
  BY DEF Live
<1>8. Live(c) = Grow(Live(h), o + HDR, c[o].size)
  BY <1>4, <1>5, <1>6, <1>7 DEF Grow
<1>9. o + HDR + c[o].size <= NextOff(h, o)
  BY <1>1, <1>3 DEF HDR
<1> QED BY <1>3, <1>8, <1>9 DEF c

---------------------------------------------------------------------------
(***************************************************************************)
(* The state machine.  PoolInv is inductive as it stands: Covered is part  *)
(* of it, which spares an induction along the chain of headers.            *)
(***************************************************************************)
PoolInv == HeadersOK /\ PoolTiled /\ PoolMerged

\* Each call of fpool_alloc and fpool_free keeps the pool in good order.
LEMMA PoolStep == PoolInv /\ [PoolNext]_poolVars => PoolInv'
<1> SUFFICES ASSUME PoolInv, [PoolNext]_poolVars
             PROVE  PoolInv'
  OBVIOUS
<1>1. Good(blocks) /\ Merged(blocks)
  BY DEF PoolInv, HeadersOK, PoolTiled, PoolMerged, Good
<1>2. ASSUME NEW bytes \in Requests, Alloc(bytes)
      PROVE  PoolInv'
  <2>1. PICK o \in Fits(blocks, bytes) :
            /\ blocks' = Carve(blocks, o, bytes)
            /\ result' = [op |-> "alloc", arg |-> bytes, val |-> o + HDR]
    BY <1>2 DEF Alloc
  <2>2. bytes \in Nat /\ o + HDR \in Nat
    BY <1>1, RequestsAssumption, NextOffFacts DEF Good, Fits, HDR
  <2>3. Good(blocks') /\ Merged(blocks')
    BY <1>1, <2>1, <2>2, CarveGood
  <2> QED BY <2>1, <2>2, <2>3
          DEF PoolInv, HeadersOK, PoolTiled, PoolMerged, Good
<1>3. ASSUME NEW bytes \in Requests, AllocFails(bytes)
      PROVE  PoolInv'
  BY <1>3, RequestsAssumption
  DEF AllocFails, PoolInv, HeadersOK, PoolTiled, PoolMerged, NULL
<1>4. ASSUME NEW ptr \in DOMAIN Live(blocks), Free(ptr)
      PROVE  PoolInv'
  <2>1. ptr \in Nat /\ ptr # NULL
    <3>1. ptr \in Nat /\ ptr - HDR \in Nat
      BY <1>1, LiveFacts, NextOffFacts DEF Good
    <3> QED BY <3>1 DEF HDR, NULL
  <2>2. Good(Release(blocks, ptr))
    BY <1>1, ReleaseFacts
  <2>3. Good(blocks') /\ Merged(blocks')
    BY <1>4, <2>1, <2>2, CoalesceGood DEF Free, fpool_free
  <2> QED BY <1>4, <2>1, <2>3
          DEF Free, PoolInv, HeadersOK, PoolTiled, PoolMerged, Good, NULL
<1>5. CASE UNCHANGED poolVars
  BY <1>5 DEF poolVars, PoolInv, HeadersOK, PoolTiled, PoolMerged
<1> QED BY <1>2, <1>3, <1>4, <1>5 DEF PoolNext

\* The pool starts in good order.
LEMMA PoolStart == PoolInit => PoolInv
BY InitGood DEF PoolInit, PoolInv, HeadersOK, PoolTiled, PoolMerged, Good, NULL

\* The inductive invariant of the pool holds in every reachable state.
THEOREM PoolCorrect == PoolSpec => []PoolInv
BY PoolStart, PoolStep, PTL DEF PoolSpec

\* Headers stay well formed and word-aligned whatever the callers do.
THEOREM PoolTypeCorrect == PoolSpec => []HeadersOK
<1>1. PoolInv => HeadersOK
  BY DEF PoolInv
<1> QED BY <1>1, PoolCorrect, PTL

\* The blocks tile the pool for ever: no overlap and no leaked byte.
THEOREM AlwaysTiled == PoolSpec => []PoolTiled
<1>1. PoolInv => PoolTiled
  BY DEF PoolInv
<1> QED BY <1>1, PoolCorrect, PTL

\* Free space is merged after every call of fpool_free.
THEOREM AlwaysMerged == PoolSpec => []PoolMerged
<1>1. PoolInv => PoolMerged
  BY DEF PoolInv
<1> QED BY <1>1, PoolCorrect, PTL

---------------------------------------------------------------------------
(***************************************************************************)
(* Refinement.                                                             *)
(***************************************************************************)

\* Live allocations, header included, do not overlap.
LEMMA LiveApart ==
    ASSUME NEW h, Good(h), NEW p \in DOMAIN Live(h), NEW o \in DOMAIN h,
           p # o + HDR
    PROVE  NextOff(h, o) <= p - HDR \/ p + Live(h)[p] <= o
<1>1. /\ p \in Nat /\ p - HDR \in DOMAIN h /\ p - HDR \in Nat
      /\ Live(h)[p] = h[p - HDR].size /\ h[p - HDR].size \in Nat
      /\ NextOff(h, p - HDR) = (p - HDR) + 8 + h[p - HDR].size
      /\ o \in Nat
  BY LiveFacts, NextOffFacts DEF Good
<1>2. p - HDR # o
  BY <1>1 DEF HDR
<1>3. p - HDR < o \/ o < p - HDR
  BY <1>1, <1>2
<1> QED BY <1>1, <1>3 DEF Good, Tiled, Disjoint, HDR

\* An fpool_alloc that succeeds is an allocation of the abstract heap.
LEMMA AllocRefines ==
    ASSUME PoolInv, NEW bytes \in Requests, Alloc(bytes)
    PROVE  AbstractHeap!Alloc(bytes)
<1>1. Good(blocks) /\ Merged(blocks) /\ bytes \in Nat
  BY RequestsAssumption DEF PoolInv, HeadersOK, PoolTiled, PoolMerged, Good
<1>2. PICK o \in Fits(blocks, bytes) :
          /\ blocks' = Carve(blocks, o, bytes)
          /\ result' = [op |-> "alloc", arg |-> bytes, val |-> o + HDR]
  BY DEF Alloc
<1>3. /\ Carve(blocks, o, bytes)[o].size >= bytes
      /\ Carve(blocks, o, bytes)[o].size \in Nat
      /\ o + HDR + Carve(blocks, o, bytes)[o].size <= NextOff(blocks, o)
      /\ Live(Carve(blocks, o, bytes)) =
            Grow(Live(blocks), o + HDR, Carve(blocks, o, bytes)[o].size)
  BY <1>1, CarveLive
<1> DEFINE c   == Carve(blocks, o, bytes)
           len == c[o].size
           p   == o + HDR
<1> HIDE DEF c
<1>4. /\ o \in DOMAIN blocks /\ o \in Nat /\ NextOff(blocks, o) \in Nat
      /\ NextOff(blocks, o) <= PoolBytes /\ PoolBytes \in Nat
      /\ blocks[o].free
  BY <1>1, NextOffFacts, PoolAssumption DEF Fits, Good, Tiled, Linked
<1>5. p \in HDR .. PoolBytes /\ len \in bytes .. PoolBytes - p
  BY <1>1, <1>3, <1>4 DEF HDR, c
<1>6. \A q \in DOMAIN Live(blocks) :
         p + len <= q - HDR \/ q + Live(blocks)[q] <= p - HDR
  <2> SUFFICES ASSUME NEW q \in DOMAIN Live(blocks)
               PROVE  p + len <= q - HDR \/ q + Live(blocks)[q] <= p - HDR
    OBVIOUS
  <2>1. /\ q \in Nat /\ q - HDR \in DOMAIN blocks /\ ~blocks[q - HDR].free
    BY <1>1, LiveFacts DEF Good
  <2>2. q # o + HDR /\ p - HDR = o
    BY <1>4, <2>1 DEF HDR
  <2>3. NextOff(blocks, o) <= q - HDR \/ q + Live(blocks)[q] <= o
    BY <1>1, <1>4, <2>2, LiveApart
  <2> QED BY <1>3, <1>4, <2>1, <2>2, <2>3 DEF HDR, c
<1>7. AbstractHeap!Unused(p - HDR, p + len)
  BY <1>6 DEF AbstractHeap!Unused
<1>8. Live(blocks') = Grow(Live(blocks), p, len)
  BY <1>2, <1>3 DEF c
<1> QED BY <1>2, <1>5, <1>7, <1>8 DEF Grow, AbstractHeap!Alloc

\* An fpool_alloc that fails found no room: free space is in one piece, so a
\* gap that could hold the request would be a block that fits it.
LEMMA FailRefines ==
    ASSUME PoolInv, NEW bytes \in Requests, AllocFails(bytes)
    PROVE  AbstractHeap!Refuse(bytes)
<1>1. Good(blocks) /\ Merged(blocks) /\ bytes \in Nat
  BY RequestsAssumption DEF PoolInv, HeadersOK, PoolTiled, PoolMerged, Good
<1>2. /\ Fits(blocks, bytes) = {} /\ UNCHANGED blocks
      /\ result' = [op |-> "alloc", arg |-> bytes, val |-> 0]
  BY DEF AllocFails, NULL
<1> DEFINE need == RoundUp(bytes)
<1>3. need \in Nat /\ need = AbstractHeap!Words(bytes)
  BY <1>1, RoundUpFacts DEF RoundUp, AbstractHeap!Words
<1> HIDE DEF need
<1>4. ASSUME NEW a \in 0 .. PoolBytes, a + HDR + need <= PoolBytes,
             AbstractHeap!Unused(a, a + HDR + need)
      PROVE  FALSE
  <2>1. a \in Nat /\ a \in 0 .. PoolBytes - 1 /\ PoolBytes \in Nat
    BY <1>3, <1>4, PoolAssumption DEF HDR
  <2>2. PICK o \in DOMAIN blocks : o <= a /\ a < NextOff(blocks, o)
    BY <1>1, <2>1 DEF Good, Tiled, Covered
  <2>3. /\ o \in Nat /\ blocks[o].size \in Nat
        /\ NextOff(blocks, o) = o + 8 + blocks[o].size
    BY <1>1, NextOffFacts DEF Good
  <2>4. \A q \in DOMAIN blocks : ~blocks[q].free =>
            a + HDR + need <= q \/ NextOff(blocks, q) <= a
    <3> SUFFICES ASSUME NEW q \in DOMAIN blocks, ~blocks[q].free
                 PROVE  a + HDR + need <= q \/ NextOff(blocks, q) <= a
      OBVIOUS
    <3>1. q + HDR \in DOMAIN Live(blocks) /\ Live(blocks)[q + HDR] = blocks[q].size
      BY <1>1, LiveFacts DEF Good
    <3>2. \/ a + HDR + need <= (q + HDR) - HDR
          \/ (q + HDR) + blocks[q].size <= a
      BY <1>4, <3>1 DEF AbstractHeap!Unused
    <3>3. /\ q \in Nat /\ blocks[q].size \in Nat
          /\ NextOff(blocks, q) = q + 8 + blocks[q].size
      BY <1>1, NextOffFacts DEF Good
    <3> QED BY <3>2, <3>3 DEF HDR
  <2>5. blocks[o].free
    <3> SUFFICES ASSUME ~blocks[o].free PROVE FALSE
      OBVIOUS
    <3>1. a + HDR + need <= o \/ NextOff(blocks, o) <= a
      BY <2>4
    <3> QED BY <1>3, <2>1, <2>2, <2>3, <3>1 DEF HDR
  <2>6. a + HDR + need <= NextOff(blocks, o)
    <3>1. CASE NextOff(blocks, o) = PoolBytes
      BY <1>4, <3>1
    <3>2. CASE NextOff(blocks, o) # PoolBytes
      <4> DEFINE n == NextOff(blocks, o)
      <4>1. n \in DOMAIN blocks /\ ~blocks[n].free
        BY <1>1, <2>5, <3>2 DEF Good, Tiled, Linked, Merged
      <4>2. n \in Nat /\ n < NextOff(blocks, n) /\ NextOff(blocks, n) \in Nat
        BY <1>1, <4>1, NextOffFacts DEF Good
      <4>3. a + HDR + need <= n \/ NextOff(blocks, n) <= a
        BY <2>4, <4>1
      <4> QED BY <2>1, <2>2, <4>2, <4>3
    <3> QED BY <3>1, <3>2
  <2>7. blocks[o].size >= need
    BY <1>3, <2>1, <2>2, <2>3, <2>6 DEF HDR
  <2> QED BY <1>2, <2>5, <2>7 DEF Fits, need
<1>5. ~AbstractHeap!Room(bytes)
  BY <1>3, <1>4 DEF AbstractHeap!Room
<1> QED BY <1>2, <1>5 DEF AbstractHeap!Refuse

\* fpool_free is a free of the abstract heap.
LEMMA FreeRefines ==
    ASSUME PoolInv, NEW ptr \in DOMAIN Live(blocks), Free(ptr)
    PROVE  AbstractHeap!Free(ptr)
<1>1. Good(blocks)
  BY DEF PoolInv, HeadersOK, PoolTiled, Good
<1>2. ptr # NULL
  <2>1. ptr \in Nat /\ ptr - HDR \in Nat
    BY <1>1, LiveFacts, NextOffFacts DEF Good
  <2> QED BY <2>1 DEF HDR, NULL
<1>3. /\ blocks' = fpool_coalesce(Release(blocks, ptr))
      /\ result' = [op |-> "free", arg |-> ptr, val |-> 0]
  BY <1>2 DEF Free, fpool_free, NULL
<1>4. Live(blocks') = [q \in DOMAIN Live(blocks) \ {ptr} |-> Live(blocks)[q]]
  BY <1>1, <1>3, ReleaseFacts, CoalesceLive
<1> QED BY <1>3, <1>4 DEF AbstractHeap!Free

\* The first-fit pool of fs/fs.c implements the abstract heap: allocations
\* never overlap, never move, and fail only when no gap can hold them.
THEOREM PoolImplementsHeap == PoolSpec => ImplementsHeap
<1>1. PoolInit => AbstractHeap!Init
  <2> SUFFICES ASSUME PoolInit PROVE AbstractHeap!Init
    OBVIOUS
  <2>1. DOMAIN blocks = {0} /\ blocks[0].free
    BY DEF PoolInit, fpool_init
  <2>2. Live(blocks) = [p \in {} |-> 0]
    BY <2>1 DEF Live
  <2> QED BY <2>2 DEF PoolInit, NULL, AbstractHeap!Init
<1>2. PoolInv /\ [PoolNext]_poolVars => [AbstractHeap!Next]_<<Live(blocks), result>>
  <2> SUFFICES ASSUME PoolInv, [PoolNext]_poolVars
               PROVE  AbstractHeap!Next \/ UNCHANGED <<Live(blocks), result>>
    OBVIOUS
  <2>1. ASSUME NEW bytes \in Requests, Alloc(bytes) PROVE AbstractHeap!Next
    BY <2>1, AllocRefines DEF AbstractHeap!Next
  <2>2. ASSUME NEW bytes \in Requests, AllocFails(bytes) PROVE AbstractHeap!Next
    BY <2>2, FailRefines DEF AbstractHeap!Next
  <2>3. ASSUME NEW ptr \in DOMAIN Live(blocks), Free(ptr)
        PROVE  AbstractHeap!Next
    BY <2>3, FreeRefines DEF AbstractHeap!Next
  <2>4. CASE UNCHANGED poolVars
    BY <2>4 DEF poolVars
  <2> QED BY <2>1, <2>2, <2>3, <2>4 DEF PoolNext
<1> QED BY <1>1, <1>2, PoolCorrect, PTL DEF PoolSpec, ImplementsHeap, AbstractHeap!Spec

\* A block in use keeps its place and size until its own pointer is freed,
\* as the comment at fs_file_data_ptr promises.
THEOREM PoolNeverMoves == PoolSpec => NeverMoves
<1> DEFINE Kept == \A ptr \in DOMAIN Live(blocks) :
                     \/ result'.op = "free" /\ result'.arg = ptr
                     \/ /\ ptr \in DOMAIN Live(blocks')
                        /\ Live(blocks')[ptr] = Live(blocks)[ptr]
<1>1. PoolInv /\ [PoolNext]_poolVars => [Kept]_poolVars
  <2> SUFFICES ASSUME PoolInv, [PoolNext]_poolVars
               PROVE  Kept \/ UNCHANGED poolVars
    OBVIOUS
  <2>1. Good(blocks)
    BY DEF PoolInv, HeadersOK, PoolTiled, Good
  <2>2. ASSUME NEW bytes \in Requests, Alloc(bytes) PROVE Kept
    <3>2. PICK o \in Fits(blocks, bytes) : blocks' = Carve(blocks, o, bytes)
      BY <2>2 DEF Alloc
    <3>3. Live(blocks') =
             Grow(Live(blocks), o + HDR, Carve(blocks, o, bytes)[o].size)
      <4>1. Merged(blocks) /\ bytes \in Nat
        BY RequestsAssumption DEF PoolInv, PoolMerged
      <4> QED BY <2>1, <3>2, <4>1, CarveLive
    <3>4. o \in DOMAIN blocks /\ blocks[o].free /\ o \in Nat
      BY <2>1, NextOffFacts DEF Fits, Good
    <3>5. o + HDR \notin DOMAIN Live(blocks)
      <4>1. (o + HDR) - HDR = o
        BY <3>4 DEF HDR
      <4> QED BY <2>1, <3>4, <4>1, LiveFacts DEF Good
    <3> QED BY <3>3, <3>5 DEF Grow
  <2>3. ASSUME NEW bytes \in Requests, AllocFails(bytes) PROVE Kept
    BY <2>3 DEF AllocFails
  <2>4. ASSUME NEW p \in DOMAIN Live(blocks), Free(p) PROVE Kept
    <3>1. AbstractHeap!Free(p)
      BY <2>4, FreeRefines
    <3> QED BY <3>1 DEF AbstractHeap!Free
  <2> QED BY <2>2, <2>3, <2>4 DEF PoolNext
<1> QED BY <1>1, PoolCorrect, PTL DEF PoolSpec, NeverMoves
=============================================================================
