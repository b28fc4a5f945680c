-------------------------------- MODULE Heap --------------------------------
(***************************************************************************)
(* What the rest of the file system relies on from the pool in fs/fs.c:    *)
(* memory handed out overlaps nothing that is still in use, stays where it *)
(* is until it is freed, and is refused only when no gap can hold it.      *)
(* Where the memory comes from is left open.                               *)
(***************************************************************************)
EXTENDS Integers

CONSTANTS Size,        \* bytes of memory managed
          Overhead,    \* bytes of bookkeeping in front of an allocation
          Requests     \* sizes that are asked for

VARIABLES live,        \* pointer |-> bytes, for what is handed out
          ret          \* the last call and what it returned

\* Allocations are made in words of 4 bytes.
Words(n) == ((n + 3) \div 4) * 4

\* Bytes [a, b) touch no allocation or its bookkeeping.
Unused(a, b) == \A p \in DOMAIN live : b <= p - Overhead \/ p + live[p] <= a

Room(n) == \E a \in 0 .. Size : /\ a + Overhead + Words(n) <= Size
                                /\ Unused(a, a + Overhead + Words(n))

Init == /\ live = [p \in {} |-> 0]
        /\ ret = [op |-> "init", arg |-> 0, val |-> 0]

Alloc(n) == \E p \in Overhead .. Size :
    /\ ret' = [op |-> "alloc", arg |-> n, val |-> p]
    /\ \E len \in n .. Size - p :
          /\ live' = [q \in DOMAIN live \cup {p} |->
                        IF q = p THEN len ELSE live[q]]
          /\ Unused(p - Overhead, p + len)

Refuse(n) == /\ ~Room(n)
             /\ ret' = [op |-> "alloc", arg |-> n, val |-> 0]
             /\ UNCHANGED live

Free(p) == /\ p \in DOMAIN live
           /\ live' = [q \in DOMAIN live \ {p} |-> live[q]]
           /\ ret' = [op |-> "free", arg |-> p, val |-> 0]

Next == \/ \E n \in Requests : Alloc(n) \/ Refuse(n)
        \/ \E p \in DOMAIN live : Free(p)

Spec == Init /\ [][Next]_<<live, ret>>
=============================================================================
