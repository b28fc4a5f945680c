----------------------------- MODULE ByteStream -----------------------------
(***************************************************************************)
(* What the TCP client of kernel/net.c promises the code above it: bytes   *)
(* arrive in order, once and unaltered on both sides, the end of the       *)
(* stream is announced only after its last byte, and a send is confirmed   *)
(* only when the peer holds all of it.  A connection may break any time.   *)
(* Byte k of either stream is the number k.                                *)
(***************************************************************************)
EXTENDS Integers, Sequences

CONSTANTS ToPeer,      \* how many bytes the caller may send
          FromPeer     \* the length of the stream the peer sends

VARIABLES open,        \* a connection is up
          offered,     \* bytes handed to tcp_send
          confirmed,   \* bytes that tcp_send has reported as sent
          arrived,     \* what the peer has received
          got,         \* what tcp_recv has handed to the caller
          ended        \* tcp_recv has reported the end of the stream

vars == <<open, offered, confirmed, arrived, got, ended>>

Upto(n) == [k \in 1..n |-> k]

Init == /\ open = FALSE
        /\ offered = 0 /\ confirmed = 0
        /\ arrived = <<>> /\ got = <<>> /\ ended = FALSE

Open == /\ open' \in BOOLEAN
        /\ offered' = 0 /\ confirmed' = 0
        /\ arrived' = <<>> /\ got' = <<>> /\ ended' = FALSE

Offer == /\ open
         /\ offered' \in offered + 1 .. ToPeer
         /\ open' \in BOOLEAN              \* the attempt may fail at once
         /\ UNCHANGED <<confirmed, arrived, got, ended>>

Arrive == /\ \E n \in Len(arrived) + 1 .. offered : arrived' = Upto(n)
          /\ UNCHANGED <<open, offered, confirmed, got, ended>>

Confirm == /\ open
           /\ arrived = Upto(offered)
           /\ confirmed' = offered
           /\ UNCHANGED <<open, offered, arrived, got, ended>>

Take == /\ open
        /\ \E n \in Len(got) + 1 .. FromPeer : got' = Upto(n)
        /\ UNCHANGED <<open, offered, confirmed, arrived, ended>>

End == /\ open
       /\ got = Upto(FromPeer)
       /\ ended' = TRUE /\ open' = FALSE
       /\ UNCHANGED <<offered, confirmed, arrived, got>>

Close == /\ open' = FALSE
         /\ UNCHANGED <<offered, confirmed, arrived, got, ended>>

Next == Open \/ Offer \/ Arrive \/ Confirm \/ Take \/ End \/ Close

Spec == Init /\ [][Next]_vars
=============================================================================
