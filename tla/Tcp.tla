-------------------------------- MODULE Tcp --------------------------------
(***************************************************************************)
(* The TCP client of kernel/net.c: one connection, one segment in flight,  *)
(* a receive ring, and callers that poll the network while they wait.      *)
(*                                                                         *)
(* The network loses, repeats and reorders: wire holds every segment ever  *)
(* sent that the peer may act on, and the peer receives any of them, any   *)
(* number of times or never.  In the other direction the client may be     *)
(* handed, whenever it polls, any segment the peer could have sent by then.*)
(* Byte k of either stream is the number k.                                *)
(***************************************************************************)
EXTENDS Integers, Sequences

CONSTANTS W,           \* sequence numbers are 0..W-1 (2^32 in the code)
          T_RING,      \* bytes in the receive ring
          WIN_MAX,     \* the largest window the header can say (65535)
          THRESH,      \* a window smaller than this is reopened (2920)
          ISSs,        \* initial sequence numbers tcp_connect may take
          IRSs,        \* and those the peer may take
          Msss,        \* segment sizes the peer may announce
          ReqLen,      \* bytes the caller sends at most on a connection
          StreamLen,   \* bytes the peer sends before its FIN
          Caps,        \* buffer sizes the caller passes to tcp_recv
          SYN_TRIES, SEND_TRIES

ASSUME SizesAssumption ==
    /\ {W, T_RING, WIN_MAX, THRESH, ReqLen, StreamLen, SYN_TRIES, SEND_TRIES} \subseteq Nat \ {0}
    /\ THRESH <= T_RING /\ THRESH <= WIN_MAX
    /\ 2 * (ReqLen + 2) < W /\ 2 * (StreamLen + 2) < W

ASSUME SetsAssumption ==
    /\ ISSs \subseteq 0..W-1 /\ IRSs \subseteq 0..W-1
    /\ Msss \subseteq Nat \ {0} /\ Caps \subseteq Nat \ {0}

VARIABLES state, snd_una, snd_nxt, rcv_nxt, mss, fin, rst,   \* tc
          ring, rhead, rtail, rcount,
          call,        \* the call in progress and its locals
          iss,         \* tcp_connect's initial sequence number
          usable,      \* connected, and no call has failed or met the end
          offered, confirmed, got, eof,    \* what the caller sent and received
          wire,        \* segments sent that the peer acts on
          peer,        \* what the peer has received
          adv          \* the window of the last segment sent

conn == <<state, snd_una, snd_nxt, rcv_nxt, mss, fin, rst>>
buffer == <<ring, rhead, rtail, rcount>>
app == <<usable, offered, confirmed, got, eof>>
vars == <<conn, buffer, call, iss, app, wire, peer, adv>>

Least(a, b) == IF a < b THEN a ELSE b
Sub(a, b) == (a - b) % W
After(a, b) == Sub(a, b) \in 1 .. (W \div 2) - 1      \* (int32_t)(a - b) > 0

\* Mutant of AllAcked: any acknowledgement since tcp_connect counts.
SomeAcked == snd_una # iss

AllAcked == Sub(snd_una, snd_nxt) < W \div 2          \* (int32_t)(una - nxt) >= 0
Up == state \in {"ESTAB", "CLOSE_WAIT"}

Window(count) == Least(T_RING - count, WIN_MAX)

NoCall == [op |-> "none", tries |-> 0, seq |-> 0, n |-> 0, len |-> 0]
NoPeer == [syn |-> FALSE, irs |-> 0, arrived |-> <<>>, fin |-> FALSE]

Init == /\ state = "CLOSED" /\ snd_una = 0 /\ snd_nxt = 0 /\ rcv_nxt = 0
        /\ mss = 0 /\ fin = FALSE /\ rst = FALSE
        /\ ring = [k \in 0..T_RING-1 |-> 0]
        /\ rhead = 0 /\ rtail = 0 /\ rcount = 0
        /\ call = NoCall /\ iss = 0 /\ usable = FALSE
        /\ offered = 0 /\ confirmed = 0 /\ got = <<>> /\ eof = FALSE
        /\ wire = {} /\ peer = NoPeer /\ adv = 0

---------------------------------------------------------------------------
(***************************************************************************)
(* tcp_in, for each kind of segment.                                       *)
(***************************************************************************)

\* net_poll_inner runs only inside a call that waits.
Polling == call.op # "none"

RstIn == /\ Polling /\ state # "CLOSED"
         /\ rst' = TRUE /\ state' = "CLOSED"
         /\ UNCHANGED <<snd_una, snd_nxt, rcv_nxt, mss, fin, buffer, call, iss,
                        app, wire, peer, adv>>

SynAckIn(m) ==
    /\ Polling /\ state = "SYN_SENT"
    /\ peer.syn /\ (iss + 1) % W = snd_nxt     \* the peer acknowledges iss + 1
    /\ rcv_nxt' = (peer.irs + 1) % W
    /\ snd_una' = snd_nxt
    /\ mss' = m
    /\ state' = "ESTAB"
    /\ adv' = Window(rcount)
    /\ UNCHANGED <<snd_nxt, fin, rst, buffer, call, iss, app, wire, peer>>

\* What the peer may have sent: any piece of its stream, its FIN with the
\* end of the stream, any acknowledgement it has ever given.
PeerAcks == {(iss + 1 + k) % W : k \in 0 .. Len(peer.arrived) + (IF peer.fin THEN 1 ELSE 0)}

PeerSegments ==
    {s \in [off : 0..StreamLen, len : 0..StreamLen, fin : BOOLEAN, ack : PeerAcks] :
        /\ s.off + s.len <= StreamLen
        /\ s.fin => s.off + s.len = StreamLen}

SeqOf(s) == (peer.irs + 1 + s.off) % W

\* The sequence number is the next one, or the segment overlaps it.
InOrderSegment(s) ==
    \/ SeqOf(s) = rcv_nxt
    \/ After(rcv_nxt, SeqOf(s)) /\ After(SeqOf(s) + s.len, rcv_nxt)

\* Mutant of Skip: the old bytes of an overlapping segment are taken again.
SkipNone(s) == 0

\* How many of the segment's bytes are old, and how many are taken.
Skip(s) == Sub(rcv_nxt, SeqOf(s))
Fresh(s) == IF s.len > 0 /\ InOrderSegment(s) THEN s.len - Skip(s) ELSE 0

Taken(s) == Least(Fresh(s), T_RING - rcount)

FinKept(s) == s.fin /\ (s.len = 0 \/ (InOrderSegment(s) /\ Taken(s) = Fresh(s)))
FinOK(s) == FinKept(s) /\ (SeqOf(s) + s.len) % W = (rcv_nxt + Taken(s)) % W

Stored(s, n) ==
    [k \in 0..T_RING-1 |-> LET i == (k - rhead) % T_RING
                           IN  IF i < n THEN s.off + Skip(s) + i + 1 ELSE ring[k]]

SegmentIn(s) ==
    LET n == Taken(s)
        f == FinOK(s)
        needAck == s.len > 0 \/ f
    IN  /\ Polling /\ Up
        /\ snd_una' = IF After(s.ack, snd_una) /\ ~After(s.ack, snd_nxt)
                      THEN s.ack ELSE snd_una
        /\ ring' = Stored(s, n)
        /\ rhead' = (rhead + n) % T_RING
        /\ rcount' = rcount + n
        /\ rcv_nxt' = (rcv_nxt + n + (IF f THEN 1 ELSE 0)) % W
        /\ fin' = (fin \/ f)
        /\ state' = IF f THEN "CLOSE_WAIT" ELSE state
        /\ adv' = IF needAck THEN Window(rcount') ELSE adv
        /\ UNCHANGED <<snd_nxt, mss, rst, rtail, call, iss, app, wire, peer>>

---------------------------------------------------------------------------
(***************************************************************************)
(* The peer: a TCP that takes what is in order.                            *)
(***************************************************************************)

PeerSyn == \E s \in wire, r \in IRSs :
    /\ s.kind = "syn" /\ ~peer.syn
    /\ peer' = [peer EXCEPT !.syn = TRUE, !.irs = r]
    /\ UNCHANGED <<conn, buffer, call, iss, app, wire, adv>>

\* Some or all of a data segment's bytes that are new and in order.
PeerData == \E s \in wire, n \in 1..ReqLen :
    LET next == (iss + 1 + Len(peer.arrived)) % W
        old == Sub(next, s.seq)
    IN  /\ s.kind = "data" /\ peer.syn /\ ~peer.fin
        /\ old + n <= s.n
        /\ peer' = [peer EXCEPT !.arrived =
                        @ \o [k \in 1..n |-> s.first + old + k - 1]]
        /\ UNCHANGED <<conn, buffer, call, iss, app, wire, adv>>

PeerFin == \E s \in wire :
    /\ s.kind = "fin" /\ peer.syn /\ ~peer.fin
    /\ s.seq = (iss + 1 + Len(peer.arrived)) % W
    /\ peer' = [peer EXCEPT !.fin = TRUE]
    /\ UNCHANGED <<conn, buffer, call, iss, app, wire, adv>>

---------------------------------------------------------------------------
(***************************************************************************)
(* tcp_tx.  A segment is built, with the window in its header, and goes    *)
(* out or not: the next hop may not answer ARP, the card may refuse it.    *)
(* ACKs without data are sent the same way; only their window matters.     *)
(***************************************************************************)

Segment(kind, seq, first, n) == [kind |-> kind, seq |-> seq, first |-> first, n |-> n]

Tx(seg) == /\ wire' = wire \cup {seg}
           /\ adv' = Window(rcount)

Return(ok) == /\ call' = NoCall
              /\ usable' = ok

---------------------------------------------------------------------------
(***************************************************************************)
(* tcp_connect.                                                            *)
(***************************************************************************)

\* The struct is cleared; segments of an earlier connection have another
\* port and are not looked at any more by either side.
Connect(i, ok) ==
    /\ call.op = "none" /\ ~usable /\ state = "CLOSED"
    /\ snd_una' = i /\ snd_nxt' = (i + 1) % W /\ rcv_nxt' = 0
    /\ mss' = 0 /\ fin' = FALSE /\ rst' = FALSE
    /\ ring' = [k \in 0..T_RING-1 |-> 0] /\ rhead' = 0 /\ rtail' = 0 /\ rcount' = 0
    /\ iss' = i /\ peer' = NoPeer /\ adv' = Window(0)
    /\ offered' = 0 /\ confirmed' = 0 /\ got' = <<>> /\ eof' = FALSE
    /\ usable' = FALSE
    /\ IF ok THEN /\ state' = "SYN_SENT"
                  /\ wire' = {Segment("syn", i, 0, 0)}
                  /\ call' = [NoCall EXCEPT !.op = "connect"]
             ELSE /\ state' = "CLOSED" /\ wire' = {} /\ call' = NoCall

Connected == /\ call.op = "connect" /\ state = "ESTAB"
             /\ Return(TRUE)
             /\ UNCHANGED <<conn, buffer, iss, offered, confirmed, got, eof, wire, peer, adv>>

ConnectReset == /\ call.op = "connect" /\ state # "ESTAB" /\ rst
                /\ Return(FALSE)
                /\ UNCHANGED <<conn, buffer, iss, offered, confirmed, got, eof, wire, peer, adv>>

\* A second has passed: the SYN goes out again, or tcp_connect gives up.
ConnectTimeout(ok) ==
    /\ call.op = "connect" /\ state # "ESTAB" /\ ~rst
    /\ IF ok /\ call.tries + 1 < SYN_TRIES
       THEN /\ call' = [call EXCEPT !.tries = @ + 1]
            /\ Tx(Segment("syn", iss, 0, 0))
            /\ UNCHANGED <<state, usable>>
       ELSE /\ state' = "CLOSED"
            /\ Return(FALSE)
            /\ UNCHANGED <<wire, adv>>
    /\ UNCHANGED <<snd_una, snd_nxt, rcv_nxt, mss, fin, rst, buffer, iss,
                   offered, confirmed, got, eof, peer>>

---------------------------------------------------------------------------
(***************************************************************************)
(* tcp_send: the data in pieces of at most mss, each sent again until it   *)
(* is acknowledged.                                                        *)
(***************************************************************************)

\* The first transmission of the next piece, with len bytes left to send;
\* "last" is how many bytes the caller has handed over altogether.
Piece(len, last, ok) ==
    LET n == Least(len, mss)
    IN  /\ snd_nxt' = (snd_nxt + n) % W
        /\ IF ok THEN /\ call' = [op |-> "send", tries |-> 0, seq |-> snd_nxt,
                                  n |-> n, len |-> len]
                      /\ Tx(Segment("data", snd_nxt, last - len + 1, n))
                      /\ UNCHANGED usable
                 ELSE Return(FALSE) /\ UNCHANGED <<wire, adv>>

Send(len, ok) ==
    /\ call.op = "none" /\ usable
    /\ offered + len <= ReqLen
    /\ offered' = offered + len
    /\ Piece(len, offered + len, ok)
    /\ UNCHANGED <<state, snd_una, rcv_nxt, mss, fin, rst, buffer, iss,
                   confirmed, got, eof, peer>>

SendReset == /\ call.op = "send" /\ (rst \/ state = "CLOSED")
             /\ Return(FALSE)
             /\ UNCHANGED <<conn, buffer, iss, offered, confirmed, got, eof, wire, peer, adv>>

SendAcked(ok) ==
    /\ call.op = "send" /\ ~rst /\ state # "CLOSED" /\ AllAcked
    /\ IF call.len > call.n
       THEN Piece(call.len - call.n, offered, ok) /\ UNCHANGED confirmed
       ELSE /\ Return(TRUE)
            /\ confirmed' = offered
            /\ UNCHANGED <<snd_nxt, wire, adv>>
    /\ UNCHANGED <<state, snd_una, rcv_nxt, mss, fin, rst, buffer, iss,
                   offered, got, eof, peer>>

\* Half a second has passed: the piece goes out again, or tcp_send gives up.
SendTimeout(ok) ==
    /\ call.op = "send" /\ ~rst /\ state # "CLOSED" /\ ~AllAcked
    /\ IF ok /\ call.tries + 1 < SEND_TRIES
       THEN /\ call' = [call EXCEPT !.tries = @ + 1]
            /\ Tx(Segment("data", call.seq, offered - call.len + 1, call.n))
            /\ UNCHANGED usable
       ELSE Return(FALSE) /\ UNCHANGED <<wire, adv>>
    /\ UNCHANGED <<conn, buffer, iss, offered, confirmed, got, eof, peer>>

---------------------------------------------------------------------------
(***************************************************************************)
(* tcp_recv, with a timeout or without.                                    *)
(***************************************************************************)

Recv(timed) == /\ call.op = "none" /\ usable
               /\ call' = [NoCall EXCEPT !.op = IF timed THEN "recv" ELSE "recv_long"]
               /\ UNCHANGED <<conn, buffer, iss, app, wire, peer, adv>>

Receiving == call.op \in {"recv", "recv_long"}

\* Mutant of Reopens: only a window of zero is reopened.
ReopensZero(n) == rcount = T_RING /\ T_RING - (rcount - n) >= THRESH /\ state # "CLOSED"

\* The room has just grown past the threshold: the peer is told.
Reopens(n) == /\ T_RING - rcount < THRESH
              /\ T_RING - (rcount - n) >= THRESH
              /\ state # "CLOSED"

RecvData(cap) ==
    LET n == Least(cap, rcount)
    IN  /\ Receiving /\ rcount > 0
        /\ got' = got \o [k \in 1..n |-> ring[(rtail + k - 1) % T_RING]]
        /\ rtail' = (rtail + n) % T_RING
        /\ rcount' = rcount - n
        /\ adv' = IF Reopens(n) THEN Window(rcount - n) ELSE adv
        /\ Return(TRUE)
        /\ UNCHANGED <<conn, ring, rhead, iss, offered, confirmed, eof, wire, peer>>

RecvEof == /\ Receiving /\ rcount = 0 /\ fin
           /\ eof' = TRUE
           /\ Return(FALSE)
           /\ UNCHANGED <<conn, buffer, iss, offered, confirmed, got, wire, peer, adv>>

\* Mutant of RecvFails: the clock is not looked at.
RecvResetOnly == /\ Receiving /\ rcount = 0 /\ ~fin /\ rst
                 /\ Return(FALSE)
                 /\ UNCHANGED <<conn, buffer, iss, offered, confirmed, got, eof, wire, peer, adv>>

RecvFails == /\ Receiving /\ rcount = 0 /\ ~fin
             /\ rst \/ call.op = "recv"        \* reset, or the time is up
             /\ Return(FALSE)
             /\ UNCHANGED <<conn, buffer, iss, offered, confirmed, got, eof, wire, peer, adv>>

---------------------------------------------------------------------------
(***************************************************************************)
(* tcp_close, which every caller calls when it is done or a call failed.   *)
(***************************************************************************)

Close == /\ call.op = "none"
         /\ IF Up
            THEN /\ snd_nxt' = (snd_nxt + 1) % W
                 /\ \/ Tx(Segment("fin", snd_nxt, 0, 0))
                    \/ UNCHANGED <<wire, adv>>
                 /\ call' = [NoCall EXCEPT !.op = "close"]
                 /\ UNCHANGED state
            ELSE /\ state' = "CLOSED"
                 /\ UNCHANGED <<snd_nxt, wire, adv, call>>
         /\ usable' = FALSE
         /\ UNCHANGED <<snd_una, rcv_nxt, mss, fin, rst, buffer, iss,
                        offered, confirmed, got, eof, peer>>

\* The FIN is acknowledged, or half a second has passed.
CloseDone == /\ call.op = "close"
             /\ call' = NoCall
             /\ state' = "CLOSED"
             /\ UNCHANGED <<snd_una, snd_nxt, rcv_nxt, mss, fin, rst, buffer, iss,
                            app, wire, peer, adv>>

---------------------------------------------------------------------------

Waits == \/ Connected \/ ConnectReset \/ SendReset \/ RecvEof \/ RecvFails \/ CloseDone
         \/ \E ok \in BOOLEAN : ConnectTimeout(ok) \/ SendAcked(ok) \/ SendTimeout(ok)
         \/ \E cap \in Caps : RecvData(cap)

Starts == \/ \E i \in ISSs, ok \in BOOLEAN : Connect(i, ok)
          \/ \E len \in 1..ReqLen, ok \in BOOLEAN : Send(len, ok)
          \/ \E timed \in BOOLEAN : Recv(timed)
          \/ Close

Packets == \/ RstIn
           \/ \E m \in Msss : SynAckIn(m)
           \/ \E s \in PeerSegments : SegmentIn(s)

Peer == PeerSyn \/ PeerData \/ PeerFin

Next == Waits \/ Starts \/ Packets \/ Peer

\* A call that waits is a loop with a clock: it goes on.
Spec == Init /\ [][Next]_vars /\ WF_vars(Waits)

---------------------------------------------------------------------------
(***************************************************************************)
(* Properties.                                                             *)
(***************************************************************************)

\* The fields of tc and the locals of the calls keep their ranges: the ring's
\* indexes stay inside it and rcount is what lies between them.
TypeOK ==
    /\ state \in {"CLOSED", "SYN_SENT", "ESTAB", "CLOSE_WAIT"}
    /\ {snd_una, snd_nxt, rcv_nxt, iss} \subseteq 0..W-1
    /\ mss \in Msss \cup {0}
    /\ {fin, rst, eof, usable} \subseteq BOOLEAN
    /\ ring \in [0..T_RING-1 -> 0..StreamLen]
    /\ {rhead, rtail} \subseteq 0..T_RING-1
    /\ rcount \in 0..T_RING /\ rhead = (rtail + rcount) % T_RING
    /\ call.op \in {"none", "connect", "send", "recv", "recv_long", "close"}
    /\ call.tries \in 0 .. SYN_TRIES + SEND_TRIES
    /\ offered \in 0..ReqLen /\ confirmed \in 0..offered
    /\ adv \in 0..WIN_MAX

\* However segments are lost, repeated, reordered or cut differently when
\* they are sent again, and wherever the sequence numbers wrap: what tcp_recv
\* has handed out and what waits in the ring is the beginning of the peer's
\* stream, each byte once, and rcv_nxt is the number of the byte after it.
InOrder ==
    /\ TypeOK
    /\ state \in {"ESTAB", "CLOSE_WAIT"} =>
        LET held == [k \in 1..rcount |-> ring[(rtail + k - 1) % T_RING]]
            n == Len(got) + rcount
        IN  /\ got \o held = [k \in 1..n |-> k]
            /\ rcv_nxt = (peer.irs + 1 + n + (IF fin THEN 1 ELSE 0)) % W
            /\ fin => n = StreamLen

\* A peer that was last told of a small window is told when there is room
\* again: if the last window was under the threshold, the room still is.
WindowReopened == Up /\ adv < THRESH => T_RING - rcount < THRESH

\* The client is a reliable byte stream in both directions: no byte lost,
\* doubled or out of place, "clean EOF" only after the last byte, and
\* tcp_send returns 0 only when the peer has everything.
Stream == INSTANCE ByteStream WITH ToPeer <- ReqLen, FromPeer <- StreamLen,
              open <- usable, arrived <- peer.arrived, ended <- eof

ImplementsStream == Stream!Spec

\* No peer, silent, slow or broken, keeps tcp_connect, tcp_send, tcp_close
\* or a tcp_recv with a timeout from returning.
CallsEnd == \A op \in {"connect", "send", "recv", "close"} :
                (call.op = op) ~> (call.op = "none")
=============================================================================
