----------------------------- MODULE TcpProofs -----------------------------
(***************************************************************************)
(* What holds of the TCP client for every width of the sequence numbers,   *)
(* size of the ring, window and threshold, length of the streams, and      *)
(* number of tries, whatever the network does to the segments.             *)
(***************************************************************************)
EXTENDS Tcp, SequenceTheorems, TLAPS

---------------------------------------------------------------------------
(***************************************************************************)
(* The inductive invariant.                                                *)
(***************************************************************************)
Ops == {"none", "connect", "send", "recv", "recv_long", "close"}

Upto(n) == [k \in 1..n |-> k]

Records ==
    /\ call \in [op : Ops, tries : Nat, seq : 0..W-1, n : Nat, len : Nat]
    /\ peer \in [syn : BOOLEAN, irs : 0..W-1, arrived : Seq(Nat), fin : BOOLEAN]
    /\ wire \subseteq [kind : {"syn", "data", "fin"}, seq : 0..W-1, first : Nat, n : Nat]
    /\ got \in Seq(Nat)

\* The bytes of the peer's stream that tcp_in has taken, and its FIN.
Received == Len(got) + rcount
Passed == Received + (IF fin THEN 1 ELSE 0)

\* From the peer: what was handed out and what the ring holds from its tail
\* on are the beginning of the stream, and rcv_nxt counts what was taken.
\* All but rcv_nxt also holds when the connection has been closed.
Receives ==
    /\ got = Upto(Len(got)) /\ Received <= StreamLen
    /\ \A k \in 1..rcount : ring[(rtail + k - 1) % T_RING] = Len(got) + k
    /\ fin => Received = StreamLen
    /\ Up => peer.syn /\ rcv_nxt = (peer.irs + 1 + Passed) % W
    /\ state = "SYN_SENT" => got = <<>> /\ rcount = 0 /\ ~fin

\* A data segment has the number that belongs to its bytes.
Numbered(s) == /\ s.first \in 1..offered /\ s.first + s.n - 1 <= offered
               /\ s.seq = (iss + s.first) % W

\* To the peer: it has a beginning of what the caller handed over, every
\* segment is numbered by its bytes, and only what the peer has received is
\* acknowledged.
Sends ==
    /\ peer.arrived = Upto(Len(peer.arrived)) /\ Len(peer.arrived) <= offered
    /\ \A s \in wire : s.kind = "data" => Numbered(s)
    /\ Up => snd_una \in PeerAcks

\* How many bytes tcp_send has put into segments is what snd_nxt counts.
Numbers ==
    /\ (usable \/ call.op = "connect") /\ call.op # "send" =>
            snd_nxt = (iss + 1 + offered) % W
    /\ call.op = "send" =>
            /\ call.len \in 1..offered /\ call.n \in 0..call.len
            /\ call.seq = (iss + 1 + (offered - call.len)) % W
            /\ snd_nxt = (iss + 1 + (offered - call.len + call.n)) % W

\* Once a FIN may be under way the caller is done with the connection.
Ending == ~usable /\ call.op \in {"none", "close"}

Phases ==
    /\ call.op = "connect" => /\ ~usable /\ offered = 0 /\ confirmed = 0
                              /\ got = <<>> /\ ~eof
    /\ call.op \in {"send", "recv", "recv_long"} => usable
    /\ call.op = "close" => ~usable
    /\ usable => state # "SYN_SENT"
    /\ peer.fin \/ (\E s \in wire : s.kind = "fin") => Ending

TcpInv == TypeOK /\ Records /\ Receives /\ Sends /\ Numbers /\ Phases

---------------------------------------------------------------------------
(***************************************************************************)
(* Arithmetic.                                                             *)
(***************************************************************************)

\* One turn around m in either direction.
LEMMA Mod ==
    ASSUME NEW m \in Nat \ {0}, NEW a \in Int, -m <= a, a < 2 * m
    PROVE  a % m = IF a < 0 THEN a + m ELSE IF a < m THEN a ELSE a - m
<1>1. CASE a < 0
  BY <1>1
<1>2. CASE 0 <= a /\ a < m
  BY <1>2
<1>3. CASE m <= a
  BY <1>3
<1> QED  BY <1>1, <1>2, <1>3

\* The same, for a sum.
LEMMA Turn ==
    ASSUME NEW m \in Nat \ {0}, NEW a \in Nat, NEW c \in Nat, a + c < 2 * m
    PROVE  /\ (a + c) % m = IF a + c < m THEN a + c ELSE a + c - m
           /\ (a + c) % m \in 0..m-1
<1> DEFINE d == a + c
<1>1. d \in Int /\ 0 <= d /\ -m <= d /\ d < 2 * m
  OBVIOUS
<1>2. d % m = IF d < 0 THEN d + m ELSE IF d < m THEN d ELSE d - m
  <2> HIDE DEF d
  <2> QED  BY <1>1, Mod
<1> QED  BY <1>1, <1>2

\* Going on from a place that is x behind b.
LEMMA Onward ==
    ASSUME NEW m \in Nat \ {0}, NEW b \in Nat, NEW x \in Nat, NEW l \in 0..m,
           b + x + l < 2 * m
    PROVE  (((b + x) % m) + l) % m = (b + (x + l)) % m
<1> DEFINE e == (b + x) % m
           c == x + l
<1>1. e = IF b + x < m THEN b + x ELSE b + x - m
  <2>1. b + x < 2 * m
    OBVIOUS
  <2> QED  BY ONLY <2>1, m \in Nat \ {0}, b \in Nat, x \in Nat, Turn
<1>2. (b + c) % m = IF b + c < m THEN b + c ELSE b + c - m
  <2>1. c \in Nat /\ b + c < 2 * m
    OBVIOUS
  <2> HIDE DEF c
  <2> QED  BY ONLY <2>1, m \in Nat \ {0}, b \in Nat, Turn
<1>3. e \in Nat /\ e < m /\ e + l < 2 * m
  BY <1>1
<1> HIDE DEF e
<1>4. (e + l) % m = IF e + l < m THEN e + l ELSE e + l - m
  <2>1. l \in Nat
    OBVIOUS
  <2> QED  BY ONLY <1>3, <2>1, m \in Nat \ {0}, Turn
<1>5. (e + l) % m = (b + c) % m
  BY <1>1, <1>2, <1>3, <1>4
<1> QED  BY <1>5 DEF e

\* How far the place l behind the one at x is from the one at y.
LEMMA Gap ==
    ASSUME NEW m \in Nat \ {0}, NEW b \in Nat, NEW x \in Nat, NEW y \in Nat, NEW l \in 0..m,
           b + x < 2 * m, b + y < 2 * m, y - x - l <= m, x + l - y < m,
           NEW e, NEW f, e = (b + x) % m, f = (b + y) % m
    PROVE  (e + l - f) % m = IF y <= x + l THEN x + l - y ELSE x + l - y + m
<1> DEFINE d == e + l - f
<1>1. /\ e = IF b + x < m THEN b + x ELSE b + x - m
      /\ f = IF b + y < m THEN b + y ELSE b + y - m
      /\ e \in 0..m-1 /\ f \in 0..m-1
  BY Turn
<1>2. d \in Int /\ -m <= d /\ d < 2 * m
  BY <1>1
<1>3. d = x + l - y \/ d = x + l - y + m \/ d = x + l - y - m
  BY <1>1
<1> HIDE DEF d
<1>4. d % m = IF d < 0 THEN d + m ELSE IF d < m THEN d ELSE d - m
  BY <1>2, Mod
<1>5. d % m = IF y <= x + l THEN x + l - y ELSE x + l - y + m
  BY <1>2, <1>3, <1>4
<1> QED  BY <1>5 DEF d

Half == W \div 2

LEMMA Sizes == /\ Half \in Nat /\ 2 * Half <= W /\ W < 2 * Half + 2
               /\ ReqLen + 2 <= Half /\ StreamLen + 2 <= Half
               /\ W \in Nat \ {0} /\ T_RING \in Nat \ {0}
               /\ WIN_MAX \in Nat \ {0} /\ THRESH \in Nat \ {0}
               /\ ReqLen \in Nat \ {0} /\ StreamLen \in Nat \ {0}
               /\ SYN_TRIES \in Nat \ {0} /\ SEND_TRIES \in Nat \ {0}
               /\ THRESH <= T_RING /\ THRESH <= WIN_MAX
BY SizesAssumption DEF Half

\* Sequence numbers e and f that are counted from the same one, b.
LEMMA Distance ==
    ASSUME NEW b \in 0..W, NEW x \in 0..Half, NEW y \in 0..Half,
           NEW e, NEW f, e = (b + x) % W, f = (b + y) % W
    PROVE  /\ e \in 0..W-1 /\ f \in 0..W-1
           /\ Sub(e, f) = IF y <= x THEN x - y ELSE x - y + W
           /\ e = f => x = y
           /\ \A l \in 0..Half : x + l <= Half =>
                /\ (e + l) % W = (b + (x + l)) % W
                /\ Sub(e + l, f) = IF y <= x + l THEN x + l - y ELSE x + l - y + W
<1>1. /\ W \in Nat \ {0} /\ b \in Nat /\ x \in Nat /\ y \in Nat
      /\ b + x < 2 * W /\ b + y < 2 * W
  BY Sizes
<1>2. /\ e = IF b + x < W THEN b + x ELSE b + x - W
      /\ f = IF b + y < W THEN b + y ELSE b + y - W
      /\ e \in 0..W-1 /\ f \in 0..W-1
  BY ONLY <1>1, Turn, e = (b + x) % W, f = (b + y) % W
<1>3. e = f => x = y
  BY <1>2, Sizes
<1>4. ASSUME NEW l \in 0..Half, x + l <= Half
      PROVE  /\ (e + l) % W = (b + (x + l)) % W
             /\ Sub(e + l, f) = IF y <= x + l THEN x + l - y ELSE x + l - y + W
  <2>1. l \in 0..W /\ b + x + l < 2 * W /\ y - x - l <= W /\ x + l - y < W
    BY <1>4, Sizes
  <2>2. (e + l) % W = (b + (x + l)) % W
    BY ONLY <1>1, <2>1, Onward, e = (b + x) % W
  <2>3. (e + l - f) % W = IF y <= x + l THEN x + l - y ELSE x + l - y + W
    BY ONLY SMTT(30), <1>1, <2>1, Gap, e = (b + x) % W, f = (b + y) % W
  <2> QED  BY <1>1, <1>2, <2>2, <2>3 DEF Sub
<1>5. Sub(e, f) = IF y <= x THEN x - y ELSE x - y + W
  <2>1. 0 \in 0..Half /\ x + 0 <= Half /\ x + 0 = x /\ e + 0 = e
    BY <1>2, Sizes
  <2>2. Sub(e + 0, f) = IF y <= x + 0 THEN x + 0 - y ELSE x + 0 - y + W
    BY ONLY <1>4, <2>1
  <2> QED  BY <2>1, <2>2
<1> QED  BY <1>2, <1>3, <1>4, <1>5

\* The slots of the ring: t is its tail, c the bytes it holds, h its head.
LEMMA RingSlots ==
    ASSUME NEW t \in 0..T_RING-1, NEW c \in 0..T_RING, NEW h, h = (t + c) % T_RING
    PROVE  /\ h \in 0..T_RING-1
           /\ \A k \in 1..T_RING :
                /\ (t + k - 1) % T_RING \in 0..T_RING-1
                /\ (((t + k - 1) % T_RING) - h) % T_RING =
                        IF k <= c THEN k - 1 - c + T_RING ELSE k - 1 - c
           /\ \A n \in 0 .. T_RING - c : (h + n) % T_RING = (t + (c + n)) % T_RING
<1> DEFINE m == T_RING
<1>1. /\ m \in Nat \ {0} /\ t \in Nat /\ c \in Nat /\ t + c < 2 * m /\ h = (t + c) % m
      /\ t \in 0..m-1
  BY Sizes
<1>2. h \in 0..m-1
  BY ONLY <1>1, Turn
<1>3. ASSUME NEW k \in 1..m
      PROVE  /\ (t + k - 1) % m \in 0..m-1
             /\ (((t + k - 1) % m) - h) % m = IF k <= c THEN k - 1 - c + m ELSE k - 1 - c
  <2> DEFINE x == k - 1
             e == (t + x) % m
  <2>1. x \in Nat /\ t + x < 2 * m /\ c - x - 0 <= m /\ x + 0 - c < m /\ 0 \in 0..m
    BY <1>1, Sizes
  <2>2. t + k - 1 = t + x
    BY <1>1
  <2> HIDE DEF m, x
  <2>3. e \in 0..m-1
    BY ONLY <1>1, <2>1, Turn
  <2>4. (e + 0 - h) % m = IF c <= x + 0 THEN x + 0 - c ELSE x + 0 - c + m
    <3>1. e = (t + x) % m
      OBVIOUS
    <3> HIDE DEF e
    <3> QED  BY ONLY SMTT(30), <3>1, <1>1, <2>1, Gap
  <2>5. e = (t + k - 1) % m
    BY <2>2
  <2> HIDE DEF e
  <2>6. e + 0 - h = e - h
    BY ONLY <2>3, <1>1, <1>2
  <2>7. (e - h) % m = IF c <= x THEN x - c ELSE x - c + m
    BY ONLY <2>1, <2>4, <2>6, <1>1
  <2>8. x = k - 1 /\ k \in Nat
    BY DEF x, m
  <2>9. (e - h) % m = IF k <= c THEN k - 1 - c + m ELSE k - 1 - c
    BY ONLY <2>7, <2>8, <1>1
  <2> QED  BY ONLY <2>3, <2>5, <2>9
<1>4. ASSUME NEW n \in 0 .. m - c
      PROVE  (h + n) % m = (t + (c + n)) % m
  <2>1. n \in 0..m /\ t + c + n < 2 * m
    BY <1>1
  <2> QED  BY ONLY <1>1, <2>1, Onward
<1> QED  BY <1>2, <1>3, <1>4

---------------------------------------------------------------------------
(***************************************************************************)
(* From the peer.                                                          *)
(***************************************************************************)

\* TypeOK and Records, field by field.
LEMMA Typed ==
    ASSUME TypeOK, Records
    PROVE  /\ snd_una \in 0..W-1 /\ snd_nxt \in 0..W-1 /\ rcv_nxt \in 0..W-1 /\ iss \in 0..W-1
           /\ fin \in BOOLEAN /\ rst \in BOOLEAN /\ eof \in BOOLEAN /\ usable \in BOOLEAN
           /\ rhead \in 0..T_RING-1 /\ rtail \in 0..T_RING-1 /\ rcount \in 0..T_RING
           /\ rhead = (rtail + rcount) % T_RING
           /\ peer.syn \in BOOLEAN /\ peer.fin \in BOOLEAN /\ peer.irs \in 0..W-1
           /\ peer.arrived \in Seq(Nat) /\ Len(peer.arrived) \in Nat
           /\ got \in Seq(Nat) /\ Len(got) \in Nat
           /\ offered \in 0..ReqLen /\ confirmed \in 0..offered
           /\ call.op \in Ops
<1>1. Len(peer.arrived) \in Nat /\ Len(got) \in Nat
  BY LenProperties DEF Records
<1> QED  BY <1>1 DEF TypeOK, Records, Ops

\* What a segment brings is the next of the stream, and its FIN counts only
\* when nothing is missing before it.
LEMMA SegmentFacts ==
    ASSUME TcpInv, Up, NEW s \in PeerSegments
    PROVE  /\ Taken(s) \in 0 .. T_RING - rcount
           /\ Received + Taken(s) <= StreamLen
           /\ Taken(s) > 0 => s.len > 0 /\ ~fin /\ s.off + Skip(s) = Received
           /\ FinOK(s) => ~fin /\ Received + Taken(s) = StreamLen
           /\ Skip(s) \in Nat /\ s.off \in Nat /\ FinOK(s) \in BOOLEAN
<1> DEFINE b == peer.irs + 1
           x == Passed
           y == s.off
           e == SeqOf(s)
           l == s.len
<1> USE Sizes
<1>1. /\ y \in 0..StreamLen /\ l \in 0..StreamLen /\ s.fin \in BOOLEAN
      /\ y + l <= StreamLen /\ (s.fin => y + l = StreamLen)
  BY DEF PeerSegments
<1>2. /\ rcount \in 0..T_RING /\ Len(got) \in Nat /\ fin \in BOOLEAN /\ peer.irs \in 0..W-1
  BY Typed DEF TcpInv
<1>3. /\ Received \in 0..StreamLen /\ (fin => Received = StreamLen)
      /\ x = Received + (IF fin THEN 1 ELSE 0)
      /\ rcv_nxt = (peer.irs + 1 + x) % W
  BY <1>2 DEF TcpInv, Receives, Received, Passed
<1>4. /\ b \in 0..W /\ x \in 0..Half /\ y \in 0..Half /\ l \in 0..Half /\ y + l <= Half
      /\ rcv_nxt = (b + x) % W /\ e = (b + y) % W
  <2>1. e = (b + y) % W /\ rcv_nxt = (b + x) % W
    BY <1>3 DEF SeqOf
  <2> HIDE DEF x, e
  <2>2. b \in 0..W /\ y \in 0..Half /\ l \in 0..Half /\ y + l <= Half
    BY <1>1, <1>2
  <2>3. x \in 0..Half
    BY <1>2, <1>3
  <2> QED  BY <2>1, <2>2, <2>3
<1> HIDE DEF b, x, e
<1>5. /\ rcv_nxt \in 0..W-1 /\ e \in 0..W-1 /\ (rcv_nxt = e <=> x = y)
      /\ Sub(rcv_nxt, e) = IF y <= x THEN x - y ELSE x - y + W
      /\ Sub(e + l, rcv_nxt) = IF x <= y + l THEN y + l - x ELSE y + l - x + W
      /\ (e + l) % W = (b + (y + l)) % W
  <2>1. /\ rcv_nxt \in 0..W-1 /\ e \in 0..W-1 /\ (rcv_nxt = e => x = y)
        /\ Sub(rcv_nxt, e) = IF y <= x THEN x - y ELSE x - y + W
    BY ONLY <1>4, Distance
  <2>2. /\ Sub(e + l, rcv_nxt) = IF x <= y + l THEN y + l - x ELSE y + l - x + W
        /\ (e + l) % W = (b + (y + l)) % W
    BY ONLY <1>4, Distance
  <2> QED  BY <1>4, <2>1, <2>2
<1>6. InOrderSegment(s) <=> y = x \/ (y < x /\ x < y + l)
  <2>1. After(rcv_nxt, e) <=> y < x
    BY <1>1, <1>3, <1>4, <1>5 DEF After, Half
  <2>2. After(e + l, rcv_nxt) <=> x < y + l
    BY <1>1, <1>3, <1>4, <1>5 DEF After, Half
  <2> QED  BY <1>5, <2>1, <2>2 DEF InOrderSegment, e
<1>7. Skip(s) = IF y <= x THEN x - y ELSE x - y + W
  BY <1>5 DEF Skip, e
<1>8. Fresh(s) > 0 => l > 0 /\ ~fin /\ y + Skip(s) = Received /\ Fresh(s) = y + l - Received
  BY <1>1, <1>3, <1>6, <1>7 DEF Fresh
<1>9. Fresh(s) \in Nat
  BY <1>1, <1>3, <1>6, <1>7 DEF Fresh
<1>10. /\ Taken(s) \in 0 .. T_RING - rcount /\ Taken(s) <= Fresh(s)
  BY <1>2, <1>9 DEF Taken, Least
<1>11. Received + Taken(s) <= StreamLen
  BY <1>1, <1>3, <1>8, <1>9, <1>10
<1>12. ASSUME FinOK(s) PROVE ~fin /\ Received + Taken(s) = StreamLen
  <2> DEFINE n == Taken(s)
  <2>1. n \in 0..Half /\ x + n <= Half /\ y + l = StreamLen
    BY <1>1, <1>3, <1>10, <1>11, <1>12 DEF FinOK, FinKept
  <2>2. (rcv_nxt + n) % W = (b + (x + n)) % W
    <3> HIDE DEF n
    <3> QED  BY ONLY <1>4, <2>1, Distance
  <2>3. (b + (y + l)) % W = (b + (x + n)) % W
    BY <1>5, <1>12, <2>2 DEF FinOK, e
  <2>4. y + l = x + n
    <3> DEFINE u == y + l
               v == x + n
    <3>1. u \in 0..Half /\ v \in 0..Half /\ b \in 0..W /\ (b + u) % W = (b + v) % W
      BY <1>1, <1>3, <1>4, <2>1, <2>3
    <3> HIDE DEF u, v
    <3>2. u = v
      BY ONLY <3>1, Distance
    <3> QED  BY <3>2 DEF u, v
  <2> QED  BY <1>1, <1>3, <1>8, <1>10, <2>1, <2>4
<1> QED  BY <1>1, <1>7, <1>3, <1>8, <1>9, <1>10, <1>11, <1>12 DEF FinOK, FinKept

\* tcp_in writes behind the head and leaves what the ring holds.
LEMMA RingFilled ==
    ASSUME TcpInv, Up, NEW s \in PeerSegments, NEW n, n = Taken(s)
    PROVE  /\ Stored(s, n) \in [0..T_RING-1 -> 0..StreamLen]
           /\ \A k \in 1 .. rcount + n : Stored(s, n)[(rtail + k - 1) % T_RING] = Len(got) + k
<1> USE Sizes
<1>1. /\ rcount \in 0..T_RING /\ rtail \in 0..T_RING-1 /\ rhead \in 0..T_RING-1
      /\ rhead = (rtail + rcount) % T_RING /\ Len(got) \in Nat
      /\ ring \in [0..T_RING-1 -> 0..StreamLen]
  BY Typed DEF TcpInv, TypeOK
<1>2. /\ n \in 0 .. T_RING - rcount /\ Received + n <= StreamLen /\ Received = Len(got) + rcount
      /\ n > 0 => s.off + Skip(s) = Received
      /\ Skip(s) \in Nat /\ s.off \in Nat
  BY SegmentFacts DEF Received
<1> DEFINE at(k) == (k - rhead) % T_RING
           v(k) == IF at(k) < n THEN s.off + Skip(s) + at(k) + 1 ELSE ring[k]
<1>3. Stored(s, n) = [k \in 0..T_RING-1 |-> v(k)]
  BY DEF Stored
<1>4. ASSUME NEW k \in 0..T_RING-1 PROVE v(k) \in 0..StreamLen
  <2>1. k - rhead \in Int /\ -T_RING <= k - rhead /\ k - rhead < 2 * T_RING
    BY <1>1
  <2> DEFINE d == k - rhead
  <2>2. d % T_RING = IF d < 0 THEN d + T_RING ELSE IF d < T_RING THEN d ELSE d - T_RING
    <3> HIDE DEF d
    <3> QED  BY <2>1, Mod DEF d
  <2>3. at(k) \in Nat
    BY <1>1, <2>2
  <2> HIDE DEF at
  <2>4. CASE at(k) < n
    <3> DEFINE a == at(k)
    <3>1. a \in Nat /\ a < n /\ n \in Nat /\ s.off + Skip(s) = Received
      BY <1>1, <1>2, <2>3, <2>4
    <3>2. Received \in Nat /\ Received + n <= StreamLen
      BY <1>1, <1>2
    <3>3. v(k) = s.off + Skip(s) + a + 1
      BY <2>4
    <3> HIDE DEF a, v
    <3>4. v(k) = Received + a + 1
      BY ONLY <3>1, <3>3
    <3> QED  BY ONLY <3>1, <3>2, <3>4, Sizes
  <2>5. CASE ~(at(k) < n)
    BY <1>1, <2>5
  <2> QED  BY <2>4, <2>5
<1>5. ASSUME NEW k \in 1 .. rcount + n
      PROVE  Stored(s, n)[(rtail + k - 1) % T_RING] = Len(got) + k
  <2> DEFINE j == (rtail + k - 1) % T_RING
  <2>1. k \in 1..T_RING
    BY <1>1, <1>2
  <2>2. /\ j \in 0..T_RING-1
        /\ (j - rhead) % T_RING = IF k <= rcount THEN k - 1 - rcount + T_RING ELSE k - 1 - rcount
    BY ONLY <1>1, <2>1, RingSlots
  <2> HIDE DEF j
  <2>3. Stored(s, n)[j] = v(j)
    BY <1>3, <2>2
  <2>4. CASE k <= rcount
    <3>1. ~(at(j) < n)
      BY SMTT(30), <1>1, <1>2, <2>2, <2>4
    <3>2. ring[j] = Len(got) + k
      <4>1. k \in 1..rcount
        BY <1>1, <2>4
      <4>2. \A i \in 1..rcount : ring[(rtail + i - 1) % T_RING] = Len(got) + i
        BY DEF TcpInv, Receives
      <4> QED  BY ONLY <4>1, <4>2 DEF j
    <3> QED  BY <2>3, <3>1, <3>2 DEF j
  <2>5. CASE k > rcount
    <3>1. at(j) = k - 1 - rcount /\ at(j) < n /\ n > 0
      <4> DEFINE q == (j - rhead) % T_RING
      <4>1. q = IF k <= rcount THEN k - 1 - rcount + T_RING ELSE k - 1 - rcount
        BY <2>2
      <4> HIDE DEF q
      <4>2. q = k - 1 - rcount /\ q < n /\ n > 0
        <5>1. /\ k \in Int /\ k <= rcount + n /\ k > rcount
              /\ rcount \in Int /\ n \in Int
          BY <1>1, <1>2, <2>5
        <5> QED  BY ONLY <4>1, <5>1
      <4> QED  BY <4>2 DEF q
    <3>2. v(j) = s.off + Skip(s) + at(j) + 1
      BY <3>1
    <3> HIDE DEF at, v
    <3>3. v(j) = Len(got) + k
      BY <1>1, <1>2, <3>1, <3>2
    <3> QED  BY <2>3, <3>3 DEF j
  <2> QED  BY <1>1, <2>4, <2>5
<1> QED  BY <1>3, <1>4, <1>5

\* The room that is stated can be stated.
LEMMA WindowFacts ==
    ASSUME NEW c \in 0..T_RING
    PROVE  /\ Window(c) \in 0..WIN_MAX
           /\ Window(c) < THRESH => T_RING - c < THRESH
BY Sizes DEF Window, Least

\* All the peer has ever acknowledged are sequence numbers.
LEMMA AcksFacts ==
    ASSUME TcpInv
    PROVE  PeerAcks \subseteq 0..W-1
<1> USE Sizes
<1> SUFFICES ASSUME NEW k \in 0 .. Len(peer.arrived) + (IF peer.fin THEN 1 ELSE 0)
             PROVE  (iss + 1 + k) % W \in 0..W-1
  BY DEF PeerAcks
<1>1. iss + 1 \in 0..W /\ k \in 0..Half
  <2>1. /\ iss \in 0..W-1 /\ Len(peer.arrived) \in Nat /\ peer.fin \in BOOLEAN
        /\ offered \in 0..ReqLen /\ Len(peer.arrived) <= offered
    BY Typed DEF TcpInv, Sends
  <2> DEFINE z == Len(peer.arrived)
  <2>2. k \in 0 .. z + (IF peer.fin THEN 1 ELSE 0) /\ z \in Nat /\ z <= ReqLen
    <3>1. z \in Nat /\ z <= ReqLen
      BY <2>1
    <3> QED  BY <3>1
  <2> HIDE DEF z
  <2>3. k \in 0 .. z + 1
    BY <2>1, <2>2
  <2> QED  BY <2>1, <2>2, <2>3
<1> DEFINE b == iss + 1
<1> HIDE DEF b
<1>2. b \in 0..W /\ k \in 0..Half
  BY <1>1 DEF b
<1>3. (b + k) % W \in 0..W-1
  BY ONLY <1>2, Distance
<1> QED  BY <1>3 DEF b

LEMMA SegmentStep ==
    ASSUME TcpInv, NEW s \in PeerSegments, SegmentIn(s)
    PROVE  TcpInv'
<1> USE Sizes
<1> DEFINE n == Taken(s)
           f == FinOK(s)
           g == IF f THEN 1 ELSE 0
<1>1. Up /\ UNCHANGED <<snd_nxt, mss, rst, rtail, call, iss, usable, offered, confirmed, got,
                        eof, wire, peer>>
  BY DEF SegmentIn, app
<1>2. /\ snd_una' = (IF After(s.ack, snd_una) /\ ~After(s.ack, snd_nxt) THEN s.ack ELSE snd_una)
      /\ ring' = Stored(s, n)
      /\ rhead' = (rhead + n) % T_RING
      /\ rcount' = rcount + n
      /\ rcv_nxt' = (rcv_nxt + n + g) % W
      /\ fin' = (fin \/ f)
      /\ state' = (IF f THEN "CLOSE_WAIT" ELSE state)
      /\ adv' = (IF s.len > 0 \/ f THEN Window(rcount') ELSE adv)
  BY DEF SegmentIn
<1>3. /\ n \in 0 .. T_RING - rcount /\ Received + n <= StreamLen
      /\ f => ~fin /\ Received + n = StreamLen
      /\ f \in BOOLEAN
  BY <1>1, SegmentFacts
<1>4. /\ ring' \in [0..T_RING-1 -> 0..StreamLen]
      /\ \A k \in 1 .. rcount + n : ring'[(rtail + k - 1) % T_RING] = Len(got) + k
  BY <1>1, <1>2, RingFilled
<1> HIDE DEF n, f
<1>5. /\ rcount \in 0..T_RING /\ rtail \in 0..T_RING-1 /\ rhead = (rtail + rcount) % T_RING
      /\ Len(got) \in Nat /\ fin \in BOOLEAN /\ peer.irs \in 0..W-1
      /\ snd_una \in 0..W-1 /\ adv \in 0..WIN_MAX /\ Received = Len(got) + rcount
  BY Typed DEF TcpInv, TypeOK, Received
<1>6. /\ rcount' \in 0..T_RING /\ rhead' = (rtail' + rcount') % T_RING /\ rhead' \in 0..T_RING-1
  <2>1. rhead' = (rtail + (rcount + n)) % T_RING
    BY ONLY <1>2, <1>3, <1>5, RingSlots
  <2>2. rcount + n \in 0..T_RING
    BY <1>3, <1>5
  <2> DEFINE c == rcount + n
  <2>3. rhead' \in 0..T_RING-1
    <3>1. c \in 0..T_RING /\ rhead' = (rtail + c) % T_RING /\ rtail \in 0..T_RING-1
      BY <1>5, <2>1, <2>2
    <3> HIDE DEF c
    <3> QED  BY ONLY <3>1, RingSlots
  <2> QED  BY <1>1, <1>2, <2>1, <2>2, <2>3
<1>7. s.ack \in PeerAcks
  BY DEF PeerSegments
<1>8. adv' \in 0..WIN_MAX
  BY <1>2, <1>5, <1>6, WindowFacts
<1>9. rcv_nxt' = (peer.irs + 1 + Passed') % W /\ rcv_nxt' \in 0..W-1
  <2> DEFINE b == peer.irs + 1
             x == Passed
             z == n + g
  <2>1. x = Received + (IF fin THEN 1 ELSE 0) /\ rcv_nxt = (b + x) % W
    BY <1>1 DEF Passed, TcpInv, Receives
  <2>2. Passed' = x + z
    <3>1. Received' = Received + n
      BY <1>1, <1>2, <1>3, <1>5 DEF Received
    <3>2. Passed' = Received' + (IF fin' THEN 1 ELSE 0)
      BY DEF Passed
    <3> HIDE DEF x
    <3>3. CASE f
      <4>1. ~fin /\ fin' /\ z = n + 1
        BY <1>2, <1>3, <3>3
      <4>2. x = Received /\ Passed' = Received' + 1 /\ Received \in Int /\ n \in Int
        BY <1>3, <1>5, <2>1, <3>2, <4>1
      <4> QED  BY ONLY <3>1, <4>1, <4>2
    <3>4. CASE ~f
      <4>1. (fin' <=> fin) /\ z = n
        <5>1. fin' = (fin \/ f) /\ f \in BOOLEAN /\ fin \in BOOLEAN
          BY <1>2, <1>3, <1>5
        <5>2. fin' <=> fin
          BY ONLY <5>1, <3>4, Zenon
        <5>3. z = n
          BY <1>3, <3>4
        <5> QED  BY <5>2, <5>3
      <4>2. /\ x = Received + (IF fin THEN 1 ELSE 0)
            /\ Passed' = Received + n + (IF fin THEN 1 ELSE 0)
            /\ Received \in Int /\ n \in Int
        BY <1>3, <1>5, <2>1, <3>1, <3>2, <4>1
      <4> QED  BY ONLY <4>1, <4>2
    <3> QED  BY <3>3, <3>4
  <2>3. b \in 0..W /\ x \in 0..Half /\ z \in 0..Half /\ x + z <= Half
    <3>1. fin => Received = StreamLen
      BY DEF TcpInv, Receives
    <3> HIDE DEF x
    <3>2. Received \in Nat /\ n \in Nat /\ Received + n <= StreamLen
      BY <1>3, <1>5
    <3>3. x \in Nat /\ z \in Nat /\ x <= Received + 1 /\ z <= n + 1
      BY <2>1, <3>2
    <3>4. b \in 0..W
      BY <1>5
    <3> HIDE DEF z, b
    <3> QED  BY <3>2, <3>3, <3>4
  <2>4. rcv_nxt' = (rcv_nxt + z) % W
    <3>1. rcv_nxt \in Int /\ n \in Int
      BY <1>3, Typed DEF TcpInv
    <3> QED  BY <1>2, <3>1
  <2> HIDE DEF b, x, z
  <2>5. (rcv_nxt + z) % W = (b + (x + z)) % W
    BY ONLY <2>1, <2>3, Distance
  <2>6. (b + (x + z)) % W \in 0..W-1
    <3> DEFINE w == x + z
    <3>1. w \in 0..Half /\ b \in 0..W
      BY <2>3
    <3> HIDE DEF w
    <3>2. (b + w) % W \in 0..W-1
      BY ONLY <3>1, Distance
    <3> QED  BY <3>2 DEF w
  <2> QED  BY <2>2, <2>4, <2>5, <2>6 DEF b
<1>10. snd_una' \in PeerAcks /\ snd_una' \in 0..W-1 /\ PeerAcks' = PeerAcks
  BY <1>1, <1>2, <1>5, <1>7, AcksFacts DEF PeerAcks, TcpInv, Sends
<1>11. TypeOK'
  <2>1. state' \in {"CLOSED", "SYN_SENT", "ESTAB", "CLOSE_WAIT"}
    BY <1>1, <1>2 DEF Up
  <2>2. fin' \in BOOLEAN
    BY <1>2
  <2> QED  BY <1>1, <1>4, <1>6, <1>8, <1>9, <1>10, <2>1, <2>2 DEF TcpInv, TypeOK
<1>12. Records'
  BY <1>1 DEF TcpInv, Records
<1>13. Up'
  BY <1>1, <1>2 DEF Up
<1>14. Receives'
  <2>1. got' = Upto(Len(got')) /\ Received' <= StreamLen
    BY <1>1, <1>2, <1>3, <1>5 DEF TcpInv, Receives, Received
  <2>2. \A k \in 1..rcount' : ring'[(rtail' + k - 1) % T_RING] = Len(got') + k
    BY <1>1, <1>2, <1>4
  <2>3. fin' => Received' = StreamLen
    BY <1>1, <1>2, <1>3, <1>5, SegmentFacts DEF TcpInv, Receives, Received
  <2>4. peer'.syn /\ rcv_nxt' = (peer'.irs + 1 + Passed') % W
    BY <1>1, <1>9 DEF TcpInv, Receives
  <2>5. state' # "SYN_SENT"
    BY <1>13 DEF Up
  <2> QED  BY <2>1, <2>2, <2>3, <2>4, <2>5 DEF Receives
<1>15. Sends'
  BY <1>1, <1>10 DEF TcpInv, Sends, Numbered
<1>16. Numbers'
  BY <1>1 DEF TcpInv, Numbers
<1>17. Phases'
  BY <1>1, <1>13 DEF TcpInv, Phases, Ending, Up
<1> QED  BY <1>11, <1>12, <1>14, <1>15, <1>16, <1>17 DEF TcpInv

LEMMA UptoFacts ==
    ASSUME NEW m \in Nat
    PROVE  /\ Upto(m) \in Seq(Nat) /\ Len(Upto(m)) = m
           /\ \A k \in 1..m : Upto(m)[k] = k
BY DEF Upto

\* A beginning of a stream and the bytes that follow it.
LEMMA Extended ==
    ASSUME NEW g \in Seq(Nat), g = Upto(Len(g)), NEW n \in Nat, NEW h,
           DOMAIN h = 1..n, h = [k \in 1..n |-> h[k]],
           \A k \in 1..n : h[k] = Len(g) + k
    PROVE  /\ g \o h \in Seq(Nat) /\ Len(g \o h) = Len(g) + n
           /\ g \o h = Upto(Len(g) + n)
<1>1. Len(g) \in Nat
  BY LenProperties
<1> DEFINE l == Len(g)
<1>2. h \in Seq(Nat) /\ Len(h) = n
  <2>1. \A k \in 1..n : h[k] \in Nat
    BY <1>1
  <2>2. h \in [1..n -> Nat]
    BY <2>1
  <2> QED  BY <2>2
<1>3. /\ g \o h \in Seq(Nat) /\ Len(g \o h) = l + n
      /\ \A i \in 1 .. l + n : (g \o h)[i] = IF i <= l THEN g[i] ELSE h[i - l]
  BY ONLY <1>2, ConcatProperties, g \in Seq(Nat)
<1>4. l + n \in Nat
  BY <1>1
<1>5. /\ Upto(l + n) \in Seq(Nat) /\ Len(Upto(l + n)) = l + n
      /\ \A i \in 1 .. l + n : Upto(l + n)[i] = i
  BY ONLY <1>4, UptoFacts
<1>6. \A i \in 1..l : g[i] = i
  BY <1>1, UptoFacts
<1>7. \A i \in 1 .. l + n : (g \o h)[i] = i
  <2> SUFFICES ASSUME NEW i \in 1 .. l + n PROVE (g \o h)[i] = i
    OBVIOUS
  <2>1. CASE i <= l
    BY <1>1, <1>3, <1>6, <2>1
  <2>2. CASE i > l
    <3>1. i - l \in 1..n
      BY <1>1, <2>2
    <3>2. h[i - l] = l + (i - l)
      BY <3>1
    <3>3. l + (i - l) = i
      BY <1>1
    <3> QED  BY <1>1, <1>3, <2>2, <3>2, <3>3
  <2> QED  BY <1>1, <2>1, <2>2
<1>8. g \o h = Upto(l + n)
  <2>1. \A i \in 1 .. l + n : (g \o h)[i] = Upto(l + n)[i]
    BY <1>5, <1>7
  <2> QED  BY ONLY <1>3, <1>5, <2>1, SeqEqual
<1> QED  BY <1>3, <1>8

\* Receives speaks of the receiving half only, and less of a closed one.
LEMMA ReceivesFrame ==
    ASSUME Receives, UNCHANGED <<got, ring, rtail, rcount, fin, rcv_nxt>>,
           peer'.syn = peer.syn, peer'.irs = peer.irs, state' \in {state, "CLOSED"}
    PROVE  Receives'
BY DEF Receives, Received, Passed, Up

LEMMA SendsFrame ==
    ASSUME Sends, UNCHANGED <<iss, snd_una, peer, offered, wire>>, state' \in {state, "CLOSED"}
    PROVE  Sends'
BY DEF Sends, Numbered, PeerAcks, Up

\* tcp_recv hands out the oldest bytes of the ring.
LEMMA RecvStep ==
    ASSUME TcpInv, NEW cap \in Caps, RecvData(cap)
    PROVE  TcpInv' /\ Len(got') > Len(got) /\ usable /\ usable'
<1> USE Sizes
<1> DEFINE n == Least(cap, rcount)
           h == [k \in 1..n |-> ring[(rtail + k - 1) % T_RING]]
<1>1. /\ Receiving /\ rcount > 0
      /\ got' = got \o h /\ rtail' = (rtail + n) % T_RING /\ rcount' = rcount - n
      /\ adv' = (IF Reopens(n) THEN Window(rcount - n) ELSE adv)
      /\ call' = NoCall /\ usable' = TRUE
      /\ UNCHANGED <<state, snd_una, snd_nxt, rcv_nxt, mss, fin, rst, ring, rhead, iss, offered,
                     confirmed, eof, wire, peer>>
  BY DEF RecvData, Return, conn
<1>2. /\ rcount \in 0..T_RING /\ rtail \in 0..T_RING-1 /\ rhead = (rtail + rcount) % T_RING
      /\ got \in Seq(Nat) /\ Len(got) \in Nat /\ adv \in 0..WIN_MAX
      /\ rhead \in 0..T_RING-1
  BY Typed DEF TcpInv, TypeOK
<1>3. n \in 1..rcount
  BY <1>1, <1>2, SetsAssumption DEF Least
<1> HIDE DEF n
<1>4. /\ got' \in Seq(Nat) /\ Len(got') = Len(got) + n /\ got' = Upto(Len(got) + n)
  <2>1. \A k \in 1..rcount : ring[(rtail + k - 1) % T_RING] = Len(got) + k
    BY DEF TcpInv, Receives
  <2>2. \A k \in 1..n : h[k] = Len(got) + k
    <3> SUFFICES ASSUME NEW k \in 1..n PROVE h[k] = Len(got) + k
      OBVIOUS
    <3>1. k \in 1..rcount
      BY <1>2, <1>3
    <3> QED  BY <2>1, <3>1
  <2>3. got = Upto(Len(got)) /\ n \in Nat /\ got \in Seq(Nat)
    BY <1>2, <1>3 DEF TcpInv, Receives
  <2>4. DOMAIN h = 1..n /\ h = [k \in 1..n |-> h[k]]
    OBVIOUS
  <2> HIDE DEF h
  <2>5. /\ got \o h \in Seq(Nat) /\ Len(got \o h) = Len(got) + n
        /\ got \o h = Upto(Len(got) + n)
    BY ONLY <2>2, <2>3, <2>4, Extended
  <2> QED  BY <1>1, <2>5
<1> HIDE DEF h
<1>5. /\ rtail' \in 0..T_RING-1 /\ rcount' \in 0..T_RING
      /\ rhead' = (rtail' + rcount') % T_RING
      /\ \A k \in 1..rcount' : (rtail' + k - 1) % T_RING = (rtail + (n + k) - 1) % T_RING
  <2>1. rcount' \in 0..T_RING
    BY <1>1, <1>2, <1>3
  <2>2. /\ T_RING \in Nat \ {0} /\ rtail \in Nat /\ n \in Nat /\ rtail + n < 2 * T_RING
        /\ rtail' = (rtail + n) % T_RING
    BY <1>1, <1>2, <1>3
  <2>3. rtail' \in 0..T_RING-1
    BY ONLY <2>2, Turn
  <2>4. ASSUME NEW l \in 0 .. T_RING - n PROVE (rtail' + l) % T_RING = (rtail + (n + l)) % T_RING
    <3>1. l \in 0..T_RING /\ rtail + n + l < 2 * T_RING
      BY <1>2, <1>3
    <3> QED  BY ONLY <2>2, <3>1, Onward
  <2>5. rcount' \in 0 .. T_RING - n /\ n + rcount' = rcount
    BY <1>1, <1>2, <1>3
  <2>6. rhead' = (rtail' + rcount') % T_RING
    BY <1>1, <1>2, <2>4, <2>5
  <2>7. ASSUME NEW k \in 1..rcount'
        PROVE  (rtail' + k - 1) % T_RING = (rtail + (n + k) - 1) % T_RING
    <3> DEFINE l == k - 1
    <3>1. /\ l \in 0 .. T_RING - n /\ rtail' + k - 1 = rtail' + l
          /\ rtail + (n + k) - 1 = rtail + (n + l)
      BY <1>2, <1>3, <2>1, <2>3, <2>5
    <3> HIDE DEF l
    <3> QED  BY <2>4, <3>1
  <2> QED  BY <2>1, <2>3, <2>6, <2>7
<1>6. Received' = Received /\ Passed' = Passed
  BY <1>1, <1>2, <1>3, <1>4 DEF Received, Passed
<1>7. Receives'
  <2>1. got' = Upto(Len(got')) /\ Received' <= StreamLen
    BY <1>4, <1>6 DEF TcpInv, Receives
  <2>2. ASSUME NEW k \in 1..rcount' PROVE ring'[(rtail' + k - 1) % T_RING] = Len(got') + k
    <3>1. n + k \in 1..rcount
      BY <1>1, <1>2, <1>3
    <3>2. ring[(rtail + (n + k) - 1) % T_RING] = Len(got) + (n + k)
      BY <3>1 DEF TcpInv, Receives
    <3>3. Len(got) + (n + k) = Len(got') + k
      BY <1>2, <1>3, <1>4, <3>1
    <3> QED  BY <1>1, <1>5, <3>2, <3>3
  <2>3. fin' => Received' = StreamLen
    BY <1>1, <1>6 DEF TcpInv, Receives
  <2>4. Up' => peer'.syn /\ rcv_nxt' = (peer'.irs + 1 + Passed') % W
    BY <1>1, <1>6 DEF TcpInv, Receives, Up
  <2>5. state' # "SYN_SENT"
    BY <1>1 DEF TcpInv, Receives
  <2> QED  BY <2>1, <2>2, <2>3, <2>4, <2>5 DEF Receives
<1>8. adv' \in 0..WIN_MAX
  BY <1>1, <1>2, <1>5, WindowFacts
<1>9. TypeOK'
  <2>1. /\ call'.op \in Ops /\ call'.tries \in 0 .. SYN_TRIES + SEND_TRIES
        /\ {fin', rst', eof', usable'} \subseteq BOOLEAN
        /\ {rhead', rtail'} \subseteq 0..T_RING-1
        /\ rcount' \in 0..T_RING /\ rhead' = (rtail' + rcount') % T_RING
    <3>1. call'.op \in Ops /\ call'.tries \in 0 .. SYN_TRIES + SEND_TRIES
      BY <1>1 DEF NoCall, Ops
    <3>2. fin \in BOOLEAN /\ rst \in BOOLEAN /\ eof \in BOOLEAN
      BY Typed DEF TcpInv
    <3>3. {fin', rst', eof', usable'} \subseteq BOOLEAN
      BY <1>1, <3>2
    <3>4. {rhead', rtail'} \subseteq 0..T_RING-1
      BY <1>1, <1>2, <1>5
    <3> QED  BY <1>5, <3>1, <3>3, <3>4
  <2> QED  BY <1>1, <1>8, <2>1 DEF TcpInv, TypeOK, Ops
<1>10. Records'
  BY <1>1, <1>4 DEF TcpInv, Records, NoCall, Ops
<1>11. Sends'
  BY <1>1, SendsFrame DEF TcpInv
<1>12. usable /\ call.op # "send"
  BY <1>1 DEF TcpInv, Phases, Receiving
<1>13. Numbers'
  BY <1>1, <1>12 DEF TcpInv, Numbers, NoCall
<1>14. Phases'
  BY <1>1, <1>12 DEF TcpInv, Phases, NoCall, Ending, Receiving
<1> QED  BY <1>1, <1>2, <1>3, <1>4, <1>7, <1>9, <1>10, <1>11, <1>12, <1>13, <1>14 DEF TcpInv

---------------------------------------------------------------------------
(***************************************************************************)
(* The calls.                                                              *)
(***************************************************************************)

\* TypeOK, for a step that leaves the ring alone.
LEMMA TypeFrame ==
    ASSUME TypeOK, UNCHANGED <<ring, rhead, rtail, rcount>>,
           state' \in {"CLOSED", "SYN_SENT", "ESTAB", "CLOSE_WAIT"},
           snd_una' \in 0..W-1, snd_nxt' \in 0..W-1, rcv_nxt' \in 0..W-1, iss' \in 0..W-1,
           mss' \in Msss \cup {0},
           fin' \in BOOLEAN, rst' \in BOOLEAN, eof' \in BOOLEAN, usable' \in BOOLEAN,
           call'.op \in Ops, call'.tries \in 0 .. SYN_TRIES + SEND_TRIES,
           offered' \in 0..ReqLen, confirmed' \in 0..offered', adv' \in 0..WIN_MAX
    PROVE  TypeOK'
BY DEF TypeOK, Ops

\* A call returns.
LEMMA Returned ==
    ASSUME TcpInv, call' = NoCall, state' \in {state, "CLOSED"},
           usable' \in BOOLEAN, eof' \in BOOLEAN, confirmed' \in 0..offered,
           snd_nxt' \in 0..W-1, snd_nxt' = snd_nxt \/ ~usable',
           usable' => \/ call.op = "connect" /\ state = "ESTAB"
                      \/ call.op = "send" /\ call.len = call.n,
           UNCHANGED <<snd_una, rcv_nxt, mss, fin, rst, ring, rhead, rtail, rcount, iss, offered,
                       got, wire, peer, adv>>
    PROVE  TcpInv'
<1> USE Sizes
<1>1. TypeOK'
  <2>1. /\ snd_una' \in 0..W-1 /\ rcv_nxt' \in 0..W-1 /\ iss' \in 0..W-1
        /\ fin' \in BOOLEAN /\ rst' \in BOOLEAN
    BY Typed DEF TcpInv
  <2>2. /\ state' \in {"CLOSED", "SYN_SENT", "ESTAB", "CLOSE_WAIT"} /\ mss' \in Msss \cup {0}
        /\ offered' \in 0..ReqLen /\ adv' \in 0..WIN_MAX /\ confirmed' \in 0..offered'
    BY DEF TcpInv, TypeOK
  <2>3. call'.op \in Ops /\ call'.tries \in 0 .. SYN_TRIES + SEND_TRIES
    BY DEF NoCall, Ops
  <2> QED  BY <2>1, <2>2, <2>3, TypeFrame DEF TcpInv
<1>2. Records'
  BY DEF TcpInv, Records, NoCall, Ops
<1>3. Receives' /\ Sends'
  BY ReceivesFrame, SendsFrame DEF TcpInv
<1>4. Numbers'
  <2>1. ASSUME usable' PROVE snd_nxt' = (iss' + 1 + offered') % W
    <3>1. CASE call.op = "connect"
      BY <2>1, <3>1 DEF TcpInv, Numbers
    <3>2. CASE call.op = "send" /\ call.len = call.n
      <4>1. /\ snd_nxt = (iss + 1 + (offered - call.len + call.n)) % W
            /\ call.len \in Int /\ offered \in Int
        <5>1. offered \in Nat
          BY Typed DEF TcpInv
        <5>2. /\ snd_nxt = (iss + 1 + (offered - call.len + call.n)) % W
              /\ call.len \in 1..offered
          BY <3>2 DEF TcpInv, Numbers
        <5> QED  BY <5>1, <5>2
      <4>2. offered - call.len + call.n = offered
        BY <3>2, <4>1
      <4> QED  BY <2>1, <4>1, <4>2
    <3> QED  BY <2>1, <3>1, <3>2
  <2>2. call'.op = "none"
    BY DEF NoCall
  <2> QED  BY <2>1, <2>2 DEF Numbers
<1>5. Phases'
  <2>1. call'.op = "none"
    BY DEF NoCall
  <2>2. usable' => state' # "SYN_SENT"
    BY DEF TcpInv, Phases
  <2>3. peer'.fin \/ (\E s \in wire' : s.kind = "fin") => Ending'
    BY <2>1 DEF TcpInv, Phases, Ending
  <2> QED  BY <2>1, <2>2, <2>3 DEF Phases
<1> QED  BY <1>1, <1>2, <1>3, <1>4, <1>5 DEF TcpInv

LEMMA ReturnSteps ==
    ASSUME TcpInv,
           Connected \/ ConnectReset \/ SendReset \/ RecvEof \/ RecvFails \/ CloseDone
    PROVE  TcpInv'
<1>1. /\ confirmed \in 0..offered /\ snd_nxt \in 0..W-1
      /\ eof \in BOOLEAN /\ usable \in BOOLEAN
  BY Typed DEF TcpInv
<1>2. CASE Connected
  BY <1>1, <1>2, Returned DEF Connected, Return, conn, buffer
<1>3. CASE ConnectReset
  BY <1>1, <1>3, Returned DEF ConnectReset, Return, conn, buffer
<1>4. CASE SendReset
  BY <1>1, <1>4, Returned DEF SendReset, Return, conn, buffer
<1>5. CASE RecvEof
  BY <1>1, <1>5, Returned DEF RecvEof, Return, conn, buffer
<1>6. CASE RecvFails
  BY <1>1, <1>6, Returned DEF RecvFails, Return, conn, buffer
<1>7. CASE CloseDone
  <2>1. ~usable /\ UNCHANGED usable
    BY <1>7 DEF CloseDone, TcpInv, Phases, app
  <2> QED  BY <1>1, <1>7, <2>1, Returned DEF CloseDone, buffer, app
<1> QED  BY <1>2, <1>3, <1>4, <1>5, <1>6, <1>7

LEMMA ResetStep ==
    ASSUME TcpInv, RstIn
    PROVE  TcpInv'
<1>1. /\ rst' = TRUE /\ state' = "CLOSED"
      /\ UNCHANGED <<snd_una, snd_nxt, rcv_nxt, mss, fin, ring, rhead, rtail, rcount, call, iss,
                     usable, offered, confirmed, got, eof, wire, peer, adv>>
  BY DEF RstIn, buffer, app
<1>2. TypeOK'
  <2>1. {fin', rst', eof', usable'} \subseteq BOOLEAN
    BY <1>1, Typed DEF TcpInv
  <2> QED  BY <1>1, <2>1 DEF TcpInv, TypeOK
<1>3. Records'
  BY <1>1 DEF TcpInv, Records
<1>4. Receives' /\ Sends'
  BY <1>1, ReceivesFrame, SendsFrame DEF TcpInv
<1>5. Numbers' /\ Phases'
  BY <1>1 DEF TcpInv, Numbers, Phases, Ending
<1> QED  BY <1>2, <1>3, <1>4, <1>5 DEF TcpInv

LEMMA SynAckStep ==
    ASSUME TcpInv, NEW m \in Msss, SynAckIn(m)
    PROVE  TcpInv'
<1> USE Sizes
<1>1. /\ state = "SYN_SENT" /\ peer.syn /\ (iss + 1) % W = snd_nxt
      /\ rcv_nxt' = (peer.irs + 1) % W /\ snd_una' = snd_nxt /\ mss' = m /\ state' = "ESTAB"
      /\ adv' = Window(rcount)
      /\ UNCHANGED <<snd_nxt, fin, rst, ring, rhead, rtail, rcount, call, iss, usable, offered,
                     confirmed, got, eof, wire, peer>>
  BY DEF SynAckIn, buffer, app
<1>2. /\ rcount \in 0..T_RING /\ peer.irs \in 0..W-1 /\ iss \in 0..W-1
      /\ Len(peer.arrived) \in Nat /\ peer.fin \in BOOLEAN /\ snd_nxt \in 0..W-1
  BY Typed DEF TcpInv
<1>3. got = <<>> /\ rcount = 0 /\ ~fin
  BY <1>1 DEF TcpInv, Receives
<1>4. rcv_nxt' \in 0..W-1
  <2>1. /\ W \in Nat \ {0} /\ peer.irs \in Nat /\ 1 \in Nat /\ peer.irs + 1 < 2 * W
    BY <1>2
  <2> QED  BY ONLY <1>1, <2>1, Turn
<1>5. TypeOK'
  <2>1. adv' \in 0..WIN_MAX
    BY <1>1, <1>2, WindowFacts
  <2>2. {fin', rst', eof', usable'} \subseteq BOOLEAN
    BY <1>1, Typed DEF TcpInv
  <2>3. {snd_una', snd_nxt', rcv_nxt', iss'} \subseteq 0..W-1
    BY <1>1, <1>2, <1>4
  <2> QED  BY <1>1, <2>1, <2>2, <2>3 DEF TcpInv, TypeOK
<1>6. Records'
  BY <1>1 DEF TcpInv, Records
<1>7. Receives'
  <2>1. Received' = 0 /\ Passed' = 0
    BY <1>1, <1>3, EmptySeq DEF Received, Passed
  <2>2. rcv_nxt' = (peer'.irs + 1 + Passed') % W
    <3>1. peer.irs + 1 + 0 = peer.irs + 1
      BY <1>2
    <3> QED  BY <1>1, <2>1, <3>1
  <2>3. got' = Upto(Len(got')) /\ Received' <= StreamLen
    BY <1>1, <2>1 DEF TcpInv, Receives
  <2> QED  BY <1>1, <1>3, <2>1, <2>2, <2>3 DEF Receives
<1>8. Sends'
  <2>1. snd_una' \in PeerAcks'
    <3>1. 0 \in 0 .. Len(peer.arrived) + (IF peer.fin THEN 1 ELSE 0) /\ iss + 1 + 0 = iss + 1
      <4> DEFINE z == IF peer.fin THEN 1 ELSE 0
      <4>1. z \in Nat
        OBVIOUS
      <4> HIDE DEF z
      <4>2. 0 \in 0 .. Len(peer.arrived) + z /\ iss + 1 + 0 = iss + 1
        BY <1>2, <4>1
      <4> QED  BY <4>2 DEF z
    <3>2. snd_una' = (iss + 1 + 0) % W
      BY <1>1, <3>1
    <3>3. snd_una' \in PeerAcks
      BY <3>1, <3>2 DEF PeerAcks
    <3> QED  BY <1>1, <3>3 DEF PeerAcks
  <2> QED  BY <1>1, <2>1 DEF TcpInv, Sends, Numbered
<1>9. Numbers' /\ Phases'
  BY <1>1 DEF TcpInv, Numbers, Phases, Ending
<1> QED  BY <1>5, <1>6, <1>7, <1>8, <1>9 DEF TcpInv

---------------------------------------------------------------------------
(***************************************************************************)
(* The peer.                                                               *)
(***************************************************************************)

LEMMA PeerSynStep ==
    ASSUME TcpInv, PeerSyn
    PROVE  TcpInv'
<1>1. PICK r \in IRSs : /\ ~peer.syn /\ peer' = [peer EXCEPT !.syn = TRUE, !.irs = r]
                        /\ UNCHANGED <<conn, buffer, call, iss, app, wire, adv>>
  BY DEF PeerSyn
<1>2. UNCHANGED <<state, snd_una, snd_nxt, rcv_nxt, mss, fin, rst, ring, rhead, rtail, rcount,
                  call, iss, usable, offered, confirmed, got, eof, wire, adv>>
  BY <1>1 DEF conn, buffer, app
<1>3. peer' \in [syn : BOOLEAN, irs : 0..W-1, arrived : Seq(Nat), fin : BOOLEAN]
      /\ peer'.arrived = peer.arrived /\ peer'.fin = peer.fin
  BY <1>1, SetsAssumption DEF TcpInv, Records
<1>4. TypeOK' /\ Records'
  BY <1>2, <1>3 DEF TcpInv, TypeOK, Records
<1>5. ~Up
  BY <1>1 DEF TcpInv, Receives
<1>6. Receives'
  BY <1>2, <1>5 DEF TcpInv, Receives, Received, Up
<1>7. Sends'
  BY <1>2, <1>3, <1>5 DEF TcpInv, Sends, Numbered, Up
<1>8. Numbers' /\ Phases'
  BY <1>2, <1>3 DEF TcpInv, Numbers, Phases, Ending
<1> QED  BY <1>4, <1>6, <1>7, <1>8 DEF TcpInv

\* The peer has received more: what it could acknowledge before it still can.
LEMMA PeerMore ==
    ASSUME TcpInv, UNCHANGED <<conn, buffer, call, iss, app, wire, adv>>,
           peer' \in [syn : BOOLEAN, irs : 0..W-1, arrived : Seq(Nat), fin : BOOLEAN],
           peer'.syn = peer.syn, peer'.irs = peer.irs,
           peer'.arrived = Upto(Len(peer'.arrived)),
           Len(peer.arrived) <= Len(peer'.arrived), Len(peer'.arrived) <= offered,
           peer.fin => peer'.fin, peer'.fin => Ending
    PROVE  TcpInv'
<1>1. UNCHANGED <<state, snd_una, snd_nxt, rcv_nxt, mss, fin, rst, ring, rhead, rtail, rcount,
                  call, iss, usable, offered, confirmed, got, eof, wire, adv>>
  BY DEF conn, buffer, app
<1>2. TypeOK' /\ Records'
  BY <1>1 DEF TcpInv, TypeOK, Records
<1>3. Receives'
  BY <1>1, ReceivesFrame DEF TcpInv
<1>4. PeerAcks \subseteq PeerAcks'
  <2> DEFINE m == Len(peer.arrived) + (IF peer.fin THEN 1 ELSE 0)
             n == Len(peer'.arrived) + (IF peer'.fin THEN 1 ELSE 0)
  <2>1. Len(peer.arrived) \in Nat /\ Len(peer'.arrived) \in Nat
    BY LenProperties DEF TcpInv, Records
  <2>2. m \in Nat /\ n \in Nat /\ m <= n
    <3>1. CASE peer.fin
      BY <2>1, <3>1
    <3>2. CASE ~peer.fin
      <4> DEFINE z == IF peer'.fin THEN 1 ELSE 0
      <4>1. z \in Nat
        OBVIOUS
      <4>2. m = Len(peer.arrived) /\ n = Len(peer'.arrived) + z
        BY <2>1, <3>2
      <4> HIDE DEF z, m, n
      <4> QED  BY <2>1, <4>1, <4>2
    <3> QED  BY <3>1, <3>2
  <2>3. PeerAcks = {(iss + 1 + k) % W : k \in 0..m}
    BY DEF PeerAcks
  <2>4. PeerAcks' = {(iss + 1 + k) % W : k \in 0..n}
    BY <1>1 DEF PeerAcks
  <2> HIDE DEF m, n
  <2>5. 0..m \subseteq 0..n
    BY <2>2
  <2> QED  BY <2>3, <2>4, <2>5
<1>5. Sends'
  BY <1>1, <1>4 DEF TcpInv, Sends, Numbered, Up
<1>6. Numbers' /\ Phases'
  BY <1>1 DEF TcpInv, Numbers, Phases, Ending
<1> QED  BY <1>2, <1>3, <1>5, <1>6 DEF TcpInv

\* The bytes the peer takes from a segment are the next of what was sent.
LEMMA PeerDataFacts ==
    ASSUME TcpInv, PeerData
    PROVE  \E n \in Len(peer.arrived) + 1 .. offered :
               /\ peer'.arrived = Upto(n) /\ peer'.arrived \in Seq(Nat) /\ Len(peer'.arrived) = n
               /\ peer' = [peer EXCEPT !.arrived = Upto(n)]
<1> USE Sizes
<1> DEFINE g == peer.arrived
           l == Len(g)
           next == (iss + 1 + l) % W
           old(s) == Sub(next, s.seq)
<1>1. PICK s \in wire, n \in 1..ReqLen :
           /\ s.kind = "data"
           /\ old(s) + n <= s.n
           /\ peer' = [peer EXCEPT !.arrived = @ \o [k \in 1..n |-> s.first + old(s) + k - 1]]
  BY DEF PeerData
<1>2. /\ g \in Seq(Nat) /\ l \in Nat /\ g = Upto(l) /\ l <= offered
      /\ offered \in 0..ReqLen /\ iss \in 0..W-1
  BY Typed DEF TcpInv, Sends
<1>10. l = Len(g)
  OBVIOUS
<1> HIDE DEF g, l
<1>3. /\ s.first \in 1..offered /\ s.first + s.n - 1 <= offered /\ s.seq = (iss + s.first) % W
      /\ s.n \in Nat
  BY <1>1 DEF TcpInv, Sends, Numbered, Records
<1>4. Sub(next, s.seq) = IF s.first <= l + 1 THEN l + 1 - s.first ELSE l + 1 - s.first + W
  <2> DEFINE x == l + 1
             y == s.first
  <2>1. iss \in 0..W /\ x \in 0..Half /\ y \in 0..Half /\ iss + 1 + l = iss + x
    <3> HIDE DEF g, l
    <3>1. l \in Nat /\ offered \in Nat /\ l <= offered /\ offered <= ReqLen /\ iss \in 0..W-1
      BY ONLY <1>2, Sizes
    <3>2. s.first \in 1..offered
      BY <1>3
    <3> QED  BY <3>1, <3>2
  <2>2. next = (iss + x) % W
    BY <2>1
  <2> HIDE DEF x, y, next
  <2>3. s.seq = (iss + y) % W
    BY <1>3 DEF y
  <2>4. Sub(next, s.seq) = IF y <= x THEN x - y ELSE x - y + W
    BY ONLY <2>1, <2>2, <2>3, Distance
  <2>5. x = l + 1 /\ y = s.first
    BY DEF x, y
  <2>6. x \in Int /\ y \in Int /\ l \in Int /\ W \in Int
    BY <1>2, <2>1
  <2> DEFINE q == Sub(next, s.seq)
  <2>7. q = IF y <= x THEN x - y ELSE x - y + W
    BY <2>4
  <2> HIDE DEF q
  <2>8. q = IF s.first <= l + 1 THEN l + 1 - s.first ELSE l + 1 - s.first + W
    BY ONLY <2>5, <2>6, <2>7
  <2> QED  BY <2>8 DEF q
<1> DEFINE o == old(s)
<1> HIDE DEF next
<1>5. s.first <= l + 1 /\ o = l + 1 - s.first
  <2>1. /\ s.first \in Nat /\ s.first <= ReqLen /\ s.n <= ReqLen /\ o + n <= s.n
        /\ n \in Nat /\ n > 0 /\ s.n \in Nat
    <3>1. offered \in Nat /\ offered <= ReqLen
      BY ONLY <1>2, Sizes
    <3>2. o + n <= s.n
      BY <1>1
    <3>3. s.first \in Nat /\ s.first > 0 /\ s.first <= offered
      BY ONLY <1>3, <3>1
    <3>4. s.n <= ReqLen
      BY ONLY <1>3, <3>1, <3>3, Sizes
    <3> QED  BY <1>3, <3>1, <3>2, <3>3, <3>4
  <2>2. o = IF s.first <= l + 1 THEN l + 1 - s.first ELSE l + 1 - s.first + W
    BY <1>4
  <2> HIDE DEF o, l
  <2>3. l \in Nat
    BY <1>2
  <2> QED  BY ONLY <2>1, <2>2, <2>3, Sizes
<1> DEFINE h == [k \in 1..n |-> s.first + o + k - 1]
<1>6. \A k \in 1..n : h[k] = l + k
  BY <1>2, <1>3, <1>5
<1>7. /\ g \o h \in Seq(Nat) /\ Len(g \o h) = l + n /\ g \o h = Upto(l + n)
  <2>1. DOMAIN h = 1..n /\ h = [k \in 1..n |-> h[k]] /\ n \in Nat
    OBVIOUS
  <2> HIDE DEF h
  <2>2. \A k \in 1..n : h[k] = Len(g) + k
    BY <1>6, <1>10
  <2>3. g = Upto(Len(g)) /\ g \in Seq(Nat)
    BY <1>2, <1>10
  <2>4. /\ g \o h \in Seq(Nat) /\ Len(g \o h) = Len(g) + n /\ g \o h = Upto(Len(g) + n)
    BY ONLY <2>1, <2>2, <2>3, Extended
  <2> QED  BY <1>10, <2>4
<1>8. peer' = [peer EXCEPT !.arrived = g \o h] /\ peer'.arrived = g \o h
  BY <1>1 DEF TcpInv, Records, g
<1>9. l + n \in l + 1 .. offered
  <2>1. o + n <= s.n
    BY <1>1
  <2> HIDE DEF o
  <2>2. s.first \in Int /\ s.n \in Int /\ l \in Int /\ offered \in Int /\ n \in Int /\ n > 0
    BY <1>2, <1>3
  <2>3. l + n <= offered
    BY ONLY <1>3, <1>5, <2>1, <2>2
  <2> QED  BY <2>2, <2>3
<1> HIDE DEF h
<1> QED  BY <1>7, <1>8, <1>9, <1>10 DEF g

LEMMA PeerStep ==
    ASSUME TcpInv, Peer
    PROVE  TcpInv'
<1>1. CASE PeerSyn
  BY <1>1, PeerSynStep
<1>2. CASE PeerData
  <2>1. PICK n \in Len(peer.arrived) + 1 .. offered :
               /\ peer'.arrived = Upto(n) /\ peer'.arrived \in Seq(Nat) /\ Len(peer'.arrived) = n
               /\ peer' = [peer EXCEPT !.arrived = Upto(n)]
    BY <1>2, PeerDataFacts
  <2>2. /\ peer' \in [syn : BOOLEAN, irs : 0..W-1, arrived : Seq(Nat), fin : BOOLEAN]
        /\ peer'.syn = peer.syn /\ peer'.irs = peer.irs /\ peer'.fin = peer.fin
    BY <2>1 DEF TcpInv, Records
  <2>3. UNCHANGED <<conn, buffer, call, iss, app, wire, adv>>
    BY <1>2 DEF PeerData
  <2>4. /\ peer'.arrived = Upto(Len(peer'.arrived))
        /\ Len(peer.arrived) <= Len(peer'.arrived) /\ Len(peer'.arrived) <= offered
    BY <2>1, Typed DEF TcpInv
  <2>5. peer'.fin => Ending
    BY <2>2 DEF TcpInv, Phases
  <2> QED  BY <2>2, <2>3, <2>4, <2>5, PeerMore
<1>3. CASE PeerFin
  <2>1. PICK s \in wire : s.kind = "fin" /\ peer' = [peer EXCEPT !.fin = TRUE]
    BY <1>3 DEF PeerFin
  <2>2. /\ peer' \in [syn : BOOLEAN, irs : 0..W-1, arrived : Seq(Nat), fin : BOOLEAN]
        /\ peer'.syn = peer.syn /\ peer'.irs = peer.irs /\ peer'.arrived = peer.arrived
        /\ peer'.fin
    BY <2>1 DEF TcpInv, Records
  <2>3. UNCHANGED <<conn, buffer, call, iss, app, wire, adv>>
    BY <1>3 DEF PeerFin
  <2>4. /\ peer'.arrived = Upto(Len(peer'.arrived))
        /\ Len(peer.arrived) <= Len(peer'.arrived) /\ Len(peer'.arrived) <= offered
    BY <2>2, Typed DEF TcpInv, Sends
  <2>5. Ending
    BY <2>1 DEF TcpInv, Phases
  <2> QED  BY <2>2, <2>3, <2>4, <2>5, PeerMore
<1> QED  BY <1>1, <1>2, <1>3 DEF Peer

---------------------------------------------------------------------------
(***************************************************************************)
(* Sending.                                                                *)
(***************************************************************************)

\* A segment that is sent once more, while the caller waits.
LEMMA Resent ==
    ASSUME TcpInv, NEW seg, wire' = wire \cup {seg}, adv' = Window(rcount),
           seg \in [kind : {"syn", "data"}, seq : 0..W-1, first : Nat, n : Nat],
           seg.kind = "data" => Numbered(seg),
           call' = [call EXCEPT !.tries = @ + 1],
           call.tries + 1 \in 0 .. SYN_TRIES + SEND_TRIES,
           UNCHANGED <<conn, buffer, iss, app, peer>>
    PROVE  TcpInv'
<1> USE Sizes
<1>1. UNCHANGED <<state, snd_una, snd_nxt, rcv_nxt, mss, fin, rst, ring, rhead, rtail, rcount,
                  iss, usable, offered, confirmed, got, eof, peer>>
  BY DEF conn, buffer, app
<1>2. /\ call' \in [op : Ops, tries : Nat, seq : 0..W-1, n : Nat, len : Nat]
      /\ call'.op = call.op /\ call'.seq = call.seq /\ call'.n = call.n /\ call'.len = call.len
      /\ call'.tries \in 0 .. SYN_TRIES + SEND_TRIES
  <2> DEFINE C == [op : Ops, tries : Nat, seq : 0..W-1, n : Nat, len : Nat]
  <2>1. call \in C /\ call.tries + 1 \in Nat
    BY DEF TcpInv, Records
  <2>2. /\ call' \in C
        /\ call'.op = call.op /\ call'.seq = call.seq /\ call'.n = call.n
        /\ call'.len = call.len /\ call'.tries = call.tries + 1
    BY ONLY <2>1, call' = [call EXCEPT !.tries = @ + 1]
  <2> QED  BY <2>2
<1>3. TypeOK'
  <2>1. /\ snd_una' \in 0..W-1 /\ snd_nxt' \in 0..W-1 /\ rcv_nxt' \in 0..W-1 /\ iss' \in 0..W-1
        /\ fin' \in BOOLEAN /\ rst' \in BOOLEAN /\ eof' \in BOOLEAN /\ usable' \in BOOLEAN
        /\ offered' \in 0..ReqLen /\ confirmed' \in 0..offered' /\ rcount \in 0..T_RING
    BY <1>1, Typed DEF TcpInv
  <2>2. /\ state' \in {"CLOSED", "SYN_SENT", "ESTAB", "CLOSE_WAIT"} /\ mss' \in Msss \cup {0}
    BY <1>1 DEF TcpInv, TypeOK
  <2>3. adv' \in 0..WIN_MAX
    BY <2>1, WindowFacts
  <2>4. call'.op \in Ops
    BY <1>2 DEF TcpInv, Records
  <2> QED  BY <1>1, <1>2, <2>1, <2>2, <2>3, <2>4, TypeFrame DEF TcpInv
<1>4. Records'
  BY <1>1, <1>2 DEF TcpInv, Records
<1>5. Receives'
  BY <1>1, ReceivesFrame DEF TcpInv
<1>6. Sends'
  <2>1. \A s \in wire' : s.kind = "data" => Numbered(s)
    BY DEF TcpInv, Sends
  <2> QED  BY <1>1, <2>1 DEF TcpInv, Sends, Numbered, PeerAcks, Up
<1>7. Numbers' /\ Phases'
  BY <1>1, <1>2 DEF TcpInv, Numbers, Phases, Ending
<1> QED  BY <1>3, <1>4, <1>5, <1>6, <1>7 DEF TcpInv

LEMMA ConnectTimeoutStep ==
    ASSUME TcpInv, NEW ok \in BOOLEAN, ConnectTimeout(ok)
    PROVE  TcpInv'
<1> USE Sizes
<1>1. UNCHANGED <<snd_una, snd_nxt, rcv_nxt, mss, fin, rst, ring, rhead, rtail, rcount, iss,
                  offered, confirmed, got, eof, peer>>
  BY DEF ConnectTimeout, buffer
<1>2. CASE ok /\ call.tries + 1 < SYN_TRIES
  <2> DEFINE seg == Segment("syn", iss, 0, 0)
  <2>1. /\ call' = [call EXCEPT !.tries = @ + 1] /\ wire' = wire \cup {seg}
        /\ adv' = Window(rcount) /\ UNCHANGED <<state, usable>>
    BY <1>2 DEF ConnectTimeout, Tx
  <2>2. /\ seg \in [kind : {"syn", "data"}, seq : 0..W-1, first : Nat, n : Nat]
        /\ seg.kind = "syn"
    BY Typed DEF Segment, TcpInv
  <2>3. call.tries + 1 \in 0 .. SYN_TRIES + SEND_TRIES
    BY <1>2 DEF TcpInv, Records
  <2> HIDE DEF seg
  <2> QED  BY <1>1, <2>1, <2>2, <2>3, Resent DEF conn, buffer, app
<1>3. CASE ~(ok /\ call.tries + 1 < SYN_TRIES)
  <2>1. /\ state' = "CLOSED" /\ call' = NoCall /\ usable' = FALSE /\ UNCHANGED <<wire, adv>>
    BY <1>3 DEF ConnectTimeout, Return
  <2>2. /\ confirmed' \in 0..offered /\ snd_nxt' \in 0..W-1 /\ eof' \in BOOLEAN
    BY <1>1, Typed DEF TcpInv
  <2> QED  BY <1>1, <2>1, <2>2, Returned
<1> QED  BY <1>2, <1>3

LEMMA SendTimeoutStep ==
    ASSUME TcpInv, NEW ok \in BOOLEAN, SendTimeout(ok)
    PROVE  TcpInv'
<1> USE Sizes
<1>1. UNCHANGED <<state, snd_una, snd_nxt, rcv_nxt, mss, fin, rst, ring, rhead, rtail, rcount,
                  iss, offered, confirmed, got, eof, peer>>
  BY DEF SendTimeout, buffer, conn
<1>2. CASE ok /\ call.tries + 1 < SEND_TRIES
  <2> DEFINE seg == Segment("data", call.seq, offered - call.len + 1, call.n)
  <2>1. /\ call' = [call EXCEPT !.tries = @ + 1] /\ wire' = wire \cup {seg}
        /\ adv' = Window(rcount) /\ UNCHANGED usable
    BY <1>2 DEF SendTimeout, Tx
  <2>2. /\ call.len \in 1..offered /\ call.n \in 0..call.len /\ offered \in 0..ReqLen
        /\ call.seq = (iss + 1 + (offered - call.len)) % W /\ call.seq \in 0..W-1
        /\ iss \in 0..W-1
    BY Typed DEF SendTimeout, TcpInv, Numbers, Records
  <2>3. /\ seg \in [kind : {"syn", "data"}, seq : 0..W-1, first : Nat, n : Nat]
        /\ seg.kind = "data" /\ seg.first = offered - call.len + 1 /\ seg.n = call.n
        /\ seg.seq = call.seq
    BY <2>2 DEF Segment
  <2>4. Numbered(seg)
    <3>1. iss + 1 + (offered - call.len) = iss + seg.first
      BY <2>2, <2>3
    <3>2. seg.seq = (iss + seg.first) % W
      BY <2>2, <2>3, <3>1
    <3>3. seg.first \in 1..offered /\ seg.first + seg.n - 1 <= offered
      BY <2>2, <2>3
    <3> QED  BY <3>2, <3>3 DEF Numbered
  <2>5. call.tries + 1 \in 0 .. SYN_TRIES + SEND_TRIES
    BY <1>2 DEF TcpInv, Records
  <2> HIDE DEF seg
  <2> QED  BY <1>1, <2>1, <2>3, <2>4, <2>5, Resent DEF conn, buffer, app
<1>3. CASE ~(ok /\ call.tries + 1 < SEND_TRIES)
  <2>1. /\ call' = NoCall /\ usable' = FALSE /\ UNCHANGED <<wire, adv>>
    BY <1>3 DEF SendTimeout, Return
  <2>2. /\ confirmed' \in 0..offered /\ snd_nxt' \in 0..W-1 /\ eof' \in BOOLEAN
    BY <1>1, Typed DEF TcpInv
  <2> QED  BY <1>1, <2>1, <2>2, Returned
<1> QED  BY <1>2, <1>3

LEMMA ReceiveCall ==
    ASSUME TcpInv, NEW timed \in BOOLEAN, Recv(timed)
    PROVE  TcpInv'
<1>1. /\ call.op = "none" /\ usable
      /\ call' = [NoCall EXCEPT !.op = IF timed THEN "recv" ELSE "recv_long"]
      /\ UNCHANGED <<state, snd_una, snd_nxt, rcv_nxt, mss, fin, rst, ring, rhead, rtail, rcount,
                     iss, usable, offered, confirmed, got, eof, wire, peer, adv>>
  BY DEF Recv, conn, buffer, app
<1>2. /\ call'.op \in {"recv", "recv_long"} /\ call'.tries = 0
      /\ call' \in [op : Ops, tries : Nat, seq : 0..W-1, n : Nat, len : Nat]
  BY <1>1, Sizes DEF NoCall, Ops
<1>3. TypeOK'
  <2>1. call'.tries \in 0 .. SYN_TRIES + SEND_TRIES
    BY <1>2, Sizes
  <2>2. {fin', rst', eof', usable'} \subseteq BOOLEAN
    BY <1>1, Typed DEF TcpInv
  <2> QED  BY <1>1, <1>2, <2>1, <2>2 DEF TcpInv, TypeOK
<1>4. Records'
  BY <1>1, <1>2 DEF TcpInv, Records
<1>5. Receives' /\ Sends'
  BY <1>1, ReceivesFrame, SendsFrame DEF TcpInv
<1>6. Numbers' /\ Phases'
  BY <1>1, <1>2 DEF TcpInv, Numbers, Phases, Ending
<1> QED  BY <1>3, <1>4, <1>5, <1>6 DEF TcpInv

\* The first transmission of a piece: "sent" bytes have gone before it, and
\* the caller has handed over "last" altogether.
LEMMA PieceStep ==
    ASSUME TcpInv, NEW len \in 1..ReqLen, NEW last \in 0..ReqLen, NEW ok \in BOOLEAN,
           usable, call.op \in {"none", "send"}, len <= last, offered <= last,
           snd_nxt = (iss + 1 + (last - len)) % W,
           Piece(len, last, ok), offered' = last,
           UNCHANGED <<state, snd_una, rcv_nxt, mss, fin, rst, buffer, iss, confirmed, got, eof,
                       peer>>
    PROVE  TcpInv'
<1> USE Sizes
<1> DEFINE n == Least(len, mss)
           seg == Segment("data", snd_nxt, last - len + 1, n)
<1>1. /\ snd_nxt' = (snd_nxt + n) % W
      /\ \/ /\ call' = [op |-> "send", tries |-> 0, seq |-> snd_nxt, n |-> n, len |-> len]
            /\ wire' = wire \cup {seg} /\ adv' = Window(rcount) /\ usable' = usable
         \/ call' = NoCall /\ usable' = FALSE /\ UNCHANGED <<wire, adv>>
  BY DEF Piece, Tx, Return
<1>2. UNCHANGED <<state, snd_una, rcv_nxt, mss, fin, rst, ring, rhead, rtail, rcount,
                  iss, confirmed, got, eof, peer>>
  BY DEF buffer
<1>3. mss \in Nat /\ n \in 0..len
  <2>1. mss \in Nat
    BY SetsAssumption DEF TcpInv, TypeOK
  <2> QED  BY <2>1 DEF Least
<1>4. /\ iss \in 0..W-1 /\ snd_nxt \in 0..W-1 /\ offered \in 0..ReqLen /\ confirmed \in 0..offered
      /\ rcount \in 0..T_RING
  BY Typed DEF TcpInv
<1> HIDE DEF n
<1>5. /\ snd_nxt' \in 0..W-1 /\ snd_nxt' = (iss + 1 + (last - len + n)) % W
  <2> DEFINE b == iss + 1
             x == last - len
  <2>1. b \in 0..W /\ x \in 0..Half /\ n \in 0..Half /\ x + n <= Half
    BY <1>3, <1>4
  <2> HIDE DEF b, x
  <2>2. snd_nxt = (b + x) % W
    BY DEF b, x
  <2>3. (snd_nxt + n) % W = (b + (x + n)) % W
    BY ONLY <2>1, <2>2, Distance
  <2> DEFINE z == x + n
  <2>4. z \in 0..Half
    BY <2>1
  <2> HIDE DEF z
  <2>5. (b + z) % W \in 0..W-1
    BY ONLY <2>1, <2>4, Distance
  <2> QED  BY <1>1, <2>3, <2>5 DEF b, x, z
<1>6. TypeOK'
  <2>1. /\ snd_una' \in 0..W-1 /\ rcv_nxt' \in 0..W-1 /\ iss' \in 0..W-1
        /\ fin' \in BOOLEAN /\ rst' \in BOOLEAN /\ eof' \in BOOLEAN
    BY <1>2, Typed DEF TcpInv
  <2>2. /\ state' \in {"CLOSED", "SYN_SENT", "ESTAB", "CLOSE_WAIT"} /\ mss' \in Msss \cup {0}
        /\ adv \in 0..WIN_MAX
    BY <1>2 DEF TcpInv, TypeOK
  <2>3. adv' \in 0..WIN_MAX
    BY <1>1, <1>4, <2>2, WindowFacts
  <2>4. /\ call'.op \in Ops /\ call'.tries \in 0 .. SYN_TRIES + SEND_TRIES
        /\ usable' \in BOOLEAN
    <3>1. usable \in BOOLEAN /\ 0 \in 0 .. SYN_TRIES + SEND_TRIES
      BY Typed DEF TcpInv
    <3>2. (call'.op = "send" \/ call'.op = "none") /\ call'.tries = 0
      <4>1. CASE call' = NoCall
        BY <4>1 DEF NoCall
      <4>2. CASE call' = [op |-> "send", tries |-> 0, seq |-> snd_nxt, n |-> n, len |-> len]
        BY <4>2
      <4> QED  BY <1>1, <4>1, <4>2
    <3>3. usable' \in BOOLEAN
      BY <1>1, <3>1
    <3> QED  BY <3>1, <3>2, <3>3 DEF Ops
  <2>5. offered' \in 0..ReqLen /\ confirmed' \in 0..offered'
    BY <1>2, <1>4
  <2> QED  BY <1>2, <1>5, <2>1, <2>2, <2>3, <2>4, <2>5, TypeFrame DEF TcpInv
<1>7. Receives'
  BY <1>2, ReceivesFrame DEF TcpInv
<1>8. /\ seg \in [kind : {"data"}, seq : 0..W-1, first : Nat, n : Nat]
      /\ seg.kind = "data" /\ seg.first = last - len + 1 /\ seg.n = n /\ seg.seq = snd_nxt
  BY <1>3, <1>4 DEF Segment
<1>9. Records'
  <2>1. call' \in [op : Ops, tries : Nat, seq : 0..W-1, n : Nat, len : Nat]
    <3>1. CASE call' = NoCall
      BY <3>1 DEF Ops, NoCall
    <3>2. CASE call' = [op |-> "send", tries |-> 0, seq |-> snd_nxt, n |-> n, len |-> len]
      BY <1>3, <1>4, <3>2 DEF Ops
    <3> QED  BY <1>1, <3>1, <3>2
  <2> HIDE DEF seg
  <2>2. wire' \subseteq [kind : {"syn", "data", "fin"}, seq : 0..W-1, first : Nat, n : Nat]
    BY <1>1, <1>8 DEF TcpInv, Records
  <2> QED  BY <1>2, <2>1, <2>2 DEF TcpInv, Records
<1> HIDE DEF seg
<1>10. Sends'
  <2>1. ASSUME NEW s \in wire, s.kind = "data" PROVE Numbered(s)'
    <3>1. Numbered(s) /\ s.first \in Nat /\ s.n \in Nat
      BY <2>1 DEF TcpInv, Sends, Records
    <3>2. offered \in Nat /\ last \in Nat
      BY <1>4
    <3> QED  BY <1>2, <3>1, <3>2 DEF Numbered
  <2>2. ASSUME NEW s \in {seg} PROVE Numbered(s)'
    <3>1. s.first = last - len + 1 /\ s.n = n /\ s.seq = snd_nxt
      BY <1>8
    <3>2. iss + 1 + (last - len) = iss + s.first
      BY <1>4, <3>1
    <3>3. s.seq = (iss + s.first) % W
      BY <3>1, <3>2
    <3>4. s.first \in 1..last /\ s.first + s.n - 1 <= last
      BY <1>3, <3>1
    <3> QED  BY <1>2, <3>3, <3>4 DEF Numbered
  <2>3. \A s \in wire' : s.kind = "data" => Numbered(s)'
    <3> SUFFICES ASSUME NEW s \in wire', s.kind = "data" PROVE Numbered(s)'
      OBVIOUS
    <3>1. s \in wire \/ s \in {seg}
      BY <1>1
    <3> QED  BY <2>1, <2>2, <3>1
  <2>4. Len(peer.arrived) <= last /\ peer.arrived = Upto(Len(peer.arrived))
    BY <1>4, Typed DEF TcpInv, Sends
  <2>5. Up' => snd_una' \in PeerAcks'
    BY <1>2 DEF TcpInv, Sends, PeerAcks, Up
  <2> QED  BY <1>2, <2>3, <2>4, <2>5 DEF Sends
<1>11. Numbers'
  <2>1. CASE call' = NoCall /\ usable' = FALSE
    BY <2>1 DEF Numbers, NoCall
  <2>2. CASE call' = [op |-> "send", tries |-> 0, seq |-> snd_nxt, n |-> n, len |-> len]
    <3>1. call'.op = "send" /\ call'.len = len /\ call'.n = n /\ call'.seq = snd_nxt
      BY <2>2
    <3>2. len \in 1..last /\ n \in 0..len
      BY <1>3
    <3> QED  BY <1>2, <1>5, <3>1, <3>2 DEF Numbers
  <2> QED  BY <1>1, <2>1, <2>2
<1>12. Phases'
  <2>1. ~(peer.fin \/ \E s \in wire : s.kind = "fin")
    BY DEF TcpInv, Phases, Ending
  <2>2. ~(peer'.fin \/ \E s \in wire' : s.kind = "fin")
    BY <1>1, <1>2, <1>8, <2>1
  <2>3. usable => state # "SYN_SENT"
    BY DEF TcpInv, Phases
  <2>4. /\ call'.op \in {"none", "send"} /\ (call'.op = "send" => usable')
    <3>1. CASE call' = NoCall
      BY <3>1 DEF NoCall
    <3>2. CASE /\ call' = [op |-> "send", tries |-> 0, seq |-> snd_nxt, n |-> n, len |-> len]
               /\ usable' = usable
      BY <3>2
    <3> QED  BY <1>1, <3>1, <3>2
  <2> QED  BY <1>2, <2>2, <2>3, <2>4 DEF Phases
<1> QED  BY <1>6, <1>7, <1>9, <1>10, <1>11, <1>12 DEF TcpInv

LEMMA SendStep ==
    ASSUME TcpInv, NEW len \in 1..ReqLen, NEW ok \in BOOLEAN, Send(len, ok)
    PROVE  TcpInv'
<1> USE Sizes
<1> DEFINE last == offered + len
<1>1. offered \in 0..ReqLen /\ iss \in 0..W-1
  BY Typed DEF TcpInv
<1>2. /\ usable /\ call.op \in {"none", "send"} /\ call.op # "send"
      /\ offered + len <= ReqLen /\ offered' = last /\ Piece(len, last, ok)
      /\ UNCHANGED <<state, snd_una, rcv_nxt, mss, fin, rst, buffer, iss, confirmed, got, eof,
                     peer>>
  BY DEF Send
<1>3. last \in 0..ReqLen /\ len <= last /\ offered <= last /\ last - len = offered
  BY <1>1, <1>2
<1>4. snd_nxt = (iss + 1 + (last - len)) % W
  <2>1. snd_nxt = (iss + 1 + offered) % W
    BY <1>2 DEF TcpInv, Numbers
  <2> QED  BY <1>3, <2>1
<1> HIDE DEF last
<1> QED  BY <1>2, <1>3, <1>4, PieceStep

LEMMA SendAckedStep ==
    ASSUME TcpInv, NEW ok \in BOOLEAN, SendAcked(ok)
    PROVE  TcpInv'
<1> USE Sizes
<1>1. /\ call.op = "send" /\ usable
      /\ UNCHANGED <<state, snd_una, rcv_nxt, mss, fin, rst, buffer, iss, offered, got, eof, peer>>
  BY DEF SendAcked, TcpInv, Phases
<1>2. /\ call.len \in 1..offered /\ call.n \in 0..call.len
      /\ snd_nxt = (iss + 1 + (offered - call.len + call.n)) % W
  BY <1>1 DEF TcpInv, Numbers
<1>3. /\ offered \in 0..ReqLen /\ iss \in 0..W-1 /\ snd_nxt \in 0..W-1
      /\ confirmed \in 0..offered /\ eof \in BOOLEAN
  BY Typed DEF TcpInv
<1>4. CASE call.len > call.n
  <2> DEFINE len == call.len - call.n
  <2>1. Piece(len, offered, ok) /\ UNCHANGED confirmed
    BY <1>4 DEF SendAcked
  <2>2. /\ len \in 1..ReqLen /\ len <= offered /\ offered <= offered
        /\ offered - len = offered - call.len + call.n
    BY <1>2, <1>3, <1>4
  <2>3. snd_nxt = (iss + 1 + (offered - len)) % W
    BY <1>2, <2>2
  <2> HIDE DEF len
  <2>4. /\ call.op \in {"none", "send"} /\ offered' = offered
    BY <1>1
  <2> QED  BY <1>1, <1>3, <2>1, <2>2, <2>3, <2>4, PieceStep
<1>5. CASE ~(call.len > call.n)
  <2>1. /\ call' = NoCall /\ usable' = TRUE /\ confirmed' = offered
        /\ UNCHANGED <<snd_nxt, wire, adv>>
    BY <1>5 DEF SendAcked, Return
  <2>2. call.len = call.n
    <3>1. call.len \in Int /\ call.n \in Int /\ call.n <= call.len
      BY <1>2, <1>3
    <3> QED  BY ONLY <1>5, <3>1
  <2>3. confirmed' \in 0..offered /\ snd_nxt' \in 0..W-1 /\ eof' \in BOOLEAN
    BY <1>1, <1>3, <2>1
  <2> QED  BY <1>1, <2>1, <2>2, <2>3, Returned DEF buffer
<1> QED  BY <1>4, <1>5

---------------------------------------------------------------------------
(***************************************************************************)
(* Opening and closing.                                                    *)
(***************************************************************************)

LEMMA EmptyUpto == <<>> = Upto(Len(<<>>)) /\ <<>> \in Seq(Nat) /\ Len(<<>>) = 0
<1>1. <<>> \in Seq(Nat) /\ Len(<<>>) = 0
  BY EmptySeq
<1>2. Upto(0) \in Seq(Nat) /\ Len(Upto(0)) = 0
  BY UptoFacts
<1>3. \A i \in 1..0 : FALSE
  OBVIOUS
<1>4. <<>> = Upto(0)
  BY <1>1, <1>2, <1>3, SeqEqual
<1> QED  BY <1>1, <1>4

\* An empty ring.
LEMMA EmptyRing ==
    /\ [k \in 0..T_RING-1 |-> 0] \in [0..T_RING-1 -> 0..StreamLen]
    /\ 0 \in 0..T_RING-1 /\ 0 \in 0..T_RING /\ 0 = (0 + 0) % T_RING
<1> USE Sizes
<1>1. T_RING \in Nat \ {0} /\ 0 \in Nat /\ 0 + 0 < 2 * T_RING
  OBVIOUS
<1>2. (0 + 0) % T_RING = IF 0 + 0 < T_RING THEN 0 + 0 ELSE 0 + 0 - T_RING
  BY ONLY <1>1, Turn
<1> QED  BY <1>2

LEMMA ConnectStep ==
    ASSUME TcpInv, NEW i \in ISSs, NEW ok \in BOOLEAN, Connect(i, ok)
    PROVE  TcpInv'
<1> USE Sizes
<1>1. /\ snd_una' = i /\ snd_nxt' = (i + 1) % W /\ rcv_nxt' = 0
      /\ mss' = 0 /\ fin' = FALSE /\ rst' = FALSE
      /\ ring' = [k \in 0..T_RING-1 |-> 0] /\ rhead' = 0 /\ rtail' = 0 /\ rcount' = 0
      /\ iss' = i /\ peer' = NoPeer /\ adv' = Window(0)
      /\ offered' = 0 /\ confirmed' = 0 /\ got' = <<>> /\ eof' = FALSE
      /\ usable' = FALSE
  BY DEF Connect
<1>2. \/ /\ state' = "SYN_SENT" /\ wire' = {Segment("syn", i, 0, 0)}
         /\ call' = [NoCall EXCEPT !.op = "connect"]
      \/ state' = "CLOSED" /\ wire' = {} /\ call' = NoCall
  BY DEF Connect
<1>3. i \in 0..W-1 /\ 0 \in 0..W-1
  BY SetsAssumption
<1>4. snd_nxt' \in 0..W-1
  <2>1. W \in Nat \ {0} /\ i \in Nat /\ 1 \in Nat /\ i + 1 < 2 * W
    BY <1>3
  <2> QED  BY ONLY <1>1, <2>1, Turn
<1>5. /\ call' \in [op : Ops, tries : Nat, seq : 0..W-1, n : Nat, len : Nat]
      /\ call'.op \in {"none", "connect"} /\ call'.tries = 0
  BY <1>2, <1>3 DEF NoCall, Ops
<1>6. /\ wire' \subseteq [kind : {"syn", "data", "fin"}, seq : 0..W-1, first : Nat, n : Nat]
      /\ \A s \in wire' : s.kind = "syn"
  BY <1>2, <1>3 DEF Segment
<1>7. TypeOK'
  <2>1. adv' \in 0..WIN_MAX
    BY <1>1, EmptyRing, WindowFacts
  <2>2. call'.tries \in 0 .. SYN_TRIES + SEND_TRIES /\ call'.op \in Ops
    BY <1>5 DEF Ops
  <2>3. state' \in {"CLOSED", "SYN_SENT", "ESTAB", "CLOSE_WAIT"}
    BY <1>2
  <2>4. /\ ring' \in [0..T_RING-1 -> 0..StreamLen] /\ {rhead', rtail'} \subseteq 0..T_RING-1
        /\ rcount' \in 0..T_RING /\ rhead' = (rtail' + rcount') % T_RING
    BY <1>1, EmptyRing
  <2>5. {snd_una', snd_nxt', rcv_nxt', iss'} \subseteq 0..W-1
    BY <1>1, <1>3, <1>4
  <2>6. {fin', rst', eof', usable'} \subseteq BOOLEAN /\ mss' \in Msss \cup {0}
    BY <1>1
  <2>7. offered' \in 0..ReqLen /\ confirmed' \in 0..offered'
    BY <1>1
  <2> QED  BY <2>1, <2>2, <2>3, <2>4, <2>5, <2>6, <2>7 DEF TypeOK, Ops
<1>8. Records'
  BY <1>1, <1>3, <1>5, <1>6, EmptyUpto DEF Records, NoPeer
<1>9. Receives'
  <2>1. Received' = 0
    BY <1>1, EmptyUpto DEF Received
  <2>2. ~Up'
    BY <1>2 DEF Up
  <2> QED  BY <1>1, <2>1, <2>2, EmptyUpto DEF Receives
<1>10. Sends'
  <2>1. ~Up'
    BY <1>2 DEF Up
  <2>2. peer'.arrived = <<>>
    BY <1>1 DEF NoPeer
  <2> QED  BY <1>1, <1>6, <2>1, <2>2, EmptyUpto DEF Sends
<1>11. Numbers'
  <2>1. i + 1 + 0 = i + 1
    BY <1>3
  <2> QED  BY <1>1, <1>5, <2>1 DEF Numbers
<1>12. Phases'
  <2>1. peer'.fin = FALSE
    BY <1>1 DEF NoPeer
  <2> QED  BY <1>1, <1>5, <1>6, <2>1 DEF Phases
<1> QED  BY <1>7, <1>8, <1>9, <1>10, <1>11, <1>12 DEF TcpInv

LEMMA CloseStep ==
    ASSUME TcpInv, Close
    PROVE  TcpInv'
<1> USE Sizes
<1>1. /\ call.op = "none" /\ usable' = FALSE
      /\ UNCHANGED <<snd_una, rcv_nxt, mss, fin, rst, ring, rhead, rtail, rcount, iss,
                     offered, confirmed, got, eof, peer>>
  BY DEF Close, buffer
<1>2. /\ iss \in 0..W-1 /\ snd_nxt \in 0..W-1 /\ rcount \in 0..T_RING
  BY Typed DEF TcpInv
<1> DEFINE seg == Segment("fin", snd_nxt, 0, 0)
<1>3. /\ \/ snd_nxt' = (snd_nxt + 1) % W /\ call' = [NoCall EXCEPT !.op = "close"]
         \/ UNCHANGED <<snd_nxt, call>>
      /\ state' \in {state, "CLOSED"}
      /\ \/ wire' = wire \cup {seg} /\ adv' = Window(rcount)
         \/ UNCHANGED <<wire, adv>>
  BY DEF Close, Tx
<1>4. /\ call' \in [op : Ops, tries : Nat, seq : 0..W-1, n : Nat, len : Nat]
      /\ call'.op \in {"none", "close"} /\ call'.tries \in 0 .. SYN_TRIES + SEND_TRIES
  <2>1. CASE call' = [NoCall EXCEPT !.op = "close"]
    BY <2>1 DEF NoCall, Ops
  <2>2. CASE UNCHANGED call
    BY <1>1, <2>2 DEF TcpInv, Records, TypeOK
  <2> QED  BY <1>3, <2>1, <2>2
<1>5. snd_nxt' \in 0..W-1
  <2>1. W \in Nat \ {0} /\ snd_nxt \in Nat /\ 1 \in Nat /\ snd_nxt + 1 < 2 * W
    BY <1>2
  <2>2. (snd_nxt + 1) % W \in 0..W-1
    BY ONLY <2>1, Turn
  <2> QED  BY <1>2, <1>3, <2>2
<1>6. /\ seg \in [kind : {"fin"}, seq : 0..W-1, first : Nat, n : Nat] /\ seg.kind = "fin"
  BY <1>2 DEF Segment
<1> HIDE DEF seg
<1>7. TypeOK'
  <2>1. /\ snd_una' \in 0..W-1 /\ rcv_nxt' \in 0..W-1 /\ iss' \in 0..W-1
        /\ fin' \in BOOLEAN /\ rst' \in BOOLEAN /\ eof' \in BOOLEAN /\ usable' \in BOOLEAN
        /\ offered' \in 0..ReqLen /\ confirmed' \in 0..offered'
    BY <1>1, Typed DEF TcpInv
  <2>2. /\ state' \in {"CLOSED", "SYN_SENT", "ESTAB", "CLOSE_WAIT"} /\ mss' \in Msss \cup {0}
        /\ adv \in 0..WIN_MAX
    BY <1>1, <1>3 DEF TcpInv, TypeOK
  <2>3. adv' \in 0..WIN_MAX
    BY <1>2, <1>3, <2>2, WindowFacts
  <2>4. call'.op \in Ops
    BY <1>4 DEF Ops
  <2> QED  BY <1>1, <1>4, <1>5, <2>1, <2>2, <2>3, <2>4, TypeFrame DEF TcpInv
<1>8. Records'
  <2>1. wire' \subseteq [kind : {"syn", "data", "fin"}, seq : 0..W-1, first : Nat, n : Nat]
    BY <1>3, <1>6 DEF TcpInv, Records
  <2> QED  BY <1>1, <1>4, <2>1 DEF TcpInv, Records
<1>9. Receives'
  BY <1>1, <1>3, ReceivesFrame DEF TcpInv
<1>10. Sends'
  <2>1. \A s \in wire' : s.kind = "data" => Numbered(s)
    BY <1>3, <1>6 DEF TcpInv, Sends
  <2> QED  BY <1>1, <1>3, <2>1 DEF TcpInv, Sends, Numbered, PeerAcks, Up
<1>11. Numbers' /\ Phases'
  BY <1>1, <1>4 DEF Numbers, Phases, Ending
<1> QED  BY <1>7, <1>8, <1>9, <1>10, <1>11 DEF TcpInv

LEMMA TcpStart == Init => TcpInv
<1> SUFFICES ASSUME Init PROVE TcpInv
  OBVIOUS
<1> USE Sizes
<1>1. /\ 0 \in 0..W-1 /\ 0 \in 0..WIN_MAX /\ 0 \in 0..ReqLen /\ 0 \in 0..0
      /\ 0 \in 0 .. SYN_TRIES + SEND_TRIES
  OBVIOUS
<1>2. TypeOK
  <2>1. /\ ring \in [0..T_RING-1 -> 0..StreamLen] /\ {rhead, rtail} \subseteq 0..T_RING-1
        /\ rcount \in 0..T_RING /\ rhead = (rtail + rcount) % T_RING
    BY EmptyRing DEF Init
  <2>2. call.op \in Ops /\ call.tries \in 0 .. SYN_TRIES + SEND_TRIES
    BY <1>1 DEF Init, NoCall, Ops
  <2>3. {fin, rst, eof, usable} \subseteq BOOLEAN
    BY DEF Init
  <2> QED  BY <1>1, <2>1, <2>2, <2>3 DEF Init, TypeOK, Ops
<1>3. Records
  BY <1>1, EmptyUpto DEF Init, Records, NoCall, NoPeer, Ops
<1>4. Receives
  <2>1. Received = 0
    BY EmptyUpto DEF Init, Received
  <2> QED  BY <2>1, EmptyUpto DEF Init, Receives, Up
<1>5. Sends /\ Numbers /\ Phases
  BY EmptyUpto DEF Init, Sends, Numbers, Phases, NoCall, NoPeer, Up, Ending
<1> QED  BY <1>2, <1>3, <1>4, <1>5 DEF TcpInv

LEMMA TcpStep == TcpInv /\ [Next]_vars => TcpInv'
<1> SUFFICES ASSUME TcpInv, [Next]_vars PROVE TcpInv'
  OBVIOUS
<1>1. CASE Waits
  BY <1>1, ReturnSteps, ConnectTimeoutStep, SendAckedStep, SendTimeoutStep, RecvStep DEF Waits
<1>2. CASE Starts
  BY <1>2, ConnectStep, SendStep, ReceiveCall, CloseStep DEF Starts
<1>3. CASE Packets
  BY <1>3, ResetStep, SynAckStep, SegmentStep DEF Packets
<1>4. CASE Peer
  BY <1>4, PeerStep
<1>5. CASE UNCHANGED vars
  <2>1. UNCHANGED <<conn, buffer, call, iss, app, wire, peer, adv>>
    BY <1>5 DEF vars
  <2>2. UNCHANGED <<state, snd_una, snd_nxt, rcv_nxt, mss, fin, rst, ring, rhead, rtail, rcount,
                    call, iss, usable, offered, confirmed, got, eof, wire, peer, adv>>
    BY <2>1 DEF conn, buffer, app
  <2>3. TypeOK' /\ Records'
    BY <2>2 DEF TcpInv, TypeOK, Records
  <2>4. Receives' /\ Sends'
    BY <2>2, ReceivesFrame, SendsFrame DEF TcpInv
  <2>5. Numbers' /\ Phases'
    BY <2>2 DEF TcpInv, Numbers, Phases, Ending
  <2> QED  BY <2>3, <2>4, <2>5 DEF TcpInv
<1> QED  BY <1>1, <1>2, <1>3, <1>4, <1>5 DEF Next

\* The inductive invariant of the client, its callers and the peer.
THEOREM TcpCorrect == Spec => []TcpInv
BY TcpStart, TcpStep, PTL DEF Spec

---------------------------------------------------------------------------
(***************************************************************************)
(* What the callers rely on.                                               *)
(***************************************************************************)

\* What tcp_recv has handed out and what is in the ring is the beginning of
\* the peer's stream, each byte once, and rcv_nxt counts it.
THEOREM BytesInOrder == Spec => []InOrder
<1>1. TcpInv => InOrder
  <2> SUFFICES ASSUME TcpInv PROVE InOrder
    OBVIOUS
  <2> DEFINE held == [k \in 1..rcount |-> ring[(rtail + k - 1) % T_RING]]
             n == Len(got) + rcount
  <2>1. /\ got \in Seq(Nat) /\ Len(got) \in Nat /\ rcount \in Nat /\ peer.irs \in Nat
        /\ fin \in BOOLEAN
    BY Typed, Sizes DEF TcpInv
  <2>2. got \o held = Upto(n)
    <3>1. \A k \in 1..rcount : held[k] = Len(got) + k
      BY DEF TcpInv, Receives
    <3>2. DOMAIN held = 1..rcount /\ held = [k \in 1..rcount |-> held[k]]
      OBVIOUS
    <3>3. got = Upto(Len(got))
      BY DEF TcpInv, Receives
    <3> HIDE DEF held
    <3> QED  BY ONLY <2>1, <3>1, <3>2, <3>3, Extended
  <2>3. fin => n = StreamLen
    BY DEF TcpInv, Receives, Received
  <2>4. Up => rcv_nxt = (peer.irs + 1 + n + (IF fin THEN 1 ELSE 0)) % W
    <3> DEFINE z == IF fin THEN 1 ELSE 0
    <3>1. Passed = n + z
      BY DEF Passed, Received
    <3>2. z \in Nat /\ n \in Nat
      BY <2>1
    <3>3. Up => rcv_nxt = (peer.irs + 1 + Passed) % W
      BY DEF TcpInv, Receives
    <3> HIDE DEF z, n
    <3>4. peer.irs + 1 + Passed = peer.irs + 1 + n + z
      BY <2>1, <3>1, <3>2
    <3> QED  BY <3>3, <3>4 DEF z
  <2> HIDE DEF held, n
  <2>5. TypeOK
    BY DEF TcpInv
  <2>6. Up => /\ got \o held = [k \in 1..n |-> k]
              /\ rcv_nxt = (peer.irs + 1 + n + (IF fin THEN 1 ELSE 0)) % W
              /\ fin => n = StreamLen
    BY <2>2, <2>3, <2>4 DEF Upto
  <2> QED  BY <2>5, <2>6 DEF InOrder, Up, held, n
<1> QED  BY <1>1, TcpCorrect, PTL

\* Where the window changes, the peer is told of the new one, or the room has
\* not grown past the threshold.
THEOREM WindowsReopened == Spec => []WindowReopened
<1> USE Sizes
<1>1. Init => WindowReopened
  BY DEF Init, WindowReopened, Up
<1>2. TcpInv /\ TcpInv' /\ WindowReopened /\ [Next]_vars => WindowReopened'
  <2> SUFFICES ASSUME TcpInv, TcpInv', WindowReopened, [Next]_vars PROVE WindowReopened'
    OBVIOUS
  <2>1. rcount \in 0..T_RING /\ rcount' \in 0..T_RING
    BY DEF TcpInv, TypeOK
  <2>2. ASSUME UNCHANGED rcount, UNCHANGED adv, state' \in {state, "CLOSED"}
        PROVE  WindowReopened'
    BY <2>2 DEF WindowReopened, Up
  <2>3. ASSUME adv' = Window(rcount') PROVE WindowReopened'
    BY <2>1, <2>3, WindowFacts DEF WindowReopened
  <2>4. ASSUME UNCHANGED rcount, adv' = Window(rcount) PROVE WindowReopened'
    BY <2>3, <2>4
  <2>5. ASSUME Waits PROVE WindowReopened'
    <3>1. CASE Connected \/ ConnectReset \/ SendReset \/ RecvEof \/ RecvFails \/ CloseDone
      BY <2>2, <3>1 DEF Connected, ConnectReset, SendReset, RecvEof, RecvFails, CloseDone,
                        conn, buffer
    <3>2. ASSUME NEW ok \in BOOLEAN, ConnectTimeout(ok) PROVE WindowReopened'
      BY <2>2, <2>4, <3>2 DEF ConnectTimeout, Tx, buffer
    <3>3. ASSUME NEW ok \in BOOLEAN, SendAcked(ok) PROVE WindowReopened'
      BY <2>2, <2>4, <3>3 DEF SendAcked, Piece, Tx, buffer
    <3>4. ASSUME NEW ok \in BOOLEAN, SendTimeout(ok) PROVE WindowReopened'
      BY <2>2, <2>4, <3>4 DEF SendTimeout, Tx, buffer, conn
    <3>5. ASSUME NEW cap \in Caps, RecvData(cap) PROVE WindowReopened'
      <4> DEFINE n == Least(cap, rcount)
      <4>1. /\ rcount' = rcount - n /\ UNCHANGED state
            /\ adv' = IF Reopens(n) THEN Window(rcount - n) ELSE adv
        BY <3>5 DEF RecvData, conn
      <4>2. n \in Nat
        BY <2>1, SetsAssumption DEF Least
      <4> HIDE DEF n
      <4>3. CASE Reopens(n)
        BY <2>3, <4>1, <4>3
      <4>4. CASE ~Reopens(n)
        <5>1. adv' = adv
          BY <4>1, <4>4
        <5> QED  BY <2>1, <4>1, <4>2, <4>4, <5>1 DEF Reopens, WindowReopened, Up
      <4> QED  BY <4>3, <4>4
    <3> QED  BY <2>5, <3>1, <3>2, <3>3, <3>4, <3>5 DEF Waits
  <2>6. ASSUME Starts PROVE WindowReopened'
    <3>1. ASSUME NEW i \in ISSs, NEW ok \in BOOLEAN, Connect(i, ok) PROVE WindowReopened'
      BY <2>3, <3>1 DEF Connect
    <3>2. ASSUME NEW len \in 1..ReqLen, NEW ok \in BOOLEAN, Send(len, ok) PROVE WindowReopened'
      BY <2>2, <2>4, <3>2 DEF Send, Piece, Tx, buffer
    <3>3. ASSUME NEW timed \in BOOLEAN, Recv(timed) PROVE WindowReopened'
      BY <2>2, <3>3 DEF Recv, conn, buffer
    <3>4. CASE Close
      BY <2>2, <2>4, <3>4 DEF Close, Tx, buffer
    <3> QED  BY <2>6, <3>1, <3>2, <3>3, <3>4 DEF Starts
  <2>7. ASSUME Packets PROVE WindowReopened'
    <3>1. CASE RstIn
      BY <2>2, <3>1 DEF RstIn, buffer
    <3>2. ASSUME NEW m \in Msss, SynAckIn(m) PROVE WindowReopened'
      BY <2>4, <3>2 DEF SynAckIn, buffer
    <3>3. ASSUME NEW s \in PeerSegments, SegmentIn(s) PROVE WindowReopened'
      <4>1. /\ Up /\ rcount' = rcount + Taken(s)
            /\ adv' = IF s.len > 0 \/ FinOK(s) THEN Window(rcount') ELSE adv
            /\ state' = IF FinOK(s) THEN "CLOSE_WAIT" ELSE state
        BY <3>3 DEF SegmentIn
      <4>2. CASE s.len > 0 \/ FinOK(s)
        BY <2>3, <4>1, <4>2
      <4>3. CASE ~(s.len > 0 \/ FinOK(s))
        <5>1. Taken(s) \in Int /\ ~(Taken(s) > 0) /\ Taken(s) >= 0
          BY <2>1, <4>1, <4>3, SegmentFacts
        <5>2. rcount' = rcount /\ adv' = adv /\ state' = state
          BY <2>1, <4>1, <4>3, <5>1
        <5> QED  BY <2>2, <5>2
      <4> QED  BY <4>2, <4>3
    <3> QED  BY <2>7, <3>1, <3>2, <3>3 DEF Packets
  <2>8. ASSUME Peer PROVE WindowReopened'
    BY <2>2, <2>8 DEF Peer, PeerSyn, PeerData, PeerFin, conn, buffer
  <2>9. CASE UNCHANGED vars
    BY <2>2, <2>9 DEF vars, conn, buffer
  <2> QED  BY <2>5, <2>6, <2>7, <2>8, <2>9 DEF Next
<1> QED  BY <1>1, <1>2, TcpCorrect, PTL DEF Spec

---------------------------------------------------------------------------
(***************************************************************************)
(* The refinement of ByteStream.                                           *)
(***************************************************************************)

\* When tcp_send finds all it sent acknowledged, the peer has it.
LEMMA AckedArrived ==
    ASSUME TcpInv, call.op = "send", state # "CLOSED", AllAcked, call.len = call.n
    PROVE  peer.arrived = Upto(offered)
<1> USE Sizes
<1>1. usable /\ Up
  BY DEF TcpInv, TypeOK, Phases, Up
<1>2. ~peer.fin
  BY <1>1 DEF TcpInv, Phases, Ending
<1>3. /\ offered \in 0..ReqLen /\ iss \in 0..W-1 /\ Len(peer.arrived) \in Nat
  BY Typed DEF TcpInv
<1>4. snd_nxt = (iss + 1 + offered) % W
  <2>1. /\ call.len \in 1..offered
        /\ snd_nxt = (iss + 1 + (offered - call.len + call.n)) % W
    BY DEF TcpInv, Numbers
  <2>2. offered - call.len + call.n = offered
    BY <1>3, <2>1
  <2> QED  BY <2>1, <2>2
<1>5. Len(peer.arrived) <= offered /\ peer.arrived = Upto(Len(peer.arrived))
  BY DEF TcpInv, Sends
<1>6. PICK u \in 0..Len(peer.arrived) : snd_una = (iss + 1 + u) % W
  <2>1. snd_una \in PeerAcks
    BY <1>1 DEF TcpInv, Sends
  <2>2. PICK k \in 0 .. Len(peer.arrived) + (IF peer.fin THEN 1 ELSE 0) :
            snd_una = (iss + 1 + k) % W
    BY <2>1 DEF PeerAcks
  <2>3. k \in 0..Len(peer.arrived)
    BY <1>2, <1>3
  <2> QED  BY <2>2, <2>3
<1>7. Sub(snd_una, snd_nxt) = IF offered <= u THEN u - offered ELSE u - offered + W
  <2> DEFINE b == iss + 1
  <2>1. b \in 0..W /\ u \in 0..Half /\ offered \in 0..Half
    BY <1>3, <1>5
  <2>2. snd_una = (b + u) % W /\ snd_nxt = (b + offered) % W
    BY <1>4, <1>6
  <2> HIDE DEF b
  <2> QED  BY ONLY <2>1, <2>2, Distance
<1>8. u = offered
  <2> DEFINE q == Sub(snd_una, snd_nxt)
  <2>1. q < Half
    BY DEF AllAcked, Half
  <2>2. q = IF offered <= u THEN u - offered ELSE u - offered + W
    BY <1>7
  <2> HIDE DEF q
  <2> QED  BY <1>3, <1>5, <2>1, <2>2
<1>9. Len(peer.arrived) = offered
  BY <1>3, <1>5, <1>8
<1> QED  BY <1>5, <1>9

\* Every step of the client, its callers and the peer is a step of ByteStream
\* or changes nothing there.
LEMMA StreamStep == TcpInv /\ TcpInv' /\ [Next]_vars => [Stream!Next]_Stream!vars
<1> SUFFICES ASSUME TcpInv, TcpInv', [Next]_vars PROVE [Stream!Next]_Stream!vars
  OBVIOUS
<1>1. ASSUME UNCHANGED <<usable, offered, confirmed, got, eof>>, UNCHANGED peer.arrived
      PROVE  UNCHANGED Stream!vars
  BY <1>1 DEF Stream!vars
<1>2. ASSUME usable' = FALSE, UNCHANGED <<offered, confirmed, got, eof>>, UNCHANGED peer.arrived
      PROVE  Stream!Next
  BY <1>2 DEF Stream!Next, Stream!Close
<1>3. ASSUME Waits PROVE [Stream!Next]_Stream!vars
  <2>1. CASE Connected
    <3>1. /\ call.op = "connect" /\ usable' = TRUE
          /\ UNCHANGED <<offered, confirmed, got, eof, wire, peer>>
      BY <2>1 DEF Connected, Return
    <3>2. /\ offered = 0 /\ confirmed = 0 /\ got = <<>> /\ ~eof
      BY <3>1 DEF TcpInv, Phases
    <3>3. eof = FALSE
      BY <3>2, Typed DEF TcpInv
    <3>4. peer.arrived = <<>>
      <4>1. peer.arrived \in Seq(Nat) /\ Len(peer.arrived) <= 0 /\ Len(peer.arrived) \in Nat
        BY <3>2, Typed DEF TcpInv, Sends
      <4> QED  BY <4>1, EmptySeq
    <3> QED  BY <3>1, <3>2, <3>3, <3>4 DEF Stream!Next, Stream!Open
  <2>2. CASE ConnectReset \/ SendReset \/ RecvFails
    BY <1>2, <2>2 DEF ConnectReset, SendReset, RecvFails, Return
  <2>3. CASE CloseDone
    BY <1>1, <2>3 DEF CloseDone, app
  <2>4. CASE RecvEof
    <3>1. /\ Receiving /\ rcount = 0 /\ fin /\ eof' = TRUE /\ usable' = FALSE
          /\ UNCHANGED <<offered, confirmed, got, peer>>
      BY <2>4 DEF RecvEof, Return
    <3>2. usable
      BY <3>1 DEF TcpInv, Phases, Receiving
    <3>3. got = Upto(StreamLen)
      <4>1. got = Upto(Len(got)) /\ Len(got) + rcount = StreamLen /\ Len(got) \in Nat
        BY <3>1, Typed DEF TcpInv, Receives, Received
      <4>2. Len(got) = StreamLen
        BY <3>1, <4>1
      <4> QED  BY <4>1, <4>2
    <3>4. Stream!End
      BY <3>1, <3>2, <3>3 DEF Stream!End, Stream!Upto, Upto
    <3> QED  BY <3>4 DEF Stream!Next
  <2>5. ASSUME NEW ok \in BOOLEAN, ConnectTimeout(ok) PROVE [Stream!Next]_Stream!vars
    BY <1>1, <1>2, <2>5 DEF ConnectTimeout, Return
  <2>6. ASSUME NEW ok \in BOOLEAN, SendTimeout(ok) PROVE [Stream!Next]_Stream!vars
    BY <1>1, <1>2, <2>6 DEF SendTimeout, Return
  <2>7. ASSUME NEW ok \in BOOLEAN, SendAcked(ok) PROVE [Stream!Next]_Stream!vars
    <3>1. /\ call.op = "send" /\ state # "CLOSED" /\ AllAcked
          /\ UNCHANGED <<offered, got, eof, peer>>
      BY <2>7 DEF SendAcked
    <3>2. CASE call.len > call.n
      <4>1. UNCHANGED confirmed /\ (UNCHANGED usable \/ usable' = FALSE)
        BY <2>7, <3>2 DEF SendAcked, Piece, Return
      <4> QED  BY <1>1, <1>2, <3>1, <4>1
    <3>3. CASE ~(call.len > call.n)
      <4>1. usable' = TRUE /\ confirmed' = offered
        BY <2>7, <3>3 DEF SendAcked, Return
      <4>2. usable /\ usable \in BOOLEAN
        BY <3>1, Typed DEF TcpInv, Phases
      <4>3. call.len = call.n
        <5>1. /\ call.len \in 1..offered /\ call.n \in 0..call.len /\ offered \in Nat
          BY <3>1, Typed DEF TcpInv, Numbers
        <5>2. call.len \in Int /\ call.n \in Int /\ call.n <= call.len
          BY <5>1
        <5> QED  BY ONLY <3>3, <5>2
      <4>4. peer.arrived = Upto(offered)
        BY <3>1, <4>3, AckedArrived
      <4>5. Stream!Confirm
        BY <3>1, <4>1, <4>2, <4>4 DEF Stream!Confirm, Stream!Upto, Upto
      <4> QED  BY <4>5 DEF Stream!Next
    <3> QED  BY <3>2, <3>3
  <2>8. ASSUME NEW cap \in Caps, RecvData(cap) PROVE [Stream!Next]_Stream!vars
    <3>1. Len(got') > Len(got) /\ usable /\ usable'
      BY <2>8, RecvStep
    <3>2. UNCHANGED <<offered, confirmed, eof, peer>> /\ usable' = TRUE
      BY <2>8 DEF RecvData, Return
    <3>3. usable = TRUE
      BY <3>1, Typed DEF TcpInv
    <3>4. /\ got' = Upto(Len(got')) /\ Len(got') <= StreamLen /\ Len(got') \in Nat
          /\ Len(got) \in Nat
      <4>1. /\ got' = Upto(Len(got')) /\ Len(got') + rcount' <= StreamLen
            /\ got' \in Seq(Nat) /\ rcount' \in 0..T_RING
        BY DEF TcpInv, Receives, Received, Records, TypeOK
      <4>2. Len(got') \in Nat /\ Len(got) \in Nat /\ rcount' \in Nat
        BY <4>1, Typed, LenProperties, Sizes DEF TcpInv
      <4> QED  BY <4>1, <4>2, Sizes
    <3>5. Len(got') \in Len(got) + 1 .. StreamLen
      BY <3>1, <3>4, Sizes
    <3>6. Stream!Take
      BY <3>2, <3>3, <3>4, <3>5 DEF Stream!Take, Stream!Upto, Upto
    <3> QED  BY <3>6 DEF Stream!Next
  <2> QED  BY <1>3, <2>1, <2>2, <2>3, <2>4, <2>5, <2>6, <2>7, <2>8 DEF Waits
<1>4. ASSUME Starts PROVE [Stream!Next]_Stream!vars
  <2>1. ASSUME NEW i \in ISSs, NEW ok \in BOOLEAN, Connect(i, ok)
        PROVE  [Stream!Next]_Stream!vars
    BY <2>1 DEF Connect, NoPeer, Stream!Next, Stream!Open
  <2>2. ASSUME NEW len \in 1..ReqLen, NEW ok \in BOOLEAN, Send(len, ok)
        PROVE  [Stream!Next]_Stream!vars
    <3>1. /\ usable /\ offered' = offered + len /\ offered + len <= ReqLen
          /\ UNCHANGED <<confirmed, got, eof, peer>>
          /\ UNCHANGED usable \/ usable' = FALSE
      BY <2>2 DEF Send, Piece, Return
    <3>2. usable' \in BOOLEAN /\ offered \in Nat
      <4>1. usable \in BOOLEAN /\ offered \in 0..ReqLen
        BY Typed DEF TcpInv
      <4>2. usable' = usable \/ usable' = FALSE
        BY <3>1
      <4>3. usable' \in BOOLEAN
        BY ONLY <4>1, <4>2, Zenon
      <4> QED  BY <4>1, <4>3, Sizes
    <3>3. offered' \in offered + 1 .. ReqLen
      BY <3>1, <3>2, Sizes
    <3>4. Stream!Offer
      BY <3>1, <3>2, <3>3 DEF Stream!Offer
    <3> QED  BY <3>4 DEF Stream!Next
  <2>3. ASSUME NEW timed \in BOOLEAN, Recv(timed) PROVE [Stream!Next]_Stream!vars
    BY <1>1, <2>3 DEF Recv, app
  <2>4. CASE Close
    BY <1>2, <2>4 DEF Close
  <2> QED  BY <1>4, <2>1, <2>2, <2>3, <2>4 DEF Starts
<1>5. ASSUME Packets PROVE [Stream!Next]_Stream!vars
  BY <1>1, <1>5 DEF Packets, RstIn, SynAckIn, SegmentIn, app
<1>6. ASSUME Peer PROVE [Stream!Next]_Stream!vars
  <2>1. CASE PeerSyn \/ PeerFin
    <3>1. peer'.arrived = peer.arrived
      BY <2>1 DEF PeerSyn, PeerFin, TcpInv, Records
    <3> QED  BY <1>1, <2>1, <3>1 DEF PeerSyn, PeerFin, app
  <2>2. CASE PeerData
    <3>1. PICK n \in Len(peer.arrived) + 1 .. offered : peer'.arrived = Upto(n)
      BY <2>2, PeerDataFacts
    <3>2. UNCHANGED <<usable, offered, confirmed, got, eof>>
      BY <2>2 DEF PeerData, app
    <3>3. Stream!Arrive
      BY <3>1, <3>2 DEF Stream!Arrive, Stream!Upto, Upto
    <3> QED  BY <3>3 DEF Stream!Next
  <2> QED  BY <1>6, <2>1, <2>2 DEF Peer
<1>7. CASE UNCHANGED vars
  BY <1>1, <1>7 DEF vars, app
<1> QED  BY <1>3, <1>4, <1>5, <1>6, <1>7 DEF Next

\* The client is a reliable byte stream in both directions: whatever is lost,
\* repeated or reordered, no byte is lost, doubled or out of place, the end is
\* reported after the last byte, and tcp_send returns 0 only when the peer has
\* everything.
THEOREM TcpImplementsStream == Spec => ImplementsStream
<1>1. Init => Stream!Init
  BY DEF Init, Stream!Init, NoPeer
<1> QED  BY <1>1, StreamStep, TcpCorrect, PTL DEF Spec, ImplementsStream, Stream!Spec
=============================================================================
