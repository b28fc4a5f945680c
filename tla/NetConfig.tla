----------------------------- MODULE NetConfig -----------------------------
(***************************************************************************)
(* How kernel/net.c gets and keeps its address and its neighbours: the ARP *)
(* table and arp_resolve, net_dhcp over the one UDP slot, the watch on the *)
(* link in net_poll, static configuration and the change of card.          *)
(*                                                                         *)
(* Datagrams of the DHCP servers stay in flight: each may arrive at any    *)
(* time, late, several times or never, and is lost when the slot is full.  *)
(* Servers answer what they have seen; several may answer.                 *)
(***************************************************************************)
EXTENDS Integers, FiniteSets

CONSTANTS Ips, Macs,   \* neighbours and hardware addresses
          Slots,       \* entries of arp_tab (8)
          Servers,     \* DHCP servers, each with one address to give
          Stated,      \* the options each server states: gw, dns
          ARP_TRIES,   \* 4 in the code
          DHCP_TRIES,  \* 3 in the code
          None         \* no entry, no option, no datagram

ASSUME NetAssumption ==
    /\ IsFiniteSet(Ips) /\ IsFiniteSet(Macs) /\ None \notin Ips \cup Macs \cup Servers
    /\ "static" \notin Servers
    /\ {Slots, ARP_TRIES, DHCP_TRIES} \subseteq Nat \ {0}
    /\ Stated \in [Servers -> SUBSET {"gw", "dns"}]

VARIABLES cfg,                \* whose address, gateway and name server
          arp_tab, arp_next,
          heard,              \* the last announcement of each neighbour
          us,                 \* the datagram in the UDP slot
          air,                \* DHCP answers sent in this exchange
          asked,              \* the servers whose offer was requested
          link, last_link, in_dhcp,
          call                \* the call in progress and its locals

arp == <<arp_tab, arp_next, heard>>
udp == <<us, air, asked>>
watch == <<link, last_link, in_dhcp>>
vars == <<cfg, arp, udp, watch, call>>

NoCfg == [ip |-> None, gw |-> None, dns |-> None]
NoEntry == [ip |-> None, mac |-> None]
Idle == [op |-> "none"]

\* memset(arp_tab, 0, ...); arp_next keeps its value.
Cleared == /\ arp_tab' = [i \in 0..Slots-1 |-> NoEntry]
           /\ heard' = [i \in Ips |-> None]
           /\ UNCHANGED arp_next

Init == /\ cfg = NoCfg
        /\ arp_tab = [i \in 0..Slots-1 |-> NoEntry] /\ arp_next = 0
        /\ heard = [i \in Ips |-> None]
        /\ us = None /\ air = {} /\ asked = {}
        /\ link = FALSE /\ last_link = FALSE /\ in_dhcp = FALSE
        /\ call = Idle

---------------------------------------------------------------------------
(***************************************************************************)
(* ARP.                                                                    *)
(***************************************************************************)

Entry(ip) == {i \in 0..Slots-1 : arp_tab[i].ip = ip}

\* Mutant of arp_learn: what is known is not looked for first.
LearnAgain(ip, mac) == /\ arp_tab' = [arp_tab EXCEPT ![arp_next] = [ip |-> ip, mac |-> mac]]
                       /\ arp_next' = (arp_next + 1) % Slots

arp_learn(ip, mac) ==
    IF Entry(ip) # {}
    THEN /\ arp_tab' = [i \in 0..Slots-1 |->
                          IF i \in Entry(ip) THEN [ip |-> ip, mac |-> mac] ELSE arp_tab[i]]
         /\ UNCHANGED arp_next
    ELSE /\ arp_tab' = [arp_tab EXCEPT ![arp_next] = [ip |-> ip, mac |-> mac]]
         /\ arp_next' = (arp_next + 1) % Slots

\* Requests and replies alike, whenever the stack polls.
arp_in(ip, mac) == /\ arp_learn(ip, mac)
                   /\ heard' = [heard EXCEPT ![ip] = mac]
                   /\ UNCHANGED <<cfg, udp, watch, call>>

\* The hop is the address itself or the gateway.
Resolve(hop) == /\ call.op = "none" /\ cfg.ip # None
                /\ Entry(hop) = {}
                /\ call' = [op |-> "resolve", hop |-> hop, tries |-> 0]
                /\ UNCHANGED <<cfg, arp, udp, watch>>

Resolved == /\ call.op = "resolve" /\ Entry(call.hop) # {}
            /\ call' = Idle
            /\ UNCHANGED <<cfg, arp, udp, watch>>

ResolveTimeout == /\ call.op = "resolve" /\ Entry(call.hop) = {}
                  /\ call' = IF call.tries + 1 < ARP_TRIES
                             THEN [call EXCEPT !.tries = @ + 1] ELSE Idle
                  /\ UNCHANGED <<cfg, arp, udp, watch>>

---------------------------------------------------------------------------
(***************************************************************************)
(* DHCP.  A message names the server it is from; the values its options    *)
(* carry are the server's own.                                             *)
(***************************************************************************)

Params(yi, srv, gw, dns) == [yi |-> yi, srv |-> srv, gw |-> gw, dns |-> dns]

Discover(n) == [op |-> "dhcp", attempt |-> n, wait |-> "offer", offer |-> None,
                p |-> Params(None, None, None, None)]

\* Everything is forgotten, then the first DISCOVER goes out with a new xid,
\* which answers to an earlier exchange do not carry.
StartDhcp == /\ in_dhcp' = TRUE
             /\ cfg' = NoCfg
             /\ Cleared
             /\ us' = None /\ air' = {} /\ asked' = {}
             /\ call' = Discover(0)

Dhcp == /\ call.op = "none"
        /\ StartDhcp
        /\ UNCHANGED <<link, last_link>>

\* A server offers, and grants or refuses what it was asked for.
ServerOffer(s) == /\ call.op = "dhcp"
                  /\ air' = air \cup {[type |-> "offer", from |-> s]}
                  /\ UNCHANGED <<cfg, arp, us, asked, watch, call>>

ServerAnswer(s, t) == /\ call.op = "dhcp" /\ s \in asked
                      /\ air' = air \cup {[type |-> t, from |-> s]}
                      /\ UNCHANGED <<cfg, arp, us, asked, watch, call>>

\* udp_in: one datagram waits, others are dropped.
udp_in(m) == /\ call.op = "dhcp" /\ us = None
             /\ us' = m
             /\ UNCHANGED <<cfg, arp, air, asked, watch, call>>

\* dhcp_parse: the address always, options only where they are stated.
dhcp_parse(p, m) ==
    Params(m.from, m.from,
           IF "gw" \in Stated[m.from] THEN m.from ELSE p.gw,
           IF "dns" \in Stated[m.from] THEN m.from ELSE p.dns)

\* Waiting for an offer: anything else is read and ignored.
Offered == /\ call.op = "dhcp" /\ call.wait = "offer" /\ us # None
           /\ LET p == dhcp_parse(call.p, us)
              IN  IF us.type = "offer"
                  THEN /\ call' = [call EXCEPT !.p = p, !.wait = "ack", !.offer = p.yi]
                       /\ asked' = asked \cup {p.srv}      \* REQUEST
                  ELSE /\ call' = [call EXCEPT !.p = p]
                       /\ UNCHANGED asked
           /\ us' = None
           /\ UNCHANGED <<cfg, arp, air, watch>>

Return == /\ in_dhcp' = FALSE
          /\ call' = Idle
          /\ us' = None

\* Three attempts, with the same xid; the parameters start afresh.
NextAttempt == IF call.attempt + 1 < DHCP_TRIES
               THEN call' = Discover(call.attempt + 1) /\ UNCHANGED <<us, in_dhcp>>
               ELSE Return

\* Mutant of Acked: an offer that comes late is taken for the grant.
AckedByAny ==
    /\ call.op = "dhcp" /\ call.wait = "ack" /\ us # None /\ us.type # "nak"
    /\ LET p == dhcp_parse(call.p, us)
       IN  cfg' = [ip |-> p.yi, gw |-> p.gw, dns |-> p.dns]
    /\ Return
    /\ UNCHANGED <<arp, air, asked, link, last_link>>

Acked ==
    /\ call.op = "dhcp" /\ call.wait = "ack" /\ us # None /\ us.type = "ack"
    /\ LET p == dhcp_parse(call.p, us)
       IN  cfg' = [ip |-> IF p.yi # None THEN p.yi ELSE call.offer, gw |-> p.gw, dns |-> p.dns]
    /\ Return
    /\ UNCHANGED <<arp, air, asked, link, last_link>>

\* NAK starts over; a late offer is read and ignored, its options are not.
NotAcked ==
    /\ call.op = "dhcp" /\ call.wait = "ack" /\ us # None /\ us.type # "ack"
    /\ IF us.type = "nak"
       THEN IF call.attempt + 1 < DHCP_TRIES
            THEN call' = Discover(call.attempt + 1) /\ us' = None /\ UNCHANGED in_dhcp
            ELSE Return
       ELSE /\ call' = [call EXCEPT !.p = dhcp_parse(call.p, us)]
            /\ us' = None /\ UNCHANGED in_dhcp
    /\ UNCHANGED <<cfg, arp, air, asked, link, last_link>>

\* The two seconds are over; a datagram that came in the same poll stays in
\* the slot for the next attempt.
DhcpTimeout == /\ call.op = "dhcp"
               /\ NextAttempt
               /\ UNCHANGED <<cfg, arp, air, asked, link, last_link>>

---------------------------------------------------------------------------
(***************************************************************************)
(* The link, static configuration, the card, Ctrl+C.                       *)
(***************************************************************************)

Cable == /\ link' = ~link
         /\ UNCHANGED <<cfg, arp, udp, last_link, in_dhcp, call>>

\* net_poll from an idle loop: a cable that was plugged in starts DHCP.
LinkPoll == /\ call.op = "none" /\ link # last_link
            /\ last_link' = link
            /\ IF link /\ cfg.ip = None /\ ~in_dhcp
               THEN StartDhcp /\ UNCHANGED link
               ELSE UNCHANGED <<cfg, arp, udp, link, in_dhcp, call>>

net_set_static == /\ call.op = "none"
                  /\ Cleared
                  /\ cfg' = [ip |-> "static", gw |-> "static", dns |-> "static"]
                  /\ UNCHANGED <<udp, watch, call>>

\* Another card: nothing of the old one's configuration is kept.
select_nic == /\ call.op = "none"
              /\ Cleared
              /\ cfg' = NoCfg
              /\ last_link' = link
              /\ UNCHANGED <<udp, link, in_dhcp, call>>

\* The timer takes the program that called out; nothing is put back.
Interrupt == /\ call.op # "none"
             /\ call' = Idle
             /\ UNCHANGED <<cfg, arp, udp, watch>>

Next == \/ Resolved \/ ResolveTimeout \/ Offered \/ Acked \/ NotAcked \/ DhcpTimeout
        \/ Dhcp \/ Cable \/ LinkPoll \/ Interrupt
        \/ \E ip \in Ips, mac \in Macs : arp_in(ip, mac)
        \/ \E hop \in Ips : Resolve(hop)
        \/ \E s \in Servers : ServerOffer(s) \/ ServerAnswer(s, "ack") \/ ServerAnswer(s, "nak")
        \/ \E m \in air : udp_in(m)
        \/ net_set_static \/ select_nic

Spec == Init /\ [][Next]_vars

---------------------------------------------------------------------------
(***************************************************************************)
(* Properties.                                                             *)
(***************************************************************************)

\* Who may have given an address: a server, the administrator, nobody.
Givers == Servers \cup {"static", None}

\* The table, the slot and the counters of the waiting loops.
TypeOK ==
    /\ cfg \in [ip : Givers, gw : Givers, dns : Givers]
    /\ arp_tab \in [0..Slots-1 -> [ip : Ips \cup {None}, mac : Macs \cup {None}]]
    /\ arp_next \in 0..Slots-1
    /\ us = None \/ us \in air
    /\ asked \subseteq Servers
    /\ call.op \in {"none", "resolve", "dhcp"}
    /\ call.op = "resolve" => call.tries \in 0 .. ARP_TRIES - 1
    /\ call.op = "dhcp" => call.attempt \in 0 .. DHCP_TRIES - 1

\* Announcements come in the middle of arp_resolve and push entries out, and
\* the table is cleared under a lookup's feet: still no neighbour has two
\* entries, and the one it has is what it last said of itself.
TableFresh ==
    /\ TypeOK
    /\ \A i \in 0..Slots-1 : arp_tab[i] # NoEntry =>
        /\ arp_tab[i].mac = heard[arp_tab[i].ip]
        /\ Entry(arp_tab[i].ip) = {i}

\* With offers, grants and refusals of several servers and attempts mixed up
\* under one xid, the address in use was granted by the server it is from,
\* after it was asked, and so was every parameter that server states.
ConfigGranted ==
    cfg.ip \in Servers =>
        /\ [type |-> "ack", from |-> cfg.ip] \in air /\ cfg.ip \in asked
        /\ \A o \in Stated[cfg.ip] : cfg[o] = cfg.ip
=============================================================================
