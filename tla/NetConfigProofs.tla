-------------------------- MODULE NetConfigProofs --------------------------
(***************************************************************************)
(* What kernel/net.c guarantees of its ARP table and of the address it     *)
(* gets by DHCP, for any number of neighbours, table entries, servers and  *)
(* tries, and for datagrams that come late, again or never.                *)
(***************************************************************************)
EXTENDS NetConfig, TLAPS

Message == [type : {"offer", "ack", "nak"}, from : Servers]
Option == Servers \cup {None}
Parsed == [yi : Option, srv : Option, gw : Option, dns : Option]

Calls == {Idle}
         \cup [op : {"resolve"}, hop : Ips, tries : 0 .. ARP_TRIES - 1]
         \cup [op : {"dhcp"}, attempt : 0 .. DHCP_TRIES - 1, wait : {"offer", "ack"},
               offer : Option, p : Parsed]

Types == /\ cfg \in [ip : Givers, gw : Givers, dns : Givers]
         /\ arp_tab \in [0..Slots-1 -> [ip : Ips \cup {None}, mac : Macs \cup {None}]]
         /\ arp_next \in 0..Slots-1
         /\ heard \in [Ips -> Macs \cup {None}]
         /\ air \subseteq Message /\ asked \subseteq Servers
         /\ us = None \/ us \in air
         /\ call \in Calls

\* An entry without an address is one that was never filled; the others are
\* fresh and unique.
Neighbours ==
    \A i \in 0..Slots-1 : arp_tab[i] # NoEntry =>
        /\ arp_tab[i].ip \in Ips
        /\ arp_tab[i].mac = heard[arp_tab[i].ip]
        /\ Entry(arp_tab[i].ip) = {i}

\* A server grants or refuses only what it was asked for.
Answers == \A m \in air : m.type # "offer" => m.from \in asked

NetInv == Types /\ Neighbours /\ Answers /\ ConfigGranted

\* A boot finds no address, no neighbour and no datagram.
LEMMA NetStart == Init => NetInv
<1> SUFFICES ASSUME Init PROVE NetInv
    OBVIOUS
<1> USE NetAssumption
<1>1. Types
  BY DEF Init, Types, Givers, NoCfg, NoEntry, Calls
<1>2. Neighbours /\ Answers
  BY DEF Init, Neighbours, Answers
<1>3. ConfigGranted
  BY DEF Init, NoCfg, ConfigGranted
<1> QED  BY <1>1, <1>2, <1>3 DEF NetInv

\* arp_learn keeps one entry for each neighbour, with what it said last.
LEMMA LearnStep ==
    ASSUME NetInv, NEW ip \in Ips, NEW mac \in Macs, arp_in(ip, mac)
    PROVE  NetInv'
<1> USE NetAssumption
<1>1. /\ arp_learn(ip, mac) /\ heard' = [heard EXCEPT ![ip] = mac]
      /\ UNCHANGED <<cfg, us, air, asked, call>>
  BY DEF arp_in, udp
<1>2. /\ Types /\ Neighbours
  BY DEF NetInv
<1>3. CASE Entry(ip) # {}
  <2>1. arp_tab' = [i \in 0..Slots-1 |->
                     IF i \in Entry(ip) THEN [ip |-> ip, mac |-> mac] ELSE arp_tab[i]]
        /\ arp_next' = arp_next
    BY <1>1, <1>3 DEF arp_learn
  <2>2. Types'
    BY <1>1, <1>2, <2>1 DEF Types
  <2>3. \A k \in Ips : {i \in 0..Slots-1 : arp_tab'[i].ip = k} = Entry(k)
    BY <2>1, <1>2 DEF Entry, Types
  <2>4. Neighbours'
    BY <1>1, <1>2, <2>1, <2>3 DEF Types, Neighbours, NoEntry, Entry
  <2> QED  BY <1>1, <2>2, <2>4 DEF NetInv, Answers, ConfigGranted
<1>4. CASE Entry(ip) = {}
  <2>1. /\ arp_tab' = [arp_tab EXCEPT ![arp_next] = [ip |-> ip, mac |-> mac]]
        /\ arp_next' = (arp_next + 1) % Slots
    BY <1>1, <1>4 DEF arp_learn
  <2>2. Types'
    BY <1>1, <1>2, <2>1 DEF Types
  <2>3. Neighbours'
    BY <1>1, <1>2, <1>4, <2>1 DEF Types, Neighbours, NoEntry, Entry
  <2> QED  BY <1>1, <2>2, <2>3 DEF NetInv, Answers, ConfigGranted
<1> QED  BY <1>3, <1>4

\* memset(arp_tab, 0, ...) leaves a table of which the invariant says nothing.
LEMMA ClearedTable ==
    ASSUME Types, Cleared
    PROVE  /\ arp_tab' \in [0..Slots-1 -> [ip : Ips \cup {None}, mac : Macs \cup {None}]]
           /\ arp_next' \in 0..Slots-1
           /\ heard' \in [Ips -> Macs \cup {None}]
           /\ Neighbours'
BY NetAssumption DEF Types, Cleared, Neighbours, NoEntry

\* A step that leaves the table alone keeps what is known of the neighbours.
LEMMA NeighboursKept == ASSUME Neighbours, UNCHANGED arp PROVE Neighbours'
BY DEF Neighbours, Entry, arp

\* net_dhcp forgets everything before it asks.
LEMMA StartStep == ASSUME NetInv, StartDhcp PROVE NetInv'
<1> USE NetAssumption
<1>1. /\ cfg' = NoCfg /\ us' = None /\ air' = {} /\ asked' = {} /\ call' = Discover(0)
      /\ Cleared /\ Types
  BY DEF StartDhcp, NetInv
<1>2. call' \in Calls
  BY <1>1 DEF Discover, Params, Calls, Parsed, Option
<1>3. Types'
  BY <1>1, <1>2, ClearedTable DEF Types, NoCfg, Givers
<1>4. Answers' /\ ConfigGranted'
  BY <1>1 DEF Answers, ConfigGranted, NoCfg
<1> QED  BY <1>1, <1>3, <1>4, ClearedTable DEF NetInv

\* What dhcp_parse makes of a message.
LEMMA ParseType ==
    ASSUME NEW p \in Parsed, NEW m \in Message
    PROVE  /\ dhcp_parse(p, m) \in Parsed
           /\ dhcp_parse(p, m).yi = m.from /\ dhcp_parse(p, m).srv = m.from
           /\ "gw" \in Stated[m.from] => dhcp_parse(p, m).gw = m.from
           /\ "dns" \in Stated[m.from] => dhcp_parse(p, m).dns = m.from
BY DEF Parsed, Message, dhcp_parse, Params, Option

\* The locals of net_dhcp while it waits.
LEMMA DhcpLocals ==
    ASSUME Types, call.op = "dhcp"
    PROVE  call \in [op : {"dhcp"}, attempt : 0 .. DHCP_TRIES - 1, wait : {"offer", "ack"},
                     offer : Option, p : Parsed]
BY DEF Types, Calls, Idle

\* The next attempt starts with empty parameters, or net_dhcp gives up.
LEMMA AttemptType ==
    ASSUME Types, call.op = "dhcp", call.attempt + 1 < DHCP_TRIES
    PROVE  Discover(call.attempt + 1) \in Calls
BY NetAssumption, DhcpLocals DEF Discover, Params, Calls, Parsed, Option

\* A server's datagram is added to what is under way.
LEMMA ServerStep ==
    ASSUME NetInv, NEW s \in Servers,
           ServerOffer(s) \/ ServerAnswer(s, "ack") \/ ServerAnswer(s, "nak")
    PROVE  NetInv'
<1>1. PICK m \in Message : air' = air \cup {m} /\ (m.type # "offer" => m.from \in asked)
  <2>1. \A t \in {"offer", "ack", "nak"} :
           /\ [type |-> t, from |-> s] \in Message
           /\ [type |-> t, from |-> s].type = t /\ [type |-> t, from |-> s].from = s
    BY DEF Message
  <2>2. \E t \in {"offer", "ack", "nak"} :
           air' = air \cup {[type |-> t, from |-> s]} /\ (t # "offer" => s \in asked)
    BY DEF ServerOffer, ServerAnswer
  <2> QED  BY <2>1, <2>2
<1>2. UNCHANGED <<cfg, arp, us, asked, call>>
  BY DEF ServerOffer, ServerAnswer
<1>3. Types'
  BY <1>1, <1>2 DEF NetInv, Types, arp
<1>4. Answers' /\ ConfigGranted'
  BY <1>1, <1>2 DEF NetInv, Answers, ConfigGranted
<1> QED  BY <1>2, <1>3, <1>4, NeighboursKept DEF NetInv

\* Steps that change neither the address nor what the servers have said.
LEMMA WaitStep ==
    ASSUME NetInv, UNCHANGED <<cfg, arp, air, asked>>, call' \in Calls,
           us' = None \/ us' \in air
    PROVE  NetInv'
<1>1. Types'
  BY DEF NetInv, Types, arp
<1>2. Answers' /\ ConfigGranted'
  BY DEF NetInv, Answers, ConfigGranted
<1> QED  BY <1>1, <1>2, NeighboursKept DEF NetInv

\* An offer is taken and requested, anything else is read and dropped.
LEMMA OfferedStep == ASSUME NetInv, Offered PROVE NetInv'
<1> DEFINE p == dhcp_parse(call.p, us)
<1>1. /\ Types /\ call.op = "dhcp" /\ us \in Message /\ us' = None
      /\ UNCHANGED <<cfg, arp, air>>
  BY DEF Offered, NetInv, Types
<1>2. call.p \in Parsed /\ p \in Parsed /\ p.srv \in Servers /\ p.yi \in Servers
  BY <1>1, DhcpLocals, ParseType DEF Message
<1> HIDE DEF p
<1>3. call' \in Calls /\ asked \subseteq asked' /\ asked' \subseteq Servers
  <2>1. \/ /\ call' = [call EXCEPT !.p = p, !.wait = "ack", !.offer = p.yi]
           /\ asked' = asked \cup {p.srv}
        \/ call' = [call EXCEPT !.p = p] /\ asked' = asked
    BY DEF Offered, p
  <2> QED  BY <1>1, <1>2, <2>1, DhcpLocals DEF Calls, Option, Types
<1>4. Types'
  BY <1>1, <1>3 DEF Types, arp
<1>5. Answers' /\ ConfigGranted'
  BY <1>1, <1>3 DEF NetInv, Answers, ConfigGranted
<1> QED  BY <1>1, <1>4, <1>5, NeighboursKept DEF NetInv

\* Only a grant changes the address, and it is the granting server's.
LEMMA AckedStep == ASSUME NetInv, Acked PROVE NetInv'
<1> USE NetAssumption
<1> DEFINE p == dhcp_parse(call.p, us)
<1>1. /\ Types /\ call.op = "dhcp" /\ us \in Message /\ us \in air /\ us.type = "ack"
      /\ us' = None /\ call' = Idle /\ UNCHANGED <<arp, air, asked>>
  BY DEF Acked, Return, NetInv, Types
<1>2. /\ p \in Parsed /\ p.yi = us.from
      /\ "gw" \in Stated[us.from] => p.gw = us.from
      /\ "dns" \in Stated[us.from] => p.dns = us.from
  BY <1>1, DhcpLocals, ParseType
<1> HIDE DEF p
<1>3. us.from \in Servers /\ us.from # None /\ us.from \in asked
  BY <1>1 DEF Message, NetInv, Answers
<1>4. cfg' = [ip |-> us.from, gw |-> p.gw, dns |-> p.dns]
  BY <1>2, <1>3 DEF Acked, p
<1>5. Types'
  BY <1>1, <1>2, <1>3, <1>4 DEF Types, arp, Parsed, Option, Givers, Calls
<1>6. us = [type |-> "ack", from |-> us.from]
  BY <1>1 DEF Message
<1>7. ConfigGranted'
  <2>1. Stated[us.from] \subseteq {"gw", "dns"}
    BY <1>3
  <2> QED  BY <1>1, <1>2, <1>3, <1>4, <1>6, <2>1 DEF ConfigGranted
<1> QED  BY <1>1, <1>5, <1>7, NeighboursKept DEF NetInv, Answers

\* Refusals, late offers and the end of the wait lead to another attempt or
\* to the end of net_dhcp, with the address as it was.
LEMMA RetryStep == ASSUME NetInv, NotAcked \/ DhcpTimeout PROVE NetInv'
<1> USE NetAssumption
<1>1. Types /\ call.op = "dhcp" /\ UNCHANGED <<cfg, arp, air, asked>>
  BY DEF NetInv, NotAcked, DhcpTimeout
<1>2. us' = None \/ us' \in air
  BY <1>1 DEF NotAcked, DhcpTimeout, NextAttempt, Return, Types
<1>3. call' \in Calls
  <2>1. CASE NotAcked /\ us.type # "nak"
    <3>1. us \in Message /\ call' = [call EXCEPT !.p = dhcp_parse(call.p, us)]
      BY <2>1, <1>1 DEF NotAcked, Types
    <3>2. dhcp_parse(call.p, us) \in Parsed
      BY <1>1, <3>1, DhcpLocals, ParseType
    <3> QED  BY <1>1, <3>1, <3>2, DhcpLocals DEF Calls
  <2>2. CASE NotAcked /\ us.type = "nak"
    BY <2>2, <1>1, AttemptType DEF NotAcked, Return, Calls
  <2>3. CASE DhcpTimeout
    BY <2>3, <1>1, AttemptType DEF DhcpTimeout, NextAttempt, Return, Calls
  <2> QED  BY <2>1, <2>2, <2>3
<1> QED  BY <1>1, <1>2, <1>3, WaitStep

\* Static configuration and a change of card start from an empty table.
LEMMA ResetStep == ASSUME NetInv, net_set_static \/ select_nic PROVE NetInv'
<1> USE NetAssumption
<1>1. Types /\ Cleared /\ UNCHANGED <<us, air, asked, call>>
  BY DEF NetInv, net_set_static, select_nic, udp
<1>2. cfg' \in {NoCfg, [ip |-> "static", gw |-> "static", dns |-> "static"]}
  BY DEF net_set_static, select_nic
<1>3. Types'
  BY <1>1, <1>2, ClearedTable DEF Types, NoCfg, Givers
<1>4. Answers' /\ ConfigGranted'
  BY <1>1, <1>2 DEF NetInv, Answers, ConfigGranted, NoCfg
<1> QED  BY <1>1, <1>3, <1>4, ClearedTable DEF NetInv

\* Every step keeps the invariant.
LEMMA NetStep == NetInv /\ [Next]_vars => NetInv'
<1> SUFFICES ASSUME NetInv, [Next]_vars PROVE NetInv'
    OBVIOUS
<1> USE NetAssumption
<1>0. us = None \/ us \in air
  BY DEF NetInv, Types
<1>1. CASE Resolved \/ ResolveTimeout \/ \E hop \in Ips : Resolve(hop)
  <2>1. UNCHANGED <<cfg, arp, us, air, asked>>
    BY <1>1 DEF Resolved, ResolveTimeout, Resolve, udp
  <2>2. call' \in Calls
    BY <1>1 DEF NetInv, Types, Calls, Resolved, ResolveTimeout, Resolve, Idle
  <2> QED  BY <1>0, <2>1, <2>2, WaitStep
<1>2. CASE Interrupt \/ Cable \/ UNCHANGED vars
  <2>1. UNCHANGED <<cfg, arp, us, air, asked>> /\ call' \in {Idle, call}
    BY <1>2 DEF Interrupt, Cable, vars, udp
  <2>2. call' \in Calls
    BY <2>1 DEF NetInv, Types, Calls
  <2> QED  BY <1>0, <2>1, <2>2, WaitStep
<1>3. CASE Dhcp
  BY <1>3, StartStep DEF Dhcp
<1>4. CASE LinkPoll
  <2>1. CASE StartDhcp
    BY <2>1, StartStep
  <2>2. CASE UNCHANGED <<cfg, arp, udp, call>>
    BY <1>0, <2>2, WaitStep DEF NetInv, Types, udp
  <2> QED  BY <1>4, <2>1, <2>2 DEF LinkPoll
<1>5. CASE \E m \in air : udp_in(m)
  BY <1>5, WaitStep DEF udp_in, NetInv, Types
<1>6. CASE Offered \/ Acked \/ NotAcked \/ DhcpTimeout
  BY <1>6, OfferedStep, AckedStep, RetryStep
<1>7. CASE \E ip \in Ips, mac \in Macs : arp_in(ip, mac)
  BY <1>7, LearnStep
<1>8. CASE \E s \in Servers : ServerOffer(s) \/ ServerAnswer(s, "ack") \/ ServerAnswer(s, "nak")
  BY <1>8, ServerStep
<1>9. CASE net_set_static \/ select_nic
  BY <1>9, ResetStep
<1> QED  BY <1>1, <1>2, <1>3, <1>4, <1>5, <1>6, <1>7, <1>8, <1>9 DEF Next

\* The invariant of the table, the slot and the exchange holds always.
THEOREM NetCorrect == Spec => []NetInv
BY NetStart, NetStep, PTL DEF Spec

\* No neighbour has two entries in arp_tab, and the one it has is what it
\* last said of itself, whatever arrives while arp_resolve waits.
THEOREM TableAlwaysFresh == Spec => []TableFresh
<1>1. NetInv => TableFresh
  <2> SUFFICES ASSUME NetInv PROVE TableFresh
    OBVIOUS
  <2>1. TypeOK
    BY DEF NetInv, Types, TypeOK, Calls, Idle
  <2> QED  BY <2>1 DEF NetInv, Neighbours, TableFresh
<1> QED  BY <1>1, NetCorrect, PTL

\* The address that net_dhcp has set was granted by the server it is from,
\* after that server was asked, and so was every option it states.
THEOREM AddressGranted == Spec => []ConfigGranted
<1>1. NetInv => ConfigGranted
  BY DEF NetInv
<1> QED  BY <1>1, NetCorrect, PTL
=============================================================================
