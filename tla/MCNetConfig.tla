---------------------------- MODULE MCNetConfig ----------------------------
(***************************************************************************)
(* NetConfig for TLC: more neighbours than entries, and two servers of     *)
(* which one states no name server.                                        *)
(***************************************************************************)
EXTENDS NetConfig, TLC

CONSTANTS s1, s2

MCStated == [s \in {s1, s2} |-> IF s = s1 THEN {"gw", "dns"} ELSE {"gw"}]

\* Neighbours are told apart by nothing but their address, and so are cards.
Alike == Permutations(Ips) \cup Permutations(Macs)
=============================================================================
