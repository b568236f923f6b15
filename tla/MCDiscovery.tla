---------------------------- MODULE MCDiscovery -----------------------------
(***************************************************************************)
(* Discovery for TLC: two machines and two networks of the same subnet, the*)
(* first of which passes multicast on and the second only unicast.  On one *)
(* of them an address of the other's may be typed in.                      *)
(***************************************************************************)
EXTENDS Discovery

TheSubnet(i) == 1
FirstMulticast(i) == IF i = 1 THEN {"multicast"} ELSE {}
OneTypes == {<<1, <<2, 2>>>>}

\* Each machine begins with one interface.
MCInit == Init /\ \A m \in Machine : Cardinality(ifs[m]) = 1

MCFairSpec == MCInit /\ [][Next]_vars /\ Fairness

=============================================================================
