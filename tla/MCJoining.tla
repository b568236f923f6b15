----------------------------- MODULE MCJoining ------------------------------
(***************************************************************************)
(* Joining for TLC: two machines.  They begin with the identifiers 2 and 3,*)
(* in either order, so that a workspace made later, after a crash, is named*)
(* below both: the machine that gave way the first time is the one that is *)
(* joined the second time.                                                 *)
(***************************************************************************)
EXTENDS Joining, TLC

MCInit == Init /\ made = {2, 3}

MCFairSpec == MCInit /\ [][Next]_vars /\ Fairness

=============================================================================
