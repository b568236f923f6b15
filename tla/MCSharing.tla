----------------------------- MODULE MCSharing ------------------------------
(***************************************************************************)
(* Instances of Sharing for TLC: two or three machines, a few crossings.   *)
(***************************************************************************)
EXTENDS Sharing, TLC

=============================================================================
