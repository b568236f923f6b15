------------------------------ MODULE MCCapture ------------------------------
(***************************************************************************)
(* Capture for TLC, on both systems: calls of set_sharing that may overlap,*)
(* and as many loops as can succeed one another in them.                   *)
(***************************************************************************)
EXTENDS Capture, TLC

=============================================================================
