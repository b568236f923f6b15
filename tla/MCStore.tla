------------------------------ MODULE MCStore -------------------------------
(***************************************************************************)
(* Store for TLC: three documents, so that the file, its backup and the    *)
(* save under way can all differ.                                          *)
(***************************************************************************)
EXTENDS Store, TLC

=============================================================================
