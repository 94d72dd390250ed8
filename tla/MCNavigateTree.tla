---------------------------- MODULE MCNavigateTree ----------------------------
(***************************************************************************)
(* Small instances of NavigateTree for TLC.                                *)
(***************************************************************************)
EXTENDS NavigateTree
=============================================================================
