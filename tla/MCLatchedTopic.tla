---------------------------- MODULE MCLatchedTopic ----------------------------
(***************************************************************************)
(* Small instances of LatchedTopic for TLC.                                *)
(***************************************************************************)
EXTENDS LatchedTopic
=============================================================================
