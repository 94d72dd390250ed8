----------------------------- MODULE MCGoalClient -----------------------------
(***************************************************************************)
(* Small instances of GoalClient for TLC.                                  *)
(***************************************************************************)
EXTENDS GoalClient
=============================================================================
