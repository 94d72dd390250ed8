------------------------------ MODULE Navigation ------------------------------
(***************************************************************************)
(* What a NavigateToPose action promises its clients: one task at a time,  *)
(* whose goal may be replaced while it runs, and which ends with a result  *)
(* after a bounded number of attempts.  It may give up before the last     *)
(* one; when the tree does is FailsOnlyWhenSpent of NavigateTree.          *)
(***************************************************************************)
EXTENDS Integers

CONSTANTS Goal, NoGoal, MAX_ATTEMPTS

VARIABLES task, goal, attempts

vars == <<task, goal, attempts>>

Init == task = "none" /\ goal = NoGoal /\ attempts = 0

Accept ==
  /\ task # "running"
  /\ task' = "running"
  /\ goal' \in Goal
  /\ attempts' = 1

Replace ==
  /\ task = "running"
  /\ goal' \in Goal
  /\ UNCHANGED <<task, attempts>>

Retry ==
  /\ task = "running"
  /\ attempts < MAX_ATTEMPTS
  /\ attempts' = attempts + 1
  /\ UNCHANGED <<task, goal>>

Finish ==
  /\ task = "running"
  /\ task' \in {"succeeded", "failed", "canceled"}
  /\ UNCHANGED <<goal, attempts>>

Next == Accept \/ Replace \/ Retry \/ Finish

Spec == Init /\ [][Next]_vars
=============================================================================
