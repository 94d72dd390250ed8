------------------------------ MODULE GoalClient ------------------------------
(***************************************************************************)
(* The scripts send_goal.py and send_multipoint.py and the two action      *)
(* servers they talk to.  A script runs to its end or is killed, and is    *)
(* started again; RViz and other people's scripts send goals of their own. *)
(*                                                                         *)
(* The servers are Nav2, outside this repository: bt_navigator runs one    *)
(* goal and keeps one more as pending, a third one replaces the pending    *)
(* one, and whoever is replaced hears "aborted".  waypoint_follower sends  *)
(* its poses one after the other and, since stop_on_failure is false, goes *)
(* on after a failure.  Nobody in this repository cancels a goal.          *)
(***************************************************************************)
EXTENDS Integers

CONSTANT NUM   \* number of waypoints, "num" in send_multipoint.py

ASSUME NumAssumption == NUM \in Nat \ {0}

Waypoint == 1 .. NUM

\* A goal in a server: who waits for it, and its waypoint if it has one.
\* The result of a goal of "other" is of no interest to the model.
None == <<"none", 0>>
Script == <<"script", 0>>
Other == <<"other", 0>>
Follower(i) == <<"follower", i>>
Handle == {Script, Other} \cup {Follower(i) : i \in Waypoint}

VARIABLES
  up,        \* 0, 1: bt_navigator is active, 2: waypoint_follower too
  script,    \* the script that runs, or ran last
  pc,        \* where it is
  result,    \* what its goal came to
  missed,    \* missed_waypoints in the result it got
  cur, pend, \* bt_navigator: the running and the pending goal
  list, next_list, \* waypoint_follower: the same for its lists
  idx,       \* its goal_index, counted from 1
  status,    \* its current_goal_status_, "new" when new_goal is set
  failed,    \* its failed_ids_
  \* History:
  arrived,   \* the script's own goal was reached
  reached    \* waypoints of the running list that were reached

client == <<script, pc, result, missed, arrived>>
navigator == <<cur, pend>>
follower == <<list, next_list, idx, status, failed, reached>>
vars == <<up, client, navigator, follower>>

TypeOK ==
  /\ up \in 0 .. 2
  /\ script \in {"send_goal", "send_multipoint"}
  /\ pc \in {"off", "waiting", "input", "polling", "completed"}
  /\ result \in {"none", "executing", "rejected", "aborted", "succeeded"}
  /\ {cur, pend} \subseteq Handle \cup {None}
  /\ {list, next_list} \subseteq {Script, Other, None}
  /\ idx \in Waypoint
  /\ status \in {"new", "processing", "succeeded", "aborted"}
  /\ {missed, failed, reached} \subseteq SUBSET Waypoint
  /\ arrived \in BOOLEAN

Init ==
  /\ up = 0
  /\ script = "send_goal" /\ pc = "off" /\ result = "none" /\ missed = {}
  /\ cur = None /\ pend = None
  /\ list = None /\ next_list = None
  /\ idx = 1 /\ status = "new" /\ failed = {}
  /\ arrived = FALSE /\ reached = {}

-----------------------------------------------------------------------------
(***************************************************************************)
(* The servers.                                                            *)
(***************************************************************************)

\* The lifecycle manager activates bt_navigator before waypoint_follower.
\* A failure in between leaves the one active and the other not.
Activate == up < 2 /\ up' = up + 1 /\ UNCHANGED <<client, navigator, follower>>

\* bt_navigator takes a goal; a goal that was pending is dropped.
Request(h) ==
  IF cur = None THEN cur' = h /\ UNCHANGED pend
  ELSE pend' = h /\ UNCHANGED cur

Dropped == IF cur = None THEN None ELSE pend

\* The goal h ends with r; its client, if it still waits, is told.
Tell(h, r) ==
  /\ result' = IF h = Script THEN r ELSE result
  /\ status' = IF h[1] = "follower" THEN r ELSE status

\* The pending goal preempts the running one.
TakePending ==
  /\ pend # None
  /\ cur' = pend /\ pend' = None
  /\ Tell(cur, "aborted")
  /\ UNCHANGED <<up, script, pc, missed, arrived, list, next_list, idx, failed,
                 reached>>

\* The running goal ends; a pending one is next.
NavEnds(r) ==
  /\ cur # None
  /\ Tell(cur, r)
  /\ arrived' = (arrived \/ (cur = Script /\ r = "succeeded"))
  /\ reached' = IF cur[1] = "follower" /\ r = "succeeded"
                THEN reached \cup {cur[2]} ELSE reached
  /\ cur' = pend /\ pend' = None
  /\ UNCHANGED <<up, script, pc, missed, list, next_list, idx, failed>>

\* waypoint_follower sends the pose at idx and does not wait.
SendWaypoint ==
  /\ list # None /\ next_list = None
  /\ status = "new"
  /\ Request(Follower(idx))
  /\ status' = "processing"
  /\ result' = IF Dropped = Script THEN "aborted" ELSE result
  /\ UNCHANGED <<up, script, pc, missed, arrived, list, next_list, idx,
                 failed, reached>>

\* A mutant: a failure is not noted.
WaypointEndsDropsFailure ==
  /\ list # None /\ status \in {"succeeded", "aborted"}
  /\ idx < NUM
  /\ idx' = idx + 1 /\ status' = "new"
  /\ UNCHANGED <<up, client, navigator, list, next_list, failed, reached>>

\* A waypoint that failed is noted, and the next one is sent.
WaypointEnds ==
  /\ list # None /\ status \in {"succeeded", "aborted"}
  /\ idx < NUM
  /\ idx' = idx + 1 /\ status' = "new"
  /\ failed' = IF status = "aborted" THEN failed \cup {idx} ELSE failed
  /\ UNCHANGED <<up, client, navigator, list, next_list, reached>>

\* After the last waypoint the list succeeds, whatever was missed.
ListEnds ==
  /\ list # None /\ status \in {"succeeded", "aborted"}
  /\ idx = NUM
  /\ LET all == IF status = "aborted" THEN failed \cup {idx} ELSE failed
     IN  IF list = Script THEN result' = "succeeded" /\ missed' = all
         ELSE UNCHANGED <<result, missed>>
  /\ list' = next_list /\ next_list' = None
  /\ idx' = 1 /\ status' = "new" /\ failed' = {} /\ reached' = {}
  /\ UNCHANGED <<up, script, pc, arrived, navigator>>

\* A mutant: results are not compared with the goal's id.
ForgetWaypointNever == UNCHANGED navigator

\* The goal waypoint_follower sent last goes on in bt_navigator, and its
\* result is ignored when it comes: the ids differ.
ForgetWaypoint ==
  /\ cur' = IF cur[1] = "follower" THEN Other ELSE cur
  /\ pend' = IF pend[1] = "follower" THEN Other ELSE pend

\* A new list preempts the running one.  Versions differ in whether the
\* failures noted so far are forgotten.
TakeNextList ==
  /\ list # None /\ next_list # None
  /\ list' = next_list /\ next_list' = None
  /\ result' = IF list = Script THEN "aborted" ELSE result
  /\ idx' = 1 /\ status' = "new" /\ reached' = {}
  /\ failed' \in {failed, {}}
  /\ ForgetWaypoint
  /\ UNCHANGED <<up, script, pc, missed, arrived>>

RequestList(h) ==
  IF list = None THEN list' = h /\ UNCHANGED next_list
  ELSE next_list' = h /\ UNCHANGED list

\* RViz, another operator, another script.
OtherGoal ==
  /\ up > 0
  /\ Request(Other)
  /\ Tell(Dropped, "aborted")
  /\ UNCHANGED <<up, script, pc, missed, arrived, list, next_list, idx, failed,
                 reached>>

OtherList ==
  /\ up = 2
  /\ RequestList(Other)
  /\ result' = IF list # None /\ next_list = Script THEN "aborted" ELSE result
  /\ UNCHANGED <<up, script, pc, missed, arrived, navigator, idx, status,
                 failed, reached>>

-----------------------------------------------------------------------------
(***************************************************************************)
(* The scripts.                                                            *)
(***************************************************************************)
Start(s) ==
  /\ pc \in {"off", "completed"}
  /\ script' = s
  /\ pc' = "waiting"
  /\ result' = "none" /\ missed' = {} /\ arrived' = FALSE
  /\ UNCHANGED <<up, navigator, follower>>

\* waitUntilNav2Active asks amcl and bt_navigator, not waypoint_follower.
Nav2IsActive ==
  /\ pc = "waiting"
  /\ up > 0
  /\ pc' = "input"
  /\ UNCHANGED <<up, script, result, missed, arrived, navigator, follower>>

GoToPose ==
  /\ pc = "input" /\ script = "send_goal"
  /\ Request(Script)
  /\ result' = "executing"
  /\ status' = IF Dropped[1] = "follower" THEN "aborted" ELSE status
  /\ pc' = "polling"
  /\ UNCHANGED <<up, script, missed, arrived, list, next_list, idx, failed,
                 reached>>

\* An inactive waypoint_follower rejects the goal.
FollowWaypoints ==
  /\ pc = "input" /\ script = "send_multipoint"
  /\ IF up < 2 THEN result' = "rejected" /\ UNCHANGED <<list, next_list>>
     ELSE result' = "executing" /\ RequestList(Script)
  /\ pc' = "polling"
  /\ UNCHANGED <<up, script, missed, arrived, navigator, idx, status, failed,
                 reached>>

\* A mutant: the loop waits for success.
CompletedOnSuccess ==
  /\ pc = "polling"
  /\ result = "succeeded"
  /\ pc' = "completed"
  /\ UNCHANGED <<up, script, result, missed, arrived, navigator, follower>>

\* isTaskComplete: there is a result, or nothing to wait for.  What the
\* result is makes no difference, and "completed!" is printed.
Completed ==
  /\ pc = "polling"
  /\ result # "executing"
  /\ pc' = "completed"
  /\ UNCHANGED <<up, script, result, missed, arrived, navigator, follower>>

Anonymous(h) == IF h = Script THEN Other ELSE h

\* Ctrl-C: the goal goes on without a client.
Kill ==
  /\ pc \in {"waiting", "input", "polling"}
  /\ pc' = "off" /\ result' = "none"
  /\ cur' = Anonymous(cur) /\ pend' = Anonymous(pend)
  /\ list' = Anonymous(list) /\ next_list' = Anonymous(next_list)
  /\ UNCHANGED <<up, script, missed, arrived, idx, status, failed, reached>>

Servers ==
  \/ Activate \/ TakePending \/ SendWaypoint \/ WaypointEnds \/ ListEnds
  \/ TakeNextList \/ OtherGoal \/ OtherList
  \/ \E r \in {"succeeded", "aborted"} : NavEnds(r)

Scripts ==
  \/ \E s \in {"send_goal", "send_multipoint"} : Start(s)
  \/ Nav2IsActive \/ GoToPose \/ FollowWaypoints \/ Completed \/ Kill

Next == Servers \/ Scripts

Spec == Init /\ [][Next]_vars

(***************************************************************************)
(* Fairness.  The servers' loops run and a navigation task ends (module    *)
(* NavigateTree); a script that has its input goes on.  Bring-up, the      *)
(* user and other clients owe nothing.                                     *)
(***************************************************************************)
FairSpec ==
  /\ Spec
  /\ WF_vars(TakePending) /\ WF_vars(TakeNextList)
  /\ WF_vars(\E r \in {"succeeded", "aborted"} : NavEnds(r))
  /\ WF_vars(SendWaypoint) /\ WF_vars(WaypointEnds) /\ WF_vars(ListEnds)
  /\ WF_vars(GoToPose) /\ WF_vars(FollowWaypoints) /\ WF_vars(Completed)

-----------------------------------------------------------------------------
(***************************************************************************)
(* A script that is over, by its end or by Ctrl-C, has no goal in a server *)
(* that could take a result away from the next script's goal, and          *)
(* waypoint_follower has at most one goal that it listens to, only while   *)
(* it has a list.                                                          *)
(***************************************************************************)
NothingLeftBehind ==
  /\ pc # "polling" => Script \notin {cur, pend, list, next_list}
  /\ list = None => {cur[1], pend[1]} \cap {"follower"} = {}
  /\ ~(cur[1] = "follower" /\ pend[1] = "follower")

(***************************************************************************)
(* A list that is reported as succeeded has every waypoint accounted for:  *)
(* it was reached, or it is among the missed ones.  Preemptions by RViz,   *)
(* lists of scripts that were killed and late results of their goals do    *)
(* not hide a waypoint.                                                    *)
(***************************************************************************)
MissedAreReported ==
  [][script = "send_multipoint" /\ result = "executing"
       /\ result' = "succeeded" =>
         missed' \cup reached = Waypoint]_vars

(***************************************************************************)
(* A script whose goal was sent comes to its end, whoever else sends goals *)
(* meanwhile.                                                              *)
(***************************************************************************)
ScriptEnds == pc = "polling" ~> pc \in {"completed", "off"}

(***************************************************************************)
(* What the last lines of the scripts tell the user: "Navigation           *)
(* completed!" (send_goal.py:60) and "All waypoints completed!"            *)
(* (send_multipoint.py:53).                                                *)
(***************************************************************************)
LastLineIsTrue ==
  pc = "completed" =>
    IF script = "send_goal" THEN arrived
    ELSE result = "succeeded" /\ missed = {}
=============================================================================
