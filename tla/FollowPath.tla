----------------------------- MODULE FollowPath -----------------------------
(***************************************************************************)
(* The plugin inside its server: controller_server of Nav2, set up by      *)
(* config/nav2_params.yaml, runs one FollowPath goal at a time and calls   *)
(* the plugin in a loop.  The server, the localisation that moves the odom *)
(* frame in the map, and the robot are external: only what the parameters  *)
(* and the plugin say of them is modelled.                                 *)
(*                                                                         *)
(* The world is a line.  Plans are given in the map frame (global_costmap, *)
(* line 226), the robot's pose in the odom frame (local_costmap, line 165);*)
(* a point x of odom is x + offset in the map.  A place is a number: what  *)
(* a NaN does is the matter of RLController.  The policy and the base      *)
(* are ideal: the robot moves one step towards the carrot as the           *)
(* observation shows it.                                                   *)
(***************************************************************************)
EXTENDS RLController

CONSTANTS
  Offset,     \* values of the map -> odom transform
  Tolerance   \* xy_goal_tolerance

ASSUME LineAssumption ==
  /\ Position \subseteq Int
  /\ Offset \subseteq Int
  /\ Tolerance \in Nat

VARIABLES
  server,   \* "idle", at the "top" of its loop, or at the goal "check"
  goal,     \* the path it follows
  result,   \* how its last goal ended
  odom,     \* the robot in the odom frame
  offset,   \* of the odom frame in the map
  asked     \* history: the robot in the map when the call was made

world == <<odom, offset>>
serving == <<server, goal, result, asked>>
allVars == <<vars, serving, world>>

InMap(x) == x + offset
-----------------------------------------------------------------------------
Toward(x, y) == IF y > x THEN 1 ELSE IF y < x THEN -1 ELSE 0

StayInWorld(x) == IF x \in Position THEN x ELSE odom

Reached == Dist(InMap(odom), goal[Len(goal)]) <= Tolerance

\* Amcl or slam_toolbox corrects the transform, at any time.
Localise(o) ==
  /\ offset' = o
  /\ UNCHANGED <<vars, serving, odom>>

\* A new goal; an empty path is refused before the plugin sees it.
Accept(path) ==
  /\ server = "idle" /\ path # << >>
  /\ SetPlan(path)
  /\ server' = "top" /\ goal' = path /\ result' = "none"
  /\ UNCHANGED <<asked, world>>

\* The planner has replanned: the goal is preempted between two calls.
Replan(path) ==
  /\ server = "top" /\ path # << >>
  /\ SetPlan(path)
  /\ goal' = path
  /\ UNCHANGED <<server, result, asked, world>>

Cancel ==
  /\ server = "top" /\ control = "idle"
  /\ server' = "idle" /\ result' = "canceled"
  /\ UNCHANGED <<vars, goal, asked, world>>

\* getRobotPose, in the global frame of the local costmap: odom.
Cycle ==
  /\ server = "top"
  /\ \E yaw \in Yaw, velocity \in Velocity : ComputeStart(odom, yaw, velocity)
  /\ server' = "check"
  /\ asked' = InMap(odom)
  /\ UNCHANGED <<goal, result, world>>

\* The command is published and the robot moves.  One that stays where it is
\* is what SimpleProgressChecker aborts.
Drive ==
  /\ InferReturns
  /\ odom' = StayInWorld(odom + Toward(obs.pose, obs.carrot))
  /\ IF Toward(obs.pose, obs.carrot) = 0 /\ ~Reached
     THEN server' = "idle" /\ result' = "stalled"
     ELSE UNCHANGED <<server, result>>
  /\ UNCHANGED <<goal, asked, offset>>

Abort ==
  /\ InferThrows
  /\ server' = "idle" /\ result' = "aborted"
  /\ UNCHANGED <<goal, asked, world>>

\* isGoalReached, which does transform the goal into the odom frame.
Check ==
  /\ server = "check" /\ control = "idle"
  /\ IF Reached THEN server' = "idle" /\ result' = "succeeded"
     ELSE server' = "top" /\ UNCHANGED result
  /\ UNCHANGED <<vars, goal, asked, world>>

\* The rest of the call, and what runs beside it.  The server ends its goal
\* before it is deactivated.
Elsewhere ==
  /\ \/ SampleLock \/ SampleCopy \/ Observe
     \/ \E m \in LaserScan : Publish(m)
     \/ ScanCallbackLock \/ ScanCallbackStore
     \/ \E v \in Lookahead : SetParameter(v)
     \/ Lifecycle /\ server = "idle"
  /\ UNCHANGED <<serving, world>>
-----------------------------------------------------------------------------
FollowInit ==
  /\ Init
  /\ server = "idle" /\ goal = << >> /\ result = "none"
  /\ odom \in Position
  /\ offset \in Offset
  /\ asked = InMap(odom)

FollowNext ==
  \/ \E o \in Offset : Localise(o)
  \/ \E path \in Path : Accept(path)
  \/ \E path \in Path : Replan(path)
  \/ Cancel \/ Cycle \/ Drive \/ Abort \/ Check
  \/ Elsewhere

\* The server's loop goes on, at controller_frequency.
FollowFairness ==
  /\ WF_allVars(Cycle)
  /\ WF_allVars(Check)
  /\ WF_allVars(Drive \/ Abort)
  /\ WF_allVars(ScanCallbackLock /\ UNCHANGED <<serving, world>>)
  /\ WF_allVars(ScanCallbackStore /\ UNCHANGED <<serving, world>>)
  /\ SF_allVars(SampleLock /\ UNCHANGED <<serving, world>>)
  /\ WF_allVars(SampleCopy /\ UNCHANGED <<serving, world>>)
  /\ WF_allVars(Observe /\ UNCHANGED <<serving, world>>)

FollowSpec == FollowInit /\ [][FollowNext]_allVars
FollowFairSpec == FollowSpec /\ FollowFairness
-----------------------------------------------------------------------------
(***************************************************************************)
(* "goal features in the robot's base_footprint frame"                     *)
(* (rl_controller.cpp:127): the carrot less the pose, the only use the     *)
(* observation makes of the two, is the carrot seen from the robot.        *)
(***************************************************************************)
GoalInRobotFrame ==
  obs # NoObs => obs.carrot - obs.pose = obs.carrot - asked

(***************************************************************************)
(* The policy is never sent after the plan of an earlier goal: whatever is *)
(* accepted, cancelled or replanned between two calls, the carrot is a     *)
(* waypoint of the path the server follows now (lines 98-102, 247-281).    *)
(***************************************************************************)
CarrotOfThisGoal ==
  obs # NoObs => \E j \in DOMAIN goal : obs.carrot = goal[j]

\* Whom NeverStalls is promised: the distance is one, the lookahead is not
\* zero or negative, and a path that comes back to a place of it has gone at
\* least the lookahead in between, unless it never left.  The paths of
\* NavfnPlanner (nav2_params.yaml:133) do not come back at all.
Separates == \A p, q \in Position : Dist(p, q) = 0 <=> p = q
LooksAhead == \A v \in Lookahead : v > 0
FoldsAreWide ==
  \A path \in Path, v \in Lookahead : \A i, j \in DOMAIN path :
    i < j /\ path[i] = path[j]
      => ArcLength(path, i, j) = 0 \/ ArcLength(path, i, j - 1) >= v

(***************************************************************************)
(* With the frames aligned, a robot that goes where it is told is never    *)
(* told to stay short of the end of its path: the carrot is its own place  *)
(* only at the goal, on paths that turn back too, and wherever it starts.  *)
(***************************************************************************)
NeverStalls == result # "stalled"

(***************************************************************************)
(* ... and so, once replanning ceases, every goal ends: the forward-only   *)
(* search, the lookahead and the goal check do not chase each other, and   *)
(* no call waits for the scan callback for ever.                           *)
(***************************************************************************)
GoalEnds ==
  (<>[][\A path \in Path : ~Replan(path)]_allVars)
    => (server # "idle" ~> server = "idle")
=============================================================================
