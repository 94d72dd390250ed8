----------------------------- MODULE NavigateTree -----------------------------
(***************************************************************************)
(* The behaviour tree config/bt_navogator_with_clear.xml, ticked by        *)
(* bt_navigator for one NavigateToPose goal after another.                 *)
(*                                                                         *)
(* The XML gives the shape of the tree, the retry counts and the order of  *)
(* the recoveries.  What each control node does is the code of Nav2 and    *)
(* BehaviorTree.CPP, outside this repository: a RecoveryNode ticks its     *)
(* second child after a failure of the first and then tries the first      *)
(* again; a PipelineSequence goes on ticking the children it has passed;   *)
(* a RateController ticks its child at once and then once a period; a      *)
(* RoundRobin goes on with the next child at each call.  A leaf takes time *)
(* and then succeeds or fails; a tick that only finds leaves running       *)
(* changes nothing and is no step here.                                    *)
(***************************************************************************)
EXTENDS Integers

CONSTANTS
  Goal,            \* the goals clients may send
  NoGoal,          \* no goal yet, and the goal of a path never computed
  NAV_RETRIES,     \* number_of_retries of NavigateRecovery (6)
  PLAN_RETRIES,    \* number_of_retries of ComputePathRecovery (1)
  FOLLOW_RETRIES   \* number_of_retries of FollowPathRecovery (1)

ASSUME TreeAssumption ==
  /\ NoGoal \notin Goal
  /\ NAV_RETRIES \in Nat
  /\ PLAN_RETRIES \in Nat
  /\ FOLLOW_RETRIES \in Nat

\* The children of RoundRobin: ClearAndReplan, Spin, Wait, BackUp.
Recovery == 0 .. 3

\* ClearAndReplan is a Sequence of two leaves, the others are one leaf.
Leaves(c) == IF c = 0 THEN 2 ELSE 1

Following(c) == (c + 1) % 4

VARIABLES
  task,          \* the action's state, or its last result
  goal,          \* {goal} on the blackboard
  path,          \* the goal that {path} leads to
  plan,          \* ComputePathRecovery under the RateController
  plan_retry,    \* its retry_count_
  read,          \* the goal that ComputePathToPose last read
  follow,        \* FollowPathRecovery
  follow_retry,  \* its retry_count_
  nav_retry,     \* retry_count_ of NavigateRecovery
  rr,            \* current_child_idx_ of RoundRobin, kept between recoveries
  rr_failed,     \* num_failed_children_ of RoundRobin
  step,          \* the running leaf of that child, 0 when none is
  seen,          \* the goal that GoalUpdated remembers
  \* History:
  attempts,      \* times NavigateWithReplanning was started for this task
  untried,       \* recoveries not started in this round
  refused        \* recoveries that failed since the last one that worked

blackboard == <<goal, path>>
planner == <<plan, plan_retry, read>>
follower == <<follow, follow_retry>>
recovery == <<rr, rr_failed, step, seen, untried, refused>>
vars == <<task, nav_retry, attempts, blackboard, planner, follower, recovery>>

TypeOK ==
  /\ task \in {"none", "running", "succeeded", "failed", "canceled"}
  /\ goal \in Goal \cup {NoGoal}
  /\ path \in Goal \cup {NoGoal}
  /\ read \in Goal \cup {NoGoal}
  /\ seen \in Goal \cup {NoGoal}
  /\ plan \in {"off", "computing", "clearing", "done"}
  /\ follow \in {"off", "following", "clearing"}
  /\ plan_retry \in 0 .. PLAN_RETRIES
  /\ follow_retry \in 0 .. FOLLOW_RETRIES
  /\ nav_retry \in 0 .. NAV_RETRIES
  /\ rr \in Recovery
  /\ rr_failed \in Recovery
  /\ step \in 0 .. 2
  /\ attempts \in 0 .. NAV_RETRIES + 1
  /\ untried \in SUBSET Recovery
  /\ refused \in SUBSET Recovery

Init ==
  /\ task = "none"
  /\ goal = NoGoal /\ path = NoGoal /\ read = NoGoal /\ seen = NoGoal
  /\ plan = "off" /\ plan_retry = 0
  /\ follow = "off" /\ follow_retry = 0
  /\ nav_retry = 0
  /\ rr = 0 /\ rr_failed = 0 /\ step = 0
  /\ attempts = 0 /\ untried = {} /\ refused = {}

-----------------------------------------------------------------------------
(***************************************************************************)
(* NavigateWithReplanning.                                                 *)
(***************************************************************************)

\* A mutant: the halted pipeline leaves FollowPath running.
HaltPipelineKeepsFollowing ==
  /\ plan' = "off" /\ plan_retry' = 0
  /\ UNCHANGED follower

HaltPipeline ==
  /\ plan' = "off" /\ plan_retry' = 0
  /\ follow' = "off" /\ follow_retry' = 0

\* A mutant: a RateController that is not reset serves the old path.
StartPipelineOldPath ==
  /\ plan' = "done" /\ plan_retry' = 0
  /\ follow' = "following" /\ follow_retry' = 0
  /\ UNCHANGED read

\* The RateController was idle, so ComputePathToPose is ticked at once.
StartPipeline ==
  /\ plan' = "computing" /\ plan_retry' = 0
  /\ read' = goal'
  /\ follow' = "off" /\ follow_retry' = 0

StartRecovery(c) ==
  /\ rr' = c
  /\ step' = 1
  /\ untried' = (IF untried = {} THEN Recovery ELSE untried) \ {c}

\* A mutant: one retry too many.
PipelineFailsLate ==
  /\ HaltPipeline
  /\ UNCHANGED <<blackboard, read, attempts, rr_failed, refused>>
  /\ \/ /\ nav_retry <= NAV_RETRIES
        /\ seen' = goal
        /\ StartRecovery(rr)
        /\ UNCHANGED <<task, nav_retry>>
     \/ /\ nav_retry > NAV_RETRIES
        /\ task' = "failed"
        /\ nav_retry' = 0
        /\ UNCHANGED <<rr, step, seen, untried>>

\* The first child of NavigateRecovery fails.  In a recovery GoalUpdated is
\* ticked first: it only remembers the goal and fails.
PipelineFails ==
  /\ HaltPipeline
  /\ UNCHANGED <<blackboard, read, attempts, rr_failed, refused>>
  /\ \/ /\ nav_retry < NAV_RETRIES
        /\ seen' = goal
        /\ StartRecovery(rr)
        /\ UNCHANGED <<task, nav_retry>>
     \/ /\ nav_retry = NAV_RETRIES
        /\ task' = "failed"
        /\ nav_retry' = 0
        /\ UNCHANGED <<rr, step, seen, untried>>

\* A new path reaches FollowPath, which starts or takes it up while running.
PlanSucceeds ==
  /\ plan = "computing"
  /\ plan' = "done" /\ plan_retry' = 0
  /\ path' = read
  /\ follow' = IF follow = "off" THEN "following" ELSE follow
  /\ UNCHANGED <<task, nav_retry, attempts, goal, read, follow_retry, recovery>>

PlanFails ==
  /\ plan = "computing"
  /\ \/ /\ plan_retry < PLAN_RETRIES
        /\ plan' = "clearing"
        /\ UNCHANGED <<task, nav_retry, attempts, blackboard, plan_retry, read,
                       follower, recovery>>
     \/ plan_retry = PLAN_RETRIES /\ PipelineFails

PlanCleared ==
  /\ plan = "clearing"
  /\ plan' = "computing"
  /\ plan_retry' = plan_retry + 1
  /\ read' = goal
  /\ UNCHANGED <<task, nav_retry, attempts, blackboard, follower, recovery>>

PlanClearFails == plan = "clearing" /\ PipelineFails

\* A mutant: the path is computed for the goal the planner read last.
PeriodExpiresOldGoal ==
  /\ plan = "done"
  /\ plan' = "computing"
  /\ UNCHANGED <<task, nav_retry, attempts, blackboard, plan_retry, read,
                 follower, recovery>>

\* RateController hz="1.0": a second after the last path.
PeriodExpires ==
  /\ plan = "done"
  /\ plan' = "computing"
  /\ read' = goal
  /\ UNCHANGED <<task, nav_retry, attempts, blackboard, plan_retry, follower,
                 recovery>>

FollowSucceeds ==
  /\ follow = "following"
  /\ task' = "succeeded"
  /\ nav_retry' = 0
  /\ HaltPipeline
  /\ UNCHANGED <<attempts, blackboard, read, recovery>>

FollowFails ==
  /\ follow = "following"
  /\ \/ /\ follow_retry < FOLLOW_RETRIES
        /\ follow' = "clearing"
        /\ UNCHANGED <<task, nav_retry, attempts, blackboard, planner,
                       follow_retry, recovery>>
     \/ follow_retry = FOLLOW_RETRIES /\ PipelineFails

FollowCleared ==
  /\ follow = "clearing"
  /\ follow' = "following"
  /\ follow_retry' = follow_retry + 1
  /\ UNCHANGED <<task, nav_retry, attempts, blackboard, planner, recovery>>

FollowClearFails == follow = "clearing" /\ PipelineFails

-----------------------------------------------------------------------------
(***************************************************************************)
(* RecoveryFallback.                                                       *)
(***************************************************************************)

\* A mutant: retry_count_ is not incremented.
TryAgainUncounted ==
  /\ step' = 0
  /\ UNCHANGED <<task, nav_retry, attempts, blackboard, seen>>
  /\ StartPipeline

\* The second child of NavigateRecovery succeeds: the first is tried again.
TryAgain ==
  /\ nav_retry' = nav_retry + 1
  /\ attempts' = attempts + 1
  /\ step' = 0
  /\ UNCHANGED <<task, blackboard, seen>>
  /\ StartPipeline

RecoveryContinues ==
  /\ step \in 1 .. Leaves(rr) - 1
  /\ step' = step + 1
  /\ UNCHANGED <<task, nav_retry, attempts, blackboard, planner, follower, rr,
                 rr_failed, seen, untried, refused>>

\* A mutant: a RoundRobin that has finished is reset.
RecoverySucceedsResets ==
  /\ step = Leaves(rr)
  /\ rr' = 0
  /\ rr_failed' = 0
  /\ refused' = {}
  /\ TryAgain
  /\ UNCHANGED untried

RecoverySucceeds ==
  /\ step = Leaves(rr)
  /\ rr' = Following(rr)
  /\ rr_failed' = 0
  /\ refused' = {}
  /\ TryAgain
  /\ UNCHANGED untried

\* RoundRobin::halt.
ResetRoundRobin ==
  /\ rr' = 0 /\ rr_failed' = 0 /\ step' = 0
  /\ untried' = {} /\ refused' = {}

\* A mutant: the last child is never tried after three failures.
RecoveryFailsEarly ==
  /\ step > 0
  /\ UNCHANGED <<attempts, blackboard, planner, follower, seen>>
  /\ \/ /\ rr_failed < 2
        /\ rr_failed' = rr_failed + 1
        /\ refused' = refused \cup {rr}
        /\ StartRecovery(Following(rr))
        /\ UNCHANGED <<task, nav_retry>>
     \/ /\ rr_failed >= 2
        /\ ResetRoundRobin
        /\ task' = "failed"
        /\ nav_retry' = 0

RecoveryFails ==
  /\ step > 0
  /\ UNCHANGED <<attempts, blackboard, planner, follower, seen>>
  /\ \/ /\ rr_failed < 3
        /\ rr_failed' = rr_failed + 1
        /\ refused' = refused \cup {rr}
        /\ StartRecovery(Following(rr))
        /\ UNCHANGED <<task, nav_retry>>
     \/ /\ rr_failed = 3
        /\ ResetRoundRobin
        /\ task' = "failed"
        /\ nav_retry' = 0

\* GoalUpdated succeeds and the running recovery is halted.  Whether it does
\* depends on when the fallback resets it, which differs between versions of
\* the library, so nothing forces this step.
GoalUpdated ==
  /\ step > 0
  /\ seen # goal
  /\ rr' = 0 /\ rr_failed' = 0 /\ untried' = {} /\ refused' = {}
  /\ TryAgain

-----------------------------------------------------------------------------
(***************************************************************************)
(* bt_navigator.                                                           *)
(***************************************************************************)
Accept(g) ==
  /\ task # "running"
  /\ task' = "running"
  /\ goal' = g
  /\ attempts' = 1
  /\ StartPipeline
  /\ UNCHANGED <<nav_retry, path, recovery>>

\* A new goal for the running task: only the blackboard changes.
Preempt(g) ==
  /\ task = "running"
  /\ goal # g
  /\ goal' = g
  /\ UNCHANGED <<task, nav_retry, attempts, path, planner, follower, recovery>>

Cancel ==
  /\ task = "running"
  /\ task' = "canceled"
  /\ nav_retry' = 0
  /\ HaltPipeline
  /\ IF step > 0 THEN ResetRoundRobin
     ELSE UNCHANGED <<rr, rr_failed, step, untried, refused>>
  /\ UNCHANGED <<attempts, blackboard, read, seen>>

Pipeline ==
  \/ PlanSucceeds \/ PlanFails \/ PlanCleared \/ PlanClearFails
  \/ PeriodExpires
  \/ FollowSucceeds \/ FollowFails \/ FollowCleared \/ FollowClearFails

Recover ==
  RecoveryContinues \/ RecoverySucceeds \/ RecoveryFails \/ GoalUpdated

Next ==
  \/ \E g \in Goal : Accept(g) \/ Preempt(g)
  \/ Cancel
  \/ Pipeline
  \/ Recover

Spec == Init /\ [][Next]_vars

(***************************************************************************)
(* Fairness.  Every leaf ends: services answer or time out, the behaviours *)
(* have time allowances, the planner is bounded by max_planner_duration,   *)
(* the clock goes on.  Nothing is said of FollowPath: the robot may be on  *)
(* its way for as long as it likes.                                        *)
(***************************************************************************)
FairSpec ==
  /\ Spec
  /\ WF_vars(PlanSucceeds \/ PlanFails)
  /\ WF_vars(PlanCleared \/ PlanClearFails)
  /\ WF_vars(PeriodExpires)
  /\ WF_vars(FollowCleared \/ FollowClearFails)
  /\ WF_vars(RecoveryContinues \/ RecoverySucceeds \/ RecoveryFails)

-----------------------------------------------------------------------------
(***************************************************************************)
(* Two things command the base, FollowPath and the recoveries: the tree    *)
(* never has both running, and none of them without a task.                *)
(***************************************************************************)
OneDriver ==
  /\ follow # "off" => step = 0
  /\ task # "running" => follow = "off" /\ step = 0 /\ plan = "off"

(***************************************************************************)
(* FollowPath is only ever started by a planner that has just returned, on *)
(* the path to the goal which that planner had read: the blackboard keeps  *)
(* {path} for ever, also that of an earlier task or attempt, and no tick   *)
(* starts FollowPath on it.                                                *)
(***************************************************************************)
FollowsFreshPath ==
  [][follow = "off" /\ follow' # "off" =>
       /\ plan = "computing"
       /\ path' = read]_vars

(***************************************************************************)
(* No recovery is started again before the other three have been: the      *)
(* RoundRobin goes on where it was, over attempts and over tasks, unless   *)
(* it is halted.                                                           *)
(***************************************************************************)
RecoveriesInTurn ==
  [][(step' = 1 /\ (step # 1 \/ rr' # rr)) =>
       (untried = {} \/ rr' \in untried)]_vars

(***************************************************************************)
(* The task fails only when every attempt is spent, or when all four       *)
(* recoveries failed one after the other.                                  *)
(***************************************************************************)
FailsOnlyWhenSpent ==
  [][task = "running" /\ task' = "failed" =>
       \/ attempts = NAV_RETRIES + 1
       \/ refused \cup {rr} = Recovery]_vars

(***************************************************************************)
(* A goal sent to a running task comes to be the one the robot follows, or *)
(* the task ends or the goal is replaced first.                            *)
(***************************************************************************)
NewGoalIsPlanned ==
  \A g \in Goal :
    (task = "running" /\ goal = g)
      ~> (path = g \/ goal # g \/ task # "running")

\* FollowPath ends, by arriving or by the progress checker.
FollowingEnds == WF_vars(FollowSucceeds \/ FollowFails)

(***************************************************************************)
(* A task ends if FollowPath never runs for ever, also when clients never  *)
(* stop replacing its goal: seven attempts, each with bounded retries      *)
(* inside, and a new goal starts none of them again.                       *)
(***************************************************************************)
NavigationEnds == FollowingEnds => []<>(task # "running")

-----------------------------------------------------------------------------
(***************************************************************************)
(* The abstract navigation action that this tree implements.               *)
(***************************************************************************)
Nav == INSTANCE Navigation WITH MAX_ATTEMPTS <- NAV_RETRIES + 1

ImplementsNavigation == Nav!Spec
=============================================================================
