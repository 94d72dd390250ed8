-------------------------- MODULE NavigateTreeProofs --------------------------
(***************************************************************************)
(* Proofs about NavigateTree, for every set of goals and every number of   *)
(* retries of the three RecoveryNodes.                                     *)
(***************************************************************************)
EXTENDS NavigateTree, TLAPS

(***************************************************************************)
(* The invariant: which parts of the tree run together, what the retry     *)
(* count says of the attempts, and where the RoundRobin stands.            *)
(***************************************************************************)
Phases ==
  /\ task # "running" => plan = "off" /\ follow = "off" /\ step = 0
  /\ step > 0 => plan = "off" /\ follow = "off"
  /\ task = "running" /\ step = 0 =>
       plan # "off" /\ (plan = "done" => follow # "off")

Counts ==
  /\ task # "running" => nav_retry = 0
  /\ task = "running" => attempts = nav_retry + 1
  /\ step > 0 => nav_retry < NAV_RETRIES
  /\ plan = "clearing" => plan_retry < PLAN_RETRIES
  /\ follow = "clearing" => follow_retry < FOLLOW_RETRIES

\* The recoveries of a round are started from 0 to 3, and those that failed
\* in a row are the ones just before the current one.
Untried(r, s) ==
  IF s > 0 THEN r + 1 .. 3 ELSE IF r = 0 THEN {} ELSE r .. 3

Refused(r, n) == {c \in Recovery : (r - c) % 4 \in 1 .. n}

Turns ==
  /\ step <= Leaves(rr)
  /\ step = 0 => rr_failed = 0
  /\ untried = Untried(rr, step)
  /\ refused = Refused(rr, rr_failed)

IInv == TypeOK /\ Phases /\ Counts /\ Turns

-----------------------------------------------------------------------------
(***************************************************************************)
(* The RoundRobin's arithmetic.                                            *)
(***************************************************************************)
LEMMA RefusedNone == \A r \in Recovery : Refused(r, 0) = {}
BY DEF Refused

\* After a failure the current child joins those that failed.
LEMMA RefusedOneMore ==
  ASSUME NEW r \in Recovery, NEW n \in 0 .. 2
  PROVE  Refused(Following(r), n + 1) = Refused(r, n) \cup {r}
<1>1. r = 0 \/ r = 1 \/ r = 2 \/ r = 3
  BY DEF Recovery
<1>2. n = 0 \/ n = 1 \/ n = 2
  OBVIOUS
<1> QED BY <1>1, <1>2 DEF Refused, Following, Recovery

LEMMA RefusedAll == \A r \in Recovery : Refused(r, 3) \cup {r} = Recovery
BY DEF Refused, Recovery

\* The child that is started is the first that was not tried.
LEMMA UntriedStarted ==
  ASSUME NEW r \in Recovery,
         untried = Untried(r, 0)
  PROVE  /\ (IF untried = {} THEN Recovery ELSE untried) \ {r} = Untried(r, 1)
         /\ untried = {} \/ r \in untried
<1>1. r = 0 \/ r = 1 \/ r = 2 \/ r = 3
  BY DEF Recovery
<1> QED BY <1>1 DEF Untried, Recovery

LEMMA UntriedFollowing ==
  \A r \in Recovery : Untried(r, 1) = Untried(Following(r), 0)
<1> SUFFICES ASSUME NEW r \in Recovery
             PROVE  Untried(r, 1) = Untried(Following(r), 0)
  OBVIOUS
<1>1. r = 0 \/ r = 1 \/ r = 2 \/ r = 3
  BY DEF Recovery
<1> QED BY <1>1 DEF Untried, Following

LEMMA ZeroIsRecovery == 0 \in Recovery
BY DEF Recovery

LEMMA LeavesType == \A r \in Recovery : Leaves(r) \in 1 .. 2
BY DEF Leaves

LEMMA ResetTurns == ResetRoundRobin => Turns'
BY RefusedNone, LeavesType, ZeroIsRecovery DEF ResetRoundRobin, Turns, Untried

LEMMA FollowingType == \A r \in Recovery : Following(r) \in Recovery
BY DEF Following, Recovery
-----------------------------------------------------------------------------
(***************************************************************************)
(* The invariant is inductive: types, phases and counts, turns.            *)
(***************************************************************************)
LEMMA InitIInv == Init => IInv
<1> SUFFICES ASSUME Init PROVE IInv
  OBVIOUS
<1> USE TreeAssumption
<1>1. TypeOK
  BY DEF Init, TypeOK, Recovery
<1>2. Phases /\ Counts
  BY DEF Init, Phases, Counts
<1>3. Turns
  BY RefusedNone DEF Init, Turns, Untried, Leaves, Recovery
<1> QED BY <1>1, <1>2, <1>3 DEF IInv


\* Types: nav_retry and rr_failed stay within their ranges because of Counts.
LEMMA TypesNext ==
  ASSUME IInv, [Next]_vars
  PROVE  TypeOK'
<1> USE TreeAssumption
    DEF IInv, TypeOK, blackboard, planner, follower, recovery
<1>1. ASSUME NEW g \in Goal, Accept(g) PROVE TypeOK'
  BY <1>1 DEF Accept, StartPipeline
<1>2. ASSUME NEW g \in Goal, Preempt(g) PROVE TypeOK'
  BY <1>2 DEF Preempt
<1>3. CASE PlanSucceeds
  BY <1>3 DEF PlanSucceeds
<1>4. CASE PlanFails
  BY <1>4 DEF PlanFails, PipelineFails, HaltPipeline, StartRecovery
<1>5. CASE PlanCleared
  BY <1>5 DEF PlanCleared, Counts
<1>6. CASE PlanClearFails
  BY <1>6 DEF PlanClearFails, PipelineFails, HaltPipeline, StartRecovery
<1>7. CASE PeriodExpires
  BY <1>7 DEF PeriodExpires
<1>8. CASE FollowSucceeds
  BY <1>8 DEF FollowSucceeds, HaltPipeline
<1>9. CASE FollowFails
  BY <1>9 DEF FollowFails, PipelineFails, HaltPipeline, StartRecovery
<1>10. CASE FollowCleared
  BY <1>10 DEF FollowCleared, Counts
<1>11. CASE FollowClearFails
  BY <1>11 DEF FollowClearFails, PipelineFails, HaltPipeline, StartRecovery
<1>12. CASE RecoveryContinues
  BY <1>12, LeavesType DEF RecoveryContinues
<1>13. CASE RecoverySucceeds
  <2>1. step > 0
    BY <1>13, LeavesType DEF RecoverySucceeds
  <2>2. nav_retry' \in 0 .. NAV_RETRIES /\ attempts' \in 0 .. NAV_RETRIES + 1
    BY <1>13, <2>1 DEF RecoverySucceeds, TryAgain, Counts, Phases
  <2>3. rr' \in Recovery /\ rr_failed' \in Recovery
    BY <1>13, FollowingType, ZeroIsRecovery DEF RecoverySucceeds
  <2> QED
    BY <1>13, <2>2, <2>3 DEF RecoverySucceeds, TryAgain, StartPipeline
<1>14. CASE RecoveryFails
  <2>1. CASE rr_failed < 3
    <3>1. rr_failed' \in Recovery /\ rr' \in Recovery /\ step' = 1
      BY <1>14, <2>1, FollowingType DEF RecoveryFails, StartRecovery, Recovery
    <3>2. untried' \in SUBSET Recovery /\ refused' \in SUBSET Recovery
      BY <1>14, <2>1 DEF RecoveryFails, StartRecovery
    <3> QED
      BY <1>14, <2>1, <3>1, <3>2 DEF RecoveryFails
  <2>2. CASE rr_failed = 3
    BY <1>14, <2>2, ZeroIsRecovery DEF RecoveryFails, ResetRoundRobin
  <2> QED
    BY <1>14, <2>1, <2>2 DEF Recovery
<1>15. CASE GoalUpdated
  <2>1. nav_retry' \in 0 .. NAV_RETRIES /\ attempts' \in 0 .. NAV_RETRIES + 1
    BY <1>15 DEF GoalUpdated, TryAgain, Counts, Phases
  <2> QED
    BY <1>15, <2>1, ZeroIsRecovery DEF GoalUpdated, TryAgain, StartPipeline
<1>16. CASE Cancel
  BY <1>16, ZeroIsRecovery DEF Cancel, HaltPipeline, ResetRoundRobin
<1>17. CASE UNCHANGED vars
  BY <1>17 DEF vars
<1> QED
  BY <1>1, <1>2, <1>3, <1>4, <1>5, <1>6, <1>7, <1>8, <1>9,
    <1>10, <1>11, <1>12, <1>13, <1>14, <1>15, <1>16, <1>17
  DEF Next, Pipeline, Recover

\* Phases and counts.
LEMMA PhasesNext ==
  ASSUME IInv, [Next]_vars
  PROVE  (Phases /\ Counts)'
<1> USE TreeAssumption
    DEF IInv, TypeOK, Phases, Counts, blackboard, planner, follower, recovery
<1>1. ASSUME NEW g \in Goal, Accept(g) PROVE (Phases /\ Counts)'
  BY <1>1 DEF Accept, StartPipeline
<1>2. ASSUME NEW g \in Goal, Preempt(g) PROVE (Phases /\ Counts)'
  BY <1>2 DEF Preempt
<1>3. CASE PlanSucceeds
  BY <1>3 DEF PlanSucceeds
<1>4. CASE PlanFails
  BY <1>4 DEF PlanFails, PipelineFails, HaltPipeline, StartRecovery
<1>5. CASE PlanCleared
  BY <1>5 DEF PlanCleared
<1>6. CASE PlanClearFails
  BY <1>6 DEF PlanClearFails, PipelineFails, HaltPipeline, StartRecovery
<1>7. CASE PeriodExpires
  BY <1>7 DEF PeriodExpires
<1>8. CASE FollowSucceeds
  BY <1>8 DEF FollowSucceeds, HaltPipeline
<1>9. CASE FollowFails
  BY <1>9 DEF FollowFails, PipelineFails, HaltPipeline, StartRecovery
<1>10. CASE FollowCleared
  BY <1>10 DEF FollowCleared
<1>11. CASE FollowClearFails
  BY <1>11 DEF FollowClearFails, PipelineFails, HaltPipeline, StartRecovery
<1>12. CASE RecoveryContinues
  BY <1>12, LeavesType DEF RecoveryContinues
<1>13. CASE RecoverySucceeds
  BY <1>13, LeavesType DEF RecoverySucceeds, TryAgain, StartPipeline
<1>14. CASE RecoveryFails
  BY <1>14 DEF RecoveryFails, StartRecovery, ResetRoundRobin
<1>15. CASE GoalUpdated
  BY <1>15 DEF GoalUpdated, TryAgain, StartPipeline
<1>16. CASE Cancel
  BY <1>16 DEF Cancel, HaltPipeline, ResetRoundRobin
<1>17. CASE UNCHANGED vars
  BY <1>17 DEF vars
<1> QED
  BY <1>1, <1>2, <1>3, <1>4, <1>5, <1>6, <1>7, <1>8, <1>9,
    <1>10, <1>11, <1>12, <1>13, <1>14, <1>15, <1>16, <1>17
  DEF Next, Pipeline, Recover


\* Turns: only the actions that start, end or halt a recovery touch it.
LEMMA TurnsNext ==
  ASSUME IInv, [Next]_vars
  PROVE  Turns'
<1> USE DEF IInv
<1>1. ASSUME UNCHANGED <<rr, rr_failed, step, untried, refused>>
      PROVE  Turns'
  BY <1>1 DEF Turns
<1>2. ASSUME step = 0, PipelineFails
      PROVE  Turns'
  <2>1. CASE nav_retry < NAV_RETRIES
    <3>1. /\ rr' = rr /\ step' = 1
          /\ rr_failed' = rr_failed /\ refused' = refused
          /\ untried' = (IF untried = {} THEN Recovery ELSE untried) \ {rr}
      BY <1>2, <2>1, TreeAssumption DEF PipelineFails, StartRecovery, TypeOK
    <3>2. untried' = Untried(rr, 1)
      BY <1>2, <3>1, UntriedStarted DEF Turns, TypeOK
    <3> QED
      BY <1>2, <3>1, <3>2, LeavesType DEF Turns, TypeOK
  <2>2. CASE nav_retry = NAV_RETRIES
    BY <1>1, <1>2, <2>2, TreeAssumption DEF PipelineFails
  <2> QED
    BY <1>2, <2>1, <2>2 DEF PipelineFails
<1>3. ASSUME plan # "off" \/ follow # "off" PROVE step = 0
  BY <1>3 DEF Phases, TypeOK
<1>4. CASE \E g \in Goal : Accept(g) \/ Preempt(g)
  BY <1>1, <1>4 DEF Accept, Preempt, recovery
<1>5. CASE PlanSucceeds \/ PlanCleared \/ PeriodExpires \/ FollowSucceeds
           \/ FollowCleared
  BY <1>1, <1>5 DEF PlanSucceeds, PlanCleared, PeriodExpires, FollowSucceeds,
    FollowCleared, recovery
<1>6. CASE PlanFails \/ PlanClearFails \/ FollowFails \/ FollowClearFails
  BY <1>1, <1>2, <1>3, <1>6 DEF PlanFails, PlanClearFails, FollowFails,
    FollowClearFails, recovery
<1>7. CASE RecoveryContinues
  BY <1>7, LeavesType DEF RecoveryContinues, Turns, TypeOK, Untried
<1>8. CASE RecoverySucceeds
  <2>1. /\ rr' = Following(rr) /\ step' = 0 /\ rr_failed' = 0
        /\ refused' = {} /\ untried' = untried
    BY <1>8 DEF RecoverySucceeds, TryAgain
  <2>2. untried = Untried(rr, 1)
    BY <1>8, LeavesType DEF RecoverySucceeds, Turns, TypeOK, Untried
  <2>3. rr' \in Recovery
    BY <2>1, FollowingType DEF TypeOK
  <2> QED
    BY <2>1, <2>2, <2>3, UntriedFollowing, RefusedNone, LeavesType
    DEF Turns, TypeOK
<1>9. CASE RecoveryFails
  <2>1. untried = Untried(Following(rr), 0) /\ Following(rr) \in Recovery
    BY <1>9, UntriedFollowing, FollowingType
    DEF RecoveryFails, Turns, TypeOK, Untried
  <2>2. CASE rr_failed < 3
    <3>1. /\ rr' = Following(rr) /\ step' = 1 /\ rr_failed' = rr_failed + 1
          /\ refused' = refused \cup {rr}
          /\ untried' = (IF untried = {} THEN Recovery ELSE untried) \ {rr'}
      BY <1>9, <2>2 DEF RecoveryFails, StartRecovery
    <3>2. untried' = Untried(rr', 1)
      BY <2>1, <3>1, UntriedStarted
    <3>3. refused' = Refused(rr', rr_failed')
      BY <2>2, <3>1, RefusedOneMore DEF Turns, TypeOK, Recovery
    <3> QED
      BY <2>1, <3>1, <3>2, <3>3, LeavesType DEF Turns
  <2>3. CASE rr_failed = 3
    BY <1>9, <2>3, ResetTurns DEF RecoveryFails
  <2> QED
    BY <1>9, <2>2, <2>3 DEF RecoveryFails
<1>10. CASE GoalUpdated
  BY <1>10, ResetTurns DEF GoalUpdated, TryAgain, ResetRoundRobin
<1>11. CASE Cancel
  BY <1>1, <1>11, ResetTurns DEF Cancel
<1>12. CASE UNCHANGED vars
  BY <1>1, <1>12 DEF vars, recovery
<1> QED
  BY <1>4, <1>5, <1>6, <1>7, <1>8, <1>9, <1>10, <1>11, <1>12
  DEF Next, Pipeline, Recover

THEOREM SpecIInv == Spec => []IInv
<1>1. Init => IInv
  BY InitIInv
<1>2. IInv /\ [Next]_vars => IInv'
  BY TypesNext, PhasesNext, TurnsNext DEF IInv
<1> QED
  BY <1>1, <1>2, PTL DEF Spec


-----------------------------------------------------------------------------
(***************************************************************************)
(* The properties.                                                         *)
(***************************************************************************)

\* Every variable keeps its type: in particular no retry count passes the
\* number of retries in the XML.
THEOREM TypeCorrect == Spec => []TypeOK
BY SpecIInv, PTL DEF IInv

\* FollowPath and a recovery never run together, and nothing runs without a
\* task.
THEOREM OneDriverHolds == Spec => []OneDriver
<1>1. IInv => OneDriver
  BY DEF IInv, Phases, OneDriver, TypeOK
<1> QED BY <1>1, SpecIInv, PTL

\* FollowPath starts only with the path that the planner just returned.
THEOREM FollowsFreshPathHolds == Spec => FollowsFreshPath
<1> DEFINE Fresh == follow = "off" /\ follow' # "off" =>
                      plan = "computing" /\ path' = read
<1>1. IInv /\ [Next]_vars => [Fresh]_vars
  <2> SUFFICES ASSUME IInv, Next PROVE Fresh
    OBVIOUS
  <2>1. CASE \E g \in Goal : Accept(g) \/ Preempt(g)
    BY <2>1 DEF Accept, Preempt, StartPipeline, follower
  <2>2. CASE PlanSucceeds
    BY <2>2 DEF PlanSucceeds
  <2>3. CASE PlanFails \/ PlanClearFails \/ FollowFails \/ FollowClearFails
    BY <2>3 DEF PlanFails, PlanClearFails, FollowFails, FollowClearFails,
      PipelineFails, HaltPipeline, follower
  <2>4. CASE PlanCleared \/ PeriodExpires \/ FollowSucceeds \/ FollowCleared
             \/ Cancel
    BY <2>4 DEF PlanCleared, PeriodExpires, FollowSucceeds, FollowCleared,
      Cancel, HaltPipeline, follower
  <2>5. CASE Recover
    BY <2>5 DEF Recover, RecoveryContinues, RecoverySucceeds, RecoveryFails,
      GoalUpdated, TryAgain, StartPipeline, follower
  <2> QED
    BY <2>1, <2>2, <2>3, <2>4, <2>5 DEF Next, Pipeline
<1> QED BY <1>1, SpecIInv, PTL DEF Spec, FollowsFreshPath

\* A recovery that starts is one that this round of four has not started.
THEOREM RecoveriesInTurnHolds == Spec => RecoveriesInTurn
<1> DEFINE InTurn == step' = 1 /\ (step # 1 \/ rr' # rr) =>
                       untried = {} \/ rr' \in untried
<1>1. IInv /\ [Next]_vars => [InTurn]_vars
  <2> SUFFICES ASSUME IInv, Next PROVE InTurn
    OBVIOUS
  <2>1. ASSUME UNCHANGED <<rr, step>> PROVE InTurn
    BY <2>1
  <2>2. ASSUME step' = 0 PROVE InTurn
    BY <2>2
  <2>3. ASSUME step = 0, PipelineFails PROVE InTurn
    <3>1. rr' = rr \/ UNCHANGED <<rr, step>>
      BY <2>3 DEF PipelineFails, StartRecovery
    <3>2. untried = {} \/ rr \in untried
      BY <2>3, UntriedStarted DEF IInv, Turns, TypeOK
    <3> QED
      BY <2>1, <3>1, <3>2
  <2>4. ASSUME plan # "off" \/ follow # "off" PROVE step = 0
    BY <2>4 DEF IInv, Phases, TypeOK
  <2>5. CASE \E g \in Goal : Accept(g) \/ Preempt(g)
    BY <2>1, <2>5 DEF Accept, Preempt, recovery
  <2>6. CASE PlanSucceeds \/ PlanCleared \/ PeriodExpires \/ FollowSucceeds
             \/ FollowCleared
    BY <2>1, <2>6 DEF PlanSucceeds, PlanCleared, PeriodExpires, FollowSucceeds,
      FollowCleared, recovery
  <2>7. CASE PlanFails \/ PlanClearFails \/ FollowFails \/ FollowClearFails
    BY <2>1, <2>3, <2>4, <2>7 DEF PlanFails, PlanClearFails, FollowFails,
      FollowClearFails, recovery
  <2>8. CASE RecoveryContinues
    BY <2>8 DEF RecoveryContinues, IInv, TypeOK
  <2>9. CASE RecoverySucceeds \/ GoalUpdated
    BY <2>2, <2>9 DEF RecoverySucceeds, GoalUpdated, TryAgain
  <2>10. CASE RecoveryFails
    <3>1. CASE rr_failed = 3
      BY <2>2, <2>10, <3>1 DEF RecoveryFails, ResetRoundRobin
    <3>2. CASE rr_failed < 3
      <4>1. rr' = Following(rr) /\ Following(rr) \in Recovery
        BY <2>10, <3>2, FollowingType
        DEF RecoveryFails, StartRecovery, IInv, TypeOK
      <4>2. untried = Untried(Following(rr), 0)
        BY <2>10, UntriedFollowing
        DEF RecoveryFails, IInv, Turns, TypeOK, Untried
      <4> QED
        BY <4>1, <4>2, UntriedStarted
    <3> QED
      BY <2>10, <3>1, <3>2 DEF RecoveryFails
  <2>11. CASE Cancel
    BY <2>1, <2>2, <2>11 DEF Cancel, ResetRoundRobin
  <2> QED
    BY <2>5, <2>6, <2>7, <2>8, <2>9, <2>10, <2>11 DEF Next, Pipeline, Recover
<1> QED BY <1>1, SpecIInv, PTL DEF Spec, RecoveriesInTurn

\* A failure of the task means that all attempts are spent, or that the four
\* recoveries failed in a row.
THEOREM FailsOnlyWhenSpentHolds == Spec => FailsOnlyWhenSpent
<1> DEFINE Spent == task = "running" /\ task' = "failed" =>
                      \/ attempts = NAV_RETRIES + 1
                      \/ refused \cup {rr} = Recovery
<1>1. IInv /\ [Next]_vars => [Spent]_vars
  <2> SUFFICES ASSUME IInv, Next PROVE Spent
    OBVIOUS
  <2>1. ASSUME task' # "failed" \/ task' = task PROVE Spent
    BY <2>1
  <2>2. ASSUME PipelineFails PROVE Spent
    BY <2>2 DEF PipelineFails, IInv, Counts
  <2>3. CASE \E g \in Goal : Accept(g) \/ Preempt(g)
    BY <2>1, <2>3 DEF Accept, Preempt
  <2>4. CASE PlanSucceeds \/ PlanCleared \/ PeriodExpires \/ FollowSucceeds
             \/ FollowCleared \/ Cancel
    BY <2>1, <2>4 DEF PlanSucceeds, PlanCleared, PeriodExpires, FollowSucceeds,
      FollowCleared, Cancel
  <2>5. CASE PlanFails \/ PlanClearFails \/ FollowFails \/ FollowClearFails
    BY <2>1, <2>2, <2>5 DEF PlanFails, PlanClearFails, FollowFails,
      FollowClearFails
  <2>6. CASE RecoveryContinues \/ RecoverySucceeds \/ GoalUpdated
    BY <2>1, <2>6 DEF RecoveryContinues, RecoverySucceeds, GoalUpdated,
      TryAgain
  <2>7. CASE RecoveryFails
    <3>1. CASE rr_failed = 3
      BY <3>1, RefusedAll DEF IInv, Turns, TypeOK
    <3>2. CASE rr_failed # 3
      BY <2>1, <2>7, <3>2 DEF RecoveryFails
    <3> QED
      BY <3>1, <3>2
  <2> QED
    BY <2>3, <2>4, <2>5, <2>6, <2>7 DEF Next, Pipeline, Recover
<1> QED BY <1>1, SpecIInv, PTL DEF Spec, FailsOnlyWhenSpent

\* The tree is a NavigateToPose action of at most NAV_RETRIES + 1 attempts.
THEOREM Refinement == Spec => ImplementsNavigation
<1> USE TreeAssumption
<1>1. Init => Nav!Init
  BY DEF Init, Nav!Init
<1>2. IInv /\ [Next]_vars => [Nav!Next]_(Nav!vars)
  <2> SUFFICES ASSUME IInv, [Next]_vars PROVE [Nav!Next]_(Nav!vars)
    OBVIOUS
  <2> USE DEF IInv, Nav!Next, Nav!vars
  <2>1. ASSUME UNCHANGED <<task, goal, attempts>>
        PROVE  UNCHANGED Nav!vars
    BY <2>1
  <2>2. ASSUME task = "running", PipelineFails
        PROVE  Nav!Finish \/ UNCHANGED Nav!vars
    BY <2>1, <2>2 DEF PipelineFails, blackboard, Nav!Finish
  <2>3. plan # "off" \/ follow # "off" \/ step > 0 => task = "running"
    BY DEF Phases, TypeOK
  <2>4. ASSUME NEW g \in Goal, Accept(g) PROVE Nav!Accept
    BY <2>4 DEF Accept, Nav!Accept
  <2>5. ASSUME NEW g \in Goal, Preempt(g) PROVE Nav!Replace
    BY <2>5 DEF Preempt, Nav!Replace
  <2>6. CASE PlanSucceeds \/ PlanCleared \/ PeriodExpires \/ FollowCleared
             \/ RecoveryContinues
    BY <2>1, <2>6 DEF PlanSucceeds, PlanCleared, PeriodExpires, FollowCleared,
      RecoveryContinues, blackboard
  <2>7. CASE PlanFails \/ PlanClearFails \/ FollowFails \/ FollowClearFails
    BY <2>1, <2>2, <2>3, <2>7 DEF PlanFails, PlanClearFails, FollowFails,
      FollowClearFails, blackboard
  <2>8. CASE FollowSucceeds \/ Cancel
    BY <2>3, <2>8 DEF FollowSucceeds, Cancel, blackboard, Nav!Finish
  <2>9. CASE RecoverySucceeds \/ GoalUpdated
    <3>1. step > 0
      BY <2>9, LeavesType DEF RecoverySucceeds, GoalUpdated, TypeOK
    <3>2. task = "running" /\ attempts < NAV_RETRIES + 1
      BY <2>3, <3>1 DEF Counts, TypeOK
    <3> QED
      BY <2>9, <3>2 DEF RecoverySucceeds, GoalUpdated, TryAgain, blackboard,
        Nav!Retry
  <2>10. CASE RecoveryFails
    BY <2>1, <2>3, <2>10 DEF RecoveryFails, blackboard, Nav!Finish
  <2>11. CASE UNCHANGED vars
    BY <2>1, <2>11 DEF vars, blackboard
  <2> QED
    BY <2>4, <2>5, <2>6, <2>7, <2>8, <2>9, <2>10, <2>11
    DEF Next, Pipeline, Recover
<1> QED BY <1>1, <1>2, SpecIInv, PTL DEF Spec, ImplementsNavigation, Nav!Spec

-----------------------------------------------------------------------------
(***************************************************************************)
(* Liveness.  StepsEnabled is what the proofs below take as a hypothesis:  *)
(* a running leaf can end.  It is a fact about ENABLED, which the provers  *)
(* treat as a new symbol; every guard of the leaf's two actions is on the  *)
(* left, and TLC finds no reachable state in which it is false.            *)
(***************************************************************************)
StepsEnabled ==
  /\ plan = "computing" => ENABLED <<PlanSucceeds \/ PlanFails>>_vars
  /\ plan = "clearing" => ENABLED <<PlanCleared \/ PlanClearFails>>_vars
  /\ plan = "done" => ENABLED <<PeriodExpires>>_vars
  /\ follow = "following" => ENABLED <<FollowSucceeds \/ FollowFails>>_vars
  /\ follow = "clearing" => ENABLED <<FollowCleared \/ FollowClearFails>>_vars
  /\ step > 0 =>
       ENABLED <<RecoveryContinues \/ RecoverySucceeds \/ RecoveryFails>>_vars

Recovering == step > 0
OnItsWay == follow = "following"
ClearingLocal == follow = "clearing"
Planning == step = 0 /\ follow = "off" /\ plan = "computing"
ClearingGlobal == step = 0 /\ follow = "off" /\ plan = "clearing"

\* The leaf that a running task waits for.
LEMMA LeafRuns ==
  IInv /\ task = "running" =>
    Recovering \/ OnItsWay \/ ClearingLocal \/ Planning \/ ClearingGlobal
BY DEF IInv, TypeOK, Phases, Recovering, OnItsWay, ClearingLocal, Planning,
   ClearingGlobal

LeafUnchanged ==
  /\ Recovering => Recovering'
  /\ OnItsWay => OnItsWay'
  /\ ClearingLocal => ClearingLocal'
  /\ Planning => Planning'
  /\ ClearingGlobal => ClearingGlobal'

(***************************************************************************)
(* What a running task has left: attempts, and in this attempt leaves that *)
(* have still to end, those of the recoveries last.                        *)
(***************************************************************************)
AttemptsLeft == NAV_RETRIES - nav_retry

RecoveryLeft == 2 * (3 - rr_failed) + 2 - step

FollowLeft ==
  2 * (FOLLOW_RETRIES - follow_retry) + IF follow = "following" THEN 1 ELSE 0

PlanLeft ==
  2 * (PLAN_RETRIES - plan_retry) + IF plan = "computing" THEN 1 ELSE 0

WorkLeft ==
  IF step > 0 THEN RecoveryLeft
  ELSE IF follow # "off" THEN 8 + FollowLeft
  ELSE 10 + 2 * FOLLOW_RETRIES + PlanLeft

Left(a, w) == task = "running" /\ AttemptsLeft = a /\ WorkLeft = w

Less(a, w) ==
  \/ task # "running"
  \/ AttemptsLeft < a
  \/ AttemptsLeft = a /\ WorkLeft < w

LEMMA LeftType ==
  ASSUME IInv
  PROVE  /\ AttemptsLeft \in Nat /\ WorkLeft \in Nat
         /\ RecoveryLeft \in Int /\ FollowLeft \in Nat /\ PlanLeft \in Nat
         /\ step > 0 => RecoveryLeft \in 0 .. 7
         /\ step = 0 => WorkLeft >= 8
<1>1. AttemptsLeft \in Nat /\ FollowLeft \in Nat /\ PlanLeft \in Nat
  BY TreeAssumption DEF AttemptsLeft, FollowLeft, PlanLeft, IInv, TypeOK
<1>2. RecoveryLeft \in Int /\ (step > 0 => RecoveryLeft \in 0 .. 7)
  BY DEF RecoveryLeft, IInv, TypeOK, Recovery
<1> QED BY <1>1, <1>2, TreeAssumption DEF WorkLeft, IInv, TypeOK

LEMMA AddLess == \A k, x, y \in Int : y < x => k + y < k + x
OBVIOUS

LEMMA PipelineMeansNoRecovery ==
  IInv /\ (plan # "off" \/ follow # "off") => step = 0
BY DEF IInv, TypeOK, Phases

\* A recovery has less left than any pipeline.
LEMMA RecoveryStarts ==
  ASSUME IInv, step = 0, PipelineFails
  PROVE  \/ task' = "failed"
         \/ AttemptsLeft' = AttemptsLeft /\ WorkLeft' < WorkLeft
<1>1. CASE task' # "failed"
  <2>1. nav_retry' = nav_retry /\ step' = 1 /\ rr_failed' = rr_failed
    BY <1>1 DEF PipelineFails, StartRecovery
  <2>2. AttemptsLeft' = AttemptsLeft /\ WorkLeft' \in 0 .. 7
    BY <2>1 DEF AttemptsLeft, WorkLeft, RecoveryLeft, IInv, TypeOK, Recovery
  <2> QED BY <2>2, LeftType
<1> QED BY <1>1

\* A new attempt of the outer RecoveryNode is one fewer to come.
LEMMA AttemptIsSpent ==
  ASSUME IInv, TryAgain
  PROVE  AttemptsLeft' < AttemptsLeft
<1>1. nav_retry' = nav_retry + 1 /\ nav_retry \in Nat
  BY DEF TryAgain, IInv, TypeOK
<1> QED BY <1>1, TreeAssumption DEF AttemptsLeft

\* A recovery that does not end the task has less left after each leaf.
LEMMA RecoveryGoesOn ==
  ASSUME IInv, RecoveryContinues \/ RecoveryFails, task' # "failed"
  PROVE  /\ step > 0 /\ step' > 0
         /\ AttemptsLeft' = AttemptsLeft /\ RecoveryLeft' < RecoveryLeft
<1>1. CASE RecoveryContinues
  <2>1. step \in 1 .. 2 /\ step' = step + 1 /\ rr_failed \in Int
    BY <1>1, LeavesType DEF RecoveryContinues, IInv, TypeOK, Recovery
  <2> QED BY <1>1, <2>1 DEF RecoveryContinues, AttemptsLeft, RecoveryLeft
<1>2. CASE RecoveryFails
  <2>1. /\ step \in 1 .. 2 /\ rr_failed \in 0 .. 3
        /\ step' = 1 /\ rr_failed' = rr_failed + 1 /\ nav_retry' = nav_retry
    BY <1>2 DEF RecoveryFails, StartRecovery, IInv, TypeOK, Recovery
  <2> QED BY <2>1 DEF AttemptsLeft, RecoveryLeft
<1> QED BY <1>1, <1>2

Lowers(a, w) == Less(a, w)' \/ (Left(a, w)' /\ LeafUnchanged)

\* Whatever happens, the task has less left, or the same and the leaf runs
\* on: a new goal and a new path give back nothing.
LEMMA LeafEndsOrStays ==
  ASSUME NEW a, NEW w, IInv, Left(a, w), [Next]_vars
  PROVE  Lowers(a, w)
<1>1. task = "running" /\ AttemptsLeft = a /\ WorkLeft = w
  BY DEF Left
<1> USE DEF Lowers, blackboard, planner, follower, recovery
<1>2. ASSUME UNCHANGED <<task, nav_retry, plan_retry, follow_retry,
                         rr_failed, step, follow>>,
             follow = "off" => UNCHANGED plan
      PROVE  Lowers(a, w)
  <2>1. AttemptsLeft' = AttemptsLeft /\ WorkLeft' = WorkLeft
    BY <1>2 DEF AttemptsLeft, WorkLeft, RecoveryLeft, FollowLeft, PlanLeft
  <2>2. LeafUnchanged
    BY <1>2 DEF LeafUnchanged, Recovering, OnItsWay, ClearingLocal, Planning,
      ClearingGlobal
  <2> QED BY <1>2, <2>1, <2>2 DEF Left
<1>3. ASSUME task' # "running" PROVE Lowers(a, w)
  BY <1>3 DEF Less
<1>4. ASSUME NEW g \in Goal, Accept(g) \/ Preempt(g) PROVE Lowers(a, w)
  BY <1>1, <1>2, <1>4 DEF Accept, Preempt
<1>5. CASE Cancel \/ FollowSucceeds
  BY <1>3, <1>5 DEF Cancel, FollowSucceeds
<1>6. CASE PlanSucceeds \/ PeriodExpires
  <2>1. step = 0
    BY <1>6, PipelineMeansNoRecovery DEF PlanSucceeds, PeriodExpires
  <2>2. CASE follow = "off"
    <3>1. PlanSucceeds /\ FollowLeft' = 2 * (FOLLOW_RETRIES - follow_retry) + 1
      BY <1>1, <1>6, <2>1, <2>2
      DEF PlanSucceeds, PeriodExpires, IInv, Phases, FollowLeft
    <3>2. follow_retry \in Nat /\ FOLLOW_RETRIES \in Nat
      BY TreeAssumption DEF IInv, TypeOK
    <3>3. WorkLeft' = 8 + FollowLeft' /\ AttemptsLeft' = AttemptsLeft
      BY <2>1, <2>2, <3>1 DEF PlanSucceeds, WorkLeft, AttemptsLeft
    <3>4. WorkLeft' < WorkLeft
      BY <2>1, <2>2, <3>1, <3>2, <3>3, LeftType DEF WorkLeft
    <3> QED BY <1>1, <3>3, <3>4 DEF Less
  <2>3. CASE follow # "off"
    <3>1. AttemptsLeft' = AttemptsLeft /\ WorkLeft' = WorkLeft
      BY <1>6, <2>1, <2>3 DEF PlanSucceeds, PeriodExpires, AttemptsLeft,
        WorkLeft, FollowLeft
    <3>2. LeafUnchanged
      BY <1>6, <2>1, <2>3 DEF PlanSucceeds, PeriodExpires, LeafUnchanged,
        Recovering, OnItsWay, ClearingLocal, Planning, ClearingGlobal
    <3> QED BY <1>1, <1>6, <3>1, <3>2 DEF PlanSucceeds, PeriodExpires, Left
  <2> QED BY <2>2, <2>3
<1>7. CASE step = 0 /\ PipelineFails
  BY <1>1, <1>7, RecoveryStarts DEF Less
<1>8. CASE (PlanFails \/ PlanCleared) /\ ~PipelineFails
  <2>1. step = 0
    BY <1>8, PipelineMeansNoRecovery DEF PlanFails, PlanCleared
  <2>2. CASE follow = "off"
    <3>1. PlanLeft' < PlanLeft /\ PlanLeft \in Int /\ PlanLeft' \in Int
      <4>1. plan_retry \in Nat /\ PLAN_RETRIES \in Nat
        BY TreeAssumption DEF IInv, TypeOK
      <4> QED BY <1>8, <4>1 DEF PlanFails, PlanCleared, PlanLeft
    <3>2. FOLLOW_RETRIES \in Nat
      BY TreeAssumption
    <3>3. /\ WorkLeft = 10 + 2 * FOLLOW_RETRIES + PlanLeft
          /\ WorkLeft' = 10 + 2 * FOLLOW_RETRIES + PlanLeft'
          /\ AttemptsLeft' = AttemptsLeft
      BY <1>8, <2>1, <2>2 DEF PlanFails, PlanCleared, WorkLeft, AttemptsLeft
    <3>4. 10 + 2 * FOLLOW_RETRIES + PlanLeft'
            < 10 + 2 * FOLLOW_RETRIES + PlanLeft
      BY <3>1, <3>2, AddLess, 10 + 2 * FOLLOW_RETRIES \in Int
    <3> QED BY <1>1, <3>3, <3>4 DEF Less
  <2>3. CASE follow # "off"
    <3>1. AttemptsLeft' = AttemptsLeft /\ WorkLeft' = WorkLeft
      BY <1>8, <2>1, <2>3 DEF PlanFails, PlanCleared, AttemptsLeft, WorkLeft,
        FollowLeft
    <3>2. LeafUnchanged
      BY <1>8, <2>1, <2>3 DEF PlanFails, PlanCleared, LeafUnchanged,
        Recovering, OnItsWay, ClearingLocal, Planning, ClearingGlobal
    <3> QED BY <1>1, <1>8, <3>1, <3>2 DEF PlanFails, PlanCleared, Left
  <2> QED BY <2>2, <2>3
<1>9. CASE (FollowFails \/ FollowCleared) /\ ~PipelineFails
  <2>1. step = 0
    BY <1>9, PipelineMeansNoRecovery DEF FollowFails, FollowCleared
  <2>2. FollowLeft' < FollowLeft /\ FollowLeft \in Int /\ FollowLeft' \in Int
    <3>1. follow_retry \in Nat /\ FOLLOW_RETRIES \in Nat
      BY TreeAssumption DEF IInv, TypeOK
    <3> QED BY <1>9, <3>1 DEF FollowFails, FollowCleared, FollowLeft
  <2>3. /\ WorkLeft = 8 + FollowLeft /\ WorkLeft' = 8 + FollowLeft'
        /\ AttemptsLeft' = AttemptsLeft
    BY <1>9, <2>1 DEF FollowFails, FollowCleared, WorkLeft, AttemptsLeft
  <2>4. 8 + FollowLeft' < 8 + FollowLeft
    BY <2>2, AddLess, 8 \in Int
  <2> QED BY <1>1, <2>3, <2>4 DEF Less
<1>10. CASE RecoverySucceeds \/ GoalUpdated
  BY <1>1, <1>10, AttemptIsSpent DEF RecoverySucceeds, GoalUpdated, Less
<1>11. CASE RecoveryContinues \/ RecoveryFails
  <2>1. CASE task' = "failed"
    BY <1>3, <2>1
  <2>2. CASE task' # "failed"
    BY <1>1, <1>11, <2>2, RecoveryGoesOn DEF Less, WorkLeft
  <2> QED BY <2>1, <2>2
<1>12. CASE UNCHANGED vars
  BY <1>2, <1>12 DEF vars
<1>13. (PlanFails \/ PlanCleared \/ PlanClearFails
          \/ FollowFails \/ FollowCleared \/ FollowClearFails) => step = 0
  BY PipelineMeansNoRecovery
  DEF PlanFails, PlanCleared, PlanClearFails, FollowFails, FollowCleared,
     FollowClearFails
<1> HIDE DEF Lowers, blackboard, planner, follower, recovery
<1>14. CASE Pipeline
  BY <1>5, <1>6, <1>7, <1>8, <1>9, <1>13, <1>14
  DEF Pipeline, PlanClearFails, FollowClearFails
<1>15. CASE Recover
  BY <1>10, <1>11, <1>15 DEF Recover
<1> QED BY <1>4, <1>5, <1>12, <1>14, <1>15 DEF Next

\* The end of the leaf that a running task waits for brings it on.
LEMMA LeafEnds ==
  ASSUME NEW a, NEW w, IInv, Left(a, w), [Next]_vars
  PROVE  /\ Recovering
              /\ (RecoveryContinues \/ RecoverySucceeds \/ RecoveryFails)
              => Less(a, w)'
         /\ OnItsWay /\ (FollowSucceeds \/ FollowFails) => Less(a, w)'
         /\ ClearingLocal /\ (FollowCleared \/ FollowClearFails)
              => Less(a, w)'
         /\ Planning /\ (PlanSucceeds \/ PlanFails) => Less(a, w)'
         /\ ClearingGlobal /\ (PlanCleared \/ PlanClearFails)
              => Less(a, w)'
<1>1. Lowers(a, w)
  BY LeafEndsOrStays
<1> USE DEF Lowers, LeafUnchanged, Recovering, OnItsWay, ClearingLocal,
      Planning, ClearingGlobal, PipelineFails, HaltPipeline, StartPipeline
<1>2. Recovering /\ RecoverySucceeds => Less(a, w)'
  BY <1>1 DEF RecoverySucceeds, TryAgain
<1>3. RecoveryContinues \/ RecoveryFails => Less(a, w)'
  <2>1. task' = "failed" => Less(a, w)'
    BY DEF Less
  <2> QED
    BY <1>1, <2>1, RecoveryGoesOn, LeftType DEF Left, WorkLeft
<1>4. OnItsWay /\ (FollowSucceeds \/ FollowFails) => Less(a, w)'
  BY <1>1 DEF FollowSucceeds, FollowFails, Less
<1>5. ClearingLocal /\ (FollowCleared \/ FollowClearFails) => Less(a, w)'
  BY <1>1 DEF FollowCleared, FollowClearFails
<1>6. Planning /\ (PlanSucceeds \/ PlanFails) => Less(a, w)'
  BY <1>1 DEF PlanSucceeds, PlanFails
<1>7. ClearingGlobal /\ (PlanCleared \/ PlanClearFails) => Less(a, w)'
  BY <1>1 DEF PlanCleared, PlanClearFails
<1> QED BY <1>2, <1>3, <1>4, <1>5, <1>6, <1>7

\* Fairness, and with it that the leaf that runs can end.
Fair == FairSpec /\ []StepsEnabled

(***************************************************************************)
(* A running task, while paths do end, always comes to have less left: an  *)
(* attempt of the outer RecoveryNode fewer, or in the same attempt a leaf  *)
(* fewer (bt_navogator_with_clear.xml:3-41).  This is for any numbers of   *)
(* retries, however often a new goal or a new path arrives in between.     *)
(***************************************************************************)
THEOREM NavigationMovesOn ==
  Fair /\ FollowingEnds => \A a, w \in Nat : Left(a, w) ~> Less(a, w)
<1> SUFFICES ASSUME NEW a \in Nat, NEW w \in Nat
             PROVE  Fair /\ FollowingEnds => (Left(a, w) ~> Less(a, w))
  OBVIOUS
<1> DEFINE L == Left(a, w)
           M == Less(a, w)
<1>1. IInv /\ L /\ [Next]_vars => M' \/ (L' /\ LeafUnchanged)
  BY LeafEndsOrStays DEF Lowers
<1>2. LeafUnchanged => /\ Recovering => Recovering'
                       /\ OnItsWay => OnItsWay'
                       /\ ClearingLocal => ClearingLocal'
                       /\ Planning => Planning'
                       /\ ClearingGlobal => ClearingGlobal'
  BY DEF LeafUnchanged
<1>3. IInv /\ L => Recovering \/ OnItsWay \/ ClearingLocal \/ Planning
                   \/ ClearingGlobal
  BY LeafRuns DEF Left
<1>4. IInv /\ L /\ [Next]_vars =>
        /\ Recovering
            /\ (RecoveryContinues \/ RecoverySucceeds \/ RecoveryFails) => M'
        /\ OnItsWay /\ (FollowSucceeds \/ FollowFails) => M'
        /\ ClearingLocal /\ (FollowCleared \/ FollowClearFails) => M'
        /\ Planning /\ (PlanSucceeds \/ PlanFails) => M'
        /\ ClearingGlobal /\ (PlanCleared \/ PlanClearFails) => M'
  BY LeafEnds
<1>5. StepsEnabled =>
        /\ Planning => ENABLED <<PlanSucceeds \/ PlanFails>>_vars
        /\ ClearingGlobal => ENABLED <<PlanCleared \/ PlanClearFails>>_vars
        /\ OnItsWay => ENABLED <<FollowSucceeds \/ FollowFails>>_vars
        /\ ClearingLocal =>
             ENABLED <<FollowCleared \/ FollowClearFails>>_vars
        /\ Recovering =>
             ENABLED <<RecoveryContinues \/ RecoverySucceeds
                         \/ RecoveryFails>>_vars
  BY DEF StepsEnabled, Planning, ClearingGlobal, OnItsWay, ClearingLocal,
    Recovering
<1>6. Fair => []IInv /\ [][Next]_vars /\ []StepsEnabled
  BY SpecIInv, PTL DEF Fair, FairSpec, Spec
<1> HIDE DEF L, M
<1>7. Fair => (L /\ Recovering ~> M)
  BY <1>1, <1>2, <1>4, <1>5, <1>6, PTL DEF Fair, FairSpec
<1>8. Fair /\ FollowingEnds => (L /\ OnItsWay ~> M)
  BY <1>1, <1>2, <1>4, <1>5, <1>6, PTL DEF FollowingEnds
<1>9. Fair => (L /\ ClearingLocal ~> M)
  BY <1>1, <1>2, <1>4, <1>5, <1>6, PTL DEF Fair, FairSpec
<1>10. Fair => (L /\ Planning ~> M)
  BY <1>1, <1>2, <1>4, <1>5, <1>6, PTL DEF Fair, FairSpec
<1>11. Fair => (L /\ ClearingGlobal ~> M)
  BY <1>1, <1>2, <1>4, <1>5, <1>6, PTL DEF Fair, FairSpec
<1>12. Fair /\ FollowingEnds => (L ~> M)
  BY <1>3, <1>6, <1>7, <1>8, <1>9, <1>10, <1>11, PTL
<1> QED BY <1>12 DEF L, M

\* The numbers of retries in the XML (bt_navogator_with_clear.xml:3-11).
XmlRetries == NAV_RETRIES = 6 /\ PLAN_RETRIES = 1 /\ FOLLOW_RETRIES = 1

\* The leads-to of a measure, under a name that the provers can instantiate.
WorkMovesOn(a, w) == Left(a, w) ~> Less(a, w)
Attempt(a) == task = "running" /\ AttemptsLeft = a
FewerAttempts(a) == task # "running" \/ AttemptsLeft < a
AttemptMovesOn(a) == Attempt(a) ~> FewerAttempts(a)

Bounds == AttemptsLeft \in 0 .. 6 /\ WorkLeft \in 0 .. 15

\* With those numbers the two measures are small.
LEMMA BoundsHold == XmlRetries => (Fair => []Bounds)
<1> SUFFICES ASSUME XmlRetries PROVE Fair => []Bounds
  OBVIOUS
<1>1. IInv => Bounds
  BY DEF XmlRetries, IInv, TypeOK, Recovery, Bounds, AttemptsLeft, WorkLeft,
    RecoveryLeft, FollowLeft, PlanLeft
<1> QED BY <1>1, SpecIInv, PTL DEF Fair, FairSpec

\* An attempt ends: down the measure of its leaves, one value at a time.
LEMMA AttemptEnds ==
  ASSUME XmlRetries, NEW a \in Nat
  PROVE  Fair /\ FollowingEnds => AttemptMovesOn(a)
<1> DEFINE L(w) == Left(a, w)
           M(w) == Less(a, w)
           D == FewerAttempts(a)
           Step(w) == WorkMovesOn(a, w)
<1>1. Fair => []Bounds
  BY BoundsHold
<1>2. Bounds /\ Attempt(a) =>
        \/ L(0) \/ L(1) \/ L(2) \/ L(3) \/ L(4) \/ L(5) \/ L(6) \/ L(7)
        \/ L(8) \/ L(9) \/ L(10) \/ L(11) \/ L(12) \/ L(13) \/ L(14) \/ L(15)
  BY DEF Bounds, Attempt, Left
<1>3. Bounds => /\ M(0) => D
                /\ M(1) => D \/ M(0) \/ L(0)
                /\ M(2) => D \/ M(1) \/ L(1)
                /\ M(3) => D \/ M(2) \/ L(2)
                /\ M(4) => D \/ M(3) \/ L(3)
                /\ M(5) => D \/ M(4) \/ L(4)
                /\ M(6) => D \/ M(5) \/ L(5)
                /\ M(7) => D \/ M(6) \/ L(6)
                /\ M(8) => D \/ M(7) \/ L(7)
                /\ M(9) => D \/ M(8) \/ L(8)
                /\ M(10) => D \/ M(9) \/ L(9)
                /\ M(11) => D \/ M(10) \/ L(10)
                /\ M(12) => D \/ M(11) \/ L(11)
                /\ M(13) => D \/ M(12) \/ L(12)
                /\ M(14) => D \/ M(13) \/ L(13)
                /\ M(15) => D \/ M(14) \/ L(14)
  BY DEF Bounds, Left, Less, FewerAttempts
<1>4. Fair /\ FollowingEnds =>
        /\ Step(0) /\ Step(1) /\ Step(2) /\ Step(3) /\ Step(4) /\ Step(5)
        /\ Step(6) /\ Step(7) /\ Step(8) /\ Step(9) /\ Step(10) /\ Step(11)
        /\ Step(12) /\ Step(13) /\ Step(14) /\ Step(15)
  <2>1. Fair /\ FollowingEnds => \A w \in Nat : Step(w)
    BY NavigationMovesOn DEF WorkMovesOn
  <2> QED BY <2>1
<1>5. Fair /\ FollowingEnds =>
        /\ (L(0) ~> M(0)) /\ (L(1) ~> M(1)) /\ (L(2) ~> M(2))
        /\ (L(3) ~> M(3)) /\ (L(4) ~> M(4)) /\ (L(5) ~> M(5))
        /\ (L(6) ~> M(6)) /\ (L(7) ~> M(7)) /\ (L(8) ~> M(8))
        /\ (L(9) ~> M(9)) /\ (L(10) ~> M(10)) /\ (L(11) ~> M(11))
        /\ (L(12) ~> M(12)) /\ (L(13) ~> M(13)) /\ (L(14) ~> M(14))
        /\ (L(15) ~> M(15))
  BY <1>4 DEF WorkMovesOn
<1> HIDE DEF L, M, D
<1>6. Fair /\ FollowingEnds => (Attempt(a) ~> D)
  BY <1>1, <1>2, <1>3, <1>5, PTL
<1> QED BY <1>6 DEF D, AttemptMovesOn

(***************************************************************************)
(* With the retries of the XML a navigation ends, if the paths that the    *)
(* controller follows do: down the six attempts, one at a time.  No new    *)
(* goal and no preemption keeps the tree running for ever, since none of   *)
(* them gives a retry back (bt_navogator_with_clear.xml:3-41).             *)
(***************************************************************************)
THEOREM NavigationEndsFairly ==
  XmlRetries => (FairSpec /\ []StepsEnabled => NavigationEnds)
<1> SUFFICES ASSUME XmlRetries
             PROVE  Fair /\ FollowingEnds => []<>(task # "running")
  BY DEF Fair, NavigationEnds
<1> DEFINE L(a) == Attempt(a)
           M(a) == FewerAttempts(a)
           D == task # "running"
           Step(a) == AttemptMovesOn(a)
<1>1. Fair => []Bounds
  BY BoundsHold
<1>2. Bounds =>
        D \/ L(0) \/ L(1) \/ L(2) \/ L(3) \/ L(4) \/ L(5) \/ L(6)
  BY DEF Bounds, Attempt
<1>3. Bounds => /\ M(0) => D
                /\ M(1) => D \/ M(0) \/ L(0)
                /\ M(2) => D \/ M(1) \/ L(1)
                /\ M(3) => D \/ M(2) \/ L(2)
                /\ M(4) => D \/ M(3) \/ L(3)
                /\ M(5) => D \/ M(4) \/ L(4)
                /\ M(6) => D \/ M(5) \/ L(5)
  BY DEF Bounds, Attempt, FewerAttempts
<1>4. Fair /\ FollowingEnds =>
        /\ Step(0) /\ Step(1) /\ Step(2) /\ Step(3) /\ Step(4) /\ Step(5)
        /\ Step(6)
  BY AttemptEnds
<1>5. Fair /\ FollowingEnds =>
        /\ (L(0) ~> M(0)) /\ (L(1) ~> M(1)) /\ (L(2) ~> M(2))
        /\ (L(3) ~> M(3)) /\ (L(4) ~> M(4)) /\ (L(5) ~> M(5))
        /\ (L(6) ~> M(6))
  BY <1>4 DEF AttemptMovesOn
<1> HIDE DEF L, M, D
<1>6. Fair /\ FollowingEnds => []<>D
  BY <1>1, <1>2, <1>3, <1>5, PTL
<1> QED BY <1>6 DEF D

-----------------------------------------------------------------------------
(***************************************************************************)
(* A goal that is sent to a running task.  What is left until the planner  *)
(* has read it and answered: recoveries, then the answer for an older      *)
(* goal, then the planner's attempts.                                      *)
(***************************************************************************)
PathIsOfRead == plan = "done" => path = read

\* A planner that has answered left the path to the goal that it read.
LEMMA PathIsOfReadInductive ==
  /\ Init => PathIsOfRead
  /\ PathIsOfRead /\ [Next]_vars => PathIsOfRead'
<1> USE DEF PathIsOfRead, blackboard, planner, follower, recovery
<1>1. Init => PathIsOfRead
  BY DEF Init
<1>2. ASSUME PathIsOfRead, [Next]_vars PROVE PathIsOfRead'
  <2>1. CASE UNCHANGED vars
    BY <1>2, <2>1 DEF vars
  <2>2. ASSUME NEW g \in Goal, Accept(g) \/ Preempt(g) PROVE PathIsOfRead'
    BY <1>2, <2>2 DEF Accept, Preempt, StartPipeline
  <2>3. CASE Cancel
    BY <2>3 DEF Cancel, HaltPipeline
  <2>4. CASE Pipeline
    BY <1>2, <2>4 DEF Pipeline, PlanSucceeds, PlanFails, PlanCleared,
       PlanClearFails, PeriodExpires, FollowSucceeds, FollowFails,
       FollowCleared, FollowClearFails, PipelineFails, HaltPipeline
  <2>5. CASE Recover
    BY <1>2, <2>5 DEF Recover, RecoveryContinues, RecoverySucceeds,
       RecoveryFails, GoalUpdated, TryAgain, StartPipeline
  <2> QED BY <1>2, <2>1, <2>2, <2>3, <2>4, <2>5 DEF Next
<1> QED BY <1>1, <1>2

AnswersLeft(g) ==
  IF step > 0 THEN RecoveryLeft
  ELSE IF read = g THEN 8 + PlanLeft
  ELSE 10 + 2 * PLAN_RETRIES + IF plan = "computing" THEN 1 ELSE 0

GoalSettled(g) == path = g \/ goal # g \/ task # "running"

GoalLeft(g, a, w) ==
  ~GoalSettled(g) /\ AttemptsLeft = a /\ AnswersLeft(g) = w

GoalLess(g, a, w) ==
  \/ GoalSettled(g)
  \/ AttemptsLeft < a
  \/ AttemptsLeft = a /\ AnswersLeft(g) < w

LEMMA AnswersLeftType ==
  ASSUME IInv, NEW g
  PROVE  /\ AnswersLeft(g) \in Nat
         /\ step = 0 => AnswersLeft(g) >= 8
BY LeftType, TreeAssumption DEF AnswersLeft, IInv, TypeOK

Computing == step = 0 /\ plan = "computing"
Clearing == step = 0 /\ plan = "clearing"
Pausing == step = 0 /\ plan = "done"

PlannerUnchanged ==
  /\ Recovering => Recovering'
  /\ Computing => Computing'
  /\ Clearing => Clearing'
  /\ Pausing => Pausing'

GoalLowers(g, a, w) ==
  \/ GoalLess(g, a, w)'
  \/ GoalLeft(g, a, w)' /\ PlannerUnchanged

LEMMA PlannerEndsOrStays ==
  ASSUME NEW g, NEW a, NEW w,
         IInv, PathIsOfRead, GoalLeft(g, a, w), [Next]_vars
  PROVE  GoalLowers(g, a, w)
<1> DEFINE G == GoalLowers(g, a, w)
<1> USE DEF GoalLowers, blackboard, planner, follower, recovery
<1>1. /\ task = "running" /\ goal = g /\ path # g
      /\ AttemptsLeft = a /\ AnswersLeft(g) = w
  BY DEF GoalLeft, GoalSettled
<1>2. ASSUME UNCHANGED <<task, goal, path, nav_retry, step, rr_failed, read,
                         plan, plan_retry>>
      PROVE  G
  <2>1. GoalLeft(g, a, w)'
    BY <1>2 DEF GoalLeft, GoalSettled, AttemptsLeft, AnswersLeft,
       RecoveryLeft, PlanLeft
  <2>2. PlannerUnchanged
    BY <1>2 DEF PlannerUnchanged, Recovering, Computing, Clearing, Pausing
  <2> QED BY <2>1, <2>2
<1>3. ASSUME task' # "running" \/ goal' # g PROVE G
  BY <1>3 DEF GoalLess, GoalSettled
<1>4. ASSUME TryAgain PROVE G
  BY <1>1, <1>4, AttemptIsSpent DEF GoalLess
<1>5. ASSUME PipelineFails, step = 0 PROVE G
  <2>1. CASE task' = "failed"
    BY <2>1, <1>3
  <2>2. CASE task' # "failed"
    <3>1. nav_retry' = nav_retry /\ step' = 1 /\ rr_failed' = rr_failed
      BY <1>5, <2>2 DEF PipelineFails, StartRecovery
    <3>2. AttemptsLeft' = AttemptsLeft /\ AnswersLeft(g)' \in 0 .. 7
      BY <3>1 DEF AttemptsLeft, AnswersLeft, RecoveryLeft, IInv, TypeOK,
         Recovery
    <3>3. AnswersLeft(g)' < AnswersLeft(g)
      BY <1>5, <3>2, AnswersLeftType
    <3> QED BY <1>1, <3>2, <3>3 DEF GoalLess
  <2> QED BY <2>1, <2>2
<1>6. ASSUME NEW h \in Goal, Accept(h) \/ Preempt(h) PROVE G
  BY <1>1, <1>3, <1>6 DEF Accept, Preempt
<1>7. CASE Cancel \/ FollowSucceeds
  BY <1>3, <1>7 DEF Cancel, FollowSucceeds
<1>8. CASE PlanSucceeds
  <2>1. step = 0 /\ step' = 0
    BY <1>8, PipelineMeansNoRecovery DEF PlanSucceeds
  <2>2. CASE read = g
    BY <1>8, <2>2 DEF PlanSucceeds, GoalLess, GoalSettled
  <2>3. CASE read # g
    <3>1. AttemptsLeft' = AttemptsLeft /\ AnswersLeft(g)' < AnswersLeft(g)
      BY <1>8, <2>1, <2>3, TreeAssumption DEF PlanSucceeds, AttemptsLeft,
         AnswersLeft
    <3> QED BY <1>1, <3>1 DEF GoalLess
  <2> QED BY <2>2, <2>3
<1>9. CASE (PlanFails \/ PlanCleared) /\ ~PipelineFails
  <2>1. step = 0 /\ step' = 0
    BY <1>9, PipelineMeansNoRecovery DEF PlanFails, PlanCleared
  <2>2. plan_retry \in Nat /\ PLAN_RETRIES \in Nat
    BY TreeAssumption DEF IInv, TypeOK
  <2>3. AttemptsLeft' = AttemptsLeft /\ read' \in {read, g}
    BY <1>1, <1>9 DEF PlanFails, PlanCleared, AttemptsLeft
  <2>4. AnswersLeft(g)' < AnswersLeft(g)
    BY <1>1, <1>9, <2>1, <2>2 DEF PlanFails, PlanCleared, AnswersLeft, PlanLeft
  <2> QED BY <1>1, <2>3, <2>4 DEF GoalLess
<1>10. CASE PeriodExpires
  <2>1. step = 0 /\ step' = 0
    BY <1>10, PipelineMeansNoRecovery DEF PeriodExpires
  <2>2. read # g /\ read' = g
    BY <1>1, <1>10 DEF PeriodExpires, PathIsOfRead
  <2>3. plan_retry \in Nat /\ PLAN_RETRIES \in Nat
    BY TreeAssumption DEF IInv, TypeOK
  <2>4. AttemptsLeft' = AttemptsLeft /\ AnswersLeft(g)' < AnswersLeft(g)
    BY <1>10, <2>1, <2>2, <2>3 DEF PeriodExpires, AttemptsLeft, AnswersLeft,
       PlanLeft
  <2> QED BY <1>1, <2>4 DEF GoalLess
<1>11. CASE (FollowFails \/ FollowCleared) /\ ~PipelineFails
  BY <1>2, <1>11 DEF FollowFails, FollowCleared
<1>12. CASE RecoveryContinues \/ RecoveryFails
  <2>1. CASE task' = "failed"
    BY <1>3, <2>1
  <2>2. CASE task' # "failed"
    BY <1>1, <1>12, <2>2, RecoveryGoesOn DEF GoalLess, AnswersLeft
  <2> QED BY <2>1, <2>2
<1>13. CASE UNCHANGED vars
  BY <1>2, <1>13 DEF vars
<1>14. (PlanFails \/ PlanCleared \/ PlanClearFails
          \/ FollowFails \/ FollowCleared \/ FollowClearFails) => step = 0
  BY PipelineMeansNoRecovery
  DEF PlanFails, PlanCleared, PlanClearFails, FollowFails, FollowCleared,
     FollowClearFails
<1> HIDE DEF GoalLowers, blackboard, planner, follower, recovery
<1>15. CASE Pipeline
  BY <1>5, <1>7, <1>8, <1>9, <1>10, <1>11, <1>14, <1>15
  DEF Pipeline, PlanClearFails, FollowClearFails
<1>16. CASE Recover
  BY <1>4, <1>12, <1>16 DEF Recover, RecoverySucceeds, GoalUpdated
<1> QED BY <1>6, <1>7, <1>13, <1>15, <1>16 DEF Next

LEMMA PlannerEnds ==
  ASSUME NEW g, NEW a, NEW w,
         IInv, PathIsOfRead, GoalLeft(g, a, w), [Next]_vars
  PROVE  /\ Recovering
              /\ (RecoveryContinues \/ RecoverySucceeds \/ RecoveryFails)
              => GoalLess(g, a, w)'
         /\ Computing /\ (PlanSucceeds \/ PlanFails) => GoalLess(g, a, w)'
         /\ Clearing /\ (PlanCleared \/ PlanClearFails)
              => GoalLess(g, a, w)'
         /\ Pausing /\ PeriodExpires => GoalLess(g, a, w)'
<1>1. GoalLowers(g, a, w)
  BY PlannerEndsOrStays
<1> USE DEF GoalLowers, PlannerUnchanged, Recovering, Computing, Clearing,
      Pausing, PipelineFails, HaltPipeline, StartPipeline
<1>2. Recovering /\ RecoverySucceeds => GoalLess(g, a, w)'
  BY <1>1 DEF RecoverySucceeds, TryAgain
<1>3. RecoveryContinues \/ RecoveryFails => GoalLess(g, a, w)'
  <2>1. task' = "failed" => GoalLess(g, a, w)'
    BY DEF GoalLess, GoalSettled
  <2> QED
    BY <1>1, <2>1, RecoveryGoesOn, LeftType DEF GoalLeft, AnswersLeft
<1>4. Computing /\ (PlanSucceeds \/ PlanFails) => GoalLess(g, a, w)'
  BY <1>1 DEF PlanSucceeds, PlanFails
<1>5. Clearing /\ (PlanCleared \/ PlanClearFails) => GoalLess(g, a, w)'
  BY <1>1 DEF PlanCleared, PlanClearFails
<1>6. Pausing /\ PeriodExpires => GoalLess(g, a, w)'
  BY <1>1 DEF PeriodExpires
<1> QED BY <1>2, <1>3, <1>4, <1>5, <1>6

(***************************************************************************)
(* A goal that the task has and the path does not lead to always comes to  *)
(* be nearer its plan: the path leads to it, or it is replaced, or the     *)
(* task ends, or a recovery, a stale answer or an attempt of the planner   *)
(* is behind it (bt_navogator_with_clear.xml:5-14).  This is for any       *)
(* numbers of retries, whether or not FollowPath ever ends.                *)
(***************************************************************************)
THEOREM NewGoalMovesOn ==
  Fair => \A g \in Goal, a, w \in Nat : GoalLeft(g, a, w) ~> GoalLess(g, a, w)
<1> SUFFICES ASSUME NEW g \in Goal, NEW a \in Nat, NEW w \in Nat
             PROVE  Fair => (GoalLeft(g, a, w) ~> GoalLess(g, a, w))
  OBVIOUS
<1> DEFINE L == GoalLeft(g, a, w)
           M == GoalLess(g, a, w)
           I == IInv /\ PathIsOfRead
<1>1. I /\ L /\ [Next]_vars => M' \/ (L' /\ PlannerUnchanged)
  BY PlannerEndsOrStays DEF GoalLowers
<1>2. PlannerUnchanged => /\ Recovering => Recovering'
                          /\ Computing => Computing'
                          /\ Clearing => Clearing'
                          /\ Pausing => Pausing'
  BY DEF PlannerUnchanged
<1>3. I /\ L => Recovering \/ Computing \/ Clearing \/ Pausing
  BY DEF GoalLeft, GoalSettled, IInv, TypeOK, Phases, Recovering, Computing,
    Clearing, Pausing
<1>4. I /\ L /\ [Next]_vars =>
        /\ Recovering
            /\ (RecoveryContinues \/ RecoverySucceeds \/ RecoveryFails) => M'
        /\ Computing /\ (PlanSucceeds \/ PlanFails) => M'
        /\ Clearing /\ (PlanCleared \/ PlanClearFails) => M'
        /\ Pausing /\ PeriodExpires => M'
  BY PlannerEnds
<1>5. StepsEnabled =>
        /\ Computing => ENABLED <<PlanSucceeds \/ PlanFails>>_vars
        /\ Clearing => ENABLED <<PlanCleared \/ PlanClearFails>>_vars
        /\ Pausing => ENABLED <<PeriodExpires>>_vars
        /\ Recovering =>
             ENABLED <<RecoveryContinues \/ RecoverySucceeds
                         \/ RecoveryFails>>_vars
  BY DEF StepsEnabled, Computing, Clearing, Pausing, Recovering
<1>6. Fair => []I /\ [][Next]_vars /\ []StepsEnabled
  BY SpecIInv, PathIsOfReadInductive, PTL DEF Fair, FairSpec, Spec
<1> HIDE DEF L, M, I
<1>7. Fair => (L /\ Recovering ~> M)
  BY <1>1, <1>2, <1>4, <1>5, <1>6, PTL DEF Fair, FairSpec
<1>8. Fair => (L /\ Computing ~> M)
  BY <1>1, <1>2, <1>4, <1>5, <1>6, PTL DEF Fair, FairSpec
<1>9. Fair => (L /\ Clearing ~> M)
  BY <1>1, <1>2, <1>4, <1>5, <1>6, PTL DEF Fair, FairSpec
<1>10. Fair => (L /\ Pausing ~> M)
  BY <1>1, <1>2, <1>4, <1>5, <1>6, PTL DEF Fair, FairSpec
<1>11. Fair => (L ~> M)
  BY <1>3, <1>6, <1>7, <1>8, <1>9, <1>10, PTL
<1> QED BY <1>11 DEF L, M

\* The same ladders as for the end of the navigation.
AnswerMovesOn(g, a, w) == GoalLeft(g, a, w) ~> GoalLess(g, a, w)
GoalAttempt(g, a) == ~GoalSettled(g) /\ AttemptsLeft = a
FewerGoalAttempts(g, a) == GoalSettled(g) \/ AttemptsLeft < a
GoalAttemptMovesOn(g, a) == GoalAttempt(g, a) ~> FewerGoalAttempts(g, a)

GoalBounds(g) == AttemptsLeft \in 0 .. 6 /\ AnswersLeft(g) \in 0 .. 13

LEMMA GoalBoundsHold ==
  ASSUME XmlRetries, NEW g
  PROVE  Fair => []GoalBounds(g)
<1>1. IInv => GoalBounds(g)
  BY DEF XmlRetries, IInv, TypeOK, Recovery, GoalBounds, AttemptsLeft,
    AnswersLeft, RecoveryLeft, PlanLeft
<1> QED BY <1>1, SpecIInv, PTL DEF Fair, FairSpec

LEMMA GoalAttemptEnds ==
  ASSUME XmlRetries, NEW g \in Goal, NEW a \in Nat
  PROVE  Fair => GoalAttemptMovesOn(g, a)
<1> DEFINE B == GoalBounds(g)
           U == GoalAttempt(g, a)
           L(w) == GoalLeft(g, a, w)
           M(w) == GoalLess(g, a, w)
           D == FewerGoalAttempts(g, a)
           Step(w) == AnswerMovesOn(g, a, w)
<1>1. Fair => []B
  BY GoalBoundsHold
<1>2. B /\ U =>
        \/ L(0) \/ L(1) \/ L(2) \/ L(3) \/ L(4) \/ L(5) \/ L(6) \/ L(7)
        \/ L(8) \/ L(9) \/ L(10) \/ L(11) \/ L(12) \/ L(13)
  BY DEF GoalBounds, GoalAttempt, GoalLeft
<1>3. B => /\ M(0) => D
           /\ M(1) => D \/ M(0) \/ L(0)
           /\ M(2) => D \/ M(1) \/ L(1)
           /\ M(3) => D \/ M(2) \/ L(2)
           /\ M(4) => D \/ M(3) \/ L(3)
           /\ M(5) => D \/ M(4) \/ L(4)
           /\ M(6) => D \/ M(5) \/ L(5)
           /\ M(7) => D \/ M(6) \/ L(6)
           /\ M(8) => D \/ M(7) \/ L(7)
           /\ M(9) => D \/ M(8) \/ L(8)
           /\ M(10) => D \/ M(9) \/ L(9)
           /\ M(11) => D \/ M(10) \/ L(10)
           /\ M(12) => D \/ M(11) \/ L(11)
           /\ M(13) => D \/ M(12) \/ L(12)
  BY DEF GoalBounds, GoalLeft, GoalLess, FewerGoalAttempts
<1>4. Fair =>
        /\ Step(0) /\ Step(1) /\ Step(2) /\ Step(3) /\ Step(4) /\ Step(5)
        /\ Step(6) /\ Step(7) /\ Step(8) /\ Step(9) /\ Step(10) /\ Step(11)
        /\ Step(12) /\ Step(13)
  <2>1. Fair => \A w \in Nat : Step(w)
    BY NewGoalMovesOn DEF AnswerMovesOn
  <2> QED BY <2>1
<1>5. Fair =>
        /\ (L(0) ~> M(0)) /\ (L(1) ~> M(1)) /\ (L(2) ~> M(2))
        /\ (L(3) ~> M(3)) /\ (L(4) ~> M(4)) /\ (L(5) ~> M(5))
        /\ (L(6) ~> M(6)) /\ (L(7) ~> M(7)) /\ (L(8) ~> M(8))
        /\ (L(9) ~> M(9)) /\ (L(10) ~> M(10)) /\ (L(11) ~> M(11))
        /\ (L(12) ~> M(12)) /\ (L(13) ~> M(13))
  BY <1>4 DEF AnswerMovesOn
<1> HIDE DEF B, U, L, M, D
<1>6. Fair => (U ~> D)
  BY <1>1, <1>2, <1>3, <1>5, PTL
<1> QED BY <1>6 DEF U, D, GoalAttemptMovesOn

(***************************************************************************)
(* With the retries of the XML a goal sent to a running task is planned    *)
(* for, unless it is replaced or the task ends: the RateController reads   *)
(* the goal again each period, and what runs before it is bounded          *)
(* (bt_navogator_with_clear.xml:4-14).                                     *)
(***************************************************************************)
THEOREM NewGoalIsPlannedFairly ==
  XmlRetries => (FairSpec /\ []StepsEnabled => NewGoalIsPlanned)
<1> SUFFICES ASSUME XmlRetries, NEW g \in Goal
             PROVE  Fair =>
                      (task = "running" /\ goal = g
                         ~> path = g \/ goal # g \/ task # "running")
  BY DEF Fair, NewGoalIsPlanned
<1> DEFINE B == GoalBounds(g)
           L(a) == GoalAttempt(g, a)
           M(a) == FewerGoalAttempts(g, a)
           D == GoalSettled(g)
           Step(a) == GoalAttemptMovesOn(g, a)
<1>1. Fair => []B
  BY GoalBoundsHold
<1>2. B => D \/ L(0) \/ L(1) \/ L(2) \/ L(3) \/ L(4) \/ L(5) \/ L(6)
  BY DEF GoalBounds, GoalAttempt
<1>3. B => /\ M(0) => D
           /\ M(1) => D \/ M(0) \/ L(0)
           /\ M(2) => D \/ M(1) \/ L(1)
           /\ M(3) => D \/ M(2) \/ L(2)
           /\ M(4) => D \/ M(3) \/ L(3)
           /\ M(5) => D \/ M(4) \/ L(4)
           /\ M(6) => D \/ M(5) \/ L(5)
  BY DEF GoalBounds, GoalAttempt, FewerGoalAttempts
<1>4. Fair => /\ Step(0) /\ Step(1) /\ Step(2) /\ Step(3)
              /\ Step(4) /\ Step(5) /\ Step(6)
  BY GoalAttemptEnds
<1>5. Fair => /\ (L(0) ~> M(0)) /\ (L(1) ~> M(1)) /\ (L(2) ~> M(2))
              /\ (L(3) ~> M(3)) /\ (L(4) ~> M(4)) /\ (L(5) ~> M(5))
              /\ (L(6) ~> M(6))
  BY <1>4 DEF GoalAttemptMovesOn
<1> HIDE DEF B, L, M, D
<1>6. Fair => []<>D
  BY <1>1, <1>2, <1>3, <1>5, PTL
<1>7. Fair => (task = "running" /\ goal = g ~> D)
  BY <1>6, PTL
<1> QED BY <1>7 DEF D, GoalSettled
=============================================================================
