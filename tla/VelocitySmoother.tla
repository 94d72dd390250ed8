--------------------------- MODULE VelocitySmoother ---------------------------
(***************************************************************************)
(* From the plugin's command to the base.  controller_server publishes     *)
(* what computeVelocityCommands returns; velocity_smoother, set up in      *)
(* config/nav2_params.yaml, follows it at its own rate within limits of    *)
(* acceleration, and brings the base to a stop when no command comes for   *)
(* velocity_timeout: after a call that threw, between two goals, or when   *)
(* controller_server died.  The smoother's code is Nav2's, outside this    *)
(* repository; the feedback is OPEN_LOOP, so that the last velocity it     *)
(* sent stands for the base's.  Commands with a NaN are left out: versions *)
(* of the smoother differ in whether they ignore them.                     *)
(*                                                                         *)
(* Speeds are in mm/s and mrad/s, time in periods of the smoother.         *)
(***************************************************************************)
EXTENDS Integers, FiniteSetsExt

CONSTANTS
  MAX_LIN, MAX_ANG,       \* of rl_controller.cpp
  MIN_VELOCITY, MAX_VELOCITY,  \* functions of the axis, from the YAML
  MAX_ACCEL, MAX_DECEL,   \* the same, as the change in one period
  VELOCITY_TIMEOUT,       \* in periods
  MAX_SILENCE             \* periods that are counted: a bound of the model

Axis == {"linear", "angular"}

ASSUME SmootherAssumption ==
  /\ MAX_LIN \in Nat /\ MAX_ANG \in Nat
  /\ {MAX_VELOCITY, MAX_ACCEL} \subseteq [Axis -> Nat \ {0}]
  /\ \A a \in Axis : MIN_VELOCITY[a] = -MAX_VELOCITY[a]
                     /\ MAX_DECEL[a] = -MAX_ACCEL[a]
  /\ VELOCITY_TIMEOUT \in Nat /\ MAX_SILENCE \in Nat

Zero == [a \in Axis |-> 0]
NoCommand == [a \in {} |-> 0]

VARIABLES
  command_,   \* the command in force, NoCommand before the first
  last_cmd_,  \* the velocity that was sent last, 0 before
  stopped_,   \* nothing more is sent until a command comes
  silence     \* periods since last_command_time_

vars == <<command_, last_cmd_, stopped_, silence>>

Init ==
  /\ command_ = NoCommand /\ last_cmd_ = Zero
  /\ stopped_ = TRUE /\ silence = 0

Absolute(x) == IF x < 0 THEN -x ELSE x
Between(x, lo, hi) == IF x < lo THEN lo ELSE IF x > hi THEN hi ELSE x

\* The command for an action, its parts in tenths: forward only, and slower
\* in turns.
CommandFor(forward, turn) ==
  [a \in Axis |->
    IF a = "angular" THEN (turn * MAX_ANG) \div 10
    ELSE LET scale == Max({100 - 6 * Absolute(turn), 30})
         IN  ((forward + 10) * MAX_LIN * scale) \div 2000]

\* A mutant: the signs of the two limits are swapped when slowing down.
ApplyConstraintsOvershoots(current, target, a) ==
  IF /\ Absolute(target) >= Absolute(current)
     /\ (current >= 0) = (target >= 0)
  THEN current + Between(target - current, -MAX_ACCEL[a], MAX_ACCEL[a])
  ELSE IF target < current THEN current + MAX_DECEL[a]
  ELSE current - MAX_DECEL[a]

\* One period's step from the current velocity towards the command.
ApplyConstraints(current, target, a) ==
  IF Absolute(target) >= Absolute(current) /\ current * target >= 0
  THEN current + Between(target - current, -MAX_ACCEL[a], MAX_ACCEL[a])
  ELSE current + Between(target - current, MAX_DECEL[a], -MAX_DECEL[a])

\* controller_server: a call of the plugin that returned.
Command(forward, turn) ==
  /\ command_' = CommandFor(forward, turn)
  /\ silence' = 0
  /\ UNCHANGED <<last_cmd_, stopped_>>

\* ... at the end of a goal that succeeded, failed or was cancelled, which it
\* need not do after an exception that is not the plugin interface's.
CommandZero ==
  /\ command_' = Zero
  /\ silence' = 0
  /\ UNCHANGED <<last_cmd_, stopped_>>

Silent == silence > VELOCITY_TIMEOUT

Send(c) ==
  /\ command_' = c
  /\ last_cmd_' =
       [a \in Axis |->
         ApplyConstraints(last_cmd_[a],
                          Between(c[a], MIN_VELOCITY[a], MAX_VELOCITY[a]), a)]
  /\ stopped_' = FALSE

\* A mutant: silence stops the sending, not the base.
SmootherTimerJustStops ==
  /\ command_ # NoCommand
  /\ silence' = IF silence < MAX_SILENCE THEN silence + 1 ELSE silence
  /\ IF Silent THEN stopped_' = TRUE /\ UNCHANGED <<command_, last_cmd_>>
     ELSE Send(command_)

\* A mutant: the timeout is not part of the condition.
SmootherTimerStaysStopped ==
  /\ command_ # NoCommand
  /\ silence' = IF silence < MAX_SILENCE THEN silence + 1 ELSE silence
  /\ IF last_cmd_ = Zero \/ stopped_
     THEN stopped_' = TRUE /\ UNCHANGED <<command_, last_cmd_>>
     ELSE Send(IF Silent THEN Zero ELSE command_)

SmootherTimer ==
  /\ command_ # NoCommand
  /\ silence' = IF silence < MAX_SILENCE THEN silence + 1 ELSE silence
  /\ IF Silent /\ (last_cmd_ = Zero \/ stopped_)
     THEN stopped_' = TRUE /\ UNCHANGED <<command_, last_cmd_>>
     ELSE Send(IF Silent THEN Zero ELSE command_)

Next ==
  \/ \E forward, turn \in {-10, 0, 10} : Command(forward, turn)
  \/ CommandZero
  \/ SmootherTimer

Spec == Init /\ [][Next]_vars

\* The timer runs; the controller owes nothing.
FairSpec == Spec /\ WF_vars(SmootherTimer)

-----------------------------------------------------------------------------
(***************************************************************************)
(* The base is within the limits that the policy was trained with, and     *)
(* never goes backward, in the ramps between two commands and in the stop  *)
(* after the last one too.                                                 *)
(***************************************************************************)
BaseWithinLimits ==
  /\ last_cmd_["linear"] \in 0 .. MAX_LIN
  /\ last_cmd_["angular"] \in -MAX_ANG .. MAX_ANG

\* Periods from full speed to a stop.
Ramp(a) == (MAX_VELOCITY[a] - MAX_DECEL[a] - 1) \div (-MAX_DECEL[a])

(***************************************************************************)
(* Whatever was commanded last, the base stands after velocity_timeout and *)
(* the time that braking takes: a controller that throws, hangs or dies    *)
(* does not leave the robot driving.                                       *)
(***************************************************************************)
SilenceStops ==
  silence > VELOCITY_TIMEOUT + Max({Ramp(a) : a \in Axis}) => last_cmd_ = Zero

(***************************************************************************)
(* A command that comes again and again is reached, also after a stop.     *)
(***************************************************************************)
SteadyCommandReached ==
  \A forward, turn \in {-10, 0, 10} :
    LET c == CommandFor(forward, turn) IN
      <>[](command_ = c /\ ~Silent) => <>[](last_cmd_ = c)
=============================================================================
