---------------------------- MODULE RLController ----------------------------
(***************************************************************************)
(* The Nav2 controller plugin rl_nav_cpp/src/rl_controller.cpp: one object *)
(* of class RLController, the two threads that enter it and the calls of   *)
(* nav2_core::Controller, in any order the plugin interface allows.        *)
(*                                                                         *)
(* The executor thread runs the /scan callback, the parameter service and  *)
(* the lifecycle transitions, one at a time.  The control thread runs      *)
(* setPlan and computeVelocityCommands, one at a time.  Only last_scan_ is *)
(* shared by the two, under scan_mtx_; a computeVelocityCommands call is   *)
(* therefore split where the other thread can come in between.             *)
(*                                                                         *)
(* Members of the class keep their names.  Numbers: an action or a         *)
(* velocity of 1.0f is ONE, and NaN is a value of its own, also for a yaw  *)
(* and for a place one of whose coordinates is not finite.                 *)
(***************************************************************************)
EXTENDS LidarSampling, CarrotSearch

CONSTANTS
  N_FRAMES,           \* frames in the lidar stack (6 in the code)
  SCAN_DEPTH,         \* keep-last depth of SensorDataQoS (5 in rclcpp)
  LaserScan,          \* the /scan messages the sensor may publish
  Path,               \* the plans setPlan may be given, the empty one included
  Lookahead,          \* values of the carrot_lookahead parameter
  DEFAULT_LOOKAHEAD,  \* its initial value
  Undeclared,         \* ... and before declare_parameter
  ONE,                \* 1.0f in action units
  RawAction,          \* what the policy network may output, before clamping
  Velocity,           \* measured velocities, normalised, before clamping
  Yaw,                \* what yawFromQuat makes of an orientation
  NaN,
  NoCall, NoObs, NoCmd

ASSUME ControllerAssumption ==
  /\ N_FRAMES \in Nat \ {0}
  /\ SCAN_DEPTH \in Nat \ {0}
  /\ \A m \in LaserScan : IsLaserScan(m) /\ m # NoScan
  /\ Path \subseteq Seq(Position)
  /\ DEFAULT_LOOKAHEAD \in Lookahead /\ Lookahead \subseteq Int
  /\ \A v \in Lookahead : v <= DBL_MAX
  /\ Undeclared \notin Lookahead
  /\ ONE \in Nat \ {0}
  /\ NaN \notin Int
  /\ RawAction \subseteq Int \X Int
  /\ Velocity \subseteq Int \cup {NaN} /\ Yaw \subseteq Int \cup {NaN}
  /\ NaN \in Position =>
       \A p \in Position : Dist(NaN, p) = DBL_MAX /\ Dist(p, NaN) = DBL_MAX

Frame == 0 .. N_FRAMES - 1
Empty == << >>                              \* a std::vector not yet filled
Unit == (-ONE .. ONE) \cup {NaN}

VARIABLES
  lifecycle,          \* of the node that loaded the plugin
  parameter,          \* <name>.carrot_lookahead, on the node
  executor,           \* where the executor thread is
  in_hand,            \* the message its callback was called with
  control,            \* where the control thread is
  scan_queue,         \* messages received and not yet handled
  scan_mtx_,          \* who holds the mutex
  last_scan_, current_path_, carrot_idx_, carrot_lookahead_,
  frames_, prev_scan_, temporal_, buffers_ready_, last_action_,
  call,               \* arguments of the computeVelocityCommands call
  sample,             \* its local copy of last_scan_
  obs,                \* the observation it hands to the policy
  ret,                \* how the last call ended
  cmd,                \* the last command that came from the policy
  samples,            \* history: the last N_FRAMES sampled scans, newest first
  tainted             \* history: some call was given a NaN

node == <<lifecycle, parameter>>
subscription == <<scan_queue, executor, in_hand, scan_mtx_, last_scan_>>
plan == <<current_path_, carrot_idx_>>
buffers == <<frames_, prev_scan_, temporal_, buffers_ready_, samples>>
outcome == <<last_action_, ret, cmd>>
locals == <<control, call, sample, obs>>
vars == <<node, subscription, plan, carrot_lookahead_, buffers, outcome,
          locals, tainted>>
-----------------------------------------------------------------------------
(***************************************************************************)
(* From action to command (lines 167-179).  TurnScale is in tenths of ONE; *)
(* linear is in units of MAX_LIN / (20 * ONE * ONE).                       *)
(***************************************************************************)
ClampUnit(x) == IF x = NaN THEN NaN ELSE Clamp(x, -ONE, ONE)

ClampAction(raw) == <<ClampUnit(raw[1]), ClampUnit(raw[2])>>

TURN_SLOWDOWN == 6
MIN_SPEED_FRAC == 3

\* A mutant: the linear part maps -1..1 to -MAX_LIN..MAX_LIN.
CommandReversing(a) ==
  [linear |-> IF NaN \in {a[1], a[2]} THEN NaN ELSE a[1] * 20 * ONE,
   angular |-> a[2]]

TurnScale(w) ==
  LET turn_scale == 10 * ONE - TURN_SLOWDOWN * Abs(w)
  IN  IF turn_scale < MIN_SPEED_FRAC * ONE THEN MIN_SPEED_FRAC * ONE
      ELSE turn_scale

Command(a) ==
  [linear |-> IF NaN \in {a[1], a[2]} THEN NaN
              ELSE (a[1] + ONE) * TurnScale(a[2]),
   angular |-> a[2]]

MAX_LIN == 20 * ONE * ONE
-----------------------------------------------------------------------------
(***************************************************************************)
(* Lifecycle and parameters, on the executor thread.                       *)
(***************************************************************************)

\* A mutant: last_action_ without its initializer.
FreshActionUninitialised == {<<0, 0>>, <<NaN, NaN>>}

FreshAction == {<<0, 0>>}

\* The member initializers of a new RLController object.
NewInstance ==
  /\ last_scan_' = NoScan
  /\ current_path_' = << >>
  /\ carrot_idx_' = 1
  /\ carrot_lookahead_' = DEFAULT_LOOKAHEAD
  /\ frames_' = [f \in Frame |-> Empty]
  /\ prev_scan_' = Empty
  /\ temporal_' = Empty
  /\ buffers_ready_' = FALSE
  /\ last_action_' \in FreshAction
  /\ ret' = "none"
  /\ cmd' = NoCmd
  /\ samples' = << >>
  /\ tainted' = FALSE

DeclareLookahead ==
  parameter' = IF parameter = Undeclared THEN DEFAULT_LOOKAHEAD ELSE parameter

\* The server creates the plugin and configures it: the parameter, the ONNX
\* session, then the subscription.
Configure ==
  /\ executor = "idle" /\ lifecycle = "unconfigured"
  /\ lifecycle' = "inactive"
  /\ DeclareLookahead
  /\ NewInstance
  /\ UNCHANGED <<scan_queue, executor, in_hand, scan_mtx_, locals>>

\* Ort::Session throws (no model at model_path): the parameter stays
\* declared, the object is destroyed by the server.
ConfigureThrows ==
  /\ executor = "idle" /\ lifecycle = "unconfigured"
  /\ DeclareLookahead
  /\ UNCHANGED <<lifecycle, subscription, plan, carrot_lookahead_, buffers,
                 outcome, locals, tainted>>

\* activate() and deactivate() are empty.  The server deactivates only after
\* the control thread has left its loop.
Activate ==
  /\ executor = "idle" /\ lifecycle = "inactive"
  /\ lifecycle' = "active"
  /\ UNCHANGED <<parameter, subscription, plan, carrot_lookahead_, buffers,
                 outcome, locals, tainted>>

Deactivate ==
  /\ executor = "idle" /\ control = "idle" /\ lifecycle = "active"
  /\ lifecycle' = "inactive"
  /\ UNCHANGED <<parameter, subscription, plan, carrot_lookahead_, buffers,
                 outcome, locals, tainted>>

\* cleanup() is empty; the server then destroys the object, and with it the
\* subscription.
Cleanup ==
  /\ executor = "idle" /\ lifecycle = "inactive"
  /\ lifecycle' = "unconfigured"
  /\ scan_queue' = << >>
  /\ NewInstance
  /\ UNCHANGED <<parameter, executor, in_hand, scan_mtx_, locals>>

\* ros2 param set
SetParameter(v) ==
  /\ executor = "idle" /\ parameter # Undeclared
  /\ parameter' = v
  /\ UNCHANGED <<lifecycle, subscription, plan, carrot_lookahead_, buffers,
                 outcome, locals, tainted>>
-----------------------------------------------------------------------------
(***************************************************************************)
(* The /scan subscription.  A message lost on the way (best effort) is no  *)
(* step at all; a full queue drops its oldest message.                     *)
(***************************************************************************)
Publish(m) ==
  /\ lifecycle # "unconfigured"
  /\ scan_queue' = IF Len(scan_queue) < SCAN_DEPTH
                   THEN Append(scan_queue, m)
                   ELSE Append(Tail(scan_queue), m)
  /\ UNCHANGED <<node, executor, in_hand, scan_mtx_, last_scan_, plan,
                 carrot_lookahead_, buffers, outcome, locals, tainted>>

ScanCallbackLock ==
  /\ executor = "idle" /\ scan_queue # << >> /\ scan_mtx_ = "free"
  /\ executor' = "storing"
  /\ in_hand' = Head(scan_queue)
  /\ scan_queue' = Tail(scan_queue)
  /\ scan_mtx_' = "executor"
  /\ UNCHANGED <<node, last_scan_, plan, carrot_lookahead_, buffers, outcome,
                 locals, tainted>>

\* A mutant: lock() without an unlock.
ScanCallbackStoreKeepsLock ==
  /\ executor = "storing"
  /\ last_scan_' = in_hand
  /\ executor' = "idle"
  /\ in_hand' = NoScan
  /\ UNCHANGED <<node, scan_queue, scan_mtx_, plan, carrot_lookahead_,
                 buffers, outcome, locals, tainted>>

ScanCallbackStore ==
  /\ executor = "storing"
  /\ last_scan_' = in_hand
  /\ executor' = "idle"
  /\ in_hand' = NoScan
  /\ scan_mtx_' = "free"
  /\ UNCHANGED <<node, scan_queue, plan, carrot_lookahead_, buffers, outcome,
                 locals, tainted>>
-----------------------------------------------------------------------------
(***************************************************************************)
(* setPlan and computeVelocityCommands, on the control thread.             *)
(***************************************************************************)

\* A mutant: the carrot index of the old plan is kept.
SetPlanKeepsIndex(path) ==
  /\ control = "idle" /\ lifecycle = "active"
  /\ current_path_' = path
  /\ UNCHANGED <<node, subscription, carrot_idx_, carrot_lookahead_, buffers,
                 outcome, locals, tainted>>

\* A mutant: a plan that is there already is kept.
SetPlanOnce(path) ==
  /\ control = "idle" /\ lifecycle = "active"
  /\ current_path_' = IF current_path_ = << >> THEN path ELSE current_path_
  /\ carrot_idx_' = 1
  /\ UNCHANGED <<node, subscription, carrot_lookahead_, buffers, outcome,
                 locals, tainted>>

SetPlan(path) ==
  /\ control = "idle" /\ lifecycle = "active"
  /\ current_path_' = path
  /\ carrot_idx_' = 1
  /\ UNCHANGED <<node, subscription, carrot_lookahead_, buffers, outcome,
                 locals, tainted>>

\* "no plan yet -> stop": nothing is sampled and nothing is learnt.
ComputeStops ==
  /\ control = "idle" /\ lifecycle = "active" /\ current_path_ = << >>
  /\ ret' = "stop"
  /\ UNCHANGED <<node, subscription, plan, carrot_lookahead_, buffers,
                 last_action_, cmd, locals, tainted>>

\* The NaN that a call is given: in its arguments, or in what is left of the
\* plan that it follows.
GivenNaN(pose, yaw, velocity) ==
  \/ NaN \in {pose, yaw, velocity}
  \/ \E i \in carrot_idx_ .. Len(current_path_) : current_path_[i] = NaN

ComputeStart(pose, yaw, velocity) ==
  /\ control = "idle" /\ lifecycle = "active" /\ current_path_ # << >>
  /\ control' = "sample"
  /\ call' = [pose |-> pose, yaw |-> yaw, velocity |-> velocity]
  /\ carrot_lookahead_' = parameter
  /\ tainted' = (tainted \/ GivenNaN(pose, yaw, velocity))
  /\ UNCHANGED <<node, subscription, plan, buffers, outcome, sample, obs>>

\* A mutant: sampleScan without its lock_guard.
SampleLockNoGuard ==
  /\ control = "sample"
  /\ control' = "copying"
  /\ UNCHANGED <<node, subscription, plan, carrot_lookahead_, buffers,
                 outcome, call, sample, obs, tainted>>

SampleLock ==
  /\ control = "sample" /\ scan_mtx_ = "free"
  /\ control' = "copying"
  /\ scan_mtx_' = "control"
  /\ UNCHANGED <<node, scan_queue, executor, in_hand, last_scan_, plan,
                 carrot_lookahead_, buffers, outcome, call, sample, obs,
                 tainted>>

SampleCopy ==
  /\ control = "copying"
  /\ control' = "observe"
  /\ sample' = last_scan_
  /\ scan_mtx_' = "free"
  /\ UNCHANGED <<node, scan_queue, executor, in_hand, last_scan_, plan,
                 carrot_lookahead_, buffers, outcome, call, obs, tainted>>

\* A mutant: the loop runs upward and smears frames_[0] over all.
PushFrameUpward(scan) ==
  LET shift[k \in Frame] ==
        IF k = 0 THEN frames_
        ELSE [shift[k - 1] EXCEPT ![k] = shift[k - 1][k - 1]]
  IN  [shift[N_FRAMES - 1] EXCEPT ![0] = scan]

\* A mutant: the loop ends one turn early (f > 1 instead of f >= 1).
PushFrameStopsEarly(scan) ==
  LET shift[k \in Frame] ==
        IF k = 0 THEN frames_
        ELSE [shift[k - 1] EXCEPT
                ![N_FRAMES - k] = shift[k - 1][N_FRAMES - k - 1]]
  IN  [shift[N_FRAMES - 2] EXCEPT ![0] = scan]

\* for (f = N_FRAMES - 1; f >= 1; --f) frames_[f] = frames_[f - 1]; in place,
\* so shift[k] is the array after k turns.  Then frames_[0] = scan.
PushFrame(scan) ==
  LET shift[k \in Frame] ==
        IF k = 0 THEN frames_
        ELSE [shift[k - 1] EXCEPT
                ![N_FRAMES - k] = shift[k - 1][N_FRAMES - k - 1]]
  IN  [shift[N_FRAMES - 1] EXCEPT ![0] = scan]

NextTemporal(scan) ==
  {t \in [Sector -> {-1, 0, 1}] :
     \A s \in Sector :
       t[s] \in EmaSigns(temporal_[s], MinDiffSign(s, scan, prev_scan_))}

UpdateLidarBuffers(scan) ==
  /\ buffers_ready_' = TRUE
  /\ prev_scan_' = scan
  /\ IF buffers_ready_
     THEN frames_' = PushFrame(scan) /\ temporal_' \in NextTemporal(scan)
     ELSE /\ frames_' = [f \in Frame |-> scan]
          /\ temporal_' = [s \in Sector |-> 0]

\* History: what a stack of the last N_FRAMES samples is.
Remember(scan) ==
  samples' = IF Len(samples) < N_FRAMES THEN <<scan>> \o samples
             ELSE <<scan>> \o SubSeq(samples, 1, N_FRAMES - 1)

\* A mutant: the scan is taken from last_scan_ again, outside the lock.
ObserveUnlocked ==
  /\ control = "observe"
  /\ control' = "infer"
  /\ UpdateLidarBuffers(SampleScan(last_scan_))
  /\ Remember(SampleScan(last_scan_))
  /\ \E i, j \in DOMAIN current_path_ :
       /\ IsNearest(current_path_, carrot_idx_, call.pose, i)
       /\ IsCarrot(current_path_, i, carrot_lookahead_, j)
       /\ carrot_idx_' = i
       /\ obs' = [frames |-> frames_', temporal |-> temporal_',
                  carrot |-> current_path_[j], pose |-> call.pose,
                  yaw |-> call.yaw, velocity |-> ClampUnit(call.velocity),
                  prev_act |-> last_action_]
  /\ call' = NoCall
  /\ sample' = NoScan
  /\ UNCHANGED <<node, subscription, current_path_, carrot_lookahead_,
                 outcome, tainted>>

\* Everything between the copy of the scan and the call of the policy.
Observe ==
  /\ control = "observe"
  /\ control' = "infer"
  /\ UpdateLidarBuffers(SampleScan(sample))
  /\ Remember(SampleScan(sample))
  /\ \E i, j \in DOMAIN current_path_ :
       /\ IsNearest(current_path_, carrot_idx_, call.pose, i)
       /\ IsCarrot(current_path_, i, carrot_lookahead_, j)
       /\ carrot_idx_' = i
       /\ obs' = [frames |-> frames_', temporal |-> temporal_',
                  carrot |-> current_path_[j], pose |-> call.pose,
                  yaw |-> call.yaw, velocity |-> ClampUnit(call.velocity),
                  prev_act |-> last_action_]
  /\ call' = NoCall
  /\ sample' = NoScan
  /\ UNCHANGED <<node, subscription, current_path_, carrot_lookahead_,
                 outcome, tainted>>

\* A NaN among the inputs of the policy, none of which is checked.  goal_dist
\* is one if the carrot or the pose is, as clamp keeps it, and goal_angle
\* also if the yaw is.  The lidar part has none: neither a normalised ray nor
\* a difference of two of them is NaN.
Poisoned(o) ==
  \/ NaN \in {o.carrot, o.pose, o.yaw}
  \/ NaN \in {o.velocity, o.prev_act[1], o.prev_act[2]}

\* The policy: finite in, finite out.  A NaN in may come out as NaN.
PolicyOutput(o) ==
  RawAction \cup (IF Poisoned(o) THEN {<<NaN, NaN>>} ELSE {})

\* A mutant: the raw output is remembered, the clamped one is driven.
InferRaw(raw) ==
  /\ control = "infer"
  /\ control' = "idle"
  /\ last_action_' = raw
  /\ cmd' = Command(ClampAction(raw))
  /\ ret' = "drive"
  /\ obs' = NoObs
  /\ UNCHANGED <<node, subscription, plan, carrot_lookahead_, buffers, call,
                 sample, tainted>>

Infer(raw) ==
  /\ control = "infer"
  /\ control' = "idle"
  /\ last_action_' = ClampAction(raw)
  /\ cmd' = Command(ClampAction(raw))
  /\ ret' = "drive"
  /\ obs' = NoObs
  /\ UNCHANGED <<node, subscription, plan, carrot_lookahead_, buffers, call,
                 sample, tainted>>

\* session_->Run throws: the buffers and the carrot have already moved on.
InferThrows ==
  /\ control = "infer"
  /\ control' = "idle"
  /\ ret' = "thrown"
  /\ obs' = NoObs
  /\ UNCHANGED <<node, subscription, plan, carrot_lookahead_, buffers,
                 last_action_, cmd, call, sample, tainted>>
-----------------------------------------------------------------------------
Init ==
  /\ lifecycle = "unconfigured"
  /\ parameter = Undeclared
  /\ executor = "idle"
  /\ in_hand = NoScan
  /\ control = "idle"
  /\ scan_queue = << >>
  /\ scan_mtx_ = "free"
  /\ last_scan_ = NoScan
  /\ current_path_ = << >>
  /\ carrot_idx_ = 1
  /\ carrot_lookahead_ = DEFAULT_LOOKAHEAD
  /\ frames_ = [f \in Frame |-> Empty]
  /\ prev_scan_ = Empty
  /\ temporal_ = Empty
  /\ buffers_ready_ = FALSE
  /\ last_action_ = <<0, 0>>
  /\ call = NoCall
  /\ sample = NoScan
  /\ obs = NoObs
  /\ ret = "none"
  /\ cmd = NoCmd
  /\ samples = << >>
  /\ tainted = FALSE

Lifecycle ==
  \/ Configure \/ ConfigureThrows
  \/ Activate \/ Deactivate \/ Cleanup

ExecutorThread ==
  \/ Lifecycle
  \/ \E v \in Lookahead : SetParameter(v)
  \/ ScanCallbackLock
  \/ ScanCallbackStore

InferReturns == control = "infer" /\ \E raw \in PolicyOutput(obs) : Infer(raw)

ControlThread ==
  \/ \E path \in Path : SetPlan(path)
  \/ ComputeStops
  \/ \E pose \in Position, yaw \in Yaw, velocity \in Velocity :
       ComputeStart(pose, yaw, velocity)
  \/ SampleLock
  \/ SampleCopy
  \/ Observe
  \/ InferReturns
  \/ InferThrows

Next ==
  \/ \E m \in LaserScan : Publish(m)
  \/ ExecutorThread
  \/ ControlThread

(***************************************************************************)
(* A thread inside a function goes on.  The lock is strongly fair: the     *)
(* callback holds it for one pointer assignment, at the rate of a lidar,   *)
(* so a waiting call is not overtaken for ever.  Nobody owes the plugin a  *)
(* message, a plan, a call or a lifecycle transition.                      *)
(***************************************************************************)
Fairness ==
  /\ WF_vars(ScanCallbackLock)
  /\ WF_vars(ScanCallbackStore)
  /\ SF_vars(SampleLock)
  /\ WF_vars(SampleCopy)
  /\ WF_vars(Observe)
  /\ WF_vars(InferReturns \/ InferThrows)

Spec == Init /\ [][Next]_vars
FairSpec == Spec /\ Fairness
-----------------------------------------------------------------------------
(***************************************************************************)
(* Type invariant.                                                         *)
(***************************************************************************)
Observation ==
  [frames : [Frame -> Scan], temporal : [Sector -> {-1, 0, 1}],
   carrot : Position, pose : Position, yaw : Yaw, velocity : Unit,
   prev_act : Unit \X Unit]

TypeOK ==
  /\ lifecycle \in {"unconfigured", "inactive", "active"}
  /\ parameter \in Lookahead \cup {Undeclared}
  /\ executor \in {"idle", "storing"}
  /\ in_hand \in LaserScan \cup {NoScan}
  /\ control \in {"idle", "sample", "copying", "observe", "infer"}
  /\ scan_queue \in Seq(LaserScan)
  /\ scan_mtx_ \in {"free", "executor", "control"}
  /\ last_scan_ \in LaserScan \cup {NoScan}
  /\ current_path_ \in Path \cup {<< >>}
  /\ carrot_idx_ \in Nat \ {0}
  /\ carrot_lookahead_ \in Lookahead
  /\ frames_ \in [Frame -> Scan \cup {Empty}]
  /\ prev_scan_ \in Scan \cup {Empty}
  /\ temporal_ \in [Sector -> {-1, 0, 1}] \cup {Empty}
  /\ buffers_ready_ \in BOOLEAN
  /\ last_action_ \in Unit \X Unit
  /\ call \in [pose : Position, yaw : Yaw, velocity : Velocity] \cup {NoCall}
  /\ sample \in LaserScan \cup {NoScan}
  /\ obs \in Observation \cup {NoObs}
  /\ ret \in {"none", "stop", "drive", "thrown"}
  /\ cmd \in [linear : Int \cup {NaN}, angular : Unit] \cup {NoCmd}
  /\ samples \in Seq(Scan)
  /\ tainted \in BOOLEAN

(***************************************************************************)
(* The two threads are never both inside the accesses to last_scan_ (the   *)
(* assignment of the callback, line 87, and the copy in sampleScan, line   *)
(* 197): a shared_ptr copied while it is being assigned is a data race.    *)
(***************************************************************************)
NoTornScan == ~(executor = "storing" /\ control = "copying")

(***************************************************************************)
(* The stack fed to the policy is the last N_FRAMES scans sampled by this  *)
(* object, newest in frames_[0], padded with the oldest when fewer were    *)
(* sampled, and prev_scan_ is its newest: across plans, idle times, failed *)
(* inferences and deactivations (lines 216-244).                           *)
(***************************************************************************)
FramesAreHistory ==
  /\ buffers_ready_ <=> samples # << >>
  /\ Len(samples) <= N_FRAMES
  /\ buffers_ready_ =>
       /\ prev_scan_ = samples[1]
       /\ \A f \in Frame :
            frames_[f] = IF f < Len(samples) THEN samples[f + 1]
                         ELSE samples[Len(samples)]

(***************************************************************************)
(* Whatever plans follow one another, longer or shorter, carrot_idx_ is a  *)
(* valid index of the plan in force when there is one: the searches of     *)
(* findCarrot, which start from it, never leave poses (lines 263-281).     *)
(***************************************************************************)
CarrotInPath ==
  current_path_ # << >> => carrot_idx_ \in DOMAIN current_path_

(***************************************************************************)
(* A command is forward-only and within the limits of the robot, for every *)
(* output of the policy, in or out of range, unless it is NaN; and turning *)
(* never costs more than 60% of the forward speed (lines 167-179).         *)
(***************************************************************************)
CommandWithinLimits ==
  cmd # NoCmd =>
    /\ cmd.angular # NaN => cmd.angular \in -ONE .. ONE
    /\ cmd.linear # NaN =>
         /\ cmd.linear \in 0 .. MAX_LIN
         /\ 10 * cmd.linear >= 4 * 10 * ONE * (last_action_[1] + ONE)

(***************************************************************************)
(* The previous action in the next observation is the one that produced    *)
(* the last command of the policy: a call that throws, a call without a    *)
(* plan, a new plan and a deactivation in between do not separate them     *)
(* (lines 153-154 and 167-179).                                            *)
(***************************************************************************)
FeedbackExplainsCommand == cmd # NoCmd => cmd = Command(last_action_)

(***************************************************************************)
(* NaN comes in from outside, and only where a call looks: an object none  *)
(* of whose calls was given a NaN, in its pose, its velocity or the poses  *)
(* of the plan that are still ahead of carrot_idx_, has a finite           *)
(* last_action_ and has returned only finite commands.  No scan brings one *)
(* in, nor a pose that was passed already, nor a plan that was replaced    *)
(* before a call looked at it (lines 128-154, 167-168, 207-210, 263-281).  *)
(***************************************************************************)
CleanInputsCleanCommand ==
  ~tainted =>
    /\ NaN \notin {last_action_[1], last_action_[2]}
    /\ cmd # NoCmd => NaN \notin {cmd.linear, cmd.angular}

(***************************************************************************)
(* "nearest path index, never moving backward" (line 261): while a plan is *)
(* followed the search never goes back to a pose already passed, however   *)
(* the robot moves; only setPlan starts over.                              *)
(***************************************************************************)
CarrotNeverBackward ==
  [][control # "idle" => carrot_idx_' >= carrot_idx_]_vars

(***************************************************************************)
(* An obstacle that comes closer in any ray of a sector is reported as an  *)
(* approach in the very next observation, even if every other ray of the   *)
(* sector opens up, unless the sector was still reporting a recession      *)
(* (lines 229-243).                                                        *)
(***************************************************************************)
Observing == control = "observe" /\ control' = "infer"

ApproachIsSeen ==
  [][Observing /\ buffers_ready_ =>
       \A s \in Sector :
         (/\ temporal_[s] # 1
          /\ \E k \in SectorRays(s) : frames_'[0][k] < frames_[0][k])
           => obs'.temporal[s] = -1]_vars

(***************************************************************************)
(* A quiet sector stays quiet until one of its own rays differs from the   *)
(* previous frame: repeated frames of the same scan (the controller runs   *)
(* faster than the lidar) and changes in other sectors add nothing (lines  *)
(* 229-243).                                                               *)
(***************************************************************************)
QuietWithoutMotion ==
  [][Observing /\ buffers_ready_ =>
       \A s \in Sector :
         (temporal_[s] = 0 /\ temporal_'[s] # 0)
           => \E k \in SectorRays(s) : frames_'[0][k] # frames_[0][k]]_vars

(***************************************************************************)
(* A lookahead tuned with "ros2 param set" survives the lifecycle: neither *)
(* a failed configure nor a cleanup and a new configure bring the default  *)
(* back (lines 69-73).                                                     *)
(***************************************************************************)
TuningSurvivesLifecycle ==
  [][Lifecycle /\ parameter # Undeclared => parameter' = parameter]_vars

(***************************************************************************)
(* When the last scan stays the same and calls keep coming, the whole      *)
(* stack becomes that scan: a frame from before an idle time does not stay *)
(* in the observation (lines 216-244).                                     *)
(***************************************************************************)
WindowConverges ==
  \A m \in LaserScan :
    (/\ <>[](lifecycle = "active" /\ last_scan_ = m)
     /\ []<>(control = "infer"))
      => <>[](\A f \in Frame : frames_[f] = SampleScan(m))

-----------------------------------------------------------------------------
(***************************************************************************)
(* The refinement: the plugin, seen without its threads and buffers, is    *)
(* PolicyLoop.  The turn begins where the scan is copied under the mutex;  *)
(* from there until Observe the newest frame is still in the local sample. *)
(***************************************************************************)
SensedFrames ==
  IF control = "observe"
  THEN IF buffers_ready_ THEN PushFrame(SampleScan(sample))
       ELSE [f \in Frame |-> SampleScan(sample)]
  ELSE frames_

LoopWindow ==
  IF buffers_ready_ \/ control = "observe"
  THEN [n \in 1 .. N_FRAMES |-> SensedFrames[n - 1]]
  ELSE << >>

LoopPhase ==
  IF control = "observe" THEN "sensed"
  ELSE IF control = "infer" THEN "aimed" ELSE "idle"

Loop == INSTANCE PolicyLoop WITH
  Reading <- LaserScan, NoReading <- NoScan, Features <- SampleScan,
  Plan <- Path, Action <- Unit \X Unit, Rest <- <<0, 0>>,
  WINDOW <- N_FRAMES,
  reading <- last_scan_, window <- LoopWindow, route <- current_path_,
  progress <- carrot_idx_, action <- last_action_, phase <- LoopPhase

(***************************************************************************)
(* However the callback interleaves with a call, the call behaves as if it *)
(* had read the scan at one instant, moved its frame stack by exactly that *)
(* scan, advanced along the plan it was given, and then decided or failed. *)
(***************************************************************************)
ImplementsLoop == Loop!Spec

(***************************************************************************)
(* ... and every turn that was begun ends, under the fairness of the two   *)
(* threads.                                                                *)
(***************************************************************************)
ImplementsFairLoop == Loop!FairSpec
=============================================================================
