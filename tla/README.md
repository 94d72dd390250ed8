# Verification of the ICT-bot navigation stack

TLA+ models, TLC runs and TLAPS proofs for the code in `src/`: a Nav2 setup for
a small differential-drive robot whose controller is a C++ plugin that runs a
reinforcement-learning policy (`rl_nav_cpp/src/rl_controller.cpp`).

## 1. Inventory of the system

| Part | State it keeps | Operations | Talks to |
|---|---|---|---|
| **RL controller plugin** `rl_nav_cpp/src/rl_controller.cpp` | `last_scan_` under `scan_mtx_`; `current_path_`, `carrot_idx_`; `carrot_lookahead_`; `frames_`, `prev_scan_`, `temporal_`, `buffers_ready_`; `last_action_` | `configure` / `activate` / `deactivate` / `cleanup` / `setSpeedLimit`, the `/scan` callback, `setPlan`, `computeVelocityCommands` | called by controller_server on two threads; subscribes to `/scan`; reads a node parameter; calls onnxruntime |
| **Policy** `td3_final.onnx` through onnxruntime (not in the tree) | none | `Session::Run` | called by the plugin |
| **controller_server** (Nav2, external; set up by `config/nav2_params.yaml`) | the goal it follows, the last command | accept, preempt, cancel, one cycle at 30 Hz, goal check, progress check | calls the plugin; takes the pose in `odom`, the plan in `map` |
| **Localisation** (amcl or slam_toolbox, external) | the `map -> odom` transform | corrections at any time | tf |
| **Goal scripts** `scripts/send_goal.py`, `send_multipoint.py` | position in the script | send, poll, report | bt_navigator, waypoint_follower |
| **Behaviour tree** `config/bt_navogator_with_clear.xml` | retry counters, current recovery | tick | planner, controller, costmaps; *not loaded*: `nav2_params.yaml:43` is a comment |
| **velocity_smoother** (Nav2, external; `nav2_params.yaml:282-293`) | the command in force, the last velocity sent, the time of the last command | command, timer | between controller_server and the base |
| **urdf_publisher** `scripts/urdf_publisher.py` | one latched message | publish once | `/robot_description` |
| **3D SLAM front end** `launch/slam_3d.launch.py` | none | slice a cloud into a scan | slam_toolbox |
| **onnx_node, onnx_test** | a session | run the network on a constant, each second or once | log only |
| **onnxruntime headers** (vendored) | the handles that C++ wrappers own | make, give away, release; convert 16-bit floats | a closed library |
| **launch, urdf, maps, worlds, rviz** | none | start processes, data | |

What is hard here, and where: two threads enter the plugin, the executor
(`/scan` callback, parameters, lifecycle) and the action thread of the server
(`setPlan`, `computeVelocityCommands`), and share `last_scan_`; buffers outlive
plans, idle times, failed inferences and deactivations; the policy's last action
feeds back into its next input, so one NaN can stay; index arithmetic with signs,
remainders and wrap-around; a plan replaced by a shorter one; a search that may
only go forward on paths that fold; two coordinate frames that meet without a
transform. Around the plugin: retries nested in retries with a memory across
tasks; clients that replace one another's goals; a message published once to
readers that come late; exceptions half way through a set-up of handles; a
controller that falls silent while the robot drives. `PROJECT.json` lists them as hazards, each at its line.

What makes each part correct:

* *plugin, scans*: the two threads exclude each other on `last_scan_`; a call
  works with one scan throughout; the stack is the last six sampled scans; the
  temporal feature reports approaches at once and nothing when nothing moves;
* *plugin, plan*: the index always belongs to the plan in force, never goes
  back within it, and the carrot is about the lookahead ahead;
* *plugin, command*: forward-only and within limits; the fed-back action
  is the one that was commanded; NaN does not arise by itself;
* *server and plugin*: every goal ends; the policy is sent after the plan of
  this goal; goal features are in the robot's frame (they are not: section 7);
* *smoother*: silence stops the base, within the limits and without overshoot;
* *scripts*: no goal is left behind, no waypoint is lost from sight, and a
  message of success means success (it does not: section 7);
* *tree*: one driver at a time, bounded retries, no recovery repeated before the
  others were tried; *latched topic*: every durable subscriber gets the
  description however late it comes; *slice*: the nearest point of every beam;
* *handles*: released once, and not before their last use; *16-bit floats*: the
  nearest value.

## 2. Modules

| Module | What it models |
|---|---|
| `LidarSampling` | the arithmetic of `sampleScan` and the sector split of `updateLidarBuffers`; no state |
| `CarrotSearch` | the two loops of `findCarrot`, and what they look for stated without loops |
| `RLController` | the plugin: class members, the two threads, the subscription queue, the mutex; one action per call or per step another thread can come before |
| `PolicyLoop` | what the plugin promises: an abstract loop that senses atomically, aims, decides or fails |
| `FollowPath` | the plugin in the server's goal loop, on a line, with the `map -> odom` transform |
| `VelocitySmoother` | the plugin's command on its way to the base, and the stop when no command comes |
| `Navigation` | what a NavigateToPose action promises: one task, whose goal may be replaced, and a result after a bounded number of attempts |
| `NavigateTree` | the behaviour tree of `bt_navogator_with_clear.xml` ticked for one task after another; implements `Navigation` |
| `GoalClient` | the two goal scripts and the two action servers they talk to, with other clients |
| `LatchedTopic` | `/robot_description`: one publication, readers that come and go, a publisher that is restarted |
| `PointCloudSlice` | a cloud made into `/scan_3d` point by point |
| `OrtHandles` | what the three programs that use onnxruntime own, call by call, when any call may fail |
| `ShortFloat` | `Float16` and `BFloat16` of the vendored header: conversion and rounding; no state |
| `Algorithms` | the three stateless modules exercised: a behaviour calls one of them over and over, with any inputs |
| `MC...` | instances of the others for TLC |
| `ObservationProofs` | proofs about `LidarSampling` and `CarrotSearch`, which the next two build on |
| `AlgorithmsProofs` | proofs about `Algorithms`: beams, sectors, loops, 16-bit floats |
| `RLControllerProofs` | proofs about `RLController` and `FollowPath` |
| `ScriptsProofs` | proofs about `GoalClient` and `LatchedTopic`, the programs of `scripts/` |
| `NavigateTreeProofs`, `PointCloudSliceProofs`, `VelocitySmootherProofs`, `OrtHandlesProofs` | proofs about the module they are named after |

`RLController` extends `LidarSampling` and `CarrotSearch`; `FollowPath` extends
`RLController` and conjoins its own variables to the plugin's actions.
Operators whose comment begins "A mutant" are wrong variants of the definition
that follows them; no specification uses them, they show that a property
notices the bug.

### RLController and the code

Members keep their C++ names. `control` and `executor` are the program counters
of the two threads. A call of `computeVelocityCommands` is:

| Action | Lines | Why a step of its own |
|---|---|---|
| `ComputeStops` | 109-115 | no plan: returns without reading anything shared |
| `ComputeStart` | 104-120 | parameter read; the callback may run next |
| `SampleLock`, `SampleCopy` | 194-198 | waiting for and holding `scan_mtx_` |
| `Observe` | 119-154 | buffers, carrot, observation: local to the thread |
| `InferReturns` / `InferThrows` | 156-186 | the policy answers or throws |

The callback is `ScanCallbackLock` and `ScanCallbackStore` (86-87). `Publish`
fills the keep-last queue of `SensorDataQoS`, dropping the oldest message when
it is full; a message lost by best-effort transport is no step at all.
`Configure` and `Cleanup` create and destroy the object, because the server
does; `ConfigureThrows` is `Ort::Session` throwing after the parameter was
declared. `activate`, `deactivate` and `cleanup` are empty in the code and
change only the server's lifecycle state; `setSpeedLimit` is empty and has no
action. The parameter's first value comes from `nav2_params.yaml:94`, a new
object's `carrot_lookahead_` from line 293; both are 0.3, `DEFAULT_LOOKAHEAD`.

Abstractions of data:

* ranges are integers `0..LIDAR_CAP`; a non-finite range is one value
  (`NonFinite`). Angles are integers and scaled so that `2*pi*i/90` is exact;
  rounding (`lround`) and `%` are modelled as C++ defines them. The conversions
  to `int` at lines 201 and 205 are assumed not to overflow, which needs an
  `angle_increment` below 10^-9;
* `temporal_` keeps only the sign of each sector: `EmaSigns` gives every sign
  that `0.8*t + 0.2*x` can have. A sector that moved once keeps a nonzero
  feature, as a float scaled by 0.8 does until it underflows (hundreds of
  calls);
* an action of `1.0f` is `ONE`, commands are integers on the scale of
  `ONE * ONE`, and NaN is a value of its own that `std::clamp` and `std::max`
  let through, as they do in C++;
* of the two measured velocities one is kept, and of the goal features their
  operands, the carrot, the pose and its yaw: distance and angle are functions
  of these and of nothing else;
* the velocity and the yaw may be NaN, and so may a place, the robot's or a pose
  of the plan: it is then one with a coordinate that is not finite. (Infinite
  coordinates count as NaN, which their difference can be.) The distance to such
  a place is `DBL_MAX`: like a NaN in `d < best` and `acc < carrot_lookahead_` it
  never wins the search and ends the walk. The lookahead itself is finite; a NaN
  would act as 0 does. A call is `GivenNaN` in its arguments or in what is left
  of its plan, and the observation is `Poisoned` by its carrot, pose, yaw,
  velocity or previous action. Its lidar part is not: `sampleScan` caps what is
  not finite;
* the policy may answer anything finite (`RawAction`), NaN only if its input
  is `Poisoned`, or throw.

### FollowPath and the code

The server is external: `Accept`, `Replan`, `Cancel`, `Check` and `Abort` are its
loop as the plugin sees it, `Cycle` one call with the pose in the local
costmap's frame (`nav2_params.yaml:165`). The policy and the base are ideal:
the robot moves one step towards the carrot *as observed*. A command that leaves
the robot where it is ends the goal as `stalled`, which is what
`SimpleProgressChecker` (`nav2_params.yaml:72-75`) does after two seconds.
An empty path never reaches the plugin here, as the server refuses it, so
`ComputeStops` does not occur in this composition; `RLController` has it.

### VelocitySmoother and the code

`CommandFor` is the mapping of `rl_controller.cpp:170-179` for the extreme
actions; the numbers are those of the YAML at the smoother's default of 20 Hz
(2.5 m/s2 is 125 mm/s in a period, 8 rad/s2 is 400 mrad/s). `SmootherTimer` is
one period. The feedback is `OPEN_LOOP`, so the last velocity sent is the
current one. Whether the server sends a zero command after an exception that is
not the plugin interface's own depends on its version: `CommandZero` may come or
not. Commands with a NaN, which versions of the smoother treat differently, are
left out.

### NavigateTree and the code

The XML gives the shape, the retry counts and the order of the recoveries. The
semantics of the node types is Nav2's and BehaviorTree.CPP's (Humble,
`README.md:9`): what a RecoveryNode, a PipelineSequence, a RateController and a
RoundRobin remember between ticks is the state of the module. A leaf is a step
that ends it, in success or failure; a tick that finds leaves running is none.
`PipelineFails` is the failure of the first child of `NavigateRecovery`, with
everything that goes with it: the halt of the pipeline, the tick of
`GoalUpdated`, which fails and remembers the goal, and the start of the next
recovery. `attempts`, `untried` and `refused` are history. The tree is not
loaded today; `nav2_params.yaml:43` is the line that would load it.

What the model says of the design, beyond the properties: a goal that preempts
a task inherits the retries it has spent, as nothing resets `nav_retry`; a goal
that arrives after the last planning may be reported as succeeded for the old
path; and whether `GoalUpdated` ends a recovery early depends on when the
fallback resets it, so that step is allowed and never forced.

### GoalClient and the code

`pc` is the script's line: `waitUntilNav2Active`, the prompt, the polling loop,
the last line. `GoToPose` and `FollowWaypoints` send; `Completed` leaves the loop
on any result (`send_goal.py:54-60`, `send_multipoint.py:50-53`); `Kill` is
Ctrl-C. A goal in a server is named by who waits for it. bt_navigator keeps one
goal running and one pending; waypoint_follower walks its list and goes on after
a failure (`stop_on_failure: false`). `OtherGoal` and `OtherList` are RViz and
other operators. An RViz goal while a list runs makes the follower note its
waypoint as missed and send the next one, which then preempts RViz's goal.

### LatchedTopic, PointCloudSlice, OrtHandles, ShortFloat

* `LatchedTopic`: discovery and delivery are steps of the middleware, so every
  order of publication, subscription, discovery, restart and re-installation of
  the URDF occurs. `Durable` readers are those with transient-local durability.
* `PointCloudSlice`: `Project` handles one point, `NextCloud` publishes. Integers
  are centimetres and 1e-8 rad, so that 0.01745 and 3.14159 are exact.
* `OrtHandles`: one step per call of the C API and per destructor. `Call`,
  `Name` and `Owner` are the programs' lines, `Declared` the order of
  declarations, against which destructors run; `status` and `making` are the
  temporaries of `ThrowOnError` and of the constructor of `Ort::Env`. An
  exception unwinds the plugin and terminates the two other programs.
* `ShortFloat`: bits are integers; the sign bit, which conversions copy, is left
  out of floats. `RoundHalfEven` is the processor's addition.

## 3. Runs

| Run | Question | Bounds, and why they are enough |
|---|---|---|
| `algorithms` | does every ray read the nearest beam, inside the vector? do the loops of `findCarrot` and the 16-bit conversions compute what they should? | 90 rays, 8 sectors, the 360 beams of `urdf/ict_bot.urdf:244-251` and the mirrored sensor; and 0 to 10 beams, 9 first angles, 19 increments: quotients land on halves, below zero and beyond the vector. Every path of 1 to 4 poses over 5 places, one of them with a NaN (all folds, all ties), lookahead -1 to 3, robot anywhere at each call. Every 16-bit value, with the floats at and around the half-way points |
| `controller_lidar` | scans and threads: exclusion, history, temporal feature; does every turn end, does the stack catch up? | 3 frames (first, middle, last), 3 rays in sectors of 2 and 1, a queue of 1 that overflows, 3 messages one of them without ranges |
| `controller_plan` | plans, commands, parameters, lifecycle | plans of 0, 1, 3 and 5 poses, one folded and one with a NaN in the middle, which the search can pass; lookahead 2 and -1; outputs beyond and at the limits; a NaN in the pose, the yaw or the velocity of any call |
| `follow_path` | server and plugin, frames aligned | 4 places, lookahead 1 and 2, a straight path, one against it and one that starts aside and turns back, which passes two places twice |
| `follow_path_drift` | goal features under localisation corrections | transform 0 or 1; expected to be violated, see section 7 |
| `velocity_smoother` | does the base stop, stay within limits, get there? | 9 commands (both extremes and zero on each axis), timeout of 20 periods, counted to 30: braking takes at most 5 |
| `navigate_tree` | drivers, fresh paths, recoveries, giving up; refinement of `Navigation`; does a task end, does a new goal reach the planner? | the counts of the XML (6, 1, 1), 2 goals: enough for a goal replaced in any phase |
| `goal_client` | what is left in the servers, what is reported, does a script end? | 3 waypoints (first, middle, last), both scripts, any number of other clients |
| `goal_client_last_line` | do the last lines of the scripts tell the truth? | 2 waypoints; expected to be violated, see section 7 |
| `latched_topic` | does every durable reader get the one publication? | a durable and a volatile reader, 3 versions of the URDF |
| `point_cloud_slice` | is the scan the nearest point of each beam, and has every point one? | the launch file's numbers, 225 points on both sides of every limit, clouds of 2: any order of a nearer and a farther one |
| `ort_handles` | ownership on every path | the whole programs, a failure at any call |

`controller_lidar` and `controller_plan` split what does not interact: the scan
path never reads the plan, the plan search never reads the scan. Both check the
refinement of `PolicyLoop`, the first with its liveness (`ImplementsFairLoop`),
the second its safety (`ImplementsLoop`). All state spaces are finite without state
constraints: `samples` is cut to `N_FRAMES` and the queue to `SCAN_DEPTH`.
Deadlock is checked in every run. `attempts`, the queue of goals and `silence` are
bounded by the code's own limits or by a named bound of the model.

What the properties show is stated above each of them in the modules.
The deeper ones:

* `ImplementsLoop`: however the callback interleaves, a call behaves as if it
  had read the scan at one instant. The abstract sensing happens at
  `SampleCopy`; between it and `Observe` the abstract window is the stack with
  the local sample already in it;
* `FramesAreHistory`: the loop that shifts an array in place, one assignment
  after the other, is compared with a history of what was sampled, across plans,
  exceptions and deactivations. The history takes the same sample in the same
  step: that the sample is of one scan is `ImplementsLoop`'s business;
* `FeedbackExplainsCommand`, `CleanInputsCleanCommand`: the feedback loop
  through `last_action_`. A NaN that a call brings may stay for ever, and one
  that no call brought never appears;
* `NeverStalls`, `GoalEnds`: the closed loop of search, lookahead, robot and
  goal check. A path that comes back to a place before it has gone the lookahead
  can put the carrot on the robot: `FoldsAreWide` excludes it. `MCFollowPath`
  assumes that its paths are wide, and section 5 proves that this is enough;
* `RecoveriesInTurn`, `FailsOnlyWhenSpent`: what the RoundRobin remembers over
  attempts and over tasks, against a history of what was started and what failed;
* `MissedAreReported`: the list's bookkeeping under preemption, killed scripts
  and late results of earlier goals;
* `SilenceStops`: the timeout, the flag that stops the sending and the ramp;
* `OneOwner`, `UsedWhileAlive`: constructors that fail half way and the order of
  destructors.

## 4. Fairness

`FairSpec`: a thread inside a function goes on (weak fairness of each step of
the callback and of a call), because the operating system schedules both
threads and neither waits for anything but the mutex. `SampleLock` is strongly
fair: the callback holds the mutex for one pointer assignment at 10 Hz and
cannot overtake a waiting caller for ever. Nothing forces messages,
plans, calls, parameters or lifecycle transitions. `WindowConverges` therefore
assumes in its own statement that calls keep coming and that the last scan stays
the same. `FollowFairSpec` adds that the server's loop goes on
(`controller_frequency`); goals, replanning, cancellation and localisation are
not forced.

`NavigateTree`: every leaf ends. Services answer or time out, behaviours have
time allowances, the planner has `max_planner_duration`, the clock goes on;
nothing is said of FollowPath, so `NewGoalIsPlanned` holds for a robot that never
arrives. `NavigationEnds` assumes in its own statement that FollowPath ends, by
arriving or by the progress checker, and nothing about goals: a task ends even
if its goal is replaced for ever, as no replacement gives a retry back.
`GoalClient`: the servers' loops go on, a navigation ends, a script that has its
input goes on; bring-up, users and other clients owe nothing. `LatchedTopic`: discovery and
reliable delivery end. `VelocitySmoother`: the timer runs; the controller owes
nothing.

## 5. Proofs

Everything in this section holds for every value of the constants that meets
the named assumptions (`SamplingAssumption`, `DistAssumption`,
`ControllerAssumption`, `LineAssumption`, `InputAssumption`, `TreeAssumption`,
`NumAssumption`, `SliceAssumption`, `SmootherAssumption`): any number of rays,
sectors, frames, any queue depth, any sets of messages, plans and policy
outputs, any number of retries, goals, waypoints and points. Only the liveness
theorems at the end fix some of them, to the numbers that the code has.

* `ObservationProofs`. *Beams*: the two-step `%` maps every integer into the
  vector (`WrapIndexInRange`), hence every access of `sampleScan` is in range
  (`BeamInMessage`) and its result is a scan (`SampleScanType`). *Sectors*: the
  closed form obeys the code's `start += len` (`SectorRecurrence`), and every
  ray is in exactly one sector (`SectorsPartition`, from quotient and
  remainder). *Loops*: a loop over an array is a recursive function, and an
  induction about it is one about a set of turns that holds 0 and is closed
  under + 1 (`SetInduction`, from the well-foundedness of `<`). `LoopHasRun`
  says that such a loop has a run of any length, whatever it computes;
  `NearestLoopCorrect` and `WalkLoopCorrect` that the two loops of `findCarrot`
  return what `IsNearest` and `IsCarrot` ask for, on paths of any length and for
  any lookahead; `NearestUnique` and `CarrotUnique` that nothing else does.
* `AlgorithmsProofs`. `BeamNearest`: on a full circle, in either direction, the
  beam read is at most half an increment off; the argument is that `lround` is
  at most half a unit off (`RoundDivNearest`), that the wrap adds full circles
  (`WrapIndexModulo`), and that on the sensor whose first and last beam coincide
  no ray's index leaves the range before the wrap (`RoundedInRange`).
  `BrainFloatNearest`, `HalfFloatNearest`: rounding by bias gives the nearest
  value, the even one of two, and values come back exactly, for every float up
  to infinity of the first format and over the normal range of the second, where
  the run takes only the floats next to a boundary (`BiasRounds` is the
  arithmetic, for any size of a step). `SubnormalRoundsNearest` is the same for the
  addition behind the subnormals: a subnormal of `Float16` has a first bit
  (`HasFirstBit`), so that its float and what the addition makes of it are
  linear in two powers of two whose product is 2^23 (`Powers`, place by place;
  `SubnormalComesBack`, `SubnormalHalfWay`). `InputsOK`
  is the inductive invariant of `Algorithms`, and the six theorems at the end
  state the run's six invariants.
* `RLControllerProofs`, typing: `TypeOK` is not inductive. `IInv` adds what
  depends on the program counters: a call in progress has its arguments, its
  observation and a non-empty plan and implies that the node is active;
  `buffers_ready_` implies filled buffers; a configured node has declared its
  parameter; the callback holds a message; the carrot index is in the plan.
  `InitIInv` and `NextIInv` (one step per action) give `TypeCorrect`, and
  everything below uses `SpecIInv`.
* `RLControllerProofs`, the plugin: every step is a step of `PolicyLoop` or a
  stutter (`Refinement`); mutual exclusion from "the mutex is held exactly
  inside the critical sections" (`MutexHeld`); the carrot; the feedback and,
  from it and typing, the limits of the command, with the remark that the
  code's 30% floor (line 176) is never reached (`TurnScaleRange`); NaN-freedom
  with the part of the invariant that follows a call and the plan it has left
  (`CleanInside`), for any places, headings and speeds, NaN or not. The stack
  is the sampled history: after k turns the loop of the shift has moved the last
  k frames (`PushFrameShifts`, from which `PushFrameStack`), and
  `PushKeepsHistory` is the case analysis on a full or filling stack; approach and quiet follow, since `frames_[0]` is then
  `prev_scan_`; N_FRAMES calls that sample one scan fill the stack with it
  (`StackFillsHolds`, the safety part of `WindowConverges`). `Observe` is stated
  with `IsNearest` and `IsCarrot`; `ObserveRunsTheLoops` says that in every
  reachable state its outcome is that of the code's two loops.
* `RLControllerProofs`, the plugin in its server: `FollowImplementsPlugin` makes
  every theorem about the plugin one about the composition. The carrot belongs
  to the goal that is followed (`CarrotOfThisGoalHolds`), because the plugin's
  plan is the server's whenever the server is busy (`ServedPlan`). With one frame
  for both, a call is about the place where the robot is (`AlignedCall`), so the
  goal features are right (`GoalInRobotFrameWhenAligned`): what
  `follow_path_drift` finds needs the drift. `NeverStallsHolds`: if the carrot
  were at the robot short of the end, the nearest pose would be there too, as
  the search starts before the carrot and the carrot is at distance zero; the
  path would then have come back to its place without going the lookahead
  (`CarrotElsewhere`), which `FoldsAreWide` excludes. The other hypotheses are
  that the distance separates places and that lookaheads are positive; a path
  without a place twice, as the plans of NavfnPlanner (`nav2_params.yaml:133`),
  needs no further one (`SimplePathsAreFollowed`).
* `NavigateTreeProofs`: the invariant has four parts. `Phases` says what runs
  together, `Counts` ties the retry counters to the attempts (a clearing leaf
  runs only while a retry is left), `Turns` gives `untried` and `refused` as
  functions of the RoundRobin's index and failure count; the lemmas about
  `Untried` and `Refused` are its arithmetic modulo four. From it follow the four
  safety properties and `Refinement`, for any number of retries.
* `ScriptsProofs`: `Clients` (a script's goal is in one place, only while the
  script waits for it), `Followers` (the follower's goal is the one for the
  waypoint it is at), `Accounts` (every earlier waypoint is reached or failed)
  and `Held` (what is waited for is in a server: no goal is lost) are inductive
  together, for any number of waypoints. `TopicSpecInv`, for the latched topic:
  a durable reader that was discovered has the message, or it is on its way.
* `PointCloudSliceProofs`: every accepted point has a beam, under the hypothesis
  `NoExactFit` that the increment does not divide the covered angle; the launch
  file meets it (6.28318 is 360 increments of 0.01745 and 0.00118 more). With an
  increment that divides it, a point at exactly `angle_max` would fall one beam
  outside. The scan is then the nearest point of each beam for clouds of any size.
* `VelocitySmootherProofs`: a step lies between the velocity and its target
  (`StepTowards`), so the base keeps within the limits of the commands. `Braking`
  relates silence to speed: every period beyond the timeout took one full step
  off, or the axis stands; with `StoppedStands` (what is not sent any more does
  not move the base) it is inductive and gives `SilenceStops` for every timeout
  and every ramp (`RampIsEnough` is the rounding up).
* `OrtHandlesProofs`: `OneOwner` is not inductive, as an assignment to a variable
  that owns an object would lose it. `MadeSoFar` says for each variable from
  which call on it owns something, so that a call finds its variable empty;
  `NeededOutlive`, with the order of the declarations (`LastIsNotNeeded`), that
  no destructor comes before that of a user. The module has no constants and
  TLC's run is exhaustive; the proof says why it holds.

Proved and not repeated in a run: the type invariants of `NavigateTree`,
`GoalClient` and `PointCloudSlice`, and that a tuned lookahead survives the
lifecycle (`TuningSurvivesLifecycleHolds`, `rl_controller.cpp:69-73`).

### Liveness

The provers know nothing of ENABLED, and an induction over temporal formulas
cannot be stated for them. What they can do is temporal reasoning from fairness
when both are out of the way, and that is how the liveness properties below are
proved.

* *ENABLED is a hypothesis.* Each of these theorems starts from the fair
  specification and `[]StepsEnabled` (`TimerEnabled`, `DeliveryEnabled`,
  `ServerStepsEnabled`, `LoopStepsEnabled`): a state predicate that says of each
  fair action that it is enabled when its guards are true. The provers treat its
  ENABLED as new symbols. On the instances of the runs no reachable state makes
  one of them false; `LoopStepsEnabled`, the converse for the two fair actions of
  `PolicyLoop`, only says that a step needs its guard.
* *What is left gets less.* For a task of the behaviour tree the measure is a
  pair: attempts left, and in this attempt the leaves that have still to end,
  where a recovery counts less than any pipeline and FollowPath less than
  planning. `LeafEndsOrStays` says that no step raises it, preemptions and new
  paths included, and that one that leaves it equal leaves the leaf running;
  `LeafEnds` that the end of the leaf lowers it. With fairness of the leaf this
  gives `NavigationMovesOn` for any numbers of retries. For a new goal the
  measure is what comes before the planner's answer to it (`NewGoalMovesOn`).
  `WaypointsMoveOn` is the same for one waypoint of a list, of any length.
* *Down the measure.* The last step would be an induction over the measure. It is
  done by hand, one theorem instance per value, for the numbers that the code
  has: the retries of the XML (`XmlRetries`: 6, 1 and 1, so at most six attempts
  left and fifteen leaves) give `NavigationEndsFairly` and
  `NewGoalIsPlannedFairly`; `N_FRAMES = 6` (`rl_controller.cpp:22`) gives
  `WindowConvergesFairly`; limits as in `nav2_params.yaml:289-292`, where the
  whole range is ten periods of acceleration (`YamlLimits`), give
  `SteadyCommandReachedFairly`. All other constants stay arbitrary. How many
  waypoints a list has the user types (`send_multipoint.py:37`):
  `ScriptEndsFairly` is for ten or fewer, ten being a bound of the proof.
* *No measure needed.* `CallsEnd`: a call waits for the mutex at most while the
  callback stores a scan (`WhoHoldsTheLock`), and has then three steps to go.
  `FairRefinement` carries the fairness of the plugin over to `PolicyLoop`, and
  `FollowImplementsFairPlugin` that of the server to the plugin.
  `LateReadersServedFairly`: a reader is discovered, then served.

Only model-checked: `GoalEnds`, whose measure is the way that is left along a
path, of any length and with a lookahead that may be tuned on the way (it needs a
hypothesis on the path, see the last observation of section 7); that the
hypotheses on ENABLED hold; and lists of more than ten waypoints have only the
step from one to the next. The two properties of the runs that expect a
violation are false, and `GoalInRobotFrameWhenAligned` says when the one holds.

## 6. Not modelled

The costmaps, planner and localisation of Nav2, slam_toolbox, Isaac Sim and Gazebo
are external; controller_server, bt_navigator, waypoint_follower and the smoother
only as far as this repository's code and parameters meet them. What the network
computes is not modelled: no property says that the policy drives well. Launch
files and RViz settings have no behaviour after start-up. Also left out: pausing
and resuming the lifecycle from the RViz panel while a goal runs; cancellation in
`GoalClient`, which nothing here requests; the initial pose that
`BasicNavigator` publishes while it waits for amcl; a goal of `send_goal.py` that
a bt_navigator which was deactivated again refuses. NaN stays in the plugin's
model: `FollowPath`'s places are finite, the clouds have no point with a NaN, and
the smoother is sent no NaN command.

By far the most lines of the tree are the headers of onnxruntime 1.24.4, about
20000. They declare an interface to a closed library; the programs use ten of
its functions. Modelled are those calls, the wrappers' ownership, and the 16-bit
floats. A model of the rest would describe declarations nothing here calls, so
the share of mapped lines stays small although the robot's own C++, its scripts
and the parameters with behaviour are covered.

## 7. Findings

* `follow_path_drift`: the plugin subtracts an `odom` pose from a `map` point
  (`rl_controller.cpp:128-132`, and again in the search at 264) although its
  comment (127) says the goal features are in the robot's frame. It works while
  the two frames coincide. In the run a correction of the transform is enough
  for an observation whose goal is off by just that correction.

* `goal_client_last_line`: `send_multipoint.py` prints "All waypoints completed!"
  although the list was rejected, or waypoints were missed, which the result
  says. `send_goal.py` prints "Navigation completed!" in the same way for a goal
  that was aborted or preempted: the result it asks for is not looked at.

### Observations

Noted while reading, not shown by a run:

* the comment of `slam_3d.launch.py:39` gives a band of 0.1 m on both sides of the
  lidar, the parameters below it -0.05 to 1.0 m: a point at 0.4 m is in the scan;
* `operator==` of the vendored 16-bit floats calls +0 and -0 unequal while
  `operator<` puts neither first (`onnxruntime_float16.h:190-214`); the comment in
  `operator<` quotes the rule that they are equal. Nothing here compares them;
* the default map of `navigation.launch.py:13` is not in `maps/`, and
  `README.md:117` names another one;
* the RViz layout subscribes to `/robot_description` as volatile
  (`nav2_rviz.rviz:58`), so it would miss a description published before it starts;
* the floor of 30% at `rl_controller.cpp:176` is never reached;
* a plan that folds back within less than `carrot_lookahead` would stop the robot
  at the fold: with lookahead 2, TLC stalls on the path 1, 2, 3, 2, 1, 0, where the
  pose one lookahead after the first 2 is the second 2. The planner in
  `nav2_params.yaml:133` returns no such plan;
* on a path whose neighbouring poses are far apart, a lookahead that is tuned back
  and forth for ever keeps the robot from the goal: with poses 3, 6, 0 on a line
  and the lookahead switching between 1 and 4, the carrot switches between the
  last two poses and the robot stays between them, with `carrot_idx_` at 1.
  `GoalEnds` holds for the paths of its run, where tuning does no such harm.

## 8. Plan

Order of work, most important behaviour first. All steps are done.

1. `LidarSampling`, `CarrotSearch`: the arithmetic, against definitions.
2. `RLController` with its threads; `PolicyLoop` and the refinement.
3. Proofs: typing, mutex, carrot, command, history, temporal feature,
   refinement.
4. `FollowPath`: the composition with the server and localisation.
5. `NavigateTree` and `Navigation`, with the refinement and its proof.
6. `GoalClient`, with the proof of its bookkeeping.
7. `LatchedTopic`, `PointCloudSlice` and its proof.
8. `OrtHandles`, `ShortFloat`, `VelocitySmoother`.
9. Proofs: `VelocitySmoother`, the loops and the conversions, the plugin in its
   server, `OrtHandles`.
10. Proofs: the subnormals of `Float16`; liveness of the plugin, the tree, the
    smoother, the scripts and the latched topic.

Open: `GoalEnds` as a theorem; a run with NaN commands once the version of the
smoother is pinned; the lifecycle paused in the middle of a goal.
