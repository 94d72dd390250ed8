------------------------ MODULE RLControllerProofs ------------------------
(***************************************************************************)
(* Proofs about RLController, for every number of rays, sectors and frames,*)
(* every queue depth, and every set of scans, plans, positions, velocities *)
(* and policy outputs: the inductive invariant, the refinement of          *)
(* PolicyLoop, the safety and action properties, and, at the end, the      *)
(* plugin in its server (FollowPath).                                      *)
(***************************************************************************)
EXTENDS FollowPath, ObservationProofs

(***************************************************************************)
(* The invariant.  TypeOK alone is not inductive: what a call may use      *)
(* depends on how far the threads have got.                                *)
(***************************************************************************)
Declared == lifecycle # "unconfigured" => parameter \in Lookahead

CallInProgress ==
  /\ control # "idle" => lifecycle = "active" /\ current_path_ # << >>
  /\ control \in {"sample", "copying", "observe"}
       => call \in [pose : Position, yaw : Yaw, velocity : Velocity]
  /\ control = "infer" => obs \in Observation

BuffersFilled ==
  buffers_ready_ =>
    /\ frames_ \in [Frame -> Scan]
    /\ prev_scan_ \in Scan
    /\ temporal_ \in [Sector -> {-1, 0, 1}]

CallbackInHand == executor = "storing" => in_hand \in LaserScan

IInv ==
  /\ TypeOK
  /\ Declared
  /\ CallInProgress
  /\ BuffersFilled
  /\ CallbackInHand
  /\ CarrotInPath

-----------------------------------------------------------------------------
(***************************************************************************)
(* Lemmas about the operators.                                             *)
(***************************************************************************)
LEMMA SampleType ==
  ASSUME NEW m \in LaserScan \cup {NoScan}
  PROVE  SampleScan(m) \in Scan
BY SampleScanType, ControllerAssumption

\* std::clamp to -1.0f..1.0f, which keeps a NaN.
LEMMA ClampUnitType ==
  ASSUME NEW x \in Int \cup {NaN}
  PROVE  ClampUnit(x) \in Unit
<1>1. ONE \in Nat
  BY ControllerAssumption
<1> QED BY <1>1 DEF ClampUnit, Clamp, Unit

LEMMA ClampActionType ==
  ASSUME NEW raw \in (Int \cup {NaN}) \X (Int \cup {NaN})
  PROVE  ClampAction(raw) \in Unit \X Unit
BY ClampUnitType DEF ClampAction

LEMMA PolicyOutputType ==
  ASSUME NEW o
  PROVE  PolicyOutput(o) \subseteq (Int \cup {NaN}) \X (Int \cup {NaN})
BY ControllerAssumption DEF PolicyOutput

\* The turn slowdown is between 40% and 100%: its floor of 30% is never met.
LEMMA TurnScaleRange ==
  ASSUME NEW w \in -ONE .. ONE
  PROVE  TurnScale(w) \in 4 * ONE .. 10 * ONE
<1>1. ONE \in Nat \ {0}
  BY ControllerAssumption
<1>2. Abs(w) \in 0 .. ONE
  BY <1>1 DEF Abs
<1> QED
  BY <1>1, <1>2 DEF TurnScale, TURN_SLOWDOWN, MIN_SPEED_FRAC

LEMMA CommandType ==
  ASSUME NEW a \in Unit \X Unit
  PROVE  Command(a) \in [linear : Int \cup {NaN}, angular : Unit]
<1>1. a[1] \in Unit /\ a[2] \in Unit
  OBVIOUS
<1>2. ASSUME NaN \notin {a[1], a[2]}
      PROVE  (a[1] + ONE) * TurnScale(a[2]) \in Int
  <2>1. a[1] \in -ONE .. ONE /\ a[2] \in -ONE .. ONE
    BY <1>1, <1>2 DEF Unit
  <2>2. a[1] + ONE \in Int /\ TurnScale(a[2]) \in Int
    BY <2>1, TurnScaleRange, ControllerAssumption
  <2> QED BY <2>2
<1> QED BY <1>1, <1>2 DEF Command

\* The loop that shifts the stack in place, from the back, moves every frame
\* one back, and none before it was copied.
LEMMA PushFrameShifts ==
  ASSUME NEW S, frames_ \in [Frame -> S], NEW scan
  PROVE  PushFrame(scan)
           = [f \in Frame |-> IF f = 0 THEN scan ELSE frames_[f - 1]]
<1> DEFINE last == N_FRAMES - 1
           Turn(v, k) == [v EXCEPT ![N_FRAMES - k] = v[N_FRAMES - k - 1]]
           Body(r) == [k \in Frame |->
             IF k = 0 THEN frames_
             ELSE [r[k - 1] EXCEPT
                     ![N_FRAMES - k] = r[k - 1][N_FRAMES - k - 1]]]
           shift == CHOOSE r : r = Body(r)
           After(k) == [f \in Frame |->
                          IF f >= N_FRAMES - k THEN frames_[f - 1]
                          ELSE frames_[f]]
           closed == [k \in Frame |-> After(k)]
<1>1. N_FRAMES \in Int /\ N_FRAMES > 0 /\ Frame = 0 .. N_FRAMES - 1
  BY ControllerAssumption DEF Frame
<1>2. After(0) = frames_
  <2>1. \A f \in Frame : ~(f >= N_FRAMES - 0)
    BY <1>1
  <2> QED BY <2>1
<1>3. ASSUME NEW k \in Frame, k # 0
      PROVE  After(k) = Turn(After(k - 1), k)
  <2> DEFINE b == N_FRAMES - k
  <2>1. k \in Int /\ b \in Frame /\ b - 1 \in Frame /\ b # 0
        /\ N_FRAMES - (k - 1) = b + 1 /\ b \in Int
    BY <1>1, <1>3 DEF Frame
  <2>2. After(k - 1)[b - 1] = frames_[b - 1]
    BY <2>1
  <2>3. Turn(After(k - 1), k)
          = [f \in Frame |-> IF f = b THEN frames_[b - 1] ELSE After(k - 1)[f]]
    BY <2>2
  <2>4. ASSUME NEW f \in Frame
        PROVE  After(k)[f] = IF f = b THEN frames_[b - 1] ELSE After(k - 1)[f]
    <3>1. f \in Int /\ (f >= b <=> f = b \/ f >= b + 1)
      BY <1>1, <2>1
    <3>2. /\ After(k)[f] = IF f >= b THEN frames_[f - 1] ELSE frames_[f]
          /\ After(k - 1)[f] = IF f >= b + 1 THEN frames_[f - 1] ELSE frames_[f]
      BY <2>1
    <3> QED BY <2>1, <3>1, <3>2
  <2>5. After(k)
          = [f \in Frame |-> IF f = b THEN frames_[b - 1] ELSE After(k - 1)[f]]
    <3> HIDE DEF b
    <3> QED BY <2>4
  <2> QED BY <2>3, <2>5
<1>4. closed = Body(closed)
  <2>1. ASSUME NEW k \in Frame, k # 0 PROVE k - 1 \in Frame
    BY <1>1, <2>1
  <2> HIDE DEF After
  <2>2. ASSUME NEW k \in Frame
        PROVE  closed[k] = IF k = 0 THEN frames_ ELSE Turn(closed[k - 1], k)
    BY <1>2, <1>3, <2>1
  <2> HIDE DEF closed
  <2>3. closed = [k \in Frame |-> closed[k]]
    BY DEF closed
  <2> QED BY <2>2, <2>3
<1>5. shift = Body(shift)
  <2> HIDE DEF Body, closed
  <2> QED BY <1>4
<1> HIDE DEF shift
<1>6. /\ shift[0] = frames_
      /\ \A k \in Frame : k # 0 => shift[k] = Turn(shift[k - 1], k)
  <2>1. 0 \in Frame
    BY <1>1
  <2> QED BY <1>5, <2>1
<1> DEFINE T == {k \in Nat : k <= last => shift[k] = After(k)}
<1>7. 0 \in T
  BY <1>2, <1>6
<1>8. ASSUME NEW k \in Nat, k \in T PROVE k + 1 \in T
  <2> SUFFICES ASSUME k + 1 <= last PROVE shift[k + 1] = After(k + 1)
    OBVIOUS
  <2>1. k + 1 \in Frame /\ k + 1 # 0 /\ (k + 1) - 1 = k /\ k <= last
    BY <1>1 DEF Frame
  <2> HIDE DEF After, Turn, last
  <2> QED BY <1>3, <1>6, <1>8, <2>1
<1>9. shift[last] = After(last)
  <2> HIDE DEF T
  <2>1. last \in Nat
    BY <1>1
  <2>2. last \in T
    BY <1>7, <1>8, <2>1, SetInduction
  <2> QED BY <2>1, <2>2 DEF T
<1>10. PushFrame(scan) = [shift[N_FRAMES - 1] EXCEPT ![0] = scan]
  BY DEF PushFrame, shift
<1>11. /\ 0 \in Frame
       /\ \A f \in Frame : f # 0 => f >= N_FRAMES - last
  BY <1>1
<1> QED BY <1>9, <1>10, <1>11

\* ... and so it is for the stack of the plugin, in every state.
LEMMA PushFrameStack ==
  ASSUME IInv, NEW scan
  PROVE  PushFrame(scan)
           = [f \in Frame |-> IF f = 0 THEN scan ELSE frames_[f - 1]]
BY PushFrameShifts DEF IInv, TypeOK

\* A new frame goes to the front, the others move one back.
LEMMA UpdateLidarBuffersType ==
  ASSUME IInv, NEW scan \in Scan, UpdateLidarBuffers(scan)
  PROVE  /\ buffers_ready_' = TRUE
         /\ frames_' \in [Frame -> Scan]
         /\ prev_scan_' \in Scan
         /\ temporal_' \in [Sector -> {-1, 0, 1}]
<1>1. CASE buffers_ready_
  <2>1. frames_ \in [Frame -> Scan]
    BY <1>1 DEF IInv, BuffersFilled
  <2>2. \A f \in Frame : f # 0 => f - 1 \in Frame
    BY ControllerAssumption DEF Frame
  <2>3. PushFrame(scan) \in [Frame -> Scan]
    BY <2>1, <2>2, PushFrameStack
  <2> QED BY <1>1, <2>3 DEF UpdateLidarBuffers, NextTemporal
<1>2. CASE ~buffers_ready_
  BY <1>2 DEF UpdateLidarBuffers
<1> QED BY <1>1, <1>2

LEMMA RememberType ==
  ASSUME samples \in Seq(Scan), NEW scan \in Scan, Remember(scan)
  PROVE  samples' \in Seq(Scan)
<1>1. CASE Len(samples) < N_FRAMES
  BY <1>1 DEF Remember
<1>2. CASE ~(Len(samples) < N_FRAMES)
  <2>1. SubSeq(samples, 1, N_FRAMES - 1) \in Seq(Scan)
    BY <1>2, ControllerAssumption
  <2> QED BY <1>2, <2>1 DEF Remember
<1> QED BY <1>1, <1>2

-----------------------------------------------------------------------------
LEMMA InitIInv == Init => IInv
<1> SUFFICES ASSUME Init PROVE IInv
  OBVIOUS
<1>1. DEFAULT_LOOKAHEAD \in Lookahead /\ <<0, 0>> \in Unit \X Unit
  BY ControllerAssumption DEF Unit
<1>2. << >> \in Seq(LaserScan) /\ << >> \in Seq(Scan)
  OBVIOUS
<1>3. [f \in Frame |-> Empty] \in [Frame -> Scan \cup {Empty}]
  OBVIOUS
<1>4. frames_ \in [Frame -> Scan \cup {Empty}]
  BY <1>3 DEF Init
<1>5. scan_queue \in Seq(LaserScan) /\ samples \in Seq(Scan)
  BY <1>2 DEF Init
<1>6. /\ carrot_lookahead_ \in Lookahead
      /\ last_action_ \in Unit \X Unit
  BY <1>1 DEF Init
<1>7. /\ buffers_ready_ \in BOOLEAN /\ tainted \in BOOLEAN
      /\ ~buffers_ready_
  BY Zenon DEF Init
<1>8. /\ in_hand \in LaserScan \cup {NoScan}
      /\ last_scan_ \in LaserScan \cup {NoScan}
      /\ sample \in LaserScan \cup {NoScan}
      /\ current_path_ \in Path \cup {<< >>}
      /\ call \in [pose : Position, yaw : Yaw, velocity : Velocity] \cup {NoCall}
      /\ obs \in Observation \cup {NoObs}
      /\ cmd \in [linear : Int \cup {NaN}, angular : Unit] \cup {NoCmd}
      /\ prev_scan_ \in Scan \cup {Empty}
      /\ temporal_ \in [Sector -> {-1, 0, 1}] \cup {Empty}
  BY Zenon DEF Init
<1>9. /\ lifecycle \in {"unconfigured", "inactive", "active"}
      /\ parameter \in Lookahead \cup {Undeclared}
      /\ executor \in {"idle", "storing"}
      /\ control \in {"idle", "sample", "copying", "observe", "infer"}
      /\ scan_mtx_ \in {"free", "executor", "control"}
      /\ carrot_idx_ \in Nat \ {0}
      /\ ret \in {"none", "stop", "drive", "thrown"}
  BY DEF Init
<1>10. TypeOK
  BY <1>4, <1>5, <1>6, <1>7, <1>8, <1>9 DEF TypeOK
<1> QED
  BY <1>7, <1>10 DEF Init, IInv, Declared, CallInProgress, BuffersFilled,
              CallbackInHand, CarrotInPath

\* A new object satisfies the part of the invariant that is about it.
LEMMA NewInstanceType ==
  ASSUME NewInstance
  PROVE  /\ last_scan_' \in LaserScan \cup {NoScan}
         /\ current_path_' \in Path \cup {<< >>}
         /\ carrot_idx_' \in Nat \ {0}
         /\ carrot_lookahead_' \in Lookahead
         /\ frames_' \in [Frame -> Scan \cup {Empty}]
         /\ prev_scan_' \in Scan \cup {Empty}
         /\ temporal_' \in [Sector -> {-1, 0, 1}] \cup {Empty}
         /\ buffers_ready_' \in BOOLEAN
         /\ last_action_' \in Unit \X Unit
         /\ ret' \in {"none", "stop", "drive", "thrown"}
         /\ cmd' \in [linear : Int \cup {NaN}, angular : Unit] \cup {NoCmd}
         /\ samples' \in Seq(Scan)
         /\ tainted' \in BOOLEAN
         /\ BuffersFilled'
         /\ CarrotInPath'
<1>1. DEFAULT_LOOKAHEAD \in Lookahead /\ <<0, 0>> \in Unit \X Unit
  BY ControllerAssumption DEF Unit
<1>2. << >> \in Seq(Scan)
  OBVIOUS
<1>3. [f \in Frame |-> Empty] \in [Frame -> Scan \cup {Empty}]
  OBVIOUS
<1>4. frames_' \in [Frame -> Scan \cup {Empty}]
  BY <1>3 DEF NewInstance
<1>5. samples' \in Seq(Scan)
  BY <1>2 DEF NewInstance
<1>6. /\ carrot_lookahead_' \in Lookahead
      /\ last_action_' \in Unit \X Unit
  BY <1>1 DEF NewInstance, FreshAction
<1>7. /\ buffers_ready_' \in BOOLEAN /\ tainted' \in BOOLEAN
      /\ ~buffers_ready_'
  BY Zenon DEF NewInstance
<1>8. /\ last_scan_' \in LaserScan \cup {NoScan}
      /\ current_path_' \in Path \cup {<< >>}
      /\ prev_scan_' \in Scan \cup {Empty}
      /\ temporal_' \in [Sector -> {-1, 0, 1}] \cup {Empty}
      /\ cmd' \in [linear : Int \cup {NaN}, angular : Unit] \cup {NoCmd}
      /\ ret' \in {"none", "stop", "drive", "thrown"}
  BY Zenon DEF NewInstance
<1>9. carrot_idx_' \in Nat \ {0}
  BY DEF NewInstance
<1>10. BuffersFilled' /\ CarrotInPath'
  BY <1>7 DEF NewInstance, BuffersFilled, CarrotInPath
<1> QED
  BY <1>4, <1>5, <1>6, <1>7, <1>8, <1>9, <1>10

LEMMA NextIInv == IInv /\ [Next]_vars => IInv'
<1> SUFFICES ASSUME IInv, [Next]_vars PROVE IInv'
  OBVIOUS
<1> USE DEF node, subscription, plan, buffers, outcome, locals
<1>1. CASE Configure
  <2>1. lifecycle' = "inactive" /\ control = "idle" /\ control' = "idle"
    BY <1>1 DEF Configure, IInv, CallInProgress
  <2>2. parameter' \in Lookahead
    BY <1>1, ControllerAssumption
    DEF Configure, DeclareLookahead, IInv, TypeOK
  <2>3. TypeOK'
    BY <1>1, <2>1, <2>2, NewInstanceType DEF Configure, IInv, TypeOK
  <2> QED
    BY <1>1, <2>1, <2>2, <2>3, NewInstanceType
    DEF Configure, IInv, Declared, CallInProgress, CallbackInHand
<1>2. CASE ConfigureThrows
  <2>1. parameter' \in Lookahead
    BY <1>2, ControllerAssumption
    DEF ConfigureThrows, DeclareLookahead, IInv, TypeOK
  <2>2. TypeOK'
    BY <1>2, <2>1 DEF ConfigureThrows, IInv, TypeOK
  <2> QED
    BY <1>2, <2>1, <2>2 DEF ConfigureThrows, IInv, Declared, CallInProgress,
       BuffersFilled, CallbackInHand, CarrotInPath
<1>3. CASE Activate
  <2>1. TypeOK'
    BY <1>3 DEF Activate, IInv, TypeOK
  <2> QED
    BY <1>3, <2>1 DEF Activate, IInv, Declared, CallInProgress,
       BuffersFilled, CallbackInHand, CarrotInPath
<1>4. CASE Deactivate
  <2>1. TypeOK'
    BY <1>4 DEF Deactivate, IInv, TypeOK
  <2> QED
    BY <1>4, <2>1 DEF Deactivate, IInv, Declared, CallInProgress,
       BuffersFilled, CallbackInHand, CarrotInPath
<1>5. CASE Cleanup
  <2>1. lifecycle' = "unconfigured" /\ control = "idle" /\ control' = "idle"
    BY <1>5 DEF Cleanup, IInv, CallInProgress
  <2>2. TypeOK'
    BY <1>5, <2>1, NewInstanceType DEF Cleanup, IInv, TypeOK
  <2> QED
    BY <1>5, <2>1, <2>2, NewInstanceType
    DEF Cleanup, IInv, Declared, CallInProgress, CallbackInHand
<1>6. ASSUME NEW v \in Lookahead, SetParameter(v) PROVE IInv'
  <2>1. TypeOK'
    BY <1>6 DEF SetParameter, IInv, TypeOK
  <2> QED
    BY <1>6, <2>1 DEF SetParameter, IInv, Declared, CallInProgress,
       BuffersFilled, CallbackInHand, CarrotInPath
<1>7. ASSUME NEW m \in LaserScan, Publish(m) PROVE IInv'
  <2>1. scan_queue' \in Seq(LaserScan)
    <3>1. scan_queue \in Seq(LaserScan) /\ SCAN_DEPTH \in Nat \ {0}
      BY ControllerAssumption DEF IInv, TypeOK
    <3>2. CASE Len(scan_queue) < SCAN_DEPTH
      BY <1>7, <3>1, <3>2 DEF Publish
    <3>3. CASE ~(Len(scan_queue) < SCAN_DEPTH)
      <4>1. scan_queue # << >>
        BY <3>1, <3>3
      <4>2. Tail(scan_queue) \in Seq(LaserScan)
        BY <3>1, <4>1
      <4> QED BY <1>7, <3>3, <4>2 DEF Publish
    <3> QED BY <3>2, <3>3
  <2>2. TypeOK'
    BY <1>7, <2>1 DEF Publish, IInv, TypeOK
  <2> QED
    BY <1>7, <2>2 DEF Publish, IInv, Declared, CallInProgress,
       BuffersFilled, CallbackInHand, CarrotInPath
<1>8. CASE ScanCallbackLock
  <2>1. Head(scan_queue) \in LaserScan /\ Tail(scan_queue) \in Seq(LaserScan)
    BY <1>8 DEF ScanCallbackLock, IInv, TypeOK
  <2>2. TypeOK'
    BY <1>8, <2>1 DEF ScanCallbackLock, IInv, TypeOK
  <2> QED
    BY <1>8, <2>1, <2>2 DEF ScanCallbackLock, IInv, Declared, CallInProgress,
       BuffersFilled, CallbackInHand, CarrotInPath
<1>9. CASE ScanCallbackStore
  <2>1. TypeOK'
    BY <1>9 DEF ScanCallbackStore, IInv, TypeOK
  <2> QED
    BY <1>9, <2>1 DEF ScanCallbackStore, IInv, Declared, CallInProgress,
       BuffersFilled, CallbackInHand, CarrotInPath
<1>10. ASSUME NEW path \in Path, SetPlan(path) PROVE IInv'
  <2>1. TypeOK'
    BY <1>10 DEF SetPlan, IInv, TypeOK
  <2>2. CarrotInPath'
    <3>1. path \in Seq(Position)
      BY ControllerAssumption
    <3>2. path # << >> => 1 \in DOMAIN path
      BY <3>1
    <3> QED BY <1>10, <3>2 DEF SetPlan, CarrotInPath
  <2> QED
    BY <1>10, <2>1, <2>2 DEF SetPlan, IInv, Declared, CallInProgress,
       BuffersFilled, CallbackInHand
<1>11. CASE ComputeStops
  <2>1. TypeOK'
    BY <1>11 DEF ComputeStops, IInv, TypeOK
  <2> QED
    BY <1>11, <2>1 DEF ComputeStops, IInv, Declared, CallInProgress,
       BuffersFilled, CallbackInHand, CarrotInPath
<1>12. ASSUME NEW pose \in Position, NEW yaw \in Yaw, NEW velocity \in Velocity,
              ComputeStart(pose, yaw, velocity)
       PROVE  IInv'
  <2>1. carrot_lookahead_' \in Lookahead
    BY <1>12 DEF ComputeStart, IInv, Declared
  <2>2. call' \in [pose : Position, yaw : Yaw, velocity : Velocity]
    BY <1>12 DEF ComputeStart
  <2>3. TypeOK'
    BY <1>12, <2>1, <2>2 DEF ComputeStart, IInv, TypeOK
  <2> QED
    BY <1>12, <2>2, <2>3 DEF ComputeStart, IInv, Declared, CallInProgress,
       BuffersFilled, CallbackInHand, CarrotInPath
<1>13. CASE SampleLock
  <2>1. TypeOK'
    BY <1>13 DEF SampleLock, IInv, TypeOK
  <2> QED
    BY <1>13, <2>1 DEF SampleLock, IInv, Declared, CallInProgress,
       BuffersFilled, CallbackInHand, CarrotInPath
<1>14. CASE SampleCopy
  <2>1. TypeOK'
    BY <1>14 DEF SampleCopy, IInv, TypeOK
  <2> QED
    BY <1>14, <2>1 DEF SampleCopy, IInv, Declared, CallInProgress,
       BuffersFilled, CallbackInHand, CarrotInPath
<1>15. CASE Observe
  <2> DEFINE scan == SampleScan(sample)
  <2>1. scan \in Scan
    BY SampleType DEF IInv, TypeOK
  <2>2. /\ buffers_ready_' = TRUE
        /\ frames_' \in [Frame -> Scan]
        /\ prev_scan_' \in Scan
        /\ temporal_' \in [Sector -> {-1, 0, 1}]
    BY <1>15, <2>1, UpdateLidarBuffersType DEF Observe
  <2>3. samples' \in Seq(Scan)
    BY <1>15, <2>1, RememberType DEF Observe, IInv, TypeOK
  <2> HIDE DEF scan
  <2>4. call \in [pose : Position, yaw : Yaw, velocity : Velocity]
    BY <1>15 DEF Observe, IInv, CallInProgress
  <2>5. current_path_ # << >> /\ current_path_ \in Seq(Position)
    BY <1>15, ControllerAssumption DEF Observe, IInv, CallInProgress, TypeOK
  <2>6. PICK i \in DOMAIN current_path_, j \in DOMAIN current_path_ :
          /\ carrot_idx_' = i
          /\ obs' = [frames |-> frames_', temporal |-> temporal_',
                     carrot |-> current_path_[j], pose |-> call.pose,
                     yaw |-> call.yaw, velocity |-> ClampUnit(call.velocity),
                     prev_act |-> last_action_]
    BY <1>15 DEF Observe
  <2>7. carrot_idx_' \in Nat \ {0}
    BY <2>5, <2>6
  <2>8. obs' \in Observation
    <3>1. current_path_[j] \in Position
      BY <2>5, <2>6
    <3>2. ClampUnit(call.velocity) \in Unit
      BY <2>4, ClampUnitType, ControllerAssumption
    <3>3. last_action_ \in Unit \X Unit
      BY DEF IInv, TypeOK
    <3> QED BY <2>2, <2>4, <2>6, <3>1, <3>2, <3>3 DEF Observation
  <2>9. CarrotInPath'
    BY <1>15, <2>6 DEF Observe, CarrotInPath
  <2>10. TypeOK'
    BY <1>15, <2>2, <2>3, <2>7, <2>8 DEF Observe, IInv, TypeOK
  <2> QED
    BY <1>15, <2>2, <2>8, <2>9, <2>10 DEF Observe, IInv, Declared,
       CallInProgress, BuffersFilled, CallbackInHand
<1>16. CASE InferReturns
  <2>1. PICK raw \in PolicyOutput(obs) : Infer(raw)
    BY <1>16 DEF InferReturns
  <2>2. raw \in (Int \cup {NaN}) \X (Int \cup {NaN})
    BY PolicyOutputType
  <2>3. ClampAction(raw) \in Unit \X Unit
    BY <2>2, ClampActionType
  <2>4. Command(ClampAction(raw)) \in [linear : Int \cup {NaN}, angular : Unit]
    BY <2>3, CommandType
  <2>5. TypeOK'
    BY <2>1, <2>3, <2>4 DEF Infer, IInv, TypeOK
  <2> QED
    BY <2>1, <2>5 DEF Infer, IInv, Declared, CallInProgress,
       BuffersFilled, CallbackInHand, CarrotInPath
<1>17. CASE InferThrows
  <2>1. TypeOK'
    BY <1>17 DEF InferThrows, IInv, TypeOK
  <2> QED
    BY <1>17, <2>1 DEF InferThrows, IInv, Declared, CallInProgress,
       BuffersFilled, CallbackInHand, CarrotInPath
<1>18. CASE UNCHANGED vars
  <2>1. TypeOK'
    BY <1>18 DEF vars, IInv, TypeOK
  <2> QED
    BY <1>18, <2>1 DEF vars, IInv, Declared, CallInProgress,
       BuffersFilled, CallbackInHand, CarrotInPath
<1> QED
  BY <1>1, <1>2, <1>3, <1>4, <1>5, <1>6, <1>7, <1>8, <1>9, <1>10, <1>11,
     <1>12, <1>13, <1>14, <1>15, <1>16, <1>17, <1>18
  DEF Next, ExecutorThread, Lifecycle, ControlThread

LEMMA SpecIInv == Spec => []IInv
BY InitIInv, NextIInv, PTL DEF Spec

(***************************************************************************)
(* Type correctness, for every instance: in particular every observation   *)
(* handed to the policy is made of filled frames.                          *)
(***************************************************************************)
THEOREM TypeCorrect == Spec => []TypeOK
<1>1. IInv => TypeOK
  BY DEF IInv
<1> QED BY <1>1, SpecIInv, PTL

-----------------------------------------------------------------------------
(***************************************************************************)
(* The refinement: RLController implements PolicyLoop.                     *)
(***************************************************************************)

\* Lifecycle transitions and messages leave the call in progress alone.
LEMMA WindowUnchanged ==
  ASSUME UNCHANGED <<control, sample, frames_, buffers_ready_>>
  PROVE  UNCHANGED <<LoopWindow, LoopPhase>>
<1>1. UNCHANGED SensedFrames
  BY DEF SensedFrames, PushFrame
<1> QED BY <1>1 DEF LoopWindow, LoopPhase

\* Where the thread is neither before nor after Observe, the window is the
\* frame stack.
LEMMA WindowIsStack ==
  ASSUME UNCHANGED <<frames_, buffers_ready_>>,
         control \in {"idle", "sample", "copying", "infer"},
         control' \in {"idle", "sample", "copying", "infer"}
  PROVE  UNCHANGED LoopWindow
<1>1. UNCHANGED SensedFrames
  BY DEF SensedFrames
<1> QED BY <1>1 DEF LoopWindow

\* A new object is a new loop.
LEMMA NewInstanceRenews ==
  ASSUME NewInstance, control = "idle", control' = "idle"
  PROVE  Loop!Renew
<1>1. LoopPhase = "idle" /\ LoopPhase' = "idle"
  BY DEF LoopPhase
<1>2. LoopWindow' = << >>
  BY DEF NewInstance, LoopWindow
<1> QED BY <1>1, <1>2 DEF NewInstance, FreshAction, Loop!Renew, Loop!Init

\* The copy of the scan under the mutex is the sensing.
LEMMA SampleCopySenses ==
  ASSUME IInv, SampleCopy
  PROVE  Loop!Sense
<1> USE DEF node, plan, buffers, outcome
<1>1. N_FRAMES \in Nat \ {0}
  BY ControllerAssumption
<1>2. control = "copying" /\ control' = "observe"
  BY DEF SampleCopy
<1>3. UNCHANGED <<last_scan_, current_path_, carrot_idx_, last_action_,
                  frames_, buffers_ready_>> /\ sample' = last_scan_
  BY DEF SampleCopy
<1>4. current_path_ # << >>
  BY <1>2 DEF IInv, CallInProgress
<1>5. LoopPhase = "idle" /\ LoopPhase' = "sensed"
  BY <1>2 DEF LoopPhase
<1> DEFINE x == SampleScan(last_scan_)
<1>6. SampleScan(sample') = x
  BY <1>3
<1>7. LoopWindow' = [n \in 1 .. N_FRAMES |-> SensedFrames'[n - 1]]
  BY <1>2 DEF LoopWindow
<1>8. LoopWindow' = Loop!Slide(x)
  <2> HIDE DEF x
  <2>1. CASE buffers_ready_
    <3>1. SensedFrames' = [f \in Frame |-> IF f = 0 THEN x ELSE frames_[f - 1]]
      <4>1. SensedFrames' = PushFrame(x)
        BY <1>2, <1>3, <1>6, <2>1 DEF SensedFrames, PushFrame
      <4> QED BY <4>1, PushFrameStack
    <3>2. LoopWindow = [n \in 1 .. N_FRAMES |-> frames_[n - 1]]
      BY <1>2, <2>1 DEF LoopWindow, SensedFrames
    <3>3. LoopWindow # << >>
      BY <1>1, <3>2
    <3>4. ASSUME NEW n \in 1 .. N_FRAMES
          PROVE  SensedFrames'[n - 1] = IF n = 1 THEN x ELSE LoopWindow[n - 1]
      <4>1. n - 1 \in Frame
        BY <1>1 DEF Frame
      <4>2. CASE n = 1
        BY <3>1, <4>1, <4>2
      <4>3. CASE n # 1
        <5>1. n - 1 \in 1 .. N_FRAMES /\ n - 1 # 0
          BY <1>1, <4>3
        <5> QED BY <3>1, <3>2, <4>1, <4>3, <5>1
      <4> QED BY <4>2, <4>3
    <3> QED BY <1>7, <3>3, <3>4 DEF Loop!Slide
  <2>2. CASE ~buffers_ready_
    <3>1. SensedFrames' = [f \in Frame |-> x]
      BY <1>2, <1>3, <1>6, <2>2 DEF SensedFrames
    <3>2. LoopWindow = << >>
      BY <1>2, <2>2 DEF LoopWindow
    <3>3. \A n \in 1 .. N_FRAMES : n - 1 \in Frame
      BY <1>1 DEF Frame
    <3> QED BY <1>7, <3>1, <3>2, <3>3 DEF Loop!Slide
  <2> QED BY <2>1, <2>2
<1> QED BY <1>3, <1>4, <1>5, <1>8 DEF Loop!Sense

\* Updating the buffers moves the sensed frame into them, and nothing else
\* of the loop but its progress.
LEMMA ObserveAims ==
  ASSUME IInv, Observe
  PROVE  Loop!Aim
<1> USE DEF node, subscription, outcome
<1>1. control = "observe" /\ control' = "infer"
  BY DEF Observe
<1>2. LoopPhase = "sensed" /\ LoopPhase' = "aimed"
  BY <1>1 DEF LoopPhase
<1>3. UpdateLidarBuffers(SampleScan(sample))
  BY DEF Observe
<1>4. SensedFrames = frames_' /\ SensedFrames' = frames_'
  BY <1>1, <1>3 DEF SensedFrames, UpdateLidarBuffers
<1>5. buffers_ready_' = TRUE
  BY <1>3 DEF UpdateLidarBuffers
<1>6. UNCHANGED LoopWindow
  BY <1>1, <1>4, <1>5 DEF LoopWindow
<1>7. carrot_idx_' \in carrot_idx_ .. Len(current_path_)
  <2>1. PICK i \in DOMAIN current_path_ :
          /\ IsNearest(current_path_, carrot_idx_, call.pose, i)
          /\ carrot_idx_' = i
    BY DEF Observe
  <2> QED BY <2>1 DEF IsNearest
<1>8. UNCHANGED <<last_scan_, current_path_, last_action_>>
  BY DEF Observe
<1> QED BY <1>2, <1>6, <1>7, <1>8 DEF Loop!Aim

LEMMA InitRefines == Init => Loop!Init
BY DEF Init, Loop!Init, LoopWindow, LoopPhase

LEMMA NextRefines == IInv /\ [Next]_vars => [Loop!Next]_Loop!vars
<1> SUFFICES ASSUME IInv, [Next]_vars PROVE [Loop!Next]_Loop!vars
  OBVIOUS
<1> USE DEF node, subscription, plan, buffers, outcome, locals
<1> DEFINE Same == UNCHANGED <<last_scan_, current_path_, carrot_idx_,
                               last_action_>>
<1>0. Same /\ UNCHANGED <<LoopWindow, LoopPhase>> => UNCHANGED Loop!vars
  BY DEF Loop!vars
<1>1. CASE Configure \/ Cleanup
  <2>1. NewInstance /\ control = "idle" /\ control' = "idle"
    BY <1>1 DEF Configure, Cleanup, IInv, CallInProgress
  <2> QED BY <2>1, NewInstanceRenews DEF Loop!Next
<1>2. CASE \/ ConfigureThrows \/ Activate \/ Deactivate
           \/ ScanCallbackLock \/ ComputeStops \/ UNCHANGED vars
           \/ \E v \in Lookahead : SetParameter(v)
           \/ \E m \in LaserScan : Publish(m)
  <2>1. Same /\ UNCHANGED <<control, sample, frames_, buffers_ready_>>
    BY <1>2 DEF ConfigureThrows, Activate, Deactivate, ScanCallbackLock,
       ComputeStops, SetParameter, Publish, vars
  <2> QED BY <1>0, <2>1, WindowUnchanged
<1>3. CASE ScanCallbackStore
  <2>1. in_hand \in LaserScan
    BY <1>3 DEF ScanCallbackStore, IInv, CallbackInHand
  <2>2. UNCHANGED <<control, sample, frames_, buffers_ready_>>
    BY <1>3 DEF ScanCallbackStore
  <2>3. Loop!Deliver(in_hand)
    BY <1>3, <2>2, WindowUnchanged DEF ScanCallbackStore, Loop!Deliver
  <2> QED BY <2>1, <2>3 DEF Loop!Next
<1>4. ASSUME NEW path \in Path, SetPlan(path) PROVE [Loop!Next]_Loop!vars
  <2>1. LoopPhase = "idle"
    BY <1>4 DEF SetPlan, LoopPhase
  <2>2. UNCHANGED <<control, sample, frames_, buffers_ready_>>
    BY <1>4 DEF SetPlan
  <2>3. Loop!NewPlan(path)
    BY <1>4, <2>1, <2>2, WindowUnchanged DEF SetPlan, Loop!NewPlan
  <2> QED BY <2>3 DEF Loop!Next
<1>5. CASE \/ SampleLock
           \/ \E pose \in Position, yaw \in Yaw, velocity \in Velocity :
                ComputeStart(pose, yaw, velocity)
  <2>1. /\ Same /\ UNCHANGED <<frames_, buffers_ready_>>
        /\ control \in {"idle", "sample"}
        /\ control' \in {"sample", "copying"}
    BY <1>5 DEF SampleLock, ComputeStart
  <2>2. UNCHANGED LoopPhase
    BY <2>1 DEF LoopPhase
  <2> QED BY <1>0, <2>1, <2>2, WindowIsStack
<1>6. CASE SampleCopy
  BY <1>6, SampleCopySenses DEF Loop!Next
<1>7. CASE Observe
  BY <1>7, ObserveAims DEF Loop!Next
<1>8. CASE InferReturns
  <2>1. PICK raw \in PolicyOutput(obs) : Infer(raw)
    BY <1>8 DEF InferReturns
  <2>2. last_action_' \in Unit \X Unit
    BY <2>1, PolicyOutputType, ClampActionType DEF Infer
  <2>3. UNCHANGED LoopWindow /\ LoopPhase = "aimed" /\ LoopPhase' = "idle"
    BY <2>1, WindowIsStack DEF Infer, LoopPhase
  <2>4. Loop!Decide
    BY <2>1, <2>2, <2>3 DEF Infer, Loop!Decide
  <2> QED BY <2>4 DEF Loop!Next
<1>9. CASE InferThrows
  <2>1. UNCHANGED LoopWindow /\ LoopPhase = "aimed" /\ LoopPhase' = "idle"
    BY <1>9, WindowIsStack DEF InferThrows, LoopPhase
  <2>2. Loop!Fail
    BY <1>9, <2>1 DEF InferThrows, Loop!Fail
  <2> QED BY <2>2 DEF Loop!Next
<1> QED
  BY <1>1, <1>2, <1>3, <1>4, <1>5, <1>6, <1>7, <1>8, <1>9
  DEF Next, ExecutorThread, Lifecycle, ControlThread

(***************************************************************************)
(* The plugin, with its two threads, its queue and its mutex, is a loop    *)
(* that senses atomically, aims and decides (rl_controller.cpp:83-88,      *)
(* 98-102, 104-168, 190-282).                                              *)
(***************************************************************************)
THEOREM Refinement == Spec => ImplementsLoop
BY InitRefines, NextRefines, SpecIInv, PTL DEF Spec, ImplementsLoop, Loop!Spec

-----------------------------------------------------------------------------
(***************************************************************************)
(* The mutex.                                                              *)
(***************************************************************************)

\* scan_mtx_ is held exactly by the thread inside its critical section.
MutexHeld ==
  /\ executor = "storing" <=> scan_mtx_ = "executor"
  /\ control = "copying" <=> scan_mtx_ = "control"

LEMMA MutexHeldInductive ==
  /\ Init => MutexHeld
  /\ MutexHeld /\ [Next]_vars => MutexHeld'
<1> USE DEF node, subscription, plan, buffers, outcome, locals
<1>1. Init => MutexHeld
  BY DEF Init, MutexHeld
<1>2. ASSUME MutexHeld, [Next]_vars PROVE MutexHeld'
  <2>1. CASE Lifecycle
    BY <1>2, <2>1 DEF MutexHeld, Lifecycle, Configure, ConfigureThrows,
       Activate, Deactivate, Cleanup
  <2>2. ASSUME NEW v \in Lookahead, SetParameter(v) PROVE MutexHeld'
    BY <1>2, <2>2 DEF MutexHeld, SetParameter
  <2>3. ASSUME NEW m \in LaserScan, Publish(m) PROVE MutexHeld'
    BY <1>2, <2>3 DEF MutexHeld, Publish
  <2>4. CASE ScanCallbackLock
    BY <1>2, <2>4 DEF MutexHeld, ScanCallbackLock
  <2>5. CASE ScanCallbackStore
    BY <1>2, <2>5 DEF MutexHeld, ScanCallbackStore
  <2>6. ASSUME NEW path \in Path, SetPlan(path) PROVE MutexHeld'
    BY <1>2, <2>6 DEF MutexHeld, SetPlan
  <2>7. CASE ComputeStops
    BY <1>2, <2>7 DEF MutexHeld, ComputeStops
  <2>8. ASSUME NEW pose \in Position, NEW yaw \in Yaw, NEW velocity \in Velocity,
               ComputeStart(pose, yaw, velocity)
        PROVE  MutexHeld'
    BY <1>2, <2>8 DEF MutexHeld, ComputeStart
  <2>9. CASE SampleLock
    BY <1>2, <2>9 DEF MutexHeld, SampleLock
  <2>10. CASE SampleCopy
    BY <1>2, <2>10 DEF MutexHeld, SampleCopy
  <2>11. CASE Observe
    BY <1>2, <2>11 DEF MutexHeld, Observe
  <2>12. CASE InferReturns
    BY <1>2, <2>12 DEF MutexHeld, InferReturns, Infer
  <2>13. CASE InferThrows
    BY <1>2, <2>13 DEF MutexHeld, InferThrows
  <2>14. CASE UNCHANGED vars
    BY <1>2, <2>14 DEF MutexHeld, vars
  <2> QED
    BY <1>2, <2>1, <2>2, <2>3, <2>4, <2>5, <2>6, <2>7, <2>8, <2>9, <2>10,
       <2>11, <2>12, <2>13, <2>14 DEF Next, ExecutorThread, ControlThread
<1> QED BY <1>1, <1>2

(***************************************************************************)
(* The callback's assignment to last_scan_ and the control thread's copy   *)
(* of it exclude each other (rl_controller.cpp:86-87, 196-197).            *)
(***************************************************************************)
THEOREM NoTornScanHolds == Spec => []NoTornScan
<1>1. MutexHeld => NoTornScan
  BY DEF MutexHeld, NoTornScan
<1> QED BY <1>1, MutexHeldInductive, PTL DEF Spec

-----------------------------------------------------------------------------
(***************************************************************************)
(* The carrot.                                                             *)
(***************************************************************************)

(***************************************************************************)
(* Whatever plans follow one another, carrot_idx_ is an index of the plan  *)
(* in force when there is one (rl_controller.cpp:98-102, 263-281).         *)
(***************************************************************************)
THEOREM CarrotInPathHolds == Spec => []CarrotInPath
<1>1. IInv => CarrotInPath
  BY DEF IInv
<1> QED BY <1>1, SpecIInv, PTL

(***************************************************************************)
(* Inside a call the search never goes back to a pose already passed       *)
(* ("never moving backward", rl_controller.cpp:261-269).                   *)
(***************************************************************************)
THEOREM CarrotNeverBackwardHolds == Spec => CarrotNeverBackward
<1> USE DEF node, subscription, plan, buffers, outcome, locals
<1> DEFINE Forward == control # "idle" => carrot_idx_' >= carrot_idx_
<1>1. ASSUME IInv, [Next]_vars PROVE [Forward]_vars
  <2> SUFFICES ASSUME control # "idle" PROVE carrot_idx_' >= carrot_idx_
    OBVIOUS
  <2>0. carrot_idx_ \in Nat
    BY <1>1 DEF IInv, TypeOK
  <2>1. CASE UNCHANGED carrot_idx_
    BY <2>0, <2>1
  <2>2. CASE Lifecycle
    <3>1. ~Configure /\ ~Deactivate /\ ~Cleanup
      BY <1>1 DEF Configure, Deactivate, Cleanup, IInv, CallInProgress
    <3> QED BY <3>1, <2>1, <2>2 DEF Lifecycle, ConfigureThrows, Activate
  <2>3. CASE Observe
    <3>1. current_path_ \in Seq(Position)
      BY <1>1, <2>3, ControllerAssumption
      DEF IInv, TypeOK, CallInProgress, Observe
    <3>2. PICK i \in DOMAIN current_path_ :
            /\ IsNearest(current_path_, carrot_idx_, call.pose, i)
            /\ carrot_idx_' = i
      BY <2>3 DEF Observe
    <3>3. i \in carrot_idx_ .. Len(current_path_)
      BY <3>2 DEF IsNearest
    <3> QED BY <2>0, <3>1, <3>2, <3>3
  <2>4. CASE ~Lifecycle /\ ~Observe
    <3>1. UNCHANGED carrot_idx_
      BY <1>1, <2>4 DEF Next, ExecutorThread, ControlThread, SetParameter,
         Publish, ScanCallbackLock, ScanCallbackStore, SetPlan, ComputeStops,
         ComputeStart, SampleLock, SampleCopy, InferReturns, Infer,
         InferThrows, vars
    <3> QED BY <3>1, <2>1
  <2> QED BY <2>2, <2>3, <2>4
<1> QED BY <1>1, SpecIInv, PTL DEF Spec, CarrotNeverBackward

-----------------------------------------------------------------------------
(***************************************************************************)
(* The command.                                                            *)
(***************************************************************************)

LEMMA FeedbackInductive ==
  /\ Init => FeedbackExplainsCommand
  /\ FeedbackExplainsCommand /\ [Next]_vars => FeedbackExplainsCommand'
<1> USE DEF node, subscription, plan, buffers, outcome, locals
<1>1. Init => FeedbackExplainsCommand
  BY DEF Init, FeedbackExplainsCommand
<1>2. ASSUME FeedbackExplainsCommand, [Next]_vars
      PROVE  FeedbackExplainsCommand'
  <2>1. CASE UNCHANGED <<last_action_, cmd>>
    <3>1. Command(last_action_)' = Command(last_action_)
      BY <2>1 DEF Command
    <3> QED BY <1>2, <2>1, <3>1 DEF FeedbackExplainsCommand
  <2>2. CASE NewInstance
    BY <2>2 DEF NewInstance, FeedbackExplainsCommand
  <2>3. CASE InferReturns
    <3>1. PICK raw \in PolicyOutput(obs) : Infer(raw)
      BY <2>3 DEF InferReturns
    <3>2. last_action_' = ClampAction(raw) /\ cmd' = Command(ClampAction(raw))
      BY <3>1 DEF Infer
    <3>3. Command(last_action_)' = Command(ClampAction(raw))
      BY <3>2 DEF Command
    <3> QED BY <3>2, <3>3 DEF FeedbackExplainsCommand
  <2>4. CASE ~NewInstance /\ ~InferReturns
    <3>1. UNCHANGED <<last_action_, cmd>>
      BY <1>2, <2>4 DEF Next, ExecutorThread, ControlThread, Lifecycle,
         Configure, ConfigureThrows, Activate, Deactivate, Cleanup,
         SetParameter, Publish, ScanCallbackLock, ScanCallbackStore, SetPlan,
         ComputeStops, ComputeStart, SampleLock, SampleCopy, Observe,
         InferThrows, vars
    <3> QED BY <3>1, <2>1
  <2> QED BY <2>2, <2>3, <2>4
<1> QED BY <1>1, <1>2

(***************************************************************************)
(* last_action_, which the next observation feeds back to the policy, is   *)
(* always the action behind the last command (rl_controller.cpp:153-154,   *)
(* 167-179).                                                               *)
(***************************************************************************)
THEOREM FeedbackHolds == Spec => []FeedbackExplainsCommand
BY FeedbackInductive, PTL DEF Spec

(***************************************************************************)
(* Forward only, within the limits, and never slowed by turning below 40%  *)
(* of the speed the policy asked for (rl_controller.cpp:167-179).          *)
(***************************************************************************)
LEMMA CommandLimits ==
  ASSUME NEW a \in Unit \X Unit
  PROVE  /\ Command(a).angular # NaN => Command(a).angular \in -ONE .. ONE
         /\ Command(a).linear # NaN =>
              /\ Command(a).linear \in 0 .. MAX_LIN
              /\ 10 * Command(a).linear >= 4 * 10 * ONE * (a[1] + ONE)
<1>1. ONE \in Nat \ {0} /\ a[1] \in Unit /\ a[2] \in Unit
  BY ControllerAssumption
<1>2. Command(a).angular = a[2]
  BY DEF Command
<1>3. ASSUME Command(a).linear # NaN
      PROVE  /\ Command(a).linear \in 0 .. MAX_LIN
             /\ 10 * Command(a).linear >= 4 * 10 * ONE * (a[1] + ONE)
  <2>1. a[1] \in -ONE .. ONE /\ a[2] \in -ONE .. ONE
    BY <1>1, <1>3 DEF Command, Unit
  <2> DEFINE forward == a[1] + ONE
             scale == TurnScale(a[2])
  <2>2. Command(a).linear = forward * scale
    BY <1>3 DEF Command
  <2>3. forward \in 0 .. 2 * ONE
    BY <1>1, <2>1
  <2>4. scale \in 4 * ONE .. 10 * ONE
    BY <2>1, TurnScaleRange
  <2> HIDE DEF forward, scale
  <2>5. forward * scale \in Nat /\ forward * scale <= 2 * ONE * scale
    BY <1>1, <2>3, <2>4
  <2>6. 2 * ONE * scale <= 2 * ONE * (10 * ONE)
    BY <1>1, <2>4
  <2>7. 2 * ONE * (10 * ONE) = MAX_LIN
    BY <1>1 DEF MAX_LIN
  <2>8. 2 * ONE * scale \in Nat /\ MAX_LIN \in Nat
    BY <1>1, <2>4 DEF MAX_LIN
  <2>9. forward * scale <= MAX_LIN
    BY <2>5, <2>6, <2>7, <2>8
  <2>10. forward * scale >= forward * (4 * ONE)
    BY <1>1, <2>3, <2>4
  <2>11. 10 * (forward * scale) >= 4 * 10 * ONE * forward
    <3>1. 10 * (forward * (4 * ONE)) = 4 * 10 * ONE * forward
      BY <1>1, <2>3
    <3>2. forward * (4 * ONE) \in Nat
      BY <1>1, <2>3
    <3> QED BY <2>5, <2>10, <3>1, <3>2
  <2> QED BY <2>2, <2>5, <2>8, <2>9, <2>11 DEF forward
<1> QED BY <1>1, <1>2, <1>3 DEF Unit

THEOREM CommandWithinLimitsHolds == Spec => []CommandWithinLimits
<1>1. IInv /\ FeedbackExplainsCommand => CommandWithinLimits
  <2> SUFFICES ASSUME IInv, FeedbackExplainsCommand, cmd # NoCmd
               PROVE  /\ cmd.angular # NaN => cmd.angular \in -ONE .. ONE
                      /\ cmd.linear # NaN =>
                           /\ cmd.linear \in 0 .. MAX_LIN
                           /\ 10 * cmd.linear
                                >= 4 * 10 * ONE * (last_action_[1] + ONE)
    BY DEF CommandWithinLimits
  <2>1. cmd = Command(last_action_) /\ last_action_ \in Unit \X Unit
    BY DEF FeedbackExplainsCommand, IInv, TypeOK
  <2> QED BY <2>1, CommandLimits
<1> QED BY <1>1, SpecIInv, FeedbackHolds, PTL

-----------------------------------------------------------------------------
(***************************************************************************)
(* NaN.                                                                    *)
(***************************************************************************)

\* What a call carries is finite as long as no call was given a NaN; the plan
\* of a call does not change before its observation.
CleanInside ==
  ~tainted =>
    /\ NaN \notin {last_action_[1], last_action_[2]}
    /\ control \in {"sample", "copying", "observe"} =>
         ~GivenNaN(call.pose, call.yaw, call.velocity)
    /\ control = "infer" => ~Poisoned(obs)

LEMMA CleanInsideInductive ==
  /\ Init => CleanInside
  /\ IInv /\ CleanInside /\ [Next]_vars => CleanInside'
<1> USE DEF node, subscription, plan, buffers, outcome, locals
<1>0. NaN \notin Int /\ ONE \in Nat
  BY ControllerAssumption
<1>1. Init => CleanInside
  BY <1>0 DEF Init, CleanInside
<1>2. ASSUME IInv, CleanInside, [Next]_vars PROVE CleanInside'
  <2>1. CASE UNCHANGED <<tainted, last_action_, control, call, obs, plan>>
    BY <1>2, <2>1 DEF CleanInside, Poisoned, GivenNaN
  <2>2. CASE Configure \/ Cleanup
    <3>1. NewInstance /\ control' = "idle"
      BY <1>2, <2>2 DEF Configure, Cleanup, IInv, CallInProgress
    <3> QED BY <1>0, <3>1 DEF NewInstance, FreshAction, CleanInside
  <2>3. ASSUME NEW pose \in Position, NEW yaw \in Yaw, NEW velocity \in Velocity,
               ComputeStart(pose, yaw, velocity)
        PROVE  CleanInside'
    <3>1. /\ call' = [pose |-> pose, yaw |-> yaw, velocity |-> velocity]
          /\ control' = "sample" /\ UNCHANGED <<plan, last_action_>>
      BY <2>3 DEF ComputeStart
    <3>2. ~tainted' => ~tainted /\ ~GivenNaN(pose, yaw, velocity)
      BY <2>3 DEF ComputeStart
    <3>3. ~tainted' => ~GivenNaN(call.pose, call.yaw, call.velocity)'
      BY <3>1, <3>2 DEF GivenNaN
    <3> QED BY <1>2, <3>1, <3>2, <3>3 DEF CleanInside
  <2>4. CASE SampleLock \/ SampleCopy
    BY <1>2, <2>4 DEF SampleLock, SampleCopy, CleanInside, GivenNaN
  <2>5. CASE Observe
    <3> SUFFICES ASSUME ~tainted PROVE ~Poisoned(obs)'
      BY <1>2, <2>5 DEF Observe, CleanInside
    <3>1. NaN \notin {last_action_[1], last_action_[2]}
          /\ ~GivenNaN(call.pose, call.yaw, call.velocity)
      BY <1>2, <2>5 DEF CleanInside, Observe
    <3>2. PICK i, j \in DOMAIN current_path_ :
            /\ IsNearest(current_path_, carrot_idx_, call.pose, i)
            /\ IsCarrot(current_path_, i, carrot_lookahead_, j)
            /\ obs' = [frames |-> frames_', temporal |-> temporal_',
                       carrot |-> current_path_[j], pose |-> call.pose,
                       yaw |-> call.yaw, velocity |-> ClampUnit(call.velocity),
                       prev_act |-> last_action_]
      BY <2>5 DEF Observe
    <3>3. j \in carrot_idx_ .. Len(current_path_)
      <4>1. current_path_ \in Seq(Position) /\ carrot_idx_ \in Nat
        BY <1>2, <2>5, ControllerAssumption
        DEF IInv, TypeOK, CallInProgress, Observe
      <4> QED BY <3>2, <4>1 DEF IsNearest, IsCarrot
    <3>4. NaN \notin {call.pose, call.yaw, call.velocity, current_path_[j]}
      BY <3>1, <3>3 DEF GivenNaN
    <3>5. call.velocity \in Int \cup {NaN}
      BY <1>2, <2>5, ControllerAssumption DEF IInv, CallInProgress, Observe
    <3>6. ClampUnit(call.velocity) # NaN
      BY <1>0, <3>4, <3>5 DEF ClampUnit, Clamp
    <3> QED BY <3>1, <3>2, <3>4, <3>6 DEF Poisoned
  <2>6. CASE InferReturns
    <3>1. PICK raw \in PolicyOutput(obs) : Infer(raw)
      BY <2>6 DEF InferReturns
    <3>2. ASSUME ~tainted PROVE NaN \notin {last_action_'[1], last_action_'[2]}
      <4>1. raw \in Int \X Int
        BY <1>2, <2>6, <3>1, <3>2, ControllerAssumption
        DEF CleanInside, PolicyOutput, InferReturns
      <4>2. ClampUnit(raw[1]) \in Int /\ ClampUnit(raw[2]) \in Int
        BY <1>0, <4>1 DEF ClampUnit, Clamp
      <4> QED BY <1>0, <3>1, <4>2 DEF Infer, ClampAction
    <3> QED BY <3>1, <3>2 DEF Infer, CleanInside
  <2>7. CASE InferThrows
    BY <1>2, <2>7 DEF InferThrows, CleanInside
  <2>8. ASSUME NEW path \in Path, SetPlan(path) PROVE CleanInside'
    BY <1>2, <2>8 DEF SetPlan, CleanInside
  <2> QED
    BY <1>2, <2>1, <2>2, <2>3, <2>4, <2>5, <2>6, <2>7, <2>8
    DEF Next, ExecutorThread, ControlThread, Lifecycle, ConfigureThrows,
        Activate, Deactivate, SetParameter, Publish, ScanCallbackLock,
        ScanCallbackStore, ComputeStops, vars
<1> QED BY <1>1, <1>2

(***************************************************************************)
(* A NaN in the action or in the command was given to a call before: as a  *)
(* pose, a velocity or a pose of its plan not passed yet.  The search only *)
(* goes forward and the walk starts where it stops, so the carrot is among *)
(* those (rl_controller.cpp:128-154, 167-168, 263-281).                    *)
(***************************************************************************)
THEOREM CleanInputsCleanCommandHolds == Spec => []CleanInputsCleanCommand
<1>1. IInv /\ CleanInside /\ FeedbackExplainsCommand => CleanInputsCleanCommand
  <2> SUFFICES ASSUME IInv, CleanInside, FeedbackExplainsCommand, ~tainted
               PROVE  /\ NaN \notin {last_action_[1], last_action_[2]}
                      /\ cmd # NoCmd => NaN \notin {cmd.linear, cmd.angular}
    BY DEF CleanInputsCleanCommand
  <2>1. NaN \notin {last_action_[1], last_action_[2]}
    BY DEF CleanInside
  <2>2. last_action_[1] \in -ONE .. ONE /\ last_action_[2] \in -ONE .. ONE
    BY <2>1 DEF IInv, TypeOK, Unit
  <2>3. ASSUME cmd # NoCmd PROVE NaN \notin {cmd.linear, cmd.angular}
    <3>1. cmd = Command(last_action_)
      BY <2>3 DEF FeedbackExplainsCommand
    <3>2. cmd.angular = last_action_[2]
      BY <3>1 DEF Command
    <3>3. cmd.linear = (last_action_[1] + ONE) * TurnScale(last_action_[2])
      BY <2>1, <3>1 DEF Command
    <3>4. last_action_[1] + ONE \in Int /\ TurnScale(last_action_[2]) \in Int
      BY <2>2, TurnScaleRange, ControllerAssumption
    <3>5. cmd.linear \in Int
      BY <3>3, <3>4
    <3> QED BY <2>2, <3>2, <3>5, ControllerAssumption
  <2> QED BY <2>1, <2>3
<1> QED
  BY <1>1, SpecIInv, CleanInsideInductive, FeedbackHolds, PTL DEF Spec

-----------------------------------------------------------------------------
(***************************************************************************)
(* The parameter.                                                          *)
(***************************************************************************)

(***************************************************************************)
(* No lifecycle transition, failed or not, brings the default lookahead    *)
(* back (rl_controller.cpp:69-73).                                         *)
(***************************************************************************)
THEOREM TuningSurvivesLifecycleHolds == Spec => TuningSurvivesLifecycle
<1>1. [Next]_vars =>
        [Lifecycle /\ parameter # Undeclared => parameter' = parameter]_vars
  BY DEF Lifecycle, Configure, ConfigureThrows, DeclareLookahead, Activate,
     Deactivate, Cleanup
<1> QED BY <1>1, PTL DEF Spec, TuningSurvivesLifecycle

-----------------------------------------------------------------------------
(***************************************************************************)
(* The frame stack.                                                        *)
(***************************************************************************)

\* One call of updateLidarBuffers keeps the stack equal to the last samples.
LEMMA PushKeepsHistory ==
  ASSUME IInv, FramesAreHistory, NEW scan \in Scan,
         UpdateLidarBuffers(scan), Remember(scan)
  PROVE  FramesAreHistory'
<1>1. N_FRAMES \in Nat \ {0}
  BY ControllerAssumption
<1>2. samples \in Seq(Scan) /\ Len(samples) \in Nat
  BY DEF IInv, TypeOK
<1>3. buffers_ready_' = TRUE /\ prev_scan_' = scan
  BY DEF UpdateLidarBuffers
<1>4. CASE ~buffers_ready_
  <2>1. samples = << >>
    BY <1>4 DEF FramesAreHistory
  <2>2. samples' = <<scan>>
    BY <1>1, <2>1 DEF Remember
  <2>3. frames_' = [f \in Frame |-> scan]
    BY <1>4 DEF UpdateLidarBuffers
  <2>4. /\ samples' # << >> /\ Len(samples') = 1 /\ samples'[1] = scan
        /\ samples'[Len(samples')] = scan
    BY <2>2
  <2>5. ASSUME NEW f \in Frame, f < 1 PROVE samples'[f + 1] = scan
    <3>1. f = 0
      BY <1>1, <2>5 DEF Frame
    <3> QED BY <3>1, <2>4
  <2> QED
    BY <1>1, <1>3, <2>3, <2>4, <2>5 DEF FramesAreHistory
<1>5. CASE buffers_ready_
  <2>1. /\ Len(samples) \in 1 .. N_FRAMES
        /\ \A f \in Frame : frames_[f] = IF f < Len(samples)
                                         THEN samples[f + 1]
                                         ELSE samples[Len(samples)]
    BY <1>1, <1>2, <1>5 DEF FramesAreHistory
  <2>2. /\ frames_'[0] = scan
        /\ \A f \in Frame \ {0} : frames_'[f] = frames_[f - 1]
    BY <1>1, <1>5, PushFrameStack DEF UpdateLidarBuffers, Frame
  <2>3. \A f \in Frame \ {0} : f \in Nat /\ f >= 1 /\ f - 1 \in Frame
    BY <1>1 DEF Frame
  <2>4. CASE Len(samples) < N_FRAMES
    <3>1. samples' = <<scan>> \o samples
      BY <2>4 DEF Remember
    <3>2. /\ Len(samples') = Len(samples) + 1
          /\ samples'[1] = scan
          /\ \A n \in 1 .. Len(samples) : samples'[n + 1] = samples[n]
      BY <1>2, <3>1
    <3>3. ASSUME NEW f \in Frame
          PROVE  frames_'[f] = IF f < Len(samples') THEN samples'[f + 1]
                               ELSE samples'[Len(samples')]
      <4>1. CASE f = 0
        BY <4>1, <1>2, <2>1, <2>2, <3>2
      <4>2. CASE f # 0
        <5>1. frames_'[f] = IF f - 1 < Len(samples) THEN samples[f - 1 + 1]
                            ELSE samples[Len(samples)]
          BY <4>2, <2>1, <2>2, <2>3
        <5>2. f \in Nat /\ f >= 1
          BY <4>2, <2>3
        <5>3. CASE f < Len(samples')
          <6>1. f \in 1 .. Len(samples)
            BY <5>2, <5>3, <1>2, <3>2
          <6> QED BY <5>1, <5>3, <6>1, <1>2, <3>2
        <5>4. CASE ~(f < Len(samples'))
          <6>1. ~(f - 1 < Len(samples)) /\ Len(samples) \in 1 .. Len(samples)
            BY <5>2, <5>4, <1>2, <2>1, <3>2
          <6> QED BY <5>1, <5>4, <6>1, <3>2
        <5> QED BY <5>3, <5>4
      <4> QED BY <4>1, <4>2
    <3>4. samples' # << >> /\ Len(samples') <= N_FRAMES
      BY <1>1, <1>2, <2>1, <2>4, <3>1, <3>2
    <3> QED BY <1>3, <3>2, <3>3, <3>4 DEF FramesAreHistory
  <2>5. CASE ~(Len(samples) < N_FRAMES)
    <3>1. Len(samples) = N_FRAMES
      BY <1>1, <2>1, <2>5
    <3> DEFINE kept == SubSeq(samples, 1, N_FRAMES - 1)
    <3>2. /\ kept \in Seq(Scan)
          /\ Len(kept) = N_FRAMES - 1
          /\ \A n \in 1 .. N_FRAMES - 1 : kept[n] = samples[n]
      BY <1>1, <1>2, <3>1
    <3>3. samples' = <<scan>> \o kept
      BY <2>5 DEF Remember
    <3> HIDE DEF kept
    <3>4. /\ Len(samples') = N_FRAMES
          /\ samples'[1] = scan
          /\ \A n \in 1 .. N_FRAMES - 1 : samples'[n + 1] = samples[n]
      BY <1>1, <3>2, <3>3
    <3>5. ASSUME NEW f \in Frame
          PROVE  frames_'[f] = IF f < Len(samples') THEN samples'[f + 1]
                               ELSE samples'[Len(samples')]
      <4>1. f \in Nat /\ f < N_FRAMES
        BY <1>1 DEF Frame
      <4>2. CASE f = 0
        BY <4>1, <4>2, <2>2, <3>4
      <4>3. CASE f # 0
        <5>1. frames_'[f] = frames_[f - 1] /\ f - 1 \in Frame
          BY <4>3, <2>2, <2>3
        <5>2. frames_[f - 1] = samples[f]
          BY <5>1, <4>1, <4>3, <2>1, <3>1, <1>1
        <5>3. f \in 1 .. N_FRAMES - 1
          BY <4>1, <4>3, <1>1
        <5> QED BY <5>1, <5>2, <5>3, <4>1, <3>4
      <4> QED BY <4>2, <4>3
    <3>6. samples' # << >> /\ Len(samples') <= N_FRAMES
      BY <1>1, <3>3, <3>4
    <3> QED BY <1>3, <3>4, <3>5, <3>6 DEF FramesAreHistory
  <2> QED BY <2>4, <2>5
<1> QED BY <1>4, <1>5

LEMMA HistoryInductive ==
  /\ Init => FramesAreHistory
  /\ IInv /\ FramesAreHistory /\ [Next]_vars => FramesAreHistory'
<1> USE DEF node, subscription, plan, buffers, outcome, locals
<1>1. Init => FramesAreHistory
  BY ControllerAssumption DEF Init, FramesAreHistory
<1>2. ASSUME IInv, FramesAreHistory, [Next]_vars PROVE FramesAreHistory'
  <2>1. CASE UNCHANGED buffers
    BY <1>2, <2>1 DEF FramesAreHistory
  <2>2. CASE NewInstance
    <3>1. buffers_ready_' = FALSE /\ samples' = << >> /\ Len(samples') = 0
      BY <2>2 DEF NewInstance
    <3> QED BY <3>1, ControllerAssumption DEF FramesAreHistory
  <2>3. CASE Observe
    <3>1. SampleScan(sample) \in Scan
      BY <1>2, SampleType DEF IInv, TypeOK
    <3> QED BY <1>2, <2>3, <3>1, PushKeepsHistory DEF Observe
  <2>4. CASE ~NewInstance /\ ~Observe
    <3>1. UNCHANGED buffers
      BY <1>2, <2>4 DEF Next, ExecutorThread, ControlThread, Lifecycle,
         Configure, ConfigureThrows, Activate, Deactivate, Cleanup,
         SetParameter, Publish, ScanCallbackLock, ScanCallbackStore, SetPlan,
         ComputeStops, ComputeStart, SampleLock, SampleCopy, InferReturns,
         Infer, InferThrows, vars
    <3> QED BY <3>1, <2>1
  <2> QED BY <2>2, <2>3, <2>4
<1> QED BY <1>1, <1>2

(***************************************************************************)
(* The stack is the last N_FRAMES samples, whatever happened in between    *)
(* (rl_controller.cpp:216-227, 243).                                       *)
(***************************************************************************)
THEOREM FramesAreHistoryHolds == Spec => []FramesAreHistory
BY HistoryInductive, SpecIInv, PTL DEF Spec

-----------------------------------------------------------------------------
(***************************************************************************)
(* The temporal feature.                                                   *)
(***************************************************************************)

\* No sector is empty.
LEMMA SectorNotEmpty ==
  ASSUME NEW s \in Sector
  PROVE  \E k : k \in SectorRays(s)
<1>1. /\ N_RAYS \div N_SECTORS \in Nat \ {0}
      /\ N_RAYS % N_SECTORS \in Nat
      /\ N_SECTORS \in Nat \ {0}
  BY Division, SamplingAssumption
<1> DEFINE base == N_RAYS \div N_SECTORS
           rem == N_RAYS % N_SECTORS
<1>2. /\ SectorStart(s) = s * base + (IF s < rem THEN s ELSE rem)
      /\ SectorLen(s) = base + (IF s < rem THEN 1 ELSE 0)
  BY DEF SectorStart, SectorLen
<1> HIDE DEF base, rem
<1>3. s * base \in Int /\ s \in Int
  BY <1>1 DEF Sector, base
<1>4. SectorStart(s) \in Int /\ SectorLen(s) \in Nat \ {0}
  BY <1>1, <1>2, <1>3 DEF base, rem
<1>5. SectorStart(s) \in SectorRays(s)
  BY <1>4 DEF SectorRays
<1> QED BY <1>5

\* The sectors hold rays only.
LEMMA SectorRaysAreRays ==
  ASSUME NEW s \in Sector, NEW k \in SectorRays(s)
  PROVE  k \in Ray
<1>1. /\ N_RAYS \div N_SECTORS \in Nat \ {0}
      /\ N_RAYS % N_SECTORS \in 0 .. N_SECTORS - 1
      /\ N_SECTORS \in Nat \ {0}
      /\ N_RAYS = N_SECTORS * (N_RAYS \div N_SECTORS) + (N_RAYS % N_SECTORS)
  BY Division, SamplingAssumption
<1> DEFINE base == N_RAYS \div N_SECTORS
           rem == N_RAYS % N_SECTORS
<1>2. /\ SectorStart(s) = s * base + (IF s < rem THEN s ELSE rem)
      /\ SectorLen(s) = base + (IF s < rem THEN 1 ELSE 0)
  BY DEF SectorStart, SectorLen
<1>3. /\ base \in Nat \ {0} /\ rem \in 0 .. N_SECTORS - 1
      /\ N_SECTORS \in Nat \ {0} /\ N_RAYS = N_SECTORS * base + rem
  BY <1>1
<1> HIDE DEF base, rem
<1>4. s \in Nat /\ s + 1 <= N_SECTORS
  BY <1>3 DEF Sector
<1>5. s * base \in Nat /\ s * base + base <= N_SECTORS * base
  <2>1. (s + 1) * base <= N_SECTORS * base
    BY <1>3, <1>4
  <2>2. (s + 1) * base = s * base + base
    BY <1>3, <1>4
  <2> QED BY <1>3, <1>4, <2>1, <2>2
<1> DEFINE sb == s * base
           nb == N_SECTORS * base
<1>6. nb \in Nat
  BY <1>3
<1> HIDE DEF sb, nb
<1>7. sb \in Nat /\ sb + base <= nb /\ N_RAYS = nb + rem
  BY <1>3, <1>5 DEF sb, nb
<1>8. k \in sb + (IF s < rem THEN s ELSE rem) ..
          sb + (IF s < rem THEN s ELSE rem)
            + (base + (IF s < rem THEN 1 ELSE 0)) - 1
  BY <1>2 DEF SectorRays, sb
<1>9. k \in 0 .. nb + rem - 1
  BY <1>3, <1>4, <1>6, <1>7, <1>8
<1> QED BY <1>3, <1>6, <1>7, <1>9 DEF Ray

\* Only Observe goes from "observe" to "infer".
LEMMA ObservingIsObserve ==
  ASSUME [Next]_vars, Observing
  PROVE  Observe
<1> USE DEF node, subscription, plan, buffers, outcome, locals
<1>1. control = "observe" /\ control' = "infer"
  BY DEF Observing
<1> QED
  BY <1>1 DEF Next, ExecutorThread, ControlThread, Lifecycle,
     Configure, ConfigureThrows, Activate, Deactivate, Cleanup,
     SetParameter, Publish, ScanCallbackLock, ScanCallbackStore, SetPlan,
     ComputeStops, ComputeStart, SampleLock, SampleCopy, InferReturns,
     Infer, InferThrows, vars

\* What one observation does to one sector.
LEMMA ObserveSector ==
  ASSUME IInv, FramesAreHistory, Observe, buffers_ready_, NEW s \in Sector
  PROVE  /\ frames_[0] = prev_scan_
         /\ frames_'[0] = SampleScan(sample)
         /\ temporal_[s] \in {-1, 0, 1}
         /\ temporal_'[s] \in
              EmaSigns(temporal_[s],
                       MinDiffSign(s, SampleScan(sample), prev_scan_))
         /\ obs'.temporal = temporal_'
<1>1. 0 \in Frame
  BY ControllerAssumption DEF Frame
<1>2. Len(samples) > 0
  BY DEF FramesAreHistory, IInv, TypeOK
<1>3. frames_[0] = prev_scan_
  BY <1>1, <1>2 DEF FramesAreHistory
<1>4. frames_' = PushFrame(SampleScan(sample))
  BY DEF Observe, UpdateLidarBuffers
<1>5. frames_'[0] = SampleScan(sample)
  BY <1>1, <1>4, PushFrameStack
<1>6. temporal_[s] \in {-1, 0, 1}
  BY DEF IInv, BuffersFilled
<1>7. temporal_' \in NextTemporal(SampleScan(sample))
  BY DEF Observe, UpdateLidarBuffers
<1>8. obs'.temporal = temporal_'
  BY DEF Observe
<1> QED BY <1>3, <1>5, <1>6, <1>7, <1>8 DEF NextTemporal

(***************************************************************************)
(* One approaching ray is enough for the sector to report an approach in   *)
(* the very next observation, unless it still reports a recession          *)
(* (rl_controller.cpp:229-243).                                            *)
(***************************************************************************)
THEOREM ApproachIsSeenHolds == Spec => ApproachIsSeen
<1> DEFINE Seen ==
      Observing /\ buffers_ready_ =>
        \A s \in Sector :
          (/\ temporal_[s] # 1
           /\ \E k \in SectorRays(s) : frames_'[0][k] < frames_[0][k])
            => obs'.temporal[s] = -1
<1>1. ASSUME IInv, FramesAreHistory, [Next]_vars PROVE [Seen]_vars
  <2> SUFFICES ASSUME Observing, buffers_ready_, NEW s \in Sector,
                      temporal_[s] # 1, NEW k \in SectorRays(s),
                      frames_'[0][k] < frames_[0][k]
               PROVE  obs'.temporal[s] = -1
    OBVIOUS
  <2>1. Observe
    BY <1>1, ObservingIsObserve
  <2>2. MinDiffSign(s, SampleScan(sample), prev_scan_) = -1
    BY <1>1, <2>1, ObserveSector DEF MinDiffSign
  <2>3. EmaSigns(temporal_[s], -1) = {-1}
    BY <1>1, <2>1, ObserveSector DEF EmaSigns
  <2> QED BY <1>1, <2>1, <2>2, <2>3, ObserveSector
<1> QED
  BY <1>1, SpecIInv, FramesAreHistoryHolds, PTL DEF Spec, ApproachIsSeen

(***************************************************************************)
(* A quiet sector stays quiet until one of its own rays changes            *)
(* (rl_controller.cpp:229-243).                                            *)
(***************************************************************************)
THEOREM QuietWithoutMotionHolds == Spec => QuietWithoutMotion
<1> DEFINE Quiet ==
      Observing /\ buffers_ready_ =>
        \A s \in Sector :
          (temporal_[s] = 0 /\ temporal_'[s] # 0)
            => \E k \in SectorRays(s) : frames_'[0][k] # frames_[0][k]
<1>1. ASSUME IInv, FramesAreHistory, [Next]_vars PROVE [Quiet]_vars
  <2> SUFFICES ASSUME Observing, buffers_ready_, NEW s \in Sector,
                      temporal_[s] = 0, temporal_'[s] # 0
               PROVE  \E k \in SectorRays(s) : frames_'[0][k] # frames_[0][k]
    OBVIOUS
  <2>1. Observe
    BY <1>1, ObservingIsObserve
  <2> DEFINE scan == SampleScan(sample)
  <2>2. MinDiffSign(s, scan, prev_scan_) # 0
    BY <1>1, <2>1, ObserveSector DEF EmaSigns
  <2>3. frames_'[0] = scan /\ frames_[0] = prev_scan_
    BY <1>1, <2>1, ObserveSector
  <2> HIDE DEF scan
  <2>4. CASE \E k \in SectorRays(s) : scan[k] < prev_scan_[k]
    <3>1. PICK k \in SectorRays(s) : scan[k] < prev_scan_[k]
      BY <2>4
    <3>2. scan \in Scan /\ prev_scan_ \in Scan
      BY <1>1, SampleType DEF IInv, TypeOK, BuffersFilled, scan
    <3>3. k \in Ray
      BY SectorRaysAreRays
    <3>4. scan[k] \in Int /\ prev_scan_[k] \in Int
      BY <3>2, <3>3, SamplingAssumption DEF Scan
    <3>5. scan[k] # prev_scan_[k]
      BY <3>1, <3>4
    <3> QED BY <3>5, <2>3
  <2>5. CASE ~\E k \in SectorRays(s) : scan[k] < prev_scan_[k]
    <3>1. \A k \in SectorRays(s) : scan[k] # prev_scan_[k]
      BY <2>2, <2>5 DEF MinDiffSign
    <3>2. PICK k : k \in SectorRays(s)
      BY SectorNotEmpty
    <3> QED BY <3>1, <3>2, <2>3
  <2> QED BY <2>4, <2>5
<1> QED
  BY <1>1, SpecIInv, FramesAreHistoryHolds, PTL DEF Spec, QuietWithoutMotion

\* The newest k frames are x.
Filled(x, k) == \A f \in Frame : f < k => frames_[f] = x

\* As long as the plugin is active, a call that sampled x adds one to them,
\* and nothing else takes one away.
StackFills ==
  lifecycle = "active" /\ lifecycle' = "active" /\ buffers_ready_ =>
    \A x \in Scan, k \in Nat :
      Filled(x, k) =>
        IF Observing THEN SampleScan(sample) = x => Filled(x, k + 1)'
        ELSE Filled(x, k)'

(***************************************************************************)
(* What WindowConverges rests on: N_FRAMES calls that sample the same scan *)
(* fill the stack with it, however many steps of the callback, the         *)
(* parameter service and new plans come in between                         *)
(* (rl_controller.cpp:216-227).                                            *)
(***************************************************************************)
THEOREM StackFillsHolds == Spec => [][StackFills]_vars
<1>1. ASSUME IInv, [Next]_vars PROVE [StackFills]_vars
  <2> SUFFICES ASSUME lifecycle = "active", lifecycle' = "active",
                      buffers_ready_, NEW x \in Scan, NEW k \in Nat,
                      Filled(x, k)
               PROVE  IF Observing
                      THEN SampleScan(sample) = x => Filled(x, k + 1)'
                      ELSE Filled(x, k)'
    BY DEF StackFills
  <2>1. ASSUME Observing, SampleScan(sample) = x PROVE Filled(x, k + 1)'
    <3>1. Observe
      BY <1>1, <2>1, ObservingIsObserve
    <3>2. frames_' = PushFrame(x)
      BY <2>1, <3>1 DEF Observe, UpdateLidarBuffers
    <3> SUFFICES ASSUME NEW f \in Frame, f < k + 1 PROVE frames_'[f] = x
      BY DEF Filled
    <3>3. f \in Nat /\ (f # 0 => f - 1 \in Frame /\ f - 1 < k)
      BY ControllerAssumption DEF Frame
    <3> QED BY <1>1, <3>2, <3>3, PushFrameStack DEF Filled
  <2>2. ASSUME ~Observing PROVE Filled(x, k)'
    <3>1. UNCHANGED buffers
      BY <1>1, <2>2 DEF Observing, Next, ExecutorThread, ControlThread,
         Lifecycle, Configure, ConfigureThrows, Activate, Deactivate, Cleanup,
         SetParameter, Publish, ScanCallbackLock, ScanCallbackStore, SetPlan,
         ComputeStops, ComputeStart, SampleLock, SampleCopy, Observe,
         InferReturns, Infer, InferThrows, vars, node, subscription, plan,
         buffers, outcome, locals
    <3> QED BY <3>1 DEF Filled, buffers
  <2> QED BY <2>1, <2>2
<1> QED BY <1>1, SpecIInv, PTL DEF Spec

-----------------------------------------------------------------------------
(***************************************************************************)
(* The searches.                                                           *)
(***************************************************************************)

\* Where a call aims: what the two loops of findCarrot return.
LEMMA AimOfTheLoops ==
  ASSUME IInv, control = "observe"
  PROVE  LET i == NearestLoop(current_path_, carrot_idx_, call.pose)
             j == WalkLoop(current_path_, i, carrot_lookahead_)
         IN  /\ i \in DOMAIN current_path_ /\ j \in DOMAIN current_path_
             /\ IsNearest(current_path_, carrot_idx_, call.pose, i)
             /\ IsCarrot(current_path_, i, carrot_lookahead_, j)
             /\ \A k, l \in DOMAIN current_path_ :
                  /\ IsNearest(current_path_, carrot_idx_, call.pose, k)
                  /\ IsCarrot(current_path_, k, carrot_lookahead_, l)
                  => k = i /\ l = j
<1> DEFINE i == NearestLoop(current_path_, carrot_idx_, call.pose)
           j == WalkLoop(current_path_, i, carrot_lookahead_)
<1>1. /\ current_path_ \in Seq(Position) /\ current_path_ # << >>
      /\ carrot_idx_ \in DOMAIN current_path_
      /\ carrot_lookahead_ \in Int
  BY ControllerAssumption DEF IInv, TypeOK, CallInProgress, CarrotInPath
<1>2. call.pose \in Position
  BY DEF IInv, CallInProgress
<1>3. IsNearest(current_path_, carrot_idx_, call.pose, i)
  BY <1>1, <1>2, NearestLoopCorrect
<1> HIDE DEF i
<1>4. i \in DOMAIN current_path_
  BY <1>1, <1>3 DEF IsNearest
<1>5. IsCarrot(current_path_, i, carrot_lookahead_, j)
  BY <1>1, <1>4, WalkLoopCorrect
<1> HIDE DEF j
<1>6. j \in DOMAIN current_path_
  BY <1>1, <1>4, <1>5 DEF IsCarrot
<1>7. ASSUME NEW k \in DOMAIN current_path_, NEW l \in DOMAIN current_path_,
             IsNearest(current_path_, carrot_idx_, call.pose, k),
             IsCarrot(current_path_, k, carrot_lookahead_, l)
      PROVE  k = i /\ l = j
  <2>1. k = i
    BY <1>1, <1>2, <1>3, <1>7, NearestUnique
  <2>2. l = j
    BY <1>1, <1>4, <1>5, <1>7, <2>1, CarrotUnique
  <2> QED BY <2>1, <2>2
<1> QED BY <1>3, <1>4, <1>5, <1>6, <1>7 DEF i, j

\* The observation is the outcome of the loops, and every call has one.
AimsWithTheLoops ==
  Observe =>
    LET i == NearestLoop(current_path_, carrot_idx_, call.pose)
        j == WalkLoop(current_path_, i, carrot_lookahead_)
    IN  /\ carrot_idx_' = i
        /\ i \in carrot_idx_ .. Len(current_path_)
        /\ j \in i .. Len(current_path_)
        /\ obs'.carrot = current_path_[j]

(***************************************************************************)
(* What the model says with quantifiers is what the code computes: in every*)
(* reachable state a call advances carrot_idx_ to where the first loop of  *)
(* findCarrot stops and aims at the pose where the second one stops, and   *)
(* both are poses of the plan (rl_controller.cpp:261-281).                 *)
(***************************************************************************)
THEOREM ObserveRunsTheLoops == Spec => [][AimsWithTheLoops]_vars
<1>1. ASSUME IInv, [Next]_vars PROVE [AimsWithTheLoops]_vars
  <2> DEFINE i == NearestLoop(current_path_, carrot_idx_, call.pose)
             j == WalkLoop(current_path_, i, carrot_lookahead_)
  <2> SUFFICES ASSUME Observe
               PROVE  /\ carrot_idx_' = i
                      /\ i \in carrot_idx_ .. Len(current_path_)
                      /\ j \in i .. Len(current_path_)
                      /\ obs'.carrot = current_path_[j]
    BY DEF AimsWithTheLoops
  <2>1. control = "observe"
    BY DEF Observe
  <2>2. /\ IsNearest(current_path_, carrot_idx_, call.pose, i)
        /\ IsCarrot(current_path_, i, carrot_lookahead_, j)
        /\ \A k, l \in DOMAIN current_path_ :
             /\ IsNearest(current_path_, carrot_idx_, call.pose, k)
             /\ IsCarrot(current_path_, k, carrot_lookahead_, l)
             => k = i /\ l = j
    BY <1>1, <2>1, AimOfTheLoops
  <2> HIDE DEF i, j
  <2>3. PICK k \in DOMAIN current_path_, l \in DOMAIN current_path_ :
          /\ IsNearest(current_path_, carrot_idx_, call.pose, k)
          /\ IsCarrot(current_path_, k, carrot_lookahead_, l)
          /\ carrot_idx_' = k
          /\ obs'.carrot = current_path_[l]
    BY DEF Observe
  <2>4. k = i /\ l = j
    BY <2>2, <2>3
  <2> QED BY <2>2, <2>3, <2>4 DEF IsNearest, IsCarrot
<1> QED BY <1>1, SpecIInv, PTL DEF Spec

-----------------------------------------------------------------------------
(***************************************************************************)
(* The plugin in its server.                                               *)
(***************************************************************************)

\* A call is only in progress between Cycle and Check, and the plugin's plan
\* is the server's.
ServedPlan ==
  /\ control # "idle" => server = "check"
  /\ server # "idle" => current_path_ = goal
  /\ obs # NoObs =>
       /\ control = "infer"
       /\ \E j \in DOMAIN current_path_ : obs.carrot = current_path_[j]

LEMMA ServedPlanInductive ==
  ASSUME ServedPlan, [FollowNext]_allVars
  PROVE  ServedPlan'
<1> USE DEF ServedPlan, serving, world, plan, locals, vars
<1>1. CASE \E o \in Offset : Localise(o)
  BY <1>1 DEF Localise
<1>2. CASE \E path \in Path : Accept(path) \/ Replan(path)
  BY <1>2 DEF Accept, Replan, SetPlan
<1>3. CASE Cancel
  BY <1>3 DEF Cancel
<1>4. CASE Cycle
  BY <1>4 DEF Cycle, ComputeStart
<1>5. CASE Drive \/ Abort
  BY <1>5 DEF Drive, Abort, InferReturns, Infer, InferThrows
<1>6. CASE Check
  BY <1>6 DEF Check
<1>7. CASE Observe /\ UNCHANGED <<serving, world>>
  <2>1. PICK j \in DOMAIN current_path_ : obs'.carrot = current_path_[j]
    BY <1>7 DEF Observe
  <2>2. control = "observe" /\ control' = "infer"
        /\ UNCHANGED <<current_path_, server, goal>>
    BY <1>7 DEF Observe
  <2> QED BY <2>1, <2>2
<1>8. CASE (SampleLock \/ SampleCopy) /\ UNCHANGED <<serving, world>>
  BY <1>8 DEF SampleLock, SampleCopy
<1>9. CASE /\ \/ \E m \in LaserScan : Publish(m)
              \/ ScanCallbackLock \/ ScanCallbackStore
              \/ \E v \in Lookahead : SetParameter(v)
           /\ UNCHANGED <<serving, world>>
  BY <1>9 DEF Publish, ScanCallbackLock, ScanCallbackStore, SetParameter
<1>10. CASE Lifecycle /\ server = "idle" /\ UNCHANGED <<serving, world>>
  <2>1. UNCHANGED <<control, obs, server>>
    BY <1>10 DEF Lifecycle, Configure, ConfigureThrows, Activate, Deactivate,
      Cleanup
  <2> QED BY <1>10, <2>1
<1>11. CASE UNCHANGED allVars
  BY <1>11 DEF allVars
<1> QED
  BY <1>1, <1>2, <1>3, <1>4, <1>5, <1>6, <1>7, <1>8, <1>9, <1>10, <1>11
  DEF FollowNext, Elsewhere

\* The carrot the policy is shown is on the path that the server follows, for
\* every set of paths, positions and frame offsets.
THEOREM CarrotOfThisGoalHolds == FollowSpec => []CarrotOfThisGoal
<1>1. FollowInit => ServedPlan
  BY DEF FollowInit, Init, ServedPlan
<1>2. ServedPlan /\ [FollowNext]_allVars => ServedPlan'
  BY ServedPlanInductive
<1>3. ServedPlan => CarrotOfThisGoal
  BY DEF ServedPlan, CarrotOfThisGoal
<1> QED BY <1>1, <1>2, <1>3, PTL DEF FollowSpec

\* The plugin in its server is the plugin: the server only calls it where the
\* plugin interface allows.
LEMMA ServerStepIsPluginStep ==
  ASSUME odom \in Position, [FollowNext]_allVars
  PROVE  [Next]_vars
<1>1. CASE \E o \in Offset : Localise(o)
  BY <1>1 DEF Localise
<1>2. CASE \E path \in Path : Accept(path) \/ Replan(path)
  BY <1>2 DEF Accept, Replan, Next, ControlThread
<1>3. CASE Cancel \/ Check
  BY <1>3 DEF Cancel, Check
<1>4. CASE Cycle
  BY <1>4 DEF Cycle, Next, ControlThread
<1>5. CASE Drive \/ Abort
  BY <1>5 DEF Drive, Abort, Next, ControlThread
<1>6. CASE Elsewhere
  BY <1>6 DEF Elsewhere, Next, ControlThread, ExecutorThread
<1>7. CASE UNCHANGED allVars
  BY <1>7 DEF allVars
<1> QED
  BY <1>1, <1>2, <1>3, <1>4, <1>5, <1>6, <1>7 DEF FollowNext

LEMMA OdomInWorld ==
  ASSUME odom \in Position, [FollowNext]_allVars
  PROVE  odom' \in Position
<1> USE DEF world
<1>1. CASE Drive
  BY <1>1 DEF Drive, StayInWorld
<1>2. CASE ~Drive
  <2>1. odom' = odom
    BY <1>2 DEF FollowNext, allVars, Localise, Accept, Replan, Cancel, Cycle,
      Abort, Check, Elsewhere
  <2> QED BY <2>1
<1> QED BY <1>1, <1>2

(***************************************************************************)
(* Nav2's controller_server drives the plugin within the interface that    *)
(* RLController is checked under, so that every theorem above holds of the *)
(* plugin in its server.                                                   *)
(***************************************************************************)
THEOREM FollowImplementsPlugin == FollowSpec => Spec
<1>1. FollowInit => Init /\ odom \in Position
  BY DEF FollowInit
<1>2. odom \in Position /\ [FollowNext]_allVars => (odom \in Position)'
  BY OdomInWorld
<1>3. odom \in Position /\ [FollowNext]_allVars => [Next]_vars
  BY ServerStepIsPluginStep
<1> QED BY <1>1, <1>2, <1>3, PTL DEF FollowSpec, Spec

(***************************************************************************)
(* With the frames aligned, the call in progress is about the place where  *)
(* the robot is.                                                           *)
(***************************************************************************)
AlignedCall ==
  /\ odom \in Position
  /\ offset = 0
  /\ control # "idle" => asked = odom
  /\ control \in {"sample", "copying", "observe"} => call.pose = odom
  /\ control = "infer" => obs.pose = odom

LEMMA AlignedCallInductive ==
  ASSUME Offset = {0}, AlignedCall, [FollowNext]_allVars
  PROVE  AlignedCall'
<1> USE DEF AlignedCall, serving, world, locals
<1>1. odom \in Int /\ odom' \in Position
  BY LineAssumption, OdomInWorld
<1>2. CASE \E o \in Offset : Localise(o)
  BY <1>2 DEF Localise, vars
<1>3. CASE \E path \in Path : Accept(path) \/ Replan(path)
  BY <1>3 DEF Accept, Replan, SetPlan
<1>4. CASE Cancel \/ Check \/ UNCHANGED allVars
  BY <1>4 DEF Cancel, Check, vars, allVars
<1>5. CASE Cycle
  BY <1>1, <1>5 DEF Cycle, ComputeStart, InMap
<1>6. CASE Drive
  BY <1>1, <1>6 DEF Drive, InferReturns, Infer
<1>7. CASE Abort
  BY <1>7 DEF Abort, InferThrows
<1>8. CASE Observe /\ UNCHANGED <<serving, world>>
  <2>1. control = "observe" /\ control' = "infer" /\ obs'.pose = call.pose
        /\ UNCHANGED <<asked, odom, offset>>
    BY <1>8 DEF Observe
  <2> QED BY <2>1
<1>9. CASE (SampleLock \/ SampleCopy) /\ UNCHANGED <<serving, world>>
  BY <1>9 DEF SampleLock, SampleCopy
<1>10. CASE /\ \/ \E m \in LaserScan : Publish(m)
               \/ ScanCallbackLock \/ ScanCallbackStore
               \/ \E v \in Lookahead : SetParameter(v)
            /\ UNCHANGED <<serving, world>>
  BY <1>10 DEF Publish, ScanCallbackLock, ScanCallbackStore, SetParameter
<1>11. CASE Lifecycle /\ server = "idle" /\ UNCHANGED <<serving, world>>
  <2>1. UNCHANGED <<control, call, obs>>
    BY <1>11 DEF Lifecycle, Configure, ConfigureThrows, Activate,
      Deactivate, Cleanup
  <2> QED BY <1>11, <2>1
<1> QED
  BY <1>2, <1>3, <1>4, <1>5, <1>6, <1>7, <1>8, <1>9, <1>10, <1>11
  DEF FollowNext, Elsewhere

(***************************************************************************)
(* The goal features are in the robot's frame as long as the odom frame is *)
(* the map frame: the drift of the localisation is the only way to break   *)
(* what line 127 of rl_controller.cpp says.                                *)
(***************************************************************************)
THEOREM GoalInRobotFrameWhenAligned ==
  ASSUME Offset = {0}
  PROVE  FollowSpec => []GoalInRobotFrame
<1>1. FollowInit => AlignedCall /\ ServedPlan
  BY DEF FollowInit, Init, AlignedCall, ServedPlan
<1>2. AlignedCall /\ ServedPlan /\ [FollowNext]_allVars
        => (AlignedCall /\ ServedPlan)'
  BY AlignedCallInductive, ServedPlanInductive
<1>3. AlignedCall /\ ServedPlan => GoalInRobotFrame
  BY DEF AlignedCall, ServedPlan, GoalInRobotFrame
<1> QED BY <1>1, <1>2, <1>3, PTL DEF FollowSpec

\* The carrot is elsewhere unless the path ends here.
Tracked ==
  /\ control = "infer" /\ obs.carrot = odom => goal[Len(goal)] = odom
  /\ result # "stalled"

\* Why: the nearest pose is at the robot if the carrot is, and then the path
\* came back to its place without going the lookahead.
LEMMA CarrotElsewhere ==
  ASSUME Separates, LooksAhead, FoldsAreWide,
         NEW path \in Path, NEW p \in Position,
         NEW from \in DOMAIN path, NEW la \in Lookahead,
         NEW i \in DOMAIN path, NEW j \in DOMAIN path,
         IsNearest(path, from, p, i), IsCarrot(path, i, la, j), path[j] = p
  PROVE  j = Len(path)
<1> SUFFICES ASSUME j # Len(path) PROVE FALSE
  OBVIOUS
<1>1. path \in Seq(Position) /\ la \in Int /\ la > 0
  BY ControllerAssumption DEF LooksAhead
<1>2. i \in Nat /\ j \in Nat /\ i <= j /\ j < Len(path) /\ Len(path) \in Nat
      /\ from <= i /\ from \in Nat
  BY <1>1 DEF IsCarrot, IsNearest
<1>3. path[i] = p
  <2>1. Dist(path[j], p) = 0
    BY DEF Separates
  <2>2. Dist(path[i], p) \in Nat /\ Dist(path[i], p) <= Dist(path[j], p)
    <3>1. j \in from .. Len(path) /\ path[i] \in Position
      BY <1>1, <1>2
    <3> QED BY <3>1, DistAssumption DEF IsNearest
  <2>3. Dist(path[i], p) = 0
    BY <2>1, <2>2
  <2>4. path[i] \in Position
    BY <1>1
  <2> QED BY <2>3, <2>4 DEF Separates
<1>4. /\ ArcLength(path, i, j) >= la
      /\ \A k \in i .. j - 1 : ArcLength(path, i, k) < la
  BY DEF IsCarrot
<1>5. CASE i = j
  <2>1. ArcLength(path, i, i) = 0
    BY <1>1, ArcLengthSteps
  <2> QED BY <1>1, <1>4, <1>5, <2>1
<1>6. CASE i < j
  <2>1. ArcLength(path, i, j) = 0 \/ ArcLength(path, i, j - 1) >= la
    BY <1>3, <1>6 DEF FoldsAreWide
  <2>2. j - 1 \in i .. j - 1 /\ j - 1 \in i .. Len(path) - 1
    BY <1>2, <1>6
  <2>3. ArcLength(path, i, j - 1) \in Nat
    BY <1>1, <2>2, ArcLengthSteps
  <2>4. ArcLength(path, i, j - 1) < la
    BY <1>4, <2>2
  <2>5. ArcLength(path, i, j) = 0
    BY <1>1, <2>1, <2>3, <2>4
  <2> QED BY <1>1, <1>4, <2>5
<1> QED BY <1>2, <1>5, <1>6

LEMMA TrackedInductive ==
  ASSUME Offset = {0}, Separates, LooksAhead, FoldsAreWide,
         IInv, ServedPlan, AlignedCall, Tracked, [FollowNext]_allVars
  PROVE  Tracked'
<1> USE DEF AlignedCall, Tracked, serving, world, locals
<1>0. odom \in Int
  BY LineAssumption
<1>1. CASE \E o \in Offset : Localise(o)
  BY <1>1 DEF Localise, vars
<1>2. CASE \E path \in Path : Accept(path) \/ Replan(path)
  <2>1. /\ control = "idle" /\ control' = "idle"
        /\ result' # "stalled" /\ UNCHANGED world
    BY <1>2 DEF Accept, Replan, SetPlan
  <2> QED BY <2>1
<1>3. CASE Cancel
  BY <1>3 DEF Cancel, vars
<1>4. CASE Cycle
  <2>1. control' = "sample" /\ result' = result
    BY <1>4 DEF Cycle, ComputeStart
  <2> QED BY <2>1
<1>5. CASE Drive
  <2>1. control = "infer" /\ control' = "idle"
    BY <1>5 DEF Drive, InferReturns, Infer
  <2>2. result' # "stalled"
    <3> SUFFICES ASSUME Toward(obs.pose, obs.carrot) = 0, ~Reached
                 PROVE  FALSE
      BY <1>5 DEF Drive
    <3>1. obs.pose \in Int /\ obs.carrot \in Int
      BY <2>1, LineAssumption DEF IInv, CallInProgress, Observation
    <3>2. obs.carrot = odom
      BY <2>1, <3>1 DEF Toward
    <3>3. goal[Len(goal)] = odom
      BY <2>1, <3>2
    <3>4. Dist(odom, odom) = 0
      BY DEF Separates
    <3> QED BY <1>0, <3>3, <3>4, LineAssumption DEF Reached, InMap
  <2> QED BY <2>1, <2>2
<1>6. CASE Abort
  BY <1>6 DEF Abort, InferThrows
<1>7. CASE Check
  BY <1>7 DEF Check, vars
<1>8. CASE Observe /\ UNCHANGED <<serving, world>>
  <2>1. control = "observe" /\ control' = "infer" /\ call.pose = odom
        /\ UNCHANGED <<goal, odom, result>>
    BY <1>8 DEF Observe
  <2>2. current_path_ = goal /\ current_path_ \in Path
        /\ current_path_ # << >>
    BY <2>1 DEF ServedPlan, IInv, TypeOK, CallInProgress
  <2>3. carrot_idx_ \in DOMAIN current_path_ /\ carrot_lookahead_ \in Lookahead
    BY <2>2 DEF IInv, CarrotInPath, TypeOK
  <2>4. PICK i, j \in DOMAIN current_path_ :
          /\ IsNearest(current_path_, carrot_idx_, call.pose, i)
          /\ IsCarrot(current_path_, i, carrot_lookahead_, j)
          /\ obs'.carrot = current_path_[j]
    BY <1>8 DEF Observe
  <2>5. ASSUME obs'.carrot = odom PROVE goal[Len(goal)] = odom
    <3>1. j = Len(current_path_)
      BY <2>1, <2>2, <2>3, <2>4, <2>5, CarrotElsewhere
    <3> QED BY <2>2, <2>4, <2>5, <3>1
  <2> QED BY <2>1, <2>5
<1>9. CASE (SampleLock \/ SampleCopy) /\ UNCHANGED <<serving, world>>
  BY <1>9 DEF SampleLock, SampleCopy
<1>10. CASE /\ \/ \E m \in LaserScan : Publish(m)
               \/ ScanCallbackLock \/ ScanCallbackStore
               \/ \E v \in Lookahead : SetParameter(v)
            /\ UNCHANGED <<serving, world>>
  BY <1>10 DEF Publish, ScanCallbackLock, ScanCallbackStore, SetParameter
<1>11. CASE Lifecycle /\ server = "idle" /\ UNCHANGED <<serving, world>>
  <2>1. UNCHANGED <<control, call, obs>>
    BY <1>11 DEF Lifecycle, Configure, ConfigureThrows, Activate, Deactivate,
      Cleanup
  <2> QED BY <1>11, <2>1
<1>12. CASE UNCHANGED allVars
  BY <1>12 DEF allVars, vars
<1> QED
  BY <1>1, <1>2, <1>3, <1>4, <1>5, <1>6, <1>7, <1>8, <1>9, <1>10, <1>11,
     <1>12
  DEF FollowNext, Elsewhere

\* The invariant of the composition.
Follows == IInv /\ ServedPlan /\ AlignedCall /\ Tracked

LEMMA SpecFollows ==
  ASSUME Offset = {0}, Separates, LooksAhead, FoldsAreWide
  PROVE  FollowSpec => []Follows
<1>1. FollowInit => Follows
  <2> SUFFICES ASSUME FollowInit PROVE Follows
    OBVIOUS
  <2>1. IInv
    BY InitIInv DEF FollowInit
  <2>2. ServedPlan /\ AlignedCall /\ Tracked
    BY DEF FollowInit, Init, ServedPlan, AlignedCall, Tracked
  <2> QED BY <2>1, <2>2 DEF Follows
<1>2. Follows /\ [FollowNext]_allVars => Follows'
  <2> SUFFICES ASSUME Follows, [FollowNext]_allVars PROVE Follows'
    OBVIOUS
  <2>1. IInv /\ ServedPlan /\ AlignedCall /\ Tracked
    BY DEF Follows
  <2>2. odom \in Position
    BY <2>1 DEF AlignedCall
  <2>3. IInv'
    BY <2>1, <2>2, ServerStepIsPluginStep, NextIInv
  <2>4. ServedPlan' /\ AlignedCall' /\ Tracked'
    BY <2>1, ServedPlanInductive, AlignedCallInductive, TrackedInductive
  <2> QED BY <2>3, <2>4 DEF Follows
<1> QED BY <1>1, <1>2, PTL DEF FollowSpec

(***************************************************************************)
(* With the frames aligned, whatever paths, distances and lookaheads there *)
(* are and wherever the robot starts, it is not told to stay short of the  *)
(* end of its path, provided that a path which comes back to a place has   *)
(* gone at least the lookahead in between (rl_controller.cpp:247-281).     *)
(***************************************************************************)
THEOREM NeverStallsHolds ==
  ASSUME Offset = {0}, Separates, LooksAhead, FoldsAreWide
  PROVE  FollowSpec => []NeverStalls
<1>1. Follows => NeverStalls
  BY DEF Follows, Tracked, NeverStalls
<1> QED BY <1>1, SpecFollows, PTL

(***************************************************************************)
(* A path without a place twice, such as every plan of a shortest-path     *)
(* planner (nav2_params.yaml:133), needs no width.                         *)
(***************************************************************************)
THEOREM SimplePathsAreFollowed ==
  ASSUME Offset = {0}, Separates, LooksAhead,
         \A path \in Path : \A i, j \in DOMAIN path :
           path[i] = path[j] => i = j
  PROVE  FollowSpec => []NeverStalls
<1>1. FoldsAreWide
  <2> SUFFICES ASSUME NEW path \in Path, NEW i \in DOMAIN path,
                      NEW j \in DOMAIN path, i < j, path[i] = path[j]
               PROVE  FALSE
    BY DEF FoldsAreWide
  <2>1. path \in Seq(Position) /\ i \in Int /\ i = j
    BY ControllerAssumption
  <2> QED BY <2>1
<1> QED BY <1>1, NeverStallsHolds

-----------------------------------------------------------------------------
(***************************************************************************)
(* Liveness of the plugin.  StepsEnabled is what the proofs below take as  *)
(* a hypothesis: a thread whose step has its guards true can take it.  It  *)
(* is a fact about ENABLED, which the provers treat as a new symbol; TLC   *)
(* finds no reachable state in which it is false.                          *)
(***************************************************************************)
Called == control # "idle"
Waiting == control = "sample"
Copying == control = "copying"
Sensed == control = "observe"
Aimed == control = "infer"
Returned == control = "idle"
Free == scan_mtx_ = "free"
Storing == executor = "storing"

StepsEnabled ==
  /\ Storing => ENABLED <<ScanCallbackStore>>_vars
  /\ Waiting /\ Free => ENABLED <<SampleLock>>_vars
  /\ Copying => ENABLED <<SampleCopy>>_vars
  /\ Sensed => ENABLED <<Observe>>_vars
  /\ Aimed => ENABLED <<InferReturns \/ InferThrows>>_vars

\* Nothing takes a call back: a step leaves it where it is or moves it on.
LEMMA CallMovesOn ==
  ASSUME [Next]_vars
  PROVE  /\ Waiting => Waiting' \/ Copying'
         /\ Copying => Copying' \/ Sensed'
         /\ Sensed => Sensed' \/ Aimed'
         /\ Aimed => Aimed' \/ Returned'
         /\ Storing => Storing' \/ Free'
<1> USE DEF Waiting, Copying, Sensed, Aimed, Returned, Free, Storing,
      node, subscription, plan, buffers, outcome, locals
<1>1. CASE Lifecycle
  BY <1>1 DEF Lifecycle, Configure, ConfigureThrows, Activate, Deactivate,
     Cleanup
<1>2. CASE \E m \in LaserScan : Publish(m)
  BY <1>2 DEF Publish
<1>3. CASE (\E v \in Lookahead : SetParameter(v))
           \/ ScanCallbackLock \/ ScanCallbackStore
  BY <1>3 DEF SetParameter, ScanCallbackLock, ScanCallbackStore
<1>4. CASE (\E path \in Path : SetPlan(path)) \/ ComputeStops
           \/ \E pose \in Position, yaw \in Yaw, velocity \in Velocity :
                ComputeStart(pose, yaw, velocity)
  BY <1>4 DEF SetPlan, ComputeStops, ComputeStart
<1>5. CASE SampleLock \/ SampleCopy
  BY <1>5 DEF SampleLock, SampleCopy
<1>6. CASE Observe
  BY <1>6 DEF Observe
<1>7. CASE InferReturns \/ InferThrows
  BY <1>7 DEF InferReturns, Infer, InferThrows
<1>8. CASE UNCHANGED vars
  BY <1>8 DEF vars
<1> QED
  BY <1>1, <1>2, <1>3, <1>4, <1>5, <1>6, <1>7, <1>8
  DEF Next, ExecutorThread, ControlThread

\* Where each step leaves its thread.
LEMMA StepsDo ==
  /\ ScanCallbackStore => Free'
  /\ SampleLock => Copying'
  /\ SampleCopy => Sensed'
  /\ Observe => Aimed'
  /\ InferReturns \/ InferThrows => Returned'
BY DEF ScanCallbackStore, SampleLock, SampleCopy, Observe, InferReturns, Infer,
  InferThrows, Free, Copying, Sensed, Aimed, Returned

\* A call waits for the mutex only while the callback stores a scan.
LEMMA WhoHoldsTheLock ==
  IInv /\ MutexHeld /\ Waiting => Free \/ Storing
BY DEF IInv, TypeOK, MutexHeld, Waiting, Free, Storing

(***************************************************************************)
(* Every call of computeVelocityCommands ends, with a command or with an   *)
(* exception: the mutex is held by one thread for one step, so that the    *)
(* call gets it however many scans the executor stores meanwhile, and from *)
(* there nothing waits (rl_controller.cpp:82-88, 104-177, 190-213).        *)
(***************************************************************************)
THEOREM CallsEnd ==
  FairSpec /\ []StepsEnabled => (Called ~> Returned)
<1>1. Called <=> ~Returned
  BY DEF Called, Returned
<1>2. IInv => Waiting \/ Copying \/ Sensed \/ Aimed \/ Returned
  BY DEF IInv, TypeOK, Waiting, Copying, Sensed, Aimed, Returned
<1>3. Waiting /\ [Next]_vars => Waiting' \/ Copying'
  BY CallMovesOn
<1>4. Copying /\ [Next]_vars => Copying' \/ Sensed'
  BY CallMovesOn
<1>5. Sensed /\ [Next]_vars => Sensed' \/ Aimed'
  BY CallMovesOn
<1>6. Aimed /\ [Next]_vars => Aimed' \/ Returned'
  BY CallMovesOn
<1>7. Storing /\ [Next]_vars => Storing' \/ Free'
  BY CallMovesOn
<1>8. /\ <<ScanCallbackStore>>_vars => Free'
      /\ <<SampleLock>>_vars => Copying'
      /\ <<SampleCopy>>_vars => Sensed'
      /\ <<Observe>>_vars => Aimed'
      /\ <<InferReturns \/ InferThrows>>_vars => Returned'
  BY StepsDo
<1>9. Spec => [](IInv /\ MutexHeld)
  BY SpecIInv, MutexHeldInductive, PTL DEF Spec
<1>10. StepsEnabled =>
         /\ Storing => ENABLED <<ScanCallbackStore>>_vars
         /\ Waiting /\ Free => ENABLED <<SampleLock>>_vars
         /\ Copying => ENABLED <<SampleCopy>>_vars
         /\ Sensed => ENABLED <<Observe>>_vars
         /\ Aimed => ENABLED <<InferReturns \/ InferThrows>>_vars
  BY DEF StepsEnabled
<1>11. FairSpec /\ []StepsEnabled => (Storing ~> Free)
  BY <1>7, <1>8, <1>10, PTL DEF FairSpec, Spec, Fairness
<1>12. FairSpec /\ []StepsEnabled => (Waiting ~> Copying)
  BY <1>3, <1>8, <1>9, <1>10, <1>11, WhoHoldsTheLock, PTL
  DEF FairSpec, Spec, Fairness
<1>13. FairSpec /\ []StepsEnabled => (Copying ~> Sensed)
  BY <1>4, <1>8, <1>10, PTL DEF FairSpec, Spec, Fairness
<1>14. FairSpec /\ []StepsEnabled => (Sensed ~> Aimed)
  BY <1>5, <1>8, <1>10, PTL DEF FairSpec, Spec, Fairness
<1>15. FairSpec /\ []StepsEnabled => (Aimed ~> Returned)
  BY <1>6, <1>8, <1>10, PTL DEF FairSpec, Spec, Fairness
<1> QED
  BY <1>1, <1>2, <1>9, <1>12, <1>13, <1>14, <1>15, PTL DEF FairSpec

\* The end of a call is the end of a turn.
LEMMA InferDecides ==
  ASSUME IInv
  PROVE  /\ InferReturns => Loop!Decide
         /\ InferThrows => Loop!Fail
<1> USE DEF node, subscription, plan, buffers, outcome, locals
<1>1. ASSUME InferReturns PROVE Loop!Decide
  <2>1. PICK raw \in PolicyOutput(obs) : Infer(raw)
    BY <1>1 DEF InferReturns
  <2>2. last_action_' \in Unit \X Unit
    BY <2>1, PolicyOutputType, ClampActionType DEF Infer
  <2>3. UNCHANGED LoopWindow /\ LoopPhase = "aimed" /\ LoopPhase' = "idle"
    BY <2>1, WindowIsStack DEF Infer, LoopPhase
  <2> QED BY <2>1, <2>2, <2>3 DEF Infer, Loop!Decide
<1>2. ASSUME InferThrows PROVE Loop!Fail
  <2>1. UNCHANGED LoopWindow /\ LoopPhase = "aimed" /\ LoopPhase' = "idle"
    BY <1>2, WindowIsStack DEF InferThrows, LoopPhase
  <2> QED BY <1>2, <2>1 DEF InferThrows, Loop!Fail
<1> QED BY <1>1, <1>2

\* The two steps of PolicyLoop that are owed can be taken in one phase only.
LoopStepsEnabled ==
  /\ ENABLED <<Loop!Aim>>_Loop!vars => Sensed
  /\ ENABLED <<Loop!Decide \/ Loop!Fail>>_Loop!vars => Aimed

\* ... and change what PolicyLoop sees.
LEMMA TurnsAreSteps ==
  ASSUME IInv
  PROVE  /\ Observe => <<Loop!Aim>>_Loop!vars
         /\ InferReturns \/ InferThrows
              => <<Loop!Decide \/ Loop!Fail>>_Loop!vars
<1>1. Loop!Aim \/ Loop!Decide \/ Loop!Fail => LoopPhase' # LoopPhase
  BY DEF Loop!Aim, Loop!Decide, Loop!Fail
<1>2. LoopPhase' # LoopPhase => Loop!vars' # Loop!vars
  BY DEF Loop!vars
<1> QED BY <1>1, <1>2, ObserveAims, InferDecides

(***************************************************************************)
(* The refinement of PolicyLoop with its fairness: every turn that the     *)
(* plugin begins by copying a scan ends in a decision or a failure, as the *)
(* turns of PolicyLoop do (rl_controller.cpp:104-177).                     *)
(***************************************************************************)
THEOREM FairRefinement ==
  FairSpec /\ []StepsEnabled /\ []LoopStepsEnabled => ImplementsFairLoop
<1>1. Spec => Loop!Spec
  BY Refinement DEF ImplementsLoop
<1>2. StepsEnabled /\ LoopStepsEnabled =>
        /\ ENABLED <<Loop!Aim>>_Loop!vars => ENABLED <<Observe>>_vars
        /\ ENABLED <<Loop!Decide \/ Loop!Fail>>_Loop!vars
             => ENABLED <<InferReturns \/ InferThrows>>_vars
  BY DEF StepsEnabled, LoopStepsEnabled
<1>3. IInv /\ <<Observe>>_vars => <<Loop!Aim>>_Loop!vars
  BY TurnsAreSteps
<1>4. IInv /\ <<InferReturns \/ InferThrows>>_vars
        => <<Loop!Decide \/ Loop!Fail>>_Loop!vars
  BY TurnsAreSteps
<1>5. FairSpec /\ []StepsEnabled /\ []LoopStepsEnabled
        => WF_Loop!vars(Loop!Aim)
  BY <1>2, <1>3, SpecIInv, PTL DEF FairSpec, Fairness
<1>6. FairSpec /\ []StepsEnabled /\ []LoopStepsEnabled
        => WF_Loop!vars(Loop!Decide \/ Loop!Fail)
  BY <1>2, <1>4, SpecIInv, PTL DEF FairSpec, Fairness
<1> QED
  BY <1>1, <1>5, <1>6, PTL
  DEF FairSpec, ImplementsFairLoop, Loop!FairSpec, Loop!Fairness

-----------------------------------------------------------------------------
\* The stack holds frames, the newest k of them x.
Holds(x, k) == buffers_ready_ /\ Filled(x, k)

\* While m stays the last scan, a call pushes it and the others keep it.
LEMMA StackConverges ==
  ASSUME IInv, [Next]_vars, NEW m \in LaserScan,
         lifecycle = "active", lifecycle' = "active", last_scan_ = m,
         control = "observe" => sample = m
  PROVE  /\ control' = "observe" => sample' = m
         /\ control # "infer" /\ control' = "infer" =>
              /\ Holds(SampleScan(m), 0)'
              /\ \A k \in Nat : Holds(SampleScan(m), k)
                                  => Holds(SampleScan(m), k + 1)'
         /\ \A k \in Nat : Holds(SampleScan(m), k) => Holds(SampleScan(m), k)'
<1> DEFINE x == SampleScan(m)
<1>1. x \in Scan
  BY SampleType
<1>2. CASE Observe
  <2>1. buffers_ready_' /\ sample = m /\ control' = "infer"
    BY <1>2 DEF Observe, UpdateLidarBuffers
  <2>2. \A k \in Nat : Holds(x, k) => Holds(x, k + 1)'
    <3> SUFFICES ASSUME NEW k \in Nat, Holds(x, k)
                 PROVE  Filled(x, k + 1)'
      BY <2>1 DEF Holds
    <3>1. frames_' = PushFrame(x)
      BY <1>2, <2>1 DEF Observe, UpdateLidarBuffers, Holds
    <3> SUFFICES ASSUME NEW f \in Frame, f < k + 1 PROVE frames_'[f] = x
      BY DEF Filled
    <3>2. f \in Nat /\ (f # 0 => f - 1 \in Frame /\ f - 1 < k)
      BY ControllerAssumption DEF Frame
    <3> QED BY <3>1, <3>2, PushFrameStack DEF Filled, Holds
  <2>3. \A k \in Nat : Holds(x, k + 1)' => Holds(x, k)'
    BY ControllerAssumption DEF Holds, Filled, Frame
  <2>4. Holds(x, 0)'
    BY <2>1, ControllerAssumption DEF Holds, Filled, Frame
  <2> QED BY <2>1, <2>2, <2>3, <2>4
<1>3. CASE ~Observe
  <2>1. UNCHANGED buffers /\ (control' = "infer" => control = "infer")
    BY <1>3 DEF Next, ExecutorThread, ControlThread,
       Lifecycle, Configure, ConfigureThrows, Activate, Deactivate, Cleanup,
       SetParameter, Publish, ScanCallbackLock, ScanCallbackStore, SetPlan,
       ComputeStops, ComputeStart, SampleLock, SampleCopy,
       InferReturns, Infer, InferThrows, vars, node, subscription, plan,
       buffers, outcome, locals
  <2>2. control' = "observe" => sample' = m
    BY <1>3 DEF Next, ExecutorThread, ControlThread,
       Lifecycle, Configure, ConfigureThrows, Activate, Deactivate, Cleanup,
       SetParameter, Publish, ScanCallbackLock, ScanCallbackStore, SetPlan,
       ComputeStops, ComputeStart, SampleLock, SampleCopy,
       InferReturns, Infer, InferThrows, vars, node, subscription, plan,
       buffers, outcome, locals
  <2> QED BY <2>1, <2>2 DEF Holds, Filled, buffers
<1> QED BY <1>2, <1>3

(***************************************************************************)
(* With the six frames of the code (rl_controller.cpp:22) the whole stack  *)
(* becomes the scan that stays the last one, if calls keep coming: each of *)
(* them ends and pushes it once more, whatever the stack held before       *)
(* (lines 216-244).                                                        *)
(***************************************************************************)
THEOREM WindowConvergesFairly ==
  N_FRAMES = 6 => (FairSpec /\ []StepsEnabled => WindowConverges)
<1> SUFFICES ASSUME N_FRAMES = 6, NEW m \in LaserScan
             PROVE  FairSpec /\ []StepsEnabled =>
                      ((/\ <>[](lifecycle = "active" /\ last_scan_ = m)
                        /\ []<>(control = "infer"))
                       => <>[](\A f \in Frame : frames_[f] = SampleScan(m)))
  BY DEF WindowConverges
<1> DEFINE S == lifecycle = "active" /\ last_scan_ = m
           T == control = "observe" => sample = m
           H(k) == Holds(SampleScan(m), k)
           D == \A f \in Frame : frames_[f] = SampleScan(m)
<1>1. IInv /\ S /\ S' /\ T /\ [Next]_vars =>
        /\ T'
        /\ ~Aimed /\ Aimed' => H(0)'
        /\ ~Aimed /\ Aimed' => /\ H(0) => H(1)'
                               /\ H(1) => H(2)'
                               /\ H(2) => H(3)'
                               /\ H(3) => H(4)'
                               /\ H(4) => H(5)'
                               /\ H(5) => H(6)'
        /\ H(0) => H(0)'
        /\ H(1) => H(1)'
        /\ H(2) => H(2)'
        /\ H(3) => H(3)'
        /\ H(4) => H(4)'
        /\ H(5) => H(5)'
        /\ H(6) => H(6)'
  <2> SUFFICES ASSUME IInv, S, S', T, [Next]_vars
      PROVE /\ T'
            /\ ~Aimed /\ Aimed' =>
                 H(0)' /\ \A k \in Nat : H(k) => H(k + 1)'
            /\ \A k \in Nat : H(k) => H(k)'
    OBVIOUS
  <2> QED BY StackConverges DEF Aimed
<1>2. Aimed => T
  BY DEF Aimed
<1>3. H(6) => D
  BY DEF Holds, Filled, Frame
<1>4. FairSpec /\ []StepsEnabled => (Aimed ~> ~Aimed)
  <2>1. (Aimed => Called) /\ (Returned => ~Aimed)
    BY DEF Aimed, Called, Returned
  <2> QED BY <2>1, CallsEnd, PTL
<1>5. FairSpec => []IInv /\ [][Next]_vars
  BY SpecIInv, PTL DEF FairSpec, Spec
<1> HIDE DEF S, T, H, D
<1>6. FairSpec /\ []StepsEnabled => (<>[]S /\ []<>Aimed => <>[]D)
  BY <1>1, <1>2, <1>3, <1>4, <1>5, PTL
<1> QED BY <1>6 DEF S, D, Aimed

-----------------------------------------------------------------------------
\* As StepsEnabled, for the server: beside it a step of the plugin is enabled
\* whenever the plugin by itself could take it.
ServerStepsEnabled ==
  /\ ENABLED <<ScanCallbackLock>>_vars
       => ENABLED <<ScanCallbackLock /\ UNCHANGED <<serving, world>>>>_allVars
  /\ ENABLED <<ScanCallbackStore>>_vars
       => ENABLED <<ScanCallbackStore /\ UNCHANGED <<serving, world>>>>_allVars
  /\ ENABLED <<SampleLock>>_vars
       => ENABLED <<SampleLock /\ UNCHANGED <<serving, world>>>>_allVars
  /\ ENABLED <<SampleCopy>>_vars
       => ENABLED <<SampleCopy /\ UNCHANGED <<serving, world>>>>_allVars
  /\ ENABLED <<Observe>>_vars
       => ENABLED <<Observe /\ UNCHANGED <<serving, world>>>>_allVars
  /\ ENABLED <<InferReturns \/ InferThrows>>_vars
       => ENABLED <<Drive \/ Abort>>_allVars

\* ... and the server's turns are the plugin's steps.
LEMMA ServerStepsAreSteps ==
  /\ <<ScanCallbackLock /\ UNCHANGED <<serving, world>>>>_allVars
       => <<ScanCallbackLock>>_vars
  /\ <<ScanCallbackStore /\ UNCHANGED <<serving, world>>>>_allVars
       => <<ScanCallbackStore>>_vars
  /\ <<SampleLock /\ UNCHANGED <<serving, world>>>>_allVars
       => <<SampleLock>>_vars
  /\ <<SampleCopy /\ UNCHANGED <<serving, world>>>>_allVars
       => <<SampleCopy>>_vars
  /\ <<Observe /\ UNCHANGED <<serving, world>>>>_allVars
       => <<Observe>>_vars
  /\ <<Drive \/ Abort>>_allVars => <<InferReturns \/ InferThrows>>_vars
<1>1. UNCHANGED <<serving, world>> /\ allVars' # allVars => vars' # vars
  BY DEF allVars
<1>2. InferReturns \/ InferThrows => control' # control
  BY DEF InferReturns, Infer, InferThrows
<1>3. control' # control => vars' # vars
  BY DEF vars, locals
<1> QED BY <1>1, <1>2, <1>3 DEF Drive, Abort

(***************************************************************************)
(* In its server the plugin is scheduled as fairly as it is checked under: *)
(* controller_server waits for a call that it made, and the executor, the  *)
(* tuning of the lookahead and localisation do not keep the call from its  *)
(* next step.  So calls end and the stack converges there too              *)
(* (rl_controller.cpp:82-88, 104-177).                                     *)
(***************************************************************************)
THEOREM FollowImplementsFairPlugin ==
  FollowFairSpec /\ []ServerStepsEnabled => FairSpec
<1>1. FollowFairSpec => Spec
  BY FollowImplementsPlugin, PTL DEF FollowFairSpec
<1>2. FollowFairSpec /\ []ServerStepsEnabled => Fairness
  BY ServerStepsAreSteps, PTL
  DEF ServerStepsEnabled, FollowFairSpec, FollowFairness, Fairness
<1> QED BY <1>1, <1>2, PTL DEF FairSpec
=============================================================================
