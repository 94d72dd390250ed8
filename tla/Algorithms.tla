----------------------------- MODULE Algorithms -----------------------------
(***************************************************************************)
(* The pure algorithms, exercised over any inputs.  A behaviour exercises  *)
(* one of them:                                                            *)
(*   - LidarSampling: it picks one /scan message, then visits every ray;   *)
(*   - CarrotSearch: it picks one plan and lookahead, and the robot jumps  *)
(*     anywhere between two calls;                                         *)
(*   - ShortFloat: it runs through the 16-bit values without sign.         *)
(* The variables of the other two keep a value that says so.               *)
(***************************************************************************)
EXTENDS LidarSampling, CarrotSearch, ShortFloat

CONSTANTS
  Message,   \* the /scan messages that are sampled
  Plan,      \* the plans that are followed, none of them empty
  Lookahead  \* the values of carrot_lookahead

ASSUME InputAssumption ==
  /\ \A m \in Message : IsLaserScan(m) /\ m # NoScan
  /\ Plan \subseteq Seq(Position) \ {<< >>}
  /\ Lookahead \subseteq Int /\ \A v \in Lookahead : v <= DBL_MAX

VARIABLES
  msg, ray,                       \* NoScan, or a message and one of its rays
  path, idx, robot, lookahead,    \* << >>, or a plan and a call of findCarrot
  bits                            \* NoBits, or a 16-bit value without sign

lidar == <<msg, ray>>
carrot == <<path, idx, robot, lookahead>>
vars == <<lidar, carrot, bits>>

NoBits == -1

-----------------------------------------------------------------------------
InitLidar ==
  /\ msg \in Message /\ ray = 0
  /\ path = << >> /\ idx = 1 /\ robot = 0 /\ lookahead = 0
  /\ bits = NoBits

InitCarrot ==
  /\ msg = NoScan /\ ray = 0
  /\ path \in Plan /\ idx = 1 /\ robot \in Position
  /\ lookahead \in Lookahead
  /\ bits = NoBits

InitFloat ==
  /\ msg = NoScan /\ ray = 0
  /\ path = << >> /\ idx = 1 /\ robot = 0 /\ lookahead = 0
  /\ bits = 0

Init == InitLidar \/ InitCarrot \/ InitFloat

NextRay ==
  /\ msg # NoScan
  /\ ray' = (ray + 1) % N_RAYS
  /\ UNCHANGED <<msg, carrot, bits>>

\* One call of findCarrot, from wherever the robot has got to.
Call(p) ==
  /\ path # << >>
  /\ idx' = NearestLoop(path, idx, robot)
  /\ robot' = p
  /\ UNCHANGED <<lidar, path, lookahead, bits>>

NextValue ==
  /\ bits # NoBits
  /\ bits' = (bits + 1) % SIGN
  /\ UNCHANGED <<lidar, carrot>>

Next == NextRay \/ (\E p \in Position : Call(p)) \/ NextValue

Spec == Init /\ [][Next]_vars

-----------------------------------------------------------------------------
\* The inputs keep their types: a call leaves carrot_idx_ at a pose of the
\* plan, from which the next search starts.
InputsOK ==
  /\ msg \in Message \cup {NoScan}
  /\ ray \in Ray
  /\ path \in Seq(Position)
  /\ path # << >> => idx \in DOMAIN path /\ robot \in Position
  /\ lookahead \in Int
  /\ bits \in {NoBits} \cup 0 .. SIGN - 1

\* The messages of which sampleScan reads a beam.
Readable(m) == m # NoScan /\ m.ranges # << >> /\ m.angle_increment # 0

\* The sensor covers the full turn: either its beams divide the turn evenly,
\* or, as the sensor of urdf/ict_bot.urdf:244-251, its first and its last
\* beam both lie on the half turn.
FullCircle(m) ==
  \/ Len(m.ranges) * Abs(m.angle_increment) = TURN
  \/ /\ (Len(m.ranges) - 1) * Abs(m.angle_increment) = TURN
     /\ Abs(2 * m.angle_min) = TURN
     /\ (m.angle_min < 0) = (m.angle_increment > 0)

\* The size of an angle, taken the short way round a circle of a full turn.
ShortWay(angle, turn) ==
  LET d == angle % turn IN IF 2 * d > turn THEN turn - d ELSE d

\* N_RAYS times the angle between ray i and the beam it reads.
AngularError(m, i) ==
  ShortWay(N_RAYS * (m.angle_min + Beam(m, i) * m.angle_increment)
             - RayAngle(i),
           N_RAYS * TURN)

(***************************************************************************)
(* Whatever angle_min, angle_increment and number of ranges a message      *)
(* carries, the access s->ranges[idx] of rl_controller.cpp:207 is inside   *)
(* the vector: the two-step % brings every index back, negative ones too.  *)
(***************************************************************************)
BeamInRange ==
  Readable(msg) => Beam(msg, ray) \in 0 .. Len(msg.ranges) - 1

(***************************************************************************)
(* On a full-circle scan, in either direction of rotation and from any     *)
(* first angle, the beam a ray reads is one nearest to the ray's angle: at *)
(* most half an increment off ("90 rays at the training lidar's angles",   *)
(* rl_controller.cpp:189).                                                 *)
(***************************************************************************)
NearestBeam ==
  Readable(msg) /\ FullCircle(msg)
    => 2 * AngularError(msg, ray) <= N_RAYS * Abs(msg.angle_increment)

(***************************************************************************)
(* The eight sectors are consecutive, none is empty, and together they     *)
(* hold every ray exactly once although N_SECTORS does not divide N_RAYS   *)
(* (rl_controller.cpp:230-241): no obstacle falls between two sectors.     *)
(***************************************************************************)
EveryRayInOneSector == InOneSector(ray)

(***************************************************************************)
(* The search loop returns the first nearest pose from carrot_idx_ on, and *)
(* nothing else does: with its strict < and its running minimum it never   *)
(* prefers a later pose at the same distance, such as the way back of a    *)
(* path that folds, nor a pose with a NaN, and from a robot whose place is *)
(* NaN it does not move on (rl_controller.cpp:261-269).                    *)
(***************************************************************************)
NearestLoopIsExact ==
  \A i \in DOMAIN path :
    IsNearest(path, idx, robot, i) <=> i = NearestLoop(path, idx, robot)

(***************************************************************************)
(* The walk stops at the first pose at least the lookahead along the path, *)
(* or at the last pose, for every lookahead a parameter can be given, zero *)
(* and negative ones included, and never goes on from an edge whose length *)
(* is NaN (rl_controller.cpp:271-279).                                     *)
(***************************************************************************)
WalkLoopIsExact ==
  \A i, j \in DOMAIN path :
    IsCarrot(path, i, lookahead, j) <=> j = WalkLoop(path, i, lookahead)

\* Every value comes back from its float, subnormals and infinity included;
\* a NaN comes back as a NaN.
RoundTrip ==
  LET h == ToUint16Impl(ToFloatImpl(bits))
      b == ToUint16ImplBrain(ToFloatImplBrain(bits))
  IN  /\ h = bits \/ (h > HALF_INF /\ bits > HALF_INF)
      /\ b = bits \/ (b > BRAIN_INF /\ bits > BRAIN_INF)

\* The float half-way between bits and the next value, in both formats.
\* After the largest Float16 the next value would be 2^16.
HalfWay ==
  IF bits < 1024 THEN ToFloatImpl(2 * bits + 1) - Exponent(1)
  ELSE bits * HALF_STEP + Exponent(112) + HALF_BIAS + 1

BrainHalfWay == bits * BRAIN_STEP + BRAIN_BIAS + 1

Even(n) == IF n % 2 = 0 THEN n ELSE n + 1

(***************************************************************************)
(* A float becomes the 16-bit value nearest to it, and the even one of two *)
(* that are equally near: at a value itself, half-way between two          *)
(* neighbours, and one bit before and after that, over normal and          *)
(* subnormal values and up to infinity (onnxruntime_float16.h:246-292).    *)
(***************************************************************************)
NearestValue ==
  bits # NoBits =>
    /\ RoundTrip
    /\ bits < HALF_INF =>
         /\ ToUint16Impl(HalfWay) = Even(bits)
         /\ ToUint16Impl(HalfWay - 1) = bits
         /\ ToUint16Impl(HalfWay + 1) = bits + 1
    /\ bits < BRAIN_INF =>
         /\ ToUint16ImplBrain(BrainHalfWay) = Even(bits)
         /\ ToUint16ImplBrain(BrainHalfWay - 1) = bits
         /\ ToUint16ImplBrain(BrainHalfWay + 1) = bits + 1
=============================================================================
