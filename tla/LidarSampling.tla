---------------------------- MODULE LidarSampling ----------------------------
(***************************************************************************)
(* The arithmetic of RLController::sampleScan and of the sector split in   *)
(* RLController::updateLidarBuffers (rl_nav_cpp/src/rl_controller.cpp).    *)
(* Nothing here has state.                                                 *)
(*                                                                         *)
(* Ranges are integers with 0 for a hit on the sensor and LIDAR_CAP for    *)
(* the 3.5 m training cap, so a normalised ray (0.0f..1.0f in the code) is *)
(* a number in 0..LIDAR_CAP.  Angles are integers, TURN of them to a full  *)
(* turn; the angle of ray i is kept as N_RAYS times its value so that      *)
(* 2*pi*i/N_RAYS is exact.                                                 *)
(***************************************************************************)
EXTENDS Integers, Sequences

CONSTANTS
  N_RAYS,      \* rays fed to the policy (90 in the code)
  N_SECTORS,   \* sectors of the temporal feature (8 in the code)
  LIDAR_CAP,   \* the normalisation range, in range units
  TURN,        \* angle units in a full turn
  NonFinite,   \* a range that is inf or NaN
  NoScan       \* the null shared_ptr: no /scan message has been handled yet

ASSUME SamplingAssumption ==
  /\ N_RAYS \in Nat \ {0}
  /\ N_SECTORS \in 1 .. N_RAYS
  /\ LIDAR_CAP \in Nat \ {0}
  /\ TURN \in Nat \ {0}
  /\ NonFinite \notin Int

Ray == 0 .. N_RAYS - 1
Sector == 0 .. N_SECTORS - 1

\* What sampleScan returns: N_RAYS normalised ranges.
Scan == [Ray -> 0 .. LIDAR_CAP]

\* A sensor_msgs/LaserScan, as far as sampleScan reads it.
IsLaserScan(m) ==
  /\ m.ranges \in Seq(Int \cup {NonFinite})
  /\ m.angle_min \in Int
  /\ m.angle_increment \in Int

-----------------------------------------------------------------------------
(***************************************************************************)
(* C++ arithmetic.                                                         *)
(***************************************************************************)
Abs(x) == IF x < 0 THEN -x ELSE x

Clamp(x, lo, hi) == IF x < lo THEN lo ELSE IF x > hi THEN hi ELSE x

\* The % of C++, whose result takes the sign of the dividend.
Rem(a, n) == IF a < 0 THEN -((-a) % n) ELSE a % n

\* A mutant: rounding toward zero, as a plain cast would.
TruncDiv(a, b) ==
  LET q == Abs(a) \div Abs(b) IN IF (a < 0) = (b < 0) THEN q ELSE -q

\* std::lround(a / b): to the nearest, halves away from zero.
RoundDiv(a, b) ==
  LET q == (2 * Abs(a) + Abs(b)) \div (2 * Abs(b))
  IN  IF (a < 0) = (b < 0) THEN q ELSE -q

-----------------------------------------------------------------------------
(***************************************************************************)
(* Which beam of the message a ray reads.                                  *)
(***************************************************************************)

\* N_RAYS times the angle of ray i, wrapped by atan2(sin, cos).  The float
\* nearest to pi lies above pi, so the wrap sends the half turn to -pi.
RayAngle(i) == TURN * (IF 2 * i < N_RAYS THEN i ELSE i - N_RAYS)

\* A mutant: one % only, which leaves a negative index negative.
WrapOnce(idx, n) == Rem(idx, n)

WrapIndex(idx, n) == Rem(Rem(idx, n) + n, n)

\* The 0-based index into m.ranges that ray i reads.
Beam(m, i) ==
  WrapIndex(RoundDiv(RayAngle(i) - N_RAYS * m.angle_min,
                     N_RAYS * m.angle_increment),
            Len(m.ranges))

Normalise(r) == IF r = NonFinite THEN LIDAR_CAP ELSE Clamp(r, 0, LIDAR_CAP)

\* "default = far / no hit"
FarScan == [i \in Ray |-> LIDAR_CAP]

SampleScan(m) ==
  IF m = NoScan THEN FarScan
  ELSE IF m.ranges = << >> \/ m.angle_increment = 0 THEN FarScan
  ELSE [i \in Ray |-> Normalise(m.ranges[Beam(m, i) + 1])]

-----------------------------------------------------------------------------
(***************************************************************************)
(* The sectors: N_RAYS rays in N_SECTORS runs, the first N_RAYS % N_SECTORS*)
(* runs one ray longer.  The code accumulates the start (start += len);    *)
(* SectorStart is the closed form, and ObservationProofs shows that it     *)
(* obeys that recurrence.                                                  *)
(***************************************************************************)

\* A mutant: the remainder is forgotten.
SectorLenNoRemainder(s) == N_RAYS \div N_SECTORS

SectorLen(s) ==
  N_RAYS \div N_SECTORS + (IF s < N_RAYS % N_SECTORS THEN 1 ELSE 0)

SectorStart(s) ==
  s * (N_RAYS \div N_SECTORS)
    + (IF s < N_RAYS % N_SECTORS THEN s ELSE N_RAYS % N_SECTORS)

SectorRays(s) == SectorStart(s) .. SectorStart(s) + SectorLen(s) - 1

\* Ray k is in one sector and in no other.
InOneSector(k) ==
  \E s \in Sector :
    /\ k \in SectorRays(s)
    /\ \A t \in Sector \ {s} : k \notin SectorRays(t)

\* A mutant: the largest difference of the sector instead of the smallest.
MaxDiffSign(s, scan, prev) ==
  IF \E k \in SectorRays(s) : scan[k] > prev[k] THEN 1
  ELSE IF \E k \in SectorRays(s) : scan[k] = prev[k] THEN 0 ELSE -1

\* A mutant: the inner loop starts at 0 for every sector.
MinDiffSignFromZero(s, scan, prev) ==
  LET read == 0 .. SectorStart(s) + SectorLen(s) - 1
  IN  IF \E k \in read : scan[k] < prev[k] THEN -1
      ELSE IF \E k \in read : scan[k] = prev[k] THEN 0 ELSE 1

\* The sign of min(scan[k] - prev[k]) over the rays of sector s.
MinDiffSign(s, scan, prev) ==
  IF \E k \in SectorRays(s) : scan[k] < prev[k] THEN -1
  ELSE IF \E k \in SectorRays(s) : scan[k] = prev[k] THEN 0 ELSE 1

\* The signs that 0.8 * t + 0.2 * x can take, from the signs of t and x.  A
\* nonzero t never decays to zero: scaled by 0.8 a float stays nonzero.
EmaSigns(t, x) ==
  IF t = 0 THEN {x}
  ELSE IF x = 0 \/ x = t THEN {t}
  ELSE {-1, 0, 1}
=============================================================================
