--------------------------- MODULE PointCloudSlice ---------------------------
(***************************************************************************)
(* The node that launch/slam_3d.launch.py starts to turn /point_cloud into *)
(* /scan_3d for slam_toolbox.  The launch file gives the numbers; the node *)
(* is pointcloud_to_laserscan, outside this repository: for each point of  *)
(* a cloud it drops what is outside the band of heights, the ranges and    *)
(* the angles, and keeps the nearest of the others in the beam that their  *)
(* bearing falls in.  Points with a NaN are dropped before and left out.   *)
(*                                                                         *)
(* Heights and ranges are in centimetres, angles in units of 1e-8 rad.     *)
(***************************************************************************)
EXTENDS Integers

CONSTANTS
  MIN_HEIGHT, MAX_HEIGHT,
  ANGLE_MIN, ANGLE_MAX, ANGLE_INCREMENT,
  RANGE_MIN, RANGE_MAX,
  Inf,          \* a range above all others, what use_inf puts into empty beams
  Point,        \* [height, bearing, range] records, the points of a cloud
  MAX_POINTS    \* points in a cloud: a bound of the model

ASSUME SliceAssumption ==
  /\ ANGLE_MIN \in Int /\ ANGLE_MAX \in Int /\ ANGLE_MIN < ANGLE_MAX
  /\ ANGLE_INCREMENT \in Nat \ {0}
  /\ RANGE_MIN \in Nat /\ RANGE_MAX \in Nat
  /\ Inf \in Nat /\ RANGE_MAX < Inf
  /\ Point \subseteq [height : Int, bearing : Int, range : Nat]
  /\ MAX_POINTS \in Nat

VARIABLES
  ranges,   \* the scan under construction
  cloud,    \* history: the points of the cloud so far
  n         \* how many

vars == <<ranges, cloud, n>>

\* ranges_size, rounded up.
Beams == 0 .. ((ANGLE_MAX - ANGLE_MIN - 1) \div ANGLE_INCREMENT)

Index(p) == (p.bearing - ANGLE_MIN) \div ANGLE_INCREMENT

Accepted(p) ==
  /\ p.height \in MIN_HEIGHT .. MAX_HEIGHT
  /\ p.range \in RANGE_MIN .. RANGE_MAX
  /\ p.bearing \in ANGLE_MIN .. ANGLE_MAX

EmptyScan == [b \in Beams |-> Inf]

Init == ranges = EmptyScan /\ cloud = {} /\ n = 0

\* A mutant: a later point replaces an earlier one.
StoreLast(p) == [ranges EXCEPT ![Index(p)] = p.range]

Store(p) ==
  IF p.range < ranges[Index(p)] THEN [ranges EXCEPT ![Index(p)] = p.range]
  ELSE ranges

Project(p) ==
  /\ n < MAX_POINTS
  /\ ranges' = IF Accepted(p) THEN Store(p) ELSE ranges
  /\ cloud' = cloud \cup {p}
  /\ n' = n + 1

\* The scan is published, the next cloud starts from an empty one.
NextCloud ==
  /\ n > 0
  /\ ranges' = EmptyScan /\ cloud' = {} /\ n' = 0

Next == NextCloud \/ \E p \in Point : Project(p)

Spec == Init /\ [][Next]_vars

-----------------------------------------------------------------------------
TypeOK ==
  /\ ranges \in [Beams -> 0 .. Inf]
  /\ cloud \subseteq Point
  /\ n \in 0 .. MAX_POINTS

\* With 0.01745 rad for one degree, a full turn is 360 beams and a little
\* more: the last bearings need the beam that rounding up provides.
EveryPointHasBeam == \A p \in cloud : Accepted(p) => Index(p) \in Beams

NearestOfEachBeam ==
  \A b \in Beams :
    LET seen == {p \in cloud : Accepted(p) /\ Index(p) = b} IN
      IF seen = {} THEN ranges[b] = Inf
      ELSE /\ \E p \in seen : ranges[b] = p.range
           /\ \A p \in seen : ranges[b] <= p.range

(***************************************************************************)
(* The scan is that of the nearest accepted point of each beam, in         *)
(* whatever order the cloud lists them, and says nothing else; and no      *)
(* accepted point is without a beam.                                       *)
(***************************************************************************)
ScanIsNearest == EveryPointHasBeam /\ NearestOfEachBeam
=============================================================================
