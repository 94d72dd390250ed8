\* The real sizes of the policy input; angles in thousandths of the URDF
\* lidar's increment, of which 359 make a turn.
SPECIFICATION Spec
CONSTANTS
  N_RAYS = 90
  N_SECTORS = 8
  LIDAR_CAP = 350
  TURN = 359000
  NonFinite = NonFinite
  NoScan = NoScan
  Position <- Places
  Dist <- LineDist
  DBL_MAX = 100
  MaxLen = 4
  Message <- Messages
  Plan <- Paths
  Lookahead <- Lookaheads
INVARIANTS
  BeamInRange
  NearestBeam
  EveryRayInOneSector
  NearestLoopIsExact
  WalkLoopIsExact
  NearestValue
