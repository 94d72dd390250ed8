\* The scans: two threads, a queue that overflows, three frames, three scans.
SPECIFICATION FairSpec
CONSTANTS
  N_RAYS = 3
  N_SECTORS = 2
  LIDAR_CAP = 1
  TURN = 12
  N_FRAMES = 3
  SCAN_DEPTH = 1
  LaserScan <- ThreeScans
  Position = {0}
  Dist <- LineDist
  DBL_MAX = 100
  Path <- OnePath
  Lookahead = {1}
  DEFAULT_LOOKAHEAD = 1
  ONE = 1
  RawAction <- OneAction
  Velocity = {0}
  Yaw = {0}
  Undeclared = Undeclared
  NonFinite = NonFinite
  NoScan = NoScan
  NaN = NaN
  NoCall = NoCall
  NoObs = NoObs
  NoCmd = NoCmd
INVARIANTS
  NoTornScan
  FramesAreHistory
PROPERTIES
  ApproachIsSeen
  QuietWithoutMotion
  WindowConverges
  ImplementsFairLoop
