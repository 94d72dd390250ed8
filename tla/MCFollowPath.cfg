\* The server and the plugin, odom and map aligned.
SPECIFICATION FollowFairSpec
CONSTANTS
  N_RAYS = 1
  N_SECTORS = 1
  LIDAR_CAP = 1
  TURN = 12
  N_FRAMES = 1
  SCAN_DEPTH = 1
  LaserScan <- OneBeam
  Position = {0, 1, 2, 3}
  Dist <- LineDist
  DBL_MAX = 100
  Path <- SomePaths
  Lookahead = {1, 2}
  DEFAULT_LOOKAHEAD = 1
  ONE = 1
  RawAction <- OneAction
  Velocity = {0}
  Yaw = {0}
  Offset <- Aligned
  Tolerance = 0
  Undeclared = Undeclared
  NonFinite = NonFinite
  NoScan = NoScan
  NaN = NaN
  NoCall = NoCall
  NoObs = NoObs
  NoCmd = NoCmd
INVARIANTS
  CarrotOfThisGoal
  NeverStalls
PROPERTIES
  GoalEnds
