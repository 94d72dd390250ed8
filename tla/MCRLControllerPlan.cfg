\* The plans, the policy and the parameter: one scan, one frame.
SPECIFICATION Spec
CONSTANTS
  N_RAYS = 1
  N_SECTORS = 1
  LIDAR_CAP = 1
  TURN = 12
  N_FRAMES = 1
  SCAN_DEPTH = 1
  LaserScan <- OneBeam
  Position <- SomePlaces
  Dist <- LineDist
  DBL_MAX = 100
  Path <- SomePaths
  Lookahead <- SomeLookaheads
  DEFAULT_LOOKAHEAD = 2
  ONE = 2
  RawAction <- SomeActions
  Velocity <- SomeVelocities
  Yaw <- SomeYaws
  Undeclared = Undeclared
  NonFinite = NonFinite
  NoScan = NoScan
  NaN = NaN
  NoCall = NoCall
  NoObs = NoObs
  NoCmd = NoCmd
INVARIANTS
  TypeOK
  CarrotInPath
  CommandWithinLimits
  FeedbackExplainsCommand
  CleanInputsCleanCommand
PROPERTIES
  CarrotNeverBackward
  ImplementsLoop
