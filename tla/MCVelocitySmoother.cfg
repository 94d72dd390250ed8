\* velocity_timeout is a second, 20 periods.
SPECIFICATION FairSpec
CONSTANTS
  MAX_LIN = 220
  MAX_ANG = 2000
  MAX_VELOCITY <- MCMaxVelocity
  MIN_VELOCITY <- MCMinVelocity
  MAX_ACCEL <- MCMaxAccel
  MAX_DECEL <- MCMaxDecel
  VELOCITY_TIMEOUT = 20
  MAX_SILENCE = 30
INVARIANTS
  BaseWithinLimits
  SilenceStops
PROPERTIES
  SteadyCommandReached
