\* The numbers of slam_3d.launch.py, clouds of up to two points.
SPECIFICATION Spec
CONSTANTS
  MIN_HEIGHT <- MCMinHeight
  MAX_HEIGHT = 100
  ANGLE_MIN <- MCAngleMin
  ANGLE_MAX = 314159000
  ANGLE_INCREMENT = 1745000
  RANGE_MIN = 10
  RANGE_MAX = 1200
  Inf = 1300
  Point <- MCPoint
  MAX_POINTS = 2
INVARIANTS
  ScanIsNearest
