-------------------------- MODULE MCPointCloudSlice --------------------------
(***************************************************************************)
(* The parameters of launch/slam_3d.launch.py for TLC, with points on both *)
(* sides of every limit.                                                   *)
(***************************************************************************)
EXTENDS PointCloudSlice

MCMinHeight == -5
MCAngleMin == -314159000

\* atan2 comes up to 3.14159265, beyond angle_max.
MCBearing == {-314159265, -314159000, 0, 1000000, 1745000, 314041000,
              314041100, 314159000, 314159265}

MCPoint ==
  [height : {-6, -5, 40, 100, 101}, bearing : MCBearing,
   range : {9, 10, 500, 1200, 1201}]
=============================================================================
