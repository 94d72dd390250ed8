-------------------------- MODULE MCVelocitySmoother --------------------------
(***************************************************************************)
(* The numbers of rl_controller.cpp and nav2_params.yaml for TLC.          *)
(***************************************************************************)
EXTENDS VelocitySmoother

Axes(lin, ang) == [a \in Axis |-> IF a = "linear" THEN lin ELSE ang]

MCMaxVelocity == Axes(220, 2000)
MCMinVelocity == Axes(-220, -2000)

\* 2.5 m/s2 and 8 rad/s2 at 20 Hz.
MCMaxAccel == Axes(125, 400)
MCMaxDecel == Axes(-125, -400)
=============================================================================
