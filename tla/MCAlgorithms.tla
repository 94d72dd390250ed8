---------------------------- MODULE MCAlgorithms ----------------------------
(***************************************************************************)
(* The bounded inputs over which TLC checks Algorithms.  The poses are on  *)
(* a line, where hypot is exact; a path that folds back on itself, where   *)
(* nearest is ambiguous, is the hard case and the line has them all.       *)
(***************************************************************************)
EXTENDS Algorithms

CONSTANTS MaxLen   \* poses in a path, at most

\* Ranges that run through below 0, in range, the cap, beyond it, and inf.
SomeRanges(n) ==
  [j \in 1 .. n |-> IF j % 5 = 4 THEN NonFinite ELSE (j % 5) * LIDAR_CAP - 1]

\* Beams that divide the turn, in both directions of rotation, beams that do
\* not, and increments of nothing and of more than a turn.
Steps == {1, 35900, 44875, 71800, 89750, 100000, 179500, 359000, 400000}
Increments == Steps \cup {-d : d \in Steps} \cup {0}

FirstAngles == {-359000, -179500, -44875, -1, 0, 1, 35900, 100001, 179500}

SmallMessages ==
  [ranges : {SomeRanges(n) : n \in {0, 1, 2, 3, 4, 5, 8, 10}},
   angle_increment : Increments, angle_min : FirstAngles]

\* urdf/ict_bot.urdf:244-251: 360 samples from -pi to pi, so 359 increments
\* to the turn, and the same sensor rotating the other way.
UrdfMessages ==
  {[ranges |-> SomeRanges(360), angle_increment |-> d * 1000,
    angle_min |-> -d * 179500] : d \in {-1, 1}}

Messages == SmallMessages \cup UrdfMessages

\* NonFinite is a place with a coordinate that is NaN.
Places == {0, 1, 2, 4, NonFinite}

LineDist(p, q) ==
  IF NonFinite \in {p, q} THEN DBL_MAX ELSE IF p < q THEN q - p ELSE p - q

Paths == UNION {[1 .. n -> Position] : n \in 1 .. MaxLen}

Lookaheads == -1 .. 3
=============================================================================
