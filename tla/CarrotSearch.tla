---------------------------- MODULE CarrotSearch ----------------------------
(***************************************************************************)
(* RLController::findCarrot (rl_nav_cpp/src/rl_controller.cpp:247-282): the*)
(* two loops that turn the plan and the robot's position into the point    *)
(* the policy is told to drive to.  A path is a sequence of positions,     *)
(* indexed from 1 where the code indexes from 0.                           *)
(***************************************************************************)
EXTENDS Integers, Sequences

CONSTANTS
  Position,     \* where poses may be
  Dist(_, _),   \* std::hypot of the coordinate differences
  DBL_MAX       \* larger than every finite distance

\* A distance that is NaN or infinite is not less than anything the two loops
\* compare it with: it is DBL_MAX, where "best" begins and which no lookahead
\* exceeds.
ASSUME DistAssumption ==
  /\ DBL_MAX \in Nat
  /\ \A p, q \in Position : Dist(p, q) \in Nat /\ Dist(p, q) <= DBL_MAX

-----------------------------------------------------------------------------
(***************************************************************************)
(* The loops.                                                              *)
(***************************************************************************)

\* A mutant: <= instead of <, which prefers the last of several nearest.
NearestLoopLast(path, from, p) ==
  LET run[i \in from - 1 .. Len(path)] ==
        IF i < from THEN [best |-> DBL_MAX, idx |-> from]
        ELSE IF Dist(path[i], p) <= run[i - 1].best
             THEN [best |-> Dist(path[i], p), idx |-> i]
             ELSE run[i - 1]
  IN  run[Len(path)].idx

\* for (i = carrot_idx_; ...) if (d < best) { best = d; carrot_idx_ = i; }
NearestLoop(path, from, p) ==
  LET run[i \in from - 1 .. Len(path)] ==
        IF i < from THEN [best |-> DBL_MAX, idx |-> from]
        ELSE IF Dist(path[i], p) < run[i - 1].best
             THEN [best |-> Dist(path[i], p), idx |-> i]
             ELSE run[i - 1]
  IN  run[Len(path)].idx

\* A mutant: the last pose is dropped from the walk.
WalkLoopShort(path, i, lookahead) ==
  LET walk[k \in i .. Len(path)] ==
        IF k = i THEN [carrot |-> i, acc |-> 0]
        ELSE LET s == walk[k - 1]
             IN  IF s.carrot + 1 < Len(path) /\ s.acc < lookahead
                 THEN [carrot |-> s.carrot + 1,
                       acc |-> s.acc + Dist(path[s.carrot + 1],
                                            path[s.carrot])]
                 ELSE s
  IN  walk[Len(path)].carrot

\* while (j + 1 < poses.size() && acc < carrot_lookahead_) ..., which turns
\* at most once for each pose after i.
WalkLoop(path, i, lookahead) ==
  LET walk[k \in i .. Len(path)] ==
        IF k = i THEN [carrot |-> i, acc |-> 0]
        ELSE LET s == walk[k - 1]
             IN  IF s.carrot < Len(path) /\ s.acc < lookahead
                 THEN [carrot |-> s.carrot + 1,
                       acc |-> s.acc + Dist(path[s.carrot + 1],
                                            path[s.carrot])]
                 ELSE s
  IN  walk[Len(path)].carrot

-----------------------------------------------------------------------------
(***************************************************************************)
(* What the loops look for, without the loops.                             *)
(***************************************************************************)

\* A mutant: the search starts over from the first pose.
IsNearestFromStart(path, from, p, i) ==
  /\ i \in DOMAIN path
  /\ \A j \in DOMAIN path :
       /\ Dist(path[i], p) <= Dist(path[j], p)
       /\ j < i => Dist(path[i], p) < Dist(path[j], p)

\* i is the first of the poses nearest to p among those from index "from" on.
IsNearest(path, from, p, i) ==
  /\ i \in from .. Len(path)
  /\ \A j \in from .. Len(path) :
       /\ Dist(path[i], p) <= Dist(path[j], p)
       /\ j < i => Dist(path[i], p) < Dist(path[j], p)

\* The length of the path between two of its poses.
ArcLength(path, i, j) ==
  LET arc[k \in i .. j] ==
        IF k = i THEN 0 ELSE arc[k - 1] + Dist(path[k], path[k - 1])
  IN  arc[j]

\* A mutant: the walk stops one pose before the end.
IsCarrotShort(path, i, lookahead, j) ==
  LET last == IF i < Len(path) THEN Len(path) - 1 ELSE i
  IN  /\ j \in i .. last
      /\ j = last \/ ArcLength(path, i, j) >= lookahead
      /\ \A k \in i .. j - 1 : ArcLength(path, i, k) < lookahead

\* j is the first pose at least lookahead along the path from i, or the last.
IsCarrot(path, i, lookahead, j) ==
  /\ j \in i .. Len(path)
  /\ j = Len(path) \/ ArcLength(path, i, j) >= lookahead
  /\ \A k \in i .. j - 1 : ArcLength(path, i, k) < lookahead
=============================================================================
