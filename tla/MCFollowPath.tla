---------------------------- MODULE MCFollowPath ----------------------------
(***************************************************************************)
(* Small instances of FollowPath for TLC: a line of five places.           *)
(***************************************************************************)
EXTENDS FollowPath

LineDist(p, q) == IF p < q THEN q - p ELSE p - q

OneBeam == {[ranges |-> <<0>>, angle_min |-> 0, angle_increment |-> 12]}

OneAction == {<<0, 0>>}

\* There, back, and a path that turns on itself.
SomePaths == {<<0, 1, 2>>, <<3, 2, 1, 0>>, <<1, 3, 1, 0>>}

\* What the paths and the lookaheads of the runs are chosen by.
ASSUME PathsAreFollowable == Separates /\ LooksAhead /\ FoldsAreWide

Aligned == {0}
Drifting == {0, 1}
=============================================================================
