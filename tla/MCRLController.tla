--------------------------- MODULE MCRLController ---------------------------
(***************************************************************************)
(* Small instances of RLController for TLC.                                *)
(***************************************************************************)
EXTENDS RLController

\* Positions on a line, where hypot is exact, and one with a NaN.
LineDist(p, q) ==
  IF NaN \in {p, q} THEN DBL_MAX ELSE IF p < q THEN q - p ELSE p - q

SomePlaces == {0, 1, 2, NaN}

\* A full-circle message of three beams, one per ray.
Beams(r) == [ranges |-> r, angle_min |-> 0, angle_increment |-> 4]

Near == Beams(<<0, 1, 1>>)
Far == Beams(<<1, 0, NonFinite>>)
NoRanges == Beams(<< >>)

ThreeScans == {Near, Far, NoRanges}
OneBeam == {[ranges |-> <<0>>, angle_min |-> 0, angle_increment |-> 12]}

\* Out and back on the line, shorter plans, and one with a NaN on the way.
SomePaths == {<< >>, <<0>>, <<0, 1, 2>>, <<0, 1, 2, 1, 0>>, <<0, NaN, 2>>}
OnePath == {<<0>>}

SomeLookaheads == {-1, 2}

SomeActions == {<<-3, 0>>, <<0, 2>>, <<2, -1>>, <<3, 3>>, <<-1, -3>>}
OneAction == {<<0, 0>>}

SomeVelocities == {0, NaN}
SomeYaws == {0, NaN}
=============================================================================
