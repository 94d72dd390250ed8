------------------------ MODULE PointCloudSliceProofs ------------------------
(***************************************************************************)
(* Proofs about PointCloudSlice, for every choice of the launch file's     *)
(* numbers and clouds of any size.                                         *)
(***************************************************************************)
EXTENDS PointCloudSlice, TLAPS

\* The increment does not divide the angle that the scan covers.  If it did,
\* a point exactly at angle_max would have a beam of its own, one too many.
NoExactFit == (ANGLE_MAX - ANGLE_MIN) % ANGLE_INCREMENT # 0

-----------------------------------------------------------------------------
(***************************************************************************)
(* Beams.                                                                  *)
(***************************************************************************)

\* Division rounds down and is monotonic.
LEMMA Division ==
  ASSUME NEW a \in Nat, NEW d \in Nat \ {0}
  PROVE  a \div d \in Nat /\ a = d * (a \div d) + (a % d) /\ a % d \in 0 .. d - 1
OBVIOUS

LEMMA DivisionMonotonic ==
  ASSUME NEW a \in Nat, NEW b \in Nat, NEW d \in Nat \ {0}, a <= b
  PROVE  a \div d <= b \div d
<1> DEFINE q == a \div d
           r == b \div d
<1>1. /\ q \in Nat /\ a = d * q + (a % d) /\ a % d \in 0 .. d - 1
      /\ r \in Nat /\ b = d * r + (b % d) /\ b % d \in 0 .. d - 1
  BY Division
<1> HIDE DEF q, r
<1>2. d * q < d * (r + 1)
  BY <1>1
<1>3. q < r + 1
  BY <1>1, <1>2
<1> QED BY <1>1, <1>3 DEF q, r

\* What is left over is enough for the rounding up to be one beam more.
LEMMA DivisionOneLess ==
  ASSUME NEW a \in Nat \ {0}, NEW d \in Nat \ {0}, a % d # 0
  PROVE  (a - 1) \div d = a \div d
<1> DEFINE q == a \div d
           r == (a - 1) \div d
<1>1. /\ q \in Nat /\ a = d * q + (a % d) /\ a % d \in 0 .. d - 1
      /\ r \in Nat /\ a - 1 = d * r + ((a - 1) % d)
      /\ (a - 1) % d \in 0 .. d - 1
  <2>1. a \in Nat /\ a - 1 \in Nat
    OBVIOUS
  <2> QED BY <2>1, Division
<1> HIDE DEF q, r
<1>2. d * q < d * (r + 1) /\ d * r < d * (q + 1)
  BY <1>1
<1>3. q < r + 1 /\ r < q + 1
  BY <1>1, <1>2
<1> QED BY <1>1, <1>3 DEF q, r

\* Every point that is not dropped has a beam.
THEOREM BeamOfAccepted ==
  ASSUME NoExactFit
  PROVE  \A p \in Point : Accepted(p) => Index(p) \in Beams
<1> SUFFICES ASSUME NEW p \in Point, Accepted(p)
             PROVE  Index(p) \in Beams
  OBVIOUS
<1> DEFINE a == p.bearing - ANGLE_MIN
           span == ANGLE_MAX - ANGLE_MIN
<1>1. a \in Nat /\ span \in Nat \ {0} /\ a <= span
  BY SliceAssumption DEF Accepted
<1>2. (span - 1) \div ANGLE_INCREMENT = span \div ANGLE_INCREMENT
  BY <1>1, DivisionOneLess, SliceAssumption DEF NoExactFit
<1>3. /\ a \div ANGLE_INCREMENT \in Nat
      /\ span \div ANGLE_INCREMENT \in Nat
      /\ a \div ANGLE_INCREMENT <= span \div ANGLE_INCREMENT
  BY <1>1, Division, DivisionMonotonic, SliceAssumption
<1> HIDE DEF a, span
<1>4. Beams = 0 .. ((span - 1) \div ANGLE_INCREMENT)
  BY DEF Beams, span
<1>5. Index(p) = a \div ANGLE_INCREMENT
  BY DEF Index, a
<1> QED BY <1>2, <1>3, <1>4, <1>5

-----------------------------------------------------------------------------
(***************************************************************************)
(* The scan.                                                               *)
(***************************************************************************)
IInv == TypeOK /\ NearestOfEachBeam

Seen(c, b) == {p \in c : Accepted(p) /\ Index(p) = b}

\* Storing the range of a point keeps the nearest one.
LEMMA StoreIsNearest ==
  ASSUME IInv, NEW p \in Point, Accepted(p), Index(p) \in Beams,
         ranges' = Store(p), cloud' = cloud \cup {p}
  PROVE  NearestOfEachBeam' /\ ranges' \in [Beams -> 0 .. Inf]
<1>1. /\ ranges \in [Beams -> 0 .. Inf] /\ cloud \subseteq Point
      /\ Inf \in Nat /\ p.range \in Nat /\ p.range < Inf
      /\ \A w \in Point : w.range \in Nat
  BY SliceAssumption DEF IInv, TypeOK, Accepted
<1>2. \A b \in Beams :
        ranges'[b] = IF b = Index(p) /\ p.range < ranges[b] THEN p.range
                     ELSE ranges[b]
  BY <1>1 DEF Store
<1>3. ranges' \in [Beams -> 0 .. Inf]
  BY <1>1 DEF Store
<1>4. ASSUME NEW b \in Beams
      PROVE  IF Seen(cloud', b) = {} THEN ranges'[b] = Inf
             ELSE /\ \E w \in Seen(cloud', b) : ranges'[b] = w.range
                  /\ \A w \in Seen(cloud', b) : ranges'[b] <= w.range
  <2>1. IF Seen(cloud, b) = {} THEN ranges[b] = Inf
        ELSE /\ \E w \in Seen(cloud, b) : ranges[b] = w.range
             /\ \A w \in Seen(cloud, b) : ranges[b] <= w.range
    BY DEF IInv, NearestOfEachBeam, Seen
  <2>2. CASE b # Index(p)
    <3>1. Seen(cloud', b) = Seen(cloud, b) /\ ranges'[b] = ranges[b]
      BY <1>2, <2>2 DEF Seen
    <3> QED BY <2>1, <3>1
  <2>3. CASE b = Index(p)
    <3>1. Seen(cloud', b) = Seen(cloud, b) \cup {p}
      BY <2>3 DEF Seen
    <3>2. ranges[b] \in Nat /\ \A w \in Seen(cloud, b) : w.range \in Nat
      BY <1>1 DEF Seen
    <3>3. CASE p.range < ranges[b]
      <4>1. ranges'[b] = p.range
        BY <1>2, <2>3, <3>3
      <4>2. \A w \in Seen(cloud, b) : p.range <= w.range
        BY <1>1, <2>1, <3>2, <3>3
      <4>3. p \in Seen(cloud', b)
        BY <3>1
      <4>4. \A w \in Seen(cloud', b) : ranges'[b] <= w.range
        BY <1>1, <3>1, <4>1, <4>2
      <4> QED BY <4>1, <4>3, <4>4
    <3>4. CASE ~(p.range < ranges[b])
      <4>1. ranges'[b] = ranges[b] /\ ranges[b] <= p.range
        BY <1>1, <1>2, <2>3, <3>2, <3>4
      <4>2. Seen(cloud, b) # {}
        BY <1>1, <2>1, <4>1
      <4> QED BY <2>1, <3>1, <4>1, <4>2
    <3> QED BY <3>3, <3>4
  <2> QED BY <2>2, <2>3
<1> QED BY <1>3, <1>4 DEF NearestOfEachBeam, Seen

LEMMA InitIInv == ASSUME NoExactFit PROVE Init => IInv
BY BeamOfAccepted, SliceAssumption
DEF Init, IInv, TypeOK, NearestOfEachBeam, EmptyScan

LEMMA NextIInv ==
  ASSUME NoExactFit, IInv, [Next]_vars
  PROVE  IInv'
<1> USE SliceAssumption
<1>1. ASSUME NEW p \in Point, Project(p) PROVE IInv'
  <2>1. cloud' \subseteq Point /\ n' \in 0 .. MAX_POINTS
    BY <1>1 DEF Project, IInv, TypeOK
  <2>2. CASE Accepted(p)
    <3>1. NearestOfEachBeam' /\ ranges' \in [Beams -> 0 .. Inf]
      BY <1>1, <2>2, BeamOfAccepted, StoreIsNearest DEF Project
    <3> QED BY <2>1, <3>1, BeamOfAccepted DEF IInv, TypeOK
  <2>3. CASE ~Accepted(p)
    <3>1. ranges' = ranges
      BY <1>1, <2>3 DEF Project
    <3>2. \A b \in Beams : Seen(cloud', b) = Seen(cloud, b)
      BY <1>1, <2>3 DEF Project, Seen
    <3>3. NearestOfEachBeam'
      BY <3>1, <3>2 DEF IInv, NearestOfEachBeam, Seen
    <3> QED BY <2>1, <3>1, <3>3, BeamOfAccepted DEF IInv, TypeOK
  <2> QED BY <2>2, <2>3
<1>2. CASE NextCloud
  BY <1>2, BeamOfAccepted
  DEF NextCloud, IInv, TypeOK, NearestOfEachBeam, EmptyScan
<1>3. CASE UNCHANGED vars
  BY <1>3 DEF vars, IInv, TypeOK, NearestOfEachBeam
<1> QED BY <1>1, <1>2, <1>3 DEF Next

\* The scan under construction has a range per beam.
THEOREM TypeCorrect ==
  ASSUME NoExactFit
  PROVE  Spec => []TypeOK
<1>1. Init => IInv
  BY InitIInv
<1>2. IInv /\ [Next]_vars => IInv'
  BY NextIInv
<1>3. IInv => TypeOK
  BY DEF IInv
<1> QED BY <1>1, <1>2, <1>3, PTL DEF Spec

\* The scan is the nearest accepted point of each beam, for clouds of any
\* size in any order.
THEOREM ScanIsNearestHolds ==
  ASSUME NoExactFit
  PROVE  Spec => []ScanIsNearest
<1>1. Init => IInv
  BY InitIInv
<1>2. IInv /\ [Next]_vars => IInv'
  BY NextIInv
<1>3. IInv => ScanIsNearest
  BY BeamOfAccepted
  DEF IInv, TypeOK, ScanIsNearest, EveryPointHasBeam
<1> QED BY <1>1, <1>2, <1>3, PTL DEF Spec
=============================================================================
