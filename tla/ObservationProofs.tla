-------------------------- MODULE ObservationProofs --------------------------
(***************************************************************************)
(* What LidarSampling promises for every number of rays, sectors and       *)
(* ranges and every message a LaserScan can be; and that the two loops of  *)
(* CarrotSearch find what IsNearest and IsCarrot describe, for every plan. *)
(***************************************************************************)
EXTENDS LidarSampling, CarrotSearch, TLAPS, WellFoundedInduction

(***************************************************************************)
(* The two-step % of rl_controller.cpp:206 brings any index, of any sign   *)
(* and size, into a vector of n elements.                                  *)
(***************************************************************************)
THEOREM WrapIndexInRange ==
  ASSUME NEW idx \in Int, NEW n \in Nat \ {0}
  PROVE  WrapIndex(idx, n) \in 0 .. n - 1
<1>1. Rem(idx, n) \in Int /\ Rem(idx, n) + n \in Nat
  <2>1. CASE idx < 0
    <3>1. -idx \in Nat /\ (-idx) % n \in 0 .. n - 1
      BY <2>1
    <3> QED BY <3>1, <2>1 DEF Rem
  <2>2. CASE ~(idx < 0)
    <3>1. idx % n \in 0 .. n - 1
      BY <2>2
    <3> QED BY <3>1, <2>2 DEF Rem
  <2> QED BY <2>1, <2>2
<1>2. (Rem(idx, n) + n) % n \in 0 .. n - 1
  BY <1>1
<1>3. WrapIndex(idx, n) = (Rem(idx, n) + n) % n
  BY <1>1 DEF WrapIndex, Rem
<1> QED BY <1>2, <1>3

\* std::lround of a quotient is an integer.
LEMMA RoundDivInt ==
  ASSUME NEW a \in Int, NEW b \in Int \ {0}
  PROVE  RoundDiv(a, b) \in Int
<1>1. Abs(a) \in Nat /\ Abs(b) \in Nat \ {0}
  BY DEF Abs
<1> DEFINE q == (2 * Abs(a) + Abs(b)) \div (2 * Abs(b))
<1>2. q \in Int
  <2>1. 2 * Abs(a) + Abs(b) \in Nat /\ 2 * Abs(b) \in Nat \ {0}
    BY <1>1
  <2> HIDE DEF q
  <2> QED BY <2>1 DEF q
<1> HIDE DEF q
<1>3. RoundDiv(a, b) = IF (a < 0) = (b < 0) THEN q ELSE -q
  BY DEF RoundDiv, q
<1> QED BY <1>2, <1>3

(***************************************************************************)
(* Every access to ranges in sampleScan is inside the vector.              *)
(***************************************************************************)
THEOREM BeamInMessage ==
  ASSUME NEW m, IsLaserScan(m), m.ranges # << >>, m.angle_increment # 0,
         NEW i \in Ray
  PROVE  Beam(m, i) \in 0 .. Len(m.ranges) - 1
<1>1. N_RAYS \in Nat \ {0} /\ TURN \in Nat \ {0}
  BY SamplingAssumption
<1>2. m.angle_min \in Int /\ m.angle_increment \in Int \ {0}
  BY DEF IsLaserScan
<1>3. RayAngle(i) - N_RAYS * m.angle_min \in Int
  BY <1>1, <1>2 DEF RayAngle, Ray
<1>4. N_RAYS * m.angle_increment \in Int \ {0}
  BY <1>1, <1>2
<1>5. Len(m.ranges) \in Nat \ {0}
  BY DEF IsLaserScan
<1> QED BY <1>3, <1>4, <1>5, RoundDivInt, WrapIndexInRange DEF Beam

(***************************************************************************)
(* Whatever the sensor publishes, and before it publishes anything, the    *)
(* sampled scan is N_RAYS ranges between 0 and the cap.                    *)
(***************************************************************************)
THEOREM SampleScanType ==
  ASSUME NEW m, m = NoScan \/ IsLaserScan(m)
  PROVE  SampleScan(m) \in Scan
<1>1. FarScan \in Scan
  BY SamplingAssumption DEF FarScan, Scan
<1>2. CASE m = NoScan \/ m.ranges = << >> \/ m.angle_increment = 0
  BY <1>1, <1>2 DEF SampleScan
<1>3. CASE ~(m = NoScan \/ m.ranges = << >> \/ m.angle_increment = 0)
  <2>1. ASSUME NEW i \in Ray
        PROVE  Normalise(m.ranges[Beam(m, i) + 1]) \in 0 .. LIDAR_CAP
    <3>1. Beam(m, i) + 1 \in 1 .. Len(m.ranges)
      <4>1. Beam(m, i) \in 0 .. Len(m.ranges) - 1
        BY <1>3, BeamInMessage
      <4>2. Len(m.ranges) \in Nat
        BY <1>3 DEF IsLaserScan
      <4> QED BY <4>1, <4>2
    <3>2. m.ranges[Beam(m, i) + 1] \in Int \cup {NonFinite}
      BY <3>1, <1>3 DEF IsLaserScan
    <3> QED BY <3>2, SamplingAssumption DEF Normalise, Clamp
  <2>2. SampleScan(m) = [i \in Ray |-> Normalise(m.ranges[Beam(m, i) + 1])]
    BY <1>3 DEF SampleScan
  <2> QED BY <2>1, <2>2 DEF Scan
<1> QED BY <1>2, <1>3

-----------------------------------------------------------------------------
(***************************************************************************)
(* The sectors.                                                            *)
(***************************************************************************)

\* Quotient and remainder.
LEMMA DivMod ==
  ASSUME NEW a \in Nat, NEW b \in Nat \ {0}
  PROVE  /\ a \div b \in Nat
         /\ a % b \in 0 .. b - 1
         /\ a = b * (a \div b) + (a % b)
  OBVIOUS

\* N_RAYS / N_SECTORS and N_RAYS % N_SECTORS.
LEMMA Division ==
  LET base == N_RAYS \div N_SECTORS
      rem == N_RAYS % N_SECTORS
  IN  /\ base \in Nat \ {0}
      /\ rem \in 0 .. N_SECTORS - 1
      /\ N_RAYS = N_SECTORS * base + rem
<1> DEFINE base == N_RAYS \div N_SECTORS
           rem == N_RAYS % N_SECTORS
<1>1. N_RAYS \in Nat \ {0} /\ N_SECTORS \in 1 .. N_RAYS
  BY SamplingAssumption
<1>2. base \in Int /\ rem \in 0 .. N_SECTORS - 1
  BY <1>1
<1>3. N_RAYS = N_SECTORS * base + rem
  BY <1>1
<1>4. base > 0
  <2> HIDE DEF base, rem
  <2> SUFFICES ASSUME base <= 0 PROVE FALSE
    BY <1>2
  <2>1. N_SECTORS * base <= 0
    BY <1>1, <1>2
  <2> QED BY <2>1, <1>1, <1>2, <1>3
<1> HIDE DEF base, rem
<1>5. base \in Nat \ {0}
  BY <1>2, <1>4
<1> QED BY <1>2, <1>3, <1>5 DEF base, rem

(***************************************************************************)
(* SectorStart is what "start += len" accumulates, and the last sector     *)
(* ends with the last ray.                                                 *)
(***************************************************************************)
THEOREM SectorRecurrence ==
  /\ SectorStart(0) = 0
  /\ \A s \in Sector : SectorStart(s + 1) = SectorStart(s) + SectorLen(s)
  /\ SectorStart(N_SECTORS) = N_RAYS
<1> DEFINE base == N_RAYS \div N_SECTORS
           rem == N_RAYS % N_SECTORS
<1>1. /\ base \in Nat \ {0}
      /\ rem \in 0 .. N_SECTORS - 1
      /\ N_RAYS = N_SECTORS * base + rem
      /\ N_SECTORS \in Nat \ {0}
  BY Division, SamplingAssumption
<1>2. \A s : SectorStart(s) = s * base + (IF s < rem THEN s ELSE rem)
  BY DEF SectorStart
<1>3. \A s : SectorLen(s) = base + (IF s < rem THEN 1 ELSE 0)
  BY DEF SectorLen
<1> HIDE DEF base, rem
<1>4. SectorStart(0) = 0
  BY <1>1, <1>2
<1>5. ASSUME NEW s \in Sector
      PROVE  SectorStart(s + 1) = SectorStart(s) + SectorLen(s)
  <2>1. s \in Int /\ (s + 1) * base = s * base + base /\ s * base \in Int
    BY <1>1 DEF Sector
  <2>2. SectorStart(s + 1)
          = s * base + base + (IF s + 1 < rem THEN s + 1 ELSE rem)
    BY <1>2, <2>1
  <2>3. SectorStart(s) = s * base + (IF s < rem THEN s ELSE rem)
    BY <1>2
  <2>4. SectorLen(s) = base + (IF s < rem THEN 1 ELSE 0)
    BY <1>3
  <2> DEFINE sb == s * base
  <2> HIDE DEF sb
  <2>5. sb \in Int
    BY <2>1 DEF sb
  <2>6. sb + base + (IF s + 1 < rem THEN s + 1 ELSE rem)
          = sb + (IF s < rem THEN s ELSE rem)
               + (base + (IF s < rem THEN 1 ELSE 0))
    BY <2>5, <1>1, <2>1
  <2> QED BY <2>2, <2>3, <2>4, <2>6 DEF sb
<1>6. SectorStart(N_SECTORS) = N_RAYS
  <2>1. ~(N_SECTORS < rem)
    BY <1>1
  <2> QED BY <1>1, <1>2, <2>1
<1> QED BY <1>4, <1>5, <1>6

\* A later sector starts after an earlier one has ended.
LEMMA SectorsInOrder ==
  ASSUME NEW s \in Sector, NEW t \in Sector, s < t
  PROVE  /\ SectorStart(s) \in Nat /\ SectorStart(t) \in Nat
         /\ SectorLen(s) \in Nat \ {0}
         /\ SectorStart(t) >= SectorStart(s) + SectorLen(s)
<1> DEFINE base == N_RAYS \div N_SECTORS
           rem == N_RAYS % N_SECTORS
           before(r) == IF r < rem THEN r ELSE rem
<1>1. /\ base \in Nat \ {0}
      /\ rem \in 0 .. N_SECTORS - 1
      /\ N_SECTORS \in Nat \ {0}
  BY Division, SamplingAssumption
<1>2. /\ SectorStart(s) = s * base + before(s)
      /\ SectorStart(t) = t * base + before(t)
      /\ SectorLen(s) = base + (IF s < rem THEN 1 ELSE 0)
  BY DEF SectorStart, SectorLen
<1> HIDE DEF base, rem
<1>3. s \in Nat /\ t \in Nat /\ s + 1 <= t
  BY <1>1 DEF Sector
<1>4. /\ s * base \in Nat /\ t * base \in Nat
      /\ t * base >= s * base + base
  <2>1. t * base = s * base + (t - s) * base
    BY <1>1, <1>3
  <2>2. (t - s) * base >= base
    BY <1>1, <1>3
  <2> QED BY <2>1, <2>2, <1>1, <1>3
<1> DEFINE sb == s * base
           tb == t * base
<1> HIDE DEF sb, tb
<1>5. sb \in Nat /\ tb \in Nat /\ tb >= sb + base
  BY <1>4 DEF sb, tb
<1>6. tb + before(t) >= sb + before(s) + (base + (IF s < rem THEN 1 ELSE 0))
  BY <1>1, <1>3, <1>5
<1> QED BY <1>1, <1>2, <1>3, <1>5, <1>6 DEF sb, tb

\* The sector of a ray, found by division.
LEMMA RayHasSector ==
  ASSUME NEW k \in Ray
  PROVE  \E s \in Sector : k \in SectorRays(s)
<1> DEFINE base == N_RAYS \div N_SECTORS
           rem == N_RAYS % N_SECTORS
           long == rem * (base + 1)
<1>1. /\ base \in Nat \ {0}
      /\ rem \in 0 .. N_SECTORS - 1
      /\ N_RAYS = N_SECTORS * base + rem
      /\ N_SECTORS \in Nat \ {0}
  BY Division, SamplingAssumption
<1>2. \A s : SectorRays(s)
        = s * base + (IF s < rem THEN s ELSE rem) ..
          s * base + (IF s < rem THEN s ELSE rem)
            + (base + (IF s < rem THEN 1 ELSE 0)) - 1
  BY DEF SectorRays, SectorStart, SectorLen
<1>3. k \in Nat /\ k < N_RAYS
  BY <1>1 DEF Ray
<1> HIDE DEF base, rem
<1>4. CASE k < long
  <2> DEFINE s == k \div (base + 1)
             r == k % (base + 1)
  <2>1. s \in Nat /\ r \in 0 .. base /\ k = (base + 1) * s + r
    <3>1. base + 1 \in Nat \ {0} /\ (base + 1) - 1 = base
      BY <1>1
    <3> QED BY <3>1, <1>3, DivMod
  <2> HIDE DEF s, r
  <2>2. s < rem
    <3> SUFFICES ASSUME s >= rem PROVE FALSE
      BY <2>1, <1>1
    <3>1. (base + 1) * s >= (base + 1) * rem
      BY <2>1, <1>1
    <3> QED BY <3>1, <2>1, <1>1, <1>4
  <2>3. s \in Sector
    BY <2>1, <2>2, <1>1 DEF Sector
  <2>4. k = s * base + s + r
    BY <2>1, <1>1
  <2>5. s * base \in Nat
    BY <2>1, <1>1
  <2>6. k \in s * base + s .. s * base + s + (base + 1) - 1
    BY <2>1, <2>4, <2>5, <1>1
  <2>7. k \in SectorRays(s)
    BY <2>6, <2>2, <1>2
  <2> QED BY <2>3, <2>7
<1>5. CASE ~(k < long)
  <2> DEFINE d == (k - long) \div base
             r == (k - long) % base
             s == rem + d
  <2>1. k - long \in Nat
    BY <1>1, <1>3, <1>5
  <2>2. d \in Nat /\ r \in 0 .. base - 1 /\ k - long = base * d + r
    BY <2>1, <1>1
  <2> HIDE DEF d, r
  <2>3. s < N_SECTORS
    <3> SUFFICES ASSUME d >= N_SECTORS - rem PROVE FALSE
      BY <2>2, <1>1
    <3>1. base * d >= base * (N_SECTORS - rem)
      BY <2>2, <1>1
    <3>2. base * (N_SECTORS - rem) = N_RAYS - rem - base * rem
      BY <1>1
    <3>3. long = rem + base * rem
      BY <1>1
    <3> QED BY <3>1, <3>2, <3>3, <2>2, <1>1, <1>3
  <2>4. s \in Sector /\ ~(s < rem)
    BY <2>2, <2>3, <1>1 DEF Sector
  <2>5. k = s * base + rem + r
    <3>1. s * base = rem * base + d * base
      BY <2>2, <1>1
    <3> QED BY <3>1, <2>2, <1>1, <1>3
  <2>6. s * base \in Nat
    BY <2>2, <1>1
  <2>7. k \in s * base + rem .. s * base + rem + (base + 0) - 1
    BY <2>2, <2>5, <2>6, <1>1
  <2> HIDE DEF s
  <2>8. k \in SectorRays(s)
    BY <2>4, <2>7, <1>2
  <2> QED BY <2>4, <2>8
<1> QED BY <1>4, <1>5

(***************************************************************************)
(* Every ray is in exactly one sector, for every number of rays and every  *)
(* number of sectors up to it: no obstacle falls between two sectors and   *)
(* none is reported twice (rl_controller.cpp:230-241).                     *)
(***************************************************************************)
THEOREM SectorsPartition == \A k \in Ray : InOneSector(k)
<1> SUFFICES ASSUME NEW k \in Ray PROVE InOneSector(k)
  OBVIOUS
<1>1. PICK s \in Sector : k \in SectorRays(s)
  BY RayHasSector
<1>2. ASSUME NEW t \in Sector, t # s PROVE k \notin SectorRays(t)
  <2>0. k \in Int /\ s \in Int /\ t \in Int
    BY SamplingAssumption DEF Ray, Sector
  <2>1. CASE s < t
    <3>1. k < SectorStart(t)
      BY <1>1, <2>0, <2>1, SectorsInOrder DEF SectorRays
    <3> QED BY <3>1, <2>0, <2>1, SectorsInOrder DEF SectorRays
  <2>2. CASE t < s
    <3>1. k >= SectorStart(s)
      BY <1>1, <2>0, <2>2, SectorsInOrder DEF SectorRays
    <3> QED BY <3>1, <2>0, <2>2, SectorsInOrder DEF SectorRays
  <2> QED BY <1>2, <2>0, <2>1, <2>2
<1> QED BY <1>1, <1>2 DEF InOneSector

-----------------------------------------------------------------------------
(***************************************************************************)
(* Induction, for sets instead of predicates, and loops.                   *)
(***************************************************************************)
LEMMA SetInduction ==
  ASSUME NEW S, 0 \in S, \A n \in Nat : n \in S => n + 1 \in S
  PROVE  Nat \subseteq S
<1> DEFINE T == Nat \ S
           R == OpToRel(<, Nat)
<1> SUFFICES ASSUME T # {} PROVE FALSE
  OBVIOUS
<1>1. IsWellFoundedOn(R, Nat)
  BY NatLessThanWellFounded
<1>2. \A y, z \in Nat : y < z => <<y, z>> \in R
  BY DEF OpToRel
<1> HIDE DEF R
<1>3. PICK x \in T : \A y \in T : ~(<<y, x>> \in R)
  BY <1>1, WFMin
<1>4. x \in Nat /\ x # 0 /\ x - 1 \in Nat /\ x - 1 < x /\ (x - 1) + 1 = x
  OBVIOUS
<1>5. x - 1 \notin S
  BY <1>4
<1> QED BY <1>2, <1>3, <1>4, <1>5

\* The values of a loop over len turns that starts from start and whose body
\* is G, a function of the turn and of the value before it.
IsRun(g, V, start, G, len) ==
  /\ g \in [0 .. len -> V]
  /\ g[0] = start
  /\ \A k \in 0 .. len - 1 : g[k + 1] = G[<<k, g[k]>>]

LEMMA LoopHasRun ==
  ASSUME NEW V, NEW start \in V, NEW G \in [Nat \X V -> V], NEW len \in Nat
  PROVE  \E g : IsRun(g, V, start, G, len)
<1> DEFINE Run(n, g) == IsRun(g, V, start, G, n)
           S == {n \in Nat : \E g : Run(n, g)}
<1>1. 0 \in S
  <2>1. Run(0, [k \in 0 .. 0 |-> start])
    BY DEF IsRun
  <2> HIDE DEF Run
  <2> QED BY <2>1
<1>2. ASSUME NEW n \in Nat, n \in S PROVE n + 1 \in S
  <2>1. PICK g : Run(n, g)
    BY <1>2
  <2> DEFINE h == [k \in 0 .. n + 1 |-> IF k <= n THEN g[k] ELSE G[<<n, g[n]>>]]
  <2>2. g[n] \in V /\ G[<<n, g[n]>>] \in V
    BY <2>1 DEF IsRun
  <2>3. h \in [0 .. n + 1 -> V]
    BY <2>1, <2>2 DEF IsRun
  <2>4. h[0] = start
    BY <2>1 DEF IsRun
  <2>5. ASSUME NEW k \in 0 .. (n + 1) - 1 PROVE h[k + 1] = G[<<k, h[k]>>]
    <3>1. h[k] = g[k]
      OBVIOUS
    <3>2. CASE k = n
      BY <3>1, <3>2
    <3>3. CASE k # n
      <4>1. k \in 0 .. n - 1 /\ k + 1 <= n /\ k + 1 \in 0 .. n + 1
        BY <3>3
      <4>2. h[k + 1] = g[k + 1]
        BY <4>1
      <4> QED BY <2>1, <3>1, <4>1, <4>2 DEF IsRun
    <3> QED BY <3>2, <3>3
  <2> HIDE DEF h
  <2>6. Run(n + 1, h)
    BY <2>3, <2>4, <2>5 DEF IsRun
  <2> HIDE DEF Run
  <2> QED BY <2>6
<1> HIDE DEF S
<1>3. len \in S
  BY <1>1, <1>2, SetInduction
<1> QED BY <1>3 DEF S

-----------------------------------------------------------------------------
(***************************************************************************)
(* The search for the nearest pose.                                        *)
(***************************************************************************)

\* What the recursive function inside NearestLoop is to be.
IsSearch(run, poses, from, p) ==
  run = [i \in from - 1 .. Len(poses) |->
           IF i < from THEN [best |-> DBL_MAX, idx |-> from]
           ELSE IF Dist(poses[i], p) < run[i - 1].best
                THEN [best |-> Dist(poses[i], p), idx |-> i]
                ELSE run[i - 1]]

\* It exists, so that it obeys its definition.
LEMMA NearestLoopRuns ==
  ASSUME NEW poses \in Seq(Position), NEW from \in DOMAIN poses,
         NEW p \in Position
  PROVE  \E run : /\ NearestLoop(poses, from, p) = run[Len(poses)].idx
                  /\ IsSearch(run, poses, from, p)
<1> DEFINE D == from - 1 .. Len(poses)
           Body(r) == [i \in from - 1 .. Len(poses) |->
                IF i < from THEN [best |-> DBL_MAX, idx |-> from]
                ELSE IF Dist(poses[i], p) < r[i - 1].best
                     THEN [best |-> Dist(poses[i], p), idx |-> i]
                     ELSE r[i - 1]]
           run == CHOOSE r : r = Body(r)
           V == [best : Nat, idx : Nat]
           start == [best |-> DBL_MAX, idx |-> from]
           Better(k, v) == from + k <= Len(poses)
                             /\ Dist(poses[from + k], p) < v.best
           Found(k) == [best |-> Dist(poses[from + k], p), idx |-> from + k]
           G == [kv \in Nat \X V |->
                   IF Better(kv[1], kv[2]) THEN Found(kv[1]) ELSE kv[2]]
           len == Len(poses) - from + 1
<1>1. from \in Nat \ {0} /\ Len(poses) \in Nat /\ from <= Len(poses)
      /\ len \in Nat
  OBVIOUS
<1>2. start \in V
  BY <1>1, DistAssumption
<1>3. G \in [Nat \X V -> V]
  <2> SUFFICES ASSUME NEW k \in Nat, NEW v \in V, Better(k, v)
               PROVE  Found(k) \in V
    OBVIOUS
  <2>1. from + k \in DOMAIN poses /\ from + k \in Nat
    BY <1>1
  <2>2. poses[from + k] \in Position
    BY <2>1
  <2>3. Dist(poses[from + k], p) \in Nat
    BY <2>2, DistAssumption
  <2> QED BY <2>1, <2>3
<1>4. PICK g : IsRun(g, V, start, G, len)
  <2>1. len \in Nat
    BY <1>1
  <2> HIDE DEF V, start, G, len
  <2> QED BY <1>2, <1>3, <2>1, LoopHasRun, Zenon
<1>5. ASSUME NEW k \in 0 .. len - 1
      PROVE  /\ g[k] \in V
             /\ g[k + 1] = IF Better(k, g[k]) THEN Found(k) ELSE g[k]
  <2>1. k \in Nat /\ k \in 0 .. len
    BY <1>1
  <2>2. g[k] \in V
    BY <1>4, <2>1 DEF IsRun
  <2>3. G[<<k, g[k]>>] = IF Better(k, g[k]) THEN Found(k) ELSE g[k]
    <3> HIDE DEF V, Better, Found
    <3> QED BY <2>1, <2>2
  <2> QED BY <1>4, <2>2, <2>3 DEF IsRun
<1> DEFINE r == [i \in D |-> g[i - (from - 1)]]
<1>6. \E f : f = Body(f)
  <2>1. ASSUME NEW i \in D
        PROVE  r[i] = IF i < from THEN start
                      ELSE IF Dist(poses[i], p) < r[i - 1].best
                           THEN [best |-> Dist(poses[i], p), idx |-> i]
                           ELSE r[i - 1]
    <3>1. i \in Int /\ i >= from - 1 /\ i <= Len(poses)
      BY <1>1
    <3>2. CASE i < from
      <4>1. i = from - 1 /\ i - (from - 1) = 0
        BY <1>1, <3>1, <3>2
      <4>2. r[i] = g[0]
        BY <4>1
      <4> QED BY <1>4, <3>2, <4>2 DEF IsRun
    <3>3. CASE ~(i < from)
      <4> DEFINE k == i - from
      <4>1. /\ k \in 0 .. len - 1 /\ from + k = i /\ i - (from - 1) = k + 1
            /\ i - 1 \in D /\ (i - 1) - (from - 1) = k
        <5>1. i >= from
          BY <1>1, <3>1, <3>3
        <5>2. i - from \in 0 .. (Len(poses) - from + 1) - 1
          BY <1>1, <3>1, <5>1
        <5>3. i - 1 \in from - 1 .. Len(poses)
          BY <1>1, <3>1, <5>1
        <5>4. from + (i - from) = i /\ i - (from - 1) = (i - from) + 1
              /\ (i - 1) - (from - 1) = i - from
          BY <1>1, <3>1
        <5> QED BY <5>2, <5>3, <5>4
      <4>2. r[i] = g[k + 1] /\ r[i - 1] = g[k]
        BY <4>1
      <4> HIDE DEF k, r, V, G, len, D
      <4>3. g[k + 1] = IF Better(k, g[k]) THEN Found(k) ELSE g[k]
        BY <1>5, <4>1
      <4>4. Better(k, g[k]) <=> Dist(poses[i], p) < r[i - 1].best
        BY <3>1, <4>1, <4>2
      <4> HIDE DEF Better
      <4>5. Found(k) = [best |-> Dist(poses[i], p), idx |-> i]
        BY <4>1
      <4> HIDE DEF Found
      <4> QED BY <3>3, <4>2, <4>3, <4>4, <4>5
    <3> QED BY <3>2, <3>3
  <2>2. r = Body(r)
    BY <2>1
  <2> HIDE DEF Body, r
  <2> QED BY <2>2
<1>7. run = Body(run)
  <2> HIDE DEF Body
  <2> QED BY <1>6
<1>8. NearestLoop(poses, from, p) = run[Len(poses)].idx
  BY DEF NearestLoop
<1> HIDE DEF run
<1> QED BY <1>7, <1>8 DEF IsSearch

\* There is one first nearest pose.
LEMMA NearestUnique ==
  ASSUME NEW poses \in Seq(Position), NEW from \in DOMAIN poses,
         NEW p \in Position, NEW i, NEW j,
         IsNearest(poses, from, p, i), IsNearest(poses, from, p, j)
  PROVE  i = j
<1>1. /\ i \in DOMAIN poses /\ j \in DOMAIN poses
      /\ i \in from .. Len(poses) /\ j \in from .. Len(poses)
      /\ i \in Int /\ j \in Int
  BY DEF IsNearest
<1>2. Dist(poses[i], p) \in Nat /\ Dist(poses[j], p) \in Nat
  BY <1>1, DistAssumption
<1>3. ~(i < j) /\ ~(j < i)
  BY <1>1, <1>2 DEF IsNearest
<1> QED BY <1>1, <1>3

(***************************************************************************)
(* The first loop of findCarrot returns the first of the poses nearest to  *)
(* the robot, from carrot_idx_ on (rl_controller.cpp:261-269).             *)
(***************************************************************************)
THEOREM NearestLoopCorrect ==
  ASSUME NEW poses \in Seq(Position), NEW from \in DOMAIN poses,
         NEW p \in Position
  PROVE  IsNearest(poses, from, p, NearestLoop(poses, from, p))
<1> DEFINE d(i) == Dist(poses[i], p)
           last == Len(poses)
<1>1. from \in Nat \ {0} /\ last \in Nat /\ from <= last
  OBVIOUS
<1>2. \A i \in from .. last : d(i) \in Nat /\ d(i) <= DBL_MAX
  <2> SUFFICES ASSUME NEW i \in from .. last
               PROVE  d(i) \in Nat /\ d(i) <= DBL_MAX
    OBVIOUS
  <2>1. i \in DOMAIN poses
    BY <1>1
  <2>2. poses[i] \in Position
    BY <2>1
  <2> QED BY <2>2, DistAssumption
<1>3. PICK run : /\ NearestLoop(poses, from, p) = run[Len(poses)].idx
                 /\ IsSearch(run, poses, from, p)
  BY NearestLoopRuns
<1>4. run[from - 1] = [best |-> DBL_MAX, idx |-> from]
  BY <1>1, <1>3 DEF IsSearch
<1>5. \A i \in from .. last :
        run[i] = IF d(i) < run[i - 1].best THEN [best |-> d(i), idx |-> i]
                 ELSE run[i - 1]
  <2> SUFFICES ASSUME NEW i \in from .. last
               PROVE  run[i] = IF d(i) < run[i - 1].best
                               THEN [best |-> d(i), idx |-> i]
                               ELSE run[i - 1]
    OBVIOUS
  <2>1. i \in from - 1 .. last /\ ~(i < from)
    BY <1>1
  <2> QED BY <1>3, <2>1 DEF IsSearch
<1> HIDE DEF d, last
\* After the turn for pose i, best is the least distance so far and idx the
\* first pose that has it.
<1> DEFINE SoFar(i) ==
             /\ run[i].idx \in from .. i
             /\ run[i].best = d(run[i].idx)
             /\ \A j \in from .. i :
                  /\ run[i].best <= d(j)
                  /\ j < run[i].idx => run[i].best < d(j)
           S == {k \in Nat : from + k <= last => SoFar(from + k)}
<1>6. SoFar(from)
  <2>1. from \in from .. last /\ from .. from = {from}
    BY <1>1
  <2>2. d(from) \in Nat /\ d(from) <= DBL_MAX /\ DBL_MAX \in Nat
    BY <1>2, <2>1, DistAssumption
  <2>3. run[from] = [best |-> d(from), idx |-> from]
    <3>1. CASE d(from) < DBL_MAX
      BY <1>4, <1>5, <2>1, <3>1
    <3>2. CASE d(from) = DBL_MAX
      BY <1>4, <1>5, <2>1, <2>2, <3>2
    <3> QED BY <2>2, <3>1, <3>2
  <2> QED BY <1>1, <2>1, <2>2, <2>3
<1>7. ASSUME NEW i \in from .. last, i + 1 <= last, SoFar(i)
      PROVE  SoFar(i + 1)
  <2>1. i \in Int /\ i + 1 \in from .. last /\ (i + 1) - 1 = i
    BY <1>1, <1>7
  <2>2. \A j \in from .. i + 1 : j \in from .. i \/ j = i + 1
    BY <1>1, <2>1
  <2>3. \A j \in from .. i : j \in from .. last /\ j \in from .. i + 1
    BY <1>1, <2>1
  <2>4. run[i + 1] = IF d(i + 1) < run[i].best
                     THEN [best |-> d(i + 1), idx |-> i + 1] ELSE run[i]
    BY <1>5, <2>1
  <2>5. run[i].best \in Nat /\ d(i + 1) \in Nat
    BY <1>2, <1>7, <2>1, <2>3
  <2>6. CASE d(i + 1) < run[i].best
    <3>1. run[i + 1].best = d(i + 1) /\ run[i + 1].idx = i + 1
      BY <2>4, <2>6
    <3>2. ASSUME NEW j \in from .. i PROVE d(i + 1) < d(j)
      <4>1. d(j) \in Nat
        BY <1>2, <2>3
      <4>2. run[i].best <= d(j)
        BY <1>7
      <4> QED BY <2>5, <2>6, <4>1, <4>2
    <3>3. run[i + 1].idx \in from .. i + 1
      BY <1>1, <2>1, <3>1
    <3>4. ASSUME NEW j \in from .. i + 1
          PROVE  /\ run[i + 1].best <= d(j)
                 /\ j < run[i + 1].idx => run[i + 1].best < d(j)
      <4>1. CASE j \in from .. i
        <5>1. d(j) \in Nat /\ d(i + 1) < d(j)
          BY <1>2, <2>3, <3>2, <4>1
        <5> QED BY <2>5, <3>1, <5>1
      <4>2. CASE j = i + 1
        BY <2>1, <2>5, <3>1, <4>2
      <4> QED BY <2>2, <4>1, <4>2
    <3> QED BY <3>1, <3>3, <3>4
  <2>7. CASE ~(d(i + 1) < run[i].best)
    <3>1. run[i + 1] = run[i]
      BY <2>4, <2>7
    <3>2. run[i].best <= d(i + 1)
      BY <2>5, <2>7
    <3>3. run[i].idx \in from .. i + 1 /\ ~(i + 1 < run[i].idx)
      BY <1>1, <1>7, <2>1
    <3> QED BY <1>7, <2>2, <3>1, <3>2, <3>3
  <2> QED BY <2>6, <2>7
<1>8. 0 \in S
  BY <1>1, <1>6
<1>9. ASSUME NEW k \in Nat, k \in S PROVE k + 1 \in S
  <2> SUFFICES ASSUME from + (k + 1) <= last PROVE SoFar(from + (k + 1))
    OBVIOUS
  <2>1. from + k \in from .. last /\ (from + k) + 1 = from + (k + 1)
        /\ from + k <= last
    BY <1>1
  <2>2. SoFar(from + k)
    BY <1>9, <2>1
  <2> HIDE DEF SoFar
  <2> QED BY <1>7, <2>1, <2>2
<1>10. SoFar(last)
  <2>1. last - from \in Nat /\ from + (last - from) = last
    BY <1>1
  <2> HIDE DEF S
  <2>2. last - from \in S
    BY <1>8, <1>9, <2>1, SetInduction
  <2> HIDE DEF SoFar
  <2> QED BY <1>1, <2>1, <2>2 DEF S
<1>11. NearestLoop(poses, from, p) = run[last].idx
  BY <1>3 DEF last
<1> QED BY <1>10, <1>11 DEF IsNearest, d, last

-----------------------------------------------------------------------------
(***************************************************************************)
(* The length of the path between two of its poses.                        *)
(***************************************************************************)

\* What the recursive function inside ArcLength is to be.
IsArc(arc, poses, i, j) ==
  arc = [k \in i .. j |->
           IF k = i THEN 0 ELSE arc[k - 1] + Dist(poses[k], poses[k - 1])]

\* It exists, so that it obeys its definition.
LEMMA ArcLengthRuns ==
  ASSUME NEW poses \in Seq(Position), NEW i \in DOMAIN poses,
         NEW j \in i .. Len(poses)
  PROVE  \E arc : ArcLength(poses, i, j) = arc[j] /\ IsArc(arc, poses, i, j)
<1> DEFINE Body(a) == [k \in i .. j |->
                         IF k = i THEN 0
                         ELSE a[k - 1] + Dist(poses[k], poses[k - 1])]
           arc == CHOOSE a : a = Body(a)
           Edge(k) == IF i + k + 1 <= Len(poses)
                      THEN Dist(poses[i + k + 1], poses[i + k]) ELSE 0
           G == [kv \in Nat \X Nat |-> kv[2] + Edge(kv[1])]
           len == j - i
           D == i .. j
<1>1. i \in Nat \ {0} /\ j \in Nat /\ i <= j /\ j <= Len(poses)
      /\ len \in Nat
  OBVIOUS
<1>2. \A k \in Nat : Edge(k) \in Nat
  <2> SUFFICES ASSUME NEW k \in Nat, i + k + 1 <= Len(poses)
               PROVE  Dist(poses[i + k + 1], poses[i + k]) \in Nat
    OBVIOUS
  <2>1. i + k + 1 \in DOMAIN poses /\ i + k \in DOMAIN poses
    BY <1>1
  <2>2. poses[i + k + 1] \in Position /\ poses[i + k] \in Position
    BY <2>1
  <2> QED BY <2>2, DistAssumption
<1>3. G \in [Nat \X Nat -> Nat]
  <2> SUFFICES ASSUME NEW kv \in Nat \X Nat
               PROVE  kv[2] + Edge(kv[1]) \in Nat
    OBVIOUS
  <2>1. kv[1] \in Nat /\ kv[2] \in Nat
    OBVIOUS
  <2>2. Edge(kv[1]) \in Nat
    BY <1>2, <2>1
  <2> HIDE DEF Edge
  <2> QED BY <2>1, <2>2
<1>4. PICK g : IsRun(g, Nat, 0, G, len)
  <2>1. len \in Nat /\ 0 \in Nat
    BY <1>1
  <2> HIDE DEF G, len
  <2> QED BY <1>3, <2>1, LoopHasRun, Zenon
<1>5. ASSUME NEW k \in 0 .. len - 1
      PROVE  g[k] \in Nat /\ g[k + 1] = g[k] + Edge(k)
  <2>1. k \in Nat /\ k \in 0 .. len
    BY <1>1
  <2>2. g[k] \in Nat
    BY <1>4, <2>1 DEF IsRun
  <2>3. G[<<k, g[k]>>] = g[k] + Edge(k)
    <3> HIDE DEF Edge
    <3> QED BY <2>1, <2>2
  <2> HIDE DEF G
  <2> QED BY <1>4, <2>2, <2>3 DEF IsRun
<1> DEFINE a0 == [k \in D |-> g[k - i]]
<1>6. \E f : f = Body(f)
  <2>1. ASSUME NEW k \in D
        PROVE  a0[k] = IF k = i THEN 0
                       ELSE a0[k - 1] + Dist(poses[k], poses[k - 1])
    <3>1. CASE k = i
      <4>1. a0[k] = g[0]
        BY <1>1, <3>1
      <4> QED BY <1>4, <3>1, <4>1 DEF IsRun
    <3>2. CASE k # i
      <4>1. /\ k - 1 \in D /\ (k - 1) - i \in 0 .. len - 1
            /\ k - i = ((k - 1) - i) + 1 /\ i + ((k - 1) - i) = k - 1
            /\ i + ((k - 1) - i) + 1 = k /\ k <= Len(poses)
        BY <1>1, <3>2
      <4>2. a0[k] = g[((k - 1) - i) + 1] /\ a0[k - 1] = g[(k - 1) - i]
        BY <4>1
      <4>3. Edge((k - 1) - i) = Dist(poses[k], poses[k - 1])
        BY <4>1
      <4> HIDE DEF a0, D, len, Edge
      <4> QED BY <1>5, <3>2, <4>1, <4>2, <4>3
    <3> QED BY <3>1, <3>2
  <2>2. a0 = Body(a0)
    BY <2>1
  <2> HIDE DEF Body, a0
  <2> QED BY <2>2
<1>7. arc = Body(arc)
  <2> HIDE DEF Body
  <2> QED BY <1>6
<1>8. ArcLength(poses, i, j) = arc[j]
  BY DEF ArcLength
<1> HIDE DEF arc
<1> QED BY <1>7, <1>8 DEF IsArc

\* The sums up to two poses agree as far as both go.
LEMMA ArcsAgree ==
  ASSUME NEW poses \in Seq(Position), NEW i \in DOMAIN poses,
         NEW j \in i .. Len(poses), NEW l \in i .. j,
         NEW a, NEW b, IsArc(a, poses, i, j), IsArc(b, poses, i, l)
  PROVE  a[l] = b[l] /\ a[l] \in Nat
<1> DEFINE S == {k \in Nat :
                   i + k <= l => a[i + k] = b[i + k] /\ a[i + k] \in Nat}
<1>1. i \in Nat \ {0} /\ j \in Nat /\ l \in Nat /\ i <= l /\ l <= j
      /\ j <= Len(poses)
  OBVIOUS
<1>2. 0 \in S
  BY <1>1 DEF IsArc
<1>3. ASSUME NEW k \in Nat, k \in S PROVE k + 1 \in S
  <2> SUFFICES ASSUME i + (k + 1) <= l
               PROVE  a[i + (k + 1)] = b[i + (k + 1)]
                      /\ a[i + (k + 1)] \in Nat
    OBVIOUS
  <2> DEFINE m == i + k + 1
  <2>1. /\ m \in i .. j /\ m \in i .. l /\ m # i /\ m - 1 = i + k
        /\ i + k <= l /\ m = i + (k + 1)
        /\ m \in DOMAIN poses /\ m - 1 \in DOMAIN poses
    BY <1>1
  <2>2. a[m - 1] = b[m - 1] /\ a[m - 1] \in Nat
    BY <1>3, <2>1
  <2> HIDE DEF m
  <2>3. Dist(poses[m], poses[m - 1]) \in Nat
    <3>1. poses[m] \in Position /\ poses[m - 1] \in Position
      BY <2>1
    <3> QED BY <3>1, DistAssumption
  <2>4. a[m] = a[m - 1] + Dist(poses[m], poses[m - 1])
    BY <2>1 DEF IsArc
  <2>5. b[m] = b[m - 1] + Dist(poses[m], poses[m - 1])
    BY <2>1 DEF IsArc
  <2>6. a[m] = b[m] /\ a[m] \in Nat
    BY <2>2, <2>3, <2>4, <2>5
  <2> QED BY <2>1, <2>6
<1>4. l - i \in Nat /\ i + (l - i) = l
  BY <1>1
<1> HIDE DEF S
<1>5. l - i \in S
  BY <1>2, <1>3, <1>4, SetInduction
<1> QED BY <1>1, <1>4, <1>5 DEF S

\* From pose i to itself there is no way, and every pose adds its edge.
LEMMA ArcLengthSteps ==
  ASSUME NEW poses \in Seq(Position), NEW i \in DOMAIN poses
  PROVE  /\ ArcLength(poses, i, i) = 0
         /\ \A j \in i .. Len(poses) - 1 :
              /\ ArcLength(poses, i, j) \in Nat
              /\ ArcLength(poses, i, j + 1) \in Nat
              /\ ArcLength(poses, i, j + 1) =
                   ArcLength(poses, i, j) + Dist(poses[j + 1], poses[j])
<1>1. i \in Nat \ {0} /\ i <= Len(poses) /\ Len(poses) \in Nat
  OBVIOUS
<1>2. ArcLength(poses, i, i) = 0
  <2>1. i \in i .. Len(poses) /\ i \in i .. i
    BY <1>1
  <2>2. PICK arc : ArcLength(poses, i, i) = arc[i] /\ IsArc(arc, poses, i, i)
    BY <2>1, ArcLengthRuns
  <2> QED BY <2>1, <2>2 DEF IsArc
<1>3. ASSUME NEW j \in i .. Len(poses) - 1
      PROVE  /\ ArcLength(poses, i, j) \in Nat
             /\ ArcLength(poses, i, j + 1) \in Nat
             /\ ArcLength(poses, i, j + 1) =
                  ArcLength(poses, i, j) + Dist(poses[j + 1], poses[j])
  <2>1. /\ j \in i .. Len(poses) /\ j + 1 \in i .. Len(poses)
        /\ j \in i .. j + 1 /\ j + 1 \in i .. j + 1 /\ j + 1 # i
        /\ (j + 1) - 1 = j
        /\ j \in DOMAIN poses /\ j + 1 \in DOMAIN poses
    BY <1>1
  <2>2. PICK a : ArcLength(poses, i, j + 1) = a[j + 1]
                 /\ IsArc(a, poses, i, j + 1)
    BY <2>1, ArcLengthRuns
  <2>3. PICK b : ArcLength(poses, i, j) = b[j] /\ IsArc(b, poses, i, j)
    BY <2>1, ArcLengthRuns
  <2>4. a[j] = b[j] /\ a[j] \in Nat
    BY <2>1, <2>2, <2>3, ArcsAgree
  <2>5. a[j + 1] = a[j] + Dist(poses[j + 1], poses[j])
    BY <2>1, <2>2 DEF IsArc
  <2>6. Dist(poses[j + 1], poses[j]) \in Nat
    <3>1. poses[j + 1] \in Position /\ poses[j] \in Position
      BY <2>1
    <3> QED BY <3>1, DistAssumption
  <2> QED BY <2>2, <2>3, <2>4, <2>5, <2>6
<1> QED BY <1>2, <1>3

-----------------------------------------------------------------------------
(***************************************************************************)
(* The walk along the path.                                                *)
(***************************************************************************)

\* What the recursive function inside WalkLoop is to be.
IsWalk(walk, poses, i, la) ==
  walk = [k \in i .. Len(poses) |->
            IF k = i THEN [carrot |-> i, acc |-> 0]
            ELSE LET s == walk[k - 1]
                 IN  IF s.carrot < Len(poses) /\ s.acc < la
                     THEN [carrot |-> s.carrot + 1,
                           acc |-> s.acc + Dist(poses[s.carrot + 1],
                                                poses[s.carrot])]
                     ELSE s]

\* It exists, so that it obeys its definition.
LEMMA WalkLoopRuns ==
  ASSUME NEW poses \in Seq(Position), NEW i \in DOMAIN poses, NEW la \in Int
  PROVE  \E walk : /\ WalkLoop(poses, i, la) = walk[Len(poses)].carrot
                   /\ IsWalk(walk, poses, i, la)
<1> DEFINE V == [carrot : DOMAIN poses, acc : Nat]
           start == [carrot |-> i, acc |-> 0]
           Turn(s) == IF s.carrot < Len(poses) /\ s.acc < la
                      THEN [carrot |-> s.carrot + 1,
                            acc |-> s.acc + Dist(poses[s.carrot + 1],
                                                 poses[s.carrot])]
                      ELSE s
           D == i .. Len(poses)
           Body(w) == [k \in i .. Len(poses) |->
                         IF k = i THEN start ELSE Turn(w[k - 1])]
           walk == CHOOSE w : w = Body(w)
           G == [kv \in Nat \X V |-> Turn(kv[2])]
           len == Len(poses) - i
<1>1. i \in Nat \ {0} /\ Len(poses) \in Nat /\ i <= Len(poses) /\ len \in Nat
  OBVIOUS
<1>2. start \in V
  OBVIOUS
<1>3. \A s \in V : Turn(s) \in V
  <2> SUFFICES ASSUME NEW s \in V, s.carrot < Len(poses)
               PROVE  [carrot |-> s.carrot + 1,
                       acc |-> s.acc + Dist(poses[s.carrot + 1],
                                            poses[s.carrot])] \in V
    OBVIOUS
  <2>1. s.carrot \in DOMAIN poses /\ s.carrot + 1 \in DOMAIN poses
        /\ s.acc \in Nat
    BY <1>1
  <2>2. poses[s.carrot + 1] \in Position /\ poses[s.carrot] \in Position
    BY <2>1
  <2>3. Dist(poses[s.carrot + 1], poses[s.carrot]) \in Nat
    BY <2>2, DistAssumption
  <2> QED BY <2>1, <2>3
<1>4. G \in [Nat \X V -> V]
  <2> HIDE DEF V, Turn
  <2> SUFFICES ASSUME NEW kv \in Nat \X V PROVE Turn(kv[2]) \in V
    OBVIOUS
  <2> QED BY <1>3
<1>5. PICK g : IsRun(g, V, start, G, len)
  <2>1. len \in Nat
    BY <1>1
  <2> HIDE DEF V, start, G, len
  <2> QED BY <1>2, <1>4, <2>1, LoopHasRun, Zenon
<1> HIDE DEF Turn, V, start
<1>6. g[0] = start
  BY <1>5 DEF IsRun
<1>7. ASSUME NEW k \in 0 .. len - 1 PROVE g[k + 1] = Turn(g[k])
  <2>1. k \in Nat /\ k \in 0 .. len
    BY <1>1
  <2>2. g[k] \in V
    BY <1>5, <2>1 DEF IsRun
  <2>3. G[<<k, g[k]>>] = Turn(g[k])
    BY <2>1, <2>2
  <2> HIDE DEF G
  <2> QED BY <1>5, <2>3 DEF IsRun
<1> DEFINE w0 == [k \in D |-> g[k - i]]
<1>8. \E w : w = Body(w)
  <2>1. ASSUME NEW k \in D
        PROVE  w0[k] = IF k = i THEN start ELSE Turn(w0[k - 1])
    <3>1. CASE k = i
      <4>1. w0[k] = g[0]
        BY <1>1, <3>1
      <4> QED BY <1>6, <3>1, <4>1
    <3>2. CASE k # i
      <4>1. /\ k - 1 \in D /\ (k - 1) - i \in 0 .. len - 1
            /\ k - i = ((k - 1) - i) + 1
        BY <1>1, <3>2
      <4>2. w0[k] = g[((k - 1) - i) + 1] /\ w0[k - 1] = g[(k - 1) - i]
        BY <4>1
      <4> HIDE DEF w0, D, len
      <4> QED BY <1>7, <3>2, <4>1, <4>2
    <3> QED BY <3>1, <3>2
  <2>2. w0 = Body(w0)
    BY <2>1
  <2> HIDE DEF Body, w0
  <2> QED BY <2>2
<1>9. walk = Body(walk)
  <2> HIDE DEF Body
  <2> QED BY <1>8
<1>10. WalkLoop(poses, i, la) = walk[Len(poses)].carrot
  BY DEF WalkLoop, Turn, start
<1> HIDE DEF walk
<1> QED BY <1>9, <1>10 DEF IsWalk, Turn, start

\* There is one carrot.
LEMMA CarrotUnique ==
  ASSUME NEW poses \in Seq(Position), NEW i \in DOMAIN poses, NEW la \in Int,
         NEW j, NEW k,
         IsCarrot(poses, i, la, j), IsCarrot(poses, i, la, k)
  PROVE  j = k
<1> SUFFICES ASSUME NEW a \in i .. Len(poses), NEW b \in i .. Len(poses),
                    IsCarrot(poses, i, la, a), IsCarrot(poses, i, la, b)
             PROVE  ~(a < b)
  <2>1. j \in i .. Len(poses) /\ k \in i .. Len(poses)
    BY DEF IsCarrot
  <2>2. ~(j < k) /\ ~(k < j)
    BY <2>1
  <2> QED BY <2>1, <2>2
<1> SUFFICES ASSUME a < b PROVE FALSE
  OBVIOUS
<1>1. /\ a \in i .. b - 1 /\ a # Len(poses)
      /\ a \in i .. Len(poses) - 1
  OBVIOUS
<1>2. ArcLength(poses, i, a) \in Nat
  BY <1>1, ArcLengthSteps
<1>3. ArcLength(poses, i, a) < la
  BY <1>1 DEF IsCarrot
<1>4. ArcLength(poses, i, a) >= la
  BY <1>1 DEF IsCarrot
<1> QED BY <1>2, <1>3, <1>4

(***************************************************************************)
(* The second loop of findCarrot returns the first pose at least the       *)
(* lookahead along the path, or the last pose (rl_controller.cpp:271-279). *)
(***************************************************************************)
THEOREM WalkLoopCorrect ==
  ASSUME NEW poses \in Seq(Position), NEW i \in DOMAIN poses, NEW la \in Int
  PROVE  IsCarrot(poses, i, la, WalkLoop(poses, i, la))
<1> DEFINE last == Len(poses)
           arc(k) == ArcLength(poses, i, k)
<1>1. i \in Nat \ {0} /\ last \in Nat /\ i <= last
  OBVIOUS
<1>2. PICK walk : /\ WalkLoop(poses, i, la) = walk[Len(poses)].carrot
                  /\ IsWalk(walk, poses, i, la)
  BY WalkLoopRuns
<1>3. walk[i] = [carrot |-> i, acc |-> 0]
  <2>1. i \in i .. Len(poses)
    BY <1>1
  <2> QED BY <1>2, <2>1 DEF IsWalk
<1>4. ASSUME NEW k \in i .. last - 1, NEW c, NEW s, walk[k] = s, c = s.carrot
      PROVE  walk[k + 1] = IF c < last /\ s.acc < la
                           THEN [carrot |-> c + 1,
                                 acc |-> s.acc + Dist(poses[c + 1], poses[c])]
                           ELSE s
  <2>1. k + 1 \in i .. Len(poses) /\ k + 1 # i /\ (k + 1) - 1 = k
    BY <1>1
  <2> QED BY <1>2, <1>4, <2>1 DEF IsWalk
<1>5. arc(i) = 0
  BY ArcLengthSteps
<1>6. ASSUME NEW k \in i .. last - 1
      PROVE  /\ arc(k) \in Nat
             /\ arc(k + 1) = arc(k) + Dist(poses[k + 1], poses[k])
  BY ArcLengthSteps
<1>7. WalkLoop(poses, i, la) = walk[last].carrot
  BY <1>2
<1> HIDE DEF arc, last
\* After k - i turns the walk is at pose k, or it has stopped for good.
<1> DEFINE SoFar(k) ==
             LET c == walk[k].carrot
             IN  /\ c \in i .. k
                 /\ walk[k].acc = arc(c)
                 /\ c = k \/ c = last \/ arc(c) >= la
                 /\ \A l \in i .. c - 1 : arc(l) < la
           S == {n \in Nat : i + n <= last => SoFar(i + n)}
<1>8. SoFar(i)
  BY <1>1, <1>3, <1>5
<1>9. ASSUME NEW k \in i .. last - 1, SoFar(k) PROVE SoFar(k + 1)
  <2> DEFINE c == walk[k].carrot
  <2>1. /\ c \in i .. k /\ walk[k].acc = arc(c)
        /\ c = k \/ c = last \/ arc(c) >= la
        /\ \A l \in i .. c - 1 : arc(l) < la
    BY <1>9
  <2>2. k \in Int /\ c \in Int /\ c < last /\ c \in i .. last - 1
        /\ c # last
    BY <1>1, <2>1
  <2>3. arc(c) \in Nat /\ arc(c + 1) = arc(c) + Dist(poses[c + 1], poses[c])
    BY <1>6, <2>2
  <2>4. walk[k + 1] = IF c < last /\ walk[k].acc < la
                      THEN [carrot |-> c + 1,
                            acc |-> walk[k].acc + Dist(poses[c + 1], poses[c])]
                      ELSE walk[k]
    BY <1>4
  <2> HIDE DEF c
  <2>5. CASE arc(c) < la
    <3>1. c = k
      BY <2>1, <2>2, <2>3, <2>5
    <3>2. walk[k + 1].carrot = k + 1 /\ walk[k + 1].acc = arc(k + 1)
      BY <2>1, <2>2, <2>3, <2>4, <2>5, <3>1
    <3>3. \A l \in i .. (k + 1) - 1 : l \in i .. k - 1 \/ l = k
      BY <1>1, <2>2
    <3>4. \A l \in i .. (k + 1) - 1 : arc(l) < la
      BY <2>1, <2>5, <3>1, <3>3
    <3>5. k + 1 \in i .. k + 1
      BY <1>1, <2>2
    <3> QED BY <3>2, <3>4, <3>5
  <2>6. CASE ~(arc(c) < la)
    <3>1. walk[k + 1] = walk[k]
      BY <2>1, <2>4, <2>6
    <3>2. arc(c) >= la /\ c \in i .. k + 1
      BY <1>1, <2>1, <2>2, <2>3, <2>6
    <3>3. walk[k + 1].carrot = c
      BY <3>1 DEF c
    <3> QED BY <2>1, <3>1, <3>2, <3>3
  <2> QED BY <2>5, <2>6
<1>10. 0 \in S
  BY <1>1, <1>8
<1>11. ASSUME NEW n \in Nat, n \in S PROVE n + 1 \in S
  <2> SUFFICES ASSUME i + (n + 1) <= last PROVE SoFar(i + (n + 1))
    OBVIOUS
  <2>1. i + n \in i .. last - 1 /\ (i + n) + 1 = i + (n + 1) /\ i + n <= last
    BY <1>1
  <2>2. SoFar(i + n)
    BY <1>11, <2>1
  <2> HIDE DEF SoFar
  <2> QED BY <1>9, <2>1, <2>2
<1>12. SoFar(last)
  <2>1. last - i \in Nat /\ i + (last - i) = last
    BY <1>1
  <2> HIDE DEF S
  <2>2. last - i \in S
    BY <1>10, <1>11, <2>1, SetInduction
  <2> HIDE DEF SoFar
  <2> QED BY <1>1, <2>1, <2>2 DEF S
<1> QED BY <1>7, <1>12 DEF IsCarrot, arc, last
=============================================================================
