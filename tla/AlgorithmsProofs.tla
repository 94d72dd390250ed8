--------------------------- MODULE AlgorithmsProofs ---------------------------
(***************************************************************************)
(* Proofs about Algorithms: that sampleScan, findCarrot and the 16-bit     *)
(* floats compute what they are to compute for every message, every plan,  *)
(* every position of the robot, every lookahead and every float.           *)
(***************************************************************************)
EXTENDS Algorithms, ObservationProofs

-----------------------------------------------------------------------------
(***************************************************************************)
(* Which beam is nearest.                                                  *)
(***************************************************************************)

\* The difference between a quotient and std::lround of it is at most 1/2.
LEMMA RoundDivNearest ==
  ASSUME NEW a \in Int, NEW b \in Int \ {0}
  PROVE  /\ RoundDiv(a, b) \in Int
         /\ 2 * Abs(RoundDiv(a, b) * b - a) <= Abs(b)
<1> DEFINE x == Abs(a)
           y == Abs(b)
           q == (2 * x + y) \div (2 * y)
           r == (2 * x + y) % (2 * y)
<1>1. x \in Nat /\ y \in Nat \ {0}
  BY DEF Abs
<1>2. q \in Nat /\ r \in 0 .. 2 * y - 1 /\ 2 * x + y = (2 * y) * q + r
  <2>1. 2 * x + y \in Nat /\ 2 * y \in Nat \ {0}
    BY <1>1
  <2> HIDE DEF x, y
  <2> QED BY <2>1, DivMod
<1> HIDE DEF q, r
<1>3. RoundDiv(a, b) = IF (a < 0) = (b < 0) THEN q ELSE -q
  BY DEF RoundDiv, q
<1>4. RoundDiv(a, b) * b - a = q * y - x \/ RoundDiv(a, b) * b - a = x - q * y
  <2>1. CASE a < 0 /\ b < 0
    BY <1>2, <1>3, <2>1 DEF Abs
  <2>2. CASE a < 0 /\ ~(b < 0)
    BY <1>2, <1>3, <2>2 DEF Abs
  <2>3. CASE ~(a < 0) /\ b < 0
    BY <1>2, <1>3, <2>3 DEF Abs
  <2>4. CASE ~(a < 0) /\ ~(b < 0)
    BY <1>2, <1>3, <2>4 DEF Abs
  <2> QED BY <2>1, <2>2, <2>3, <2>4
<1> HIDE DEF x, y
<1> DEFINE p == q * y
<1>5. p \in Int /\ 2 * x + y = 2 * p + r
  BY <1>1, <1>2
<1> HIDE DEF p
<1>6. 2 * (p - x) <= y /\ 2 * (x - p) <= y
  BY <1>1, <1>2, <1>5
<1>7. 2 * Abs(RoundDiv(a, b) * b - a) <= y
  BY <1>1, <1>4, <1>5, <1>6 DEF p, Abs
<1> QED BY <1>2, <1>3, <1>7 DEF y

\* WrapIndex adds a multiple of n.
LEMMA WrapIndexModulo ==
  ASSUME NEW a \in Int, NEW n \in Nat \ {0}
  PROVE  \E k \in Int : WrapIndex(a, n) = a + k * n
<1> DEFINE r == Rem(a, n)
<1>1. \E k \in Int : r = a + k * n /\ r + n \in Nat
  <2>1. CASE a < 0
    <3>1. -a \in Nat
      BY <2>1
    <3>2. (-a) \div n \in Nat /\ -a = n * ((-a) \div n) + ((-a) % n)
          /\ (-a) % n \in 0 .. n - 1
      BY <3>1, DivMod
    <3>3. r = -((-a) % n)
      BY <2>1 DEF Rem
    <3> DEFINE m == (-a) % n
               d == (-a) \div n
    <3> HIDE DEF m, d, r
    <3>4. r = -m /\ -a = n * d + m /\ d \in Nat /\ m \in 0 .. n - 1
      BY <3>2, <3>3 DEF m, d
    <3>5. r + n \in Nat
      BY <3>4
    <3>6. r = a + d * n /\ d \in Int
      BY <3>4
    <3> QED BY <3>5, <3>6, Zenon
  <2>2. CASE ~(a < 0)
    <3> DEFINE d == a \div n
               m == a % n
    <3>0. a \in Nat
      BY <2>2
    <3>1. d \in Nat /\ a = n * d + m /\ m \in 0 .. n - 1
      BY <3>0, DivMod
    <3>2. r = m
      BY <2>2 DEF Rem
    <3> HIDE DEF d, m, r
    <3>3. r + n \in Nat
      BY <3>1, <3>2
    <3>4. r = a + (-d) * n /\ -d \in Int
      BY <3>1, <3>2
    <3> QED BY <3>3, <3>4, Zenon
  <2> QED BY <2>1, <2>2
<1>2. PICK k \in Int : r = a + k * n /\ r + n \in Nat
  BY <1>1
<1> DEFINE s == r + n
           e == s \div n
<1>3. WrapIndex(a, n) = s % n
  BY <1>2 DEF WrapIndex, Rem
<1> HIDE DEF r, s
<1>4. s \in Nat /\ s = a + k * n + n
  BY <1>2 DEF s
<1>5. e \in Nat /\ s = n * e + (s % n) /\ s % n \in 0 .. n - 1
  BY <1>4, DivMod
<1> HIDE DEF e
<1> DEFINE t == s % n
<1> HIDE DEF t
<1>6. t = a + (k + 1 - e) * n /\ k + 1 - e \in Int
  BY <1>4, <1>5 DEF t
<1> QED BY <1>3, <1>6, Zenon DEF t

\* A small angle is not changed by the turns around the circle.
LEMMA ShortWayOfSmall ==
  ASSUME NEW e \in Int, NEW k \in Int, NEW turn \in Nat \ {0},
         2 * Abs(e) <= turn
  PROVE  ShortWay(e + k * turn, turn) = Abs(e)
<1> DEFINE a == e + k * turn
           d == a % turn
<1>1. a \in Int /\ d \in 0 .. turn - 1
  BY DEF a
<1>2. \E j \in Int : d = e + j * turn
  <2>1. a = turn * (a \div turn) + d /\ a \div turn \in Int
    BY <1>1
  <2> DEFINE c == a \div turn
  <2> HIDE DEF c, d
  <2>2. d = e + (k - c) * turn /\ k - c \in Int
    BY <1>1, <2>1 DEF c
  <2> QED BY <2>2
<1>3. PICK j \in Int : d = e + j * turn
  BY <1>2
<1>4. ShortWay(a, turn) = IF 2 * d > turn THEN turn - d ELSE d
  BY DEF ShortWay
<1> HIDE DEF a, d
<1>5. CASE j = 0
  BY <1>1, <1>3, <1>4, <1>5 DEF Abs, a
<1>6. CASE j = 1
  BY <1>1, <1>3, <1>4, <1>6 DEF Abs, a
<1>7. CASE j >= 2
  <2>1. j * turn >= 2 * turn
    BY <1>7
  <2> QED BY <1>1, <1>3, <2>1 DEF Abs
<1>8. CASE j <= -1
  <2>1. j * turn <= -turn
    BY <1>8
  <2>2. d <= e - turn
    BY <1>1, <1>3, <2>1
  <2> QED BY <1>1, <2>2 DEF Abs
<1> QED BY <1>5, <1>6, <1>7, <1>8 DEF a

\* A ray that is no further from the first beam than the last beam is, on
\* the same side of it, rounds to a beam of the message without wrapping.
LEMMA RoundedInRange ==
  ASSUME NEW n \in Nat \ {0}, NEW y \in Nat, NEW b \in Nat \ {0},
         NEW q \in Int,
         y <= (n - 1) * b, 2 * Abs(q * b - y) <= b
  PROVE  q \in 0 .. n - 1
<1>1. q * b \in Int /\ 2 * (q * b) >= -b /\ 2 * (q * b) <= 2 * y + b
  <2> DEFINE p == q * b
  <2>1. p \in Int
    OBVIOUS
  <2> HIDE DEF p
  <2>2. 2 * Abs(p - y) <= b
    BY DEF p
  <2> QED BY <2>1, <2>2 DEF Abs, p
<1>2. q >= 0
  <2> SUFFICES ASSUME q <= -1 PROVE FALSE
    OBVIOUS
  <2>1. q * b <= -b
    OBVIOUS
  <2> QED BY <1>1, <2>1
<1>3. q <= n - 1
  <2> SUFFICES ASSUME q >= n PROVE FALSE
    OBVIOUS
  <2>1. q * b >= n * b /\ (n - 1) * b = n * b - b /\ n * b \in Int
    OBVIOUS
  <2> QED BY <1>1, <2>1
<1> QED BY <1>2, <1>3

\* The angle of a ray is between minus and plus half a turn.
LEMMA RayAngleRange ==
  ASSUME NEW i \in Ray
  PROVE  /\ RayAngle(i) \in Int
         /\ 2 * RayAngle(i) < N_RAYS * TURN
         /\ 2 * RayAngle(i) >= -(N_RAYS * TURN)
<1>1. N_RAYS \in Nat \ {0} /\ TURN \in Nat \ {0} /\ i \in 0 .. N_RAYS - 1
  BY SamplingAssumption DEF Ray
<1>2. CASE 2 * i < N_RAYS
  <2>1. RayAngle(i) = TURN * i /\ TURN * i \in Nat
    BY <1>1, <1>2 DEF RayAngle
  <2>2. TURN * (2 * i) < TURN * N_RAYS
    BY <1>1, <1>2
  <2> QED BY <1>1, <2>1, <2>2
<1>3. CASE ~(2 * i < N_RAYS)
  <2> DEFINE c == i - N_RAYS
  <2>1. RayAngle(i) = TURN * c /\ c \in Int /\ c <= -1
    BY <1>1, <1>3 DEF RayAngle
  <2>2. 2 * c >= -N_RAYS
    BY <1>1, <1>3
  <2> HIDE DEF c
  <2>3. TURN * (2 * c) >= TURN * (-N_RAYS)
    BY <1>1, <2>1, <2>2
  <2>4. TURN * c < 0
    BY <1>1, <2>1
  <2> QED BY <1>1, <2>1, <2>3, <2>4
<1> QED BY <1>2, <1>3

(***************************************************************************)
(* The beam that sampleScan reads for a ray is one nearest to the ray's    *)
(* angle (rl_controller.cpp:198-207).                                      *)
(***************************************************************************)
THEOREM BeamNearest ==
  ASSUME NEW m, IsLaserScan(m), Readable(m), FullCircle(m), NEW i \in Ray
  PROVE  2 * AngularError(m, i) <= N_RAYS * Abs(m.angle_increment)
<1> DEFINE n == Len(m.ranges)
           A == m.angle_min
           w == m.angle_increment
           theta == RayAngle(i)
           x == theta - N_RAYS * A
           b == N_RAYS * w
           q == RoundDiv(x, b)
           e == q * b - x
           circle == N_RAYS * TURN
           read == Beam(m, i)
<1>1. N_RAYS \in Nat \ {0} /\ TURN \in Nat \ {0} /\ circle \in Nat \ {0}
  BY SamplingAssumption
<1>2. n \in Nat \ {0} /\ A \in Int /\ w \in Int \ {0}
  BY DEF IsLaserScan, Readable
<1>3. theta \in Int /\ 2 * theta < circle /\ 2 * theta >= -circle
  BY RayAngleRange
<1>6. read = WrapIndex(q, n)
  BY DEF Beam
<1> HIDE DEF n, A, w, theta, read
<1>4. x \in Int /\ b \in Int \ {0} /\ Abs(b) = N_RAYS * Abs(w)
  <2>1. x \in Int
    BY <1>1, <1>2, <1>3
  <2>2. CASE w > 0
    <3>1. N_RAYS * w > 0
      BY <1>1, <1>2, <2>2
    <3> QED BY <2>1, <2>2, <3>1, <1>1, <1>2 DEF Abs
  <2>3. CASE w < 0
    <3>1. N_RAYS * w < 0 /\ -(N_RAYS * w) = N_RAYS * (-w)
      BY <1>1, <1>2, <2>3
    <3> QED BY <2>1, <2>3, <3>1, <1>1, <1>2 DEF Abs
  <2> QED BY <1>2, <2>2, <2>3
<1>5. q \in Int /\ e \in Int /\ 2 * Abs(e) <= Abs(b)
  <2> HIDE DEF x, b
  <2>1. q \in Int /\ 2 * Abs(e) <= Abs(b)
    BY <1>4, RoundDivNearest
  <2> HIDE DEF q
  <2> QED BY <1>4, <2>1
<1>7. ASSUME \E k \in Int : N_RAYS * (A + read * w) - theta = e + k * circle,
             Abs(b) <= circle
      PROVE  2 * AngularError(m, i) <= Abs(b)
  <2>1. PICK k \in Int : N_RAYS * (A + read * w) - theta = e + k * circle
    BY <1>7
  <2>2. 2 * Abs(e) <= circle
    BY <1>1, <1>4, <1>5, <1>7 DEF Abs
  <2>3. AngularError(m, i) = ShortWay(e + k * circle, circle)
    BY <2>1 DEF AngularError, A, w, theta, read
  <2> HIDE DEF e, circle
  <2>4. AngularError(m, i) = Abs(e)
    BY <2>2, <2>3, <1>1, <1>5, ShortWayOfSmall
  <2> QED BY <2>4, <1>5
<1> HIDE DEF q
<1>8. CASE n * Abs(w) = TURN
  <2>1. PICK k \in Int : read = q + k * n
    BY <1>2, <1>5, <1>6, WrapIndexModulo
  <2>2. n * w = TURN \/ n * w = -TURN
    BY <1>1, <1>2, <1>8 DEF Abs
  <2>3. N_RAYS * (A + read * w) - theta = e + k * (N_RAYS * (n * w))
    BY <1>1, <1>2, <1>3, <1>5, <2>1
  <2>4. \E j \in Int :
          N_RAYS * (A + read * w) - theta = e + j * circle
    <3>1. CASE n * w = TURN
      BY <2>3, <3>1
    <3>2. CASE n * w = -TURN
      <4>1. k * (N_RAYS * (n * w)) = (-k) * circle /\ -k \in Int
        BY <1>1, <3>2
      <4> QED BY <2>3, <4>1
    <3> QED BY <2>2, <3>1, <3>2
  <2>5. Abs(b) <= circle
    <3>1. Abs(w) <= n * Abs(w) /\ Abs(w) \in Nat
      BY <1>2 DEF Abs
    <3>2. N_RAYS * Abs(w) <= N_RAYS * TURN
      BY <1>1, <1>8, <3>1
    <3> QED BY <1>4, <3>2
  <2> QED BY <1>4, <1>7, <2>4, <2>5 DEF w
<1>9. CASE /\ (n - 1) * Abs(w) = TURN /\ Abs(2 * A) = TURN
           /\ (A < 0) = (w > 0)
  <2> DEFINE B == Abs(b)
             y == Abs(x)
  <2>1. Abs(w) \in Nat \ {0} /\ n - 1 \in Nat \ {0}
    <3>1. Abs(w) \in Nat \ {0}
      BY <1>2 DEF Abs
    <3>2. n # 1
      BY <1>1, <1>9, <3>1
    <3> QED BY <1>2, <3>1, <3>2
  <2>2. circle = (n - 1) * B /\ B \in Nat \ {0} /\ B <= circle
    <3> DEFINE v == Abs(w)
    <3>1. (n - 1) * v = TURN /\ v \in Nat \ {0} /\ B = N_RAYS * v
      BY <1>4, <1>9, <2>1
    <3> HIDE DEF v, B
    <3>2. circle = (n - 1) * B /\ B \in Nat \ {0}
      BY <1>1, <1>2, <3>1
    <3> HIDE DEF circle
    <3> DEFINE k == n - 1
    <3>3. B <= k * B
      <4>1. k \in Nat /\ k >= 1
        BY <1>2, <2>1
      <4> HIDE DEF k
      <4>2. (k - 1) * B >= 0 /\ k * B = (k - 1) * B + B
        BY <3>2, <4>1
      <4> QED BY <3>2, <4>1, <4>2
    <3> QED BY <3>2, <3>3
  <2>3. /\ w > 0 => 2 * x = 2 * theta + circle
        /\ w < 0 => 2 * x = 2 * theta - circle
    <3>1. w > 0 => 2 * A = -TURN
      BY <1>1, <1>2, <1>9 DEF Abs
    <3>2. w < 0 => 2 * A = TURN
      BY <1>1, <1>2, <1>9 DEF Abs
    <3>3. 2 * x = 2 * theta - N_RAYS * (2 * A)
      BY <1>1, <1>2, <1>3
    <3>4. N_RAYS * (-TURN) = -circle
      BY <1>1
    <3> QED BY <1>1, <1>2, <1>3, <3>1, <3>2, <3>3, <3>4
  <2>4. y \in Nat /\ y <= circle
    <3> HIDE DEF x, circle
    <3> QED BY <1>1, <1>2, <1>3, <1>4, <2>3 DEF Abs
  <2>5. q * B - y = e \/ q * B - y = -e
    <3>1. w > 0 => b = B /\ x = y
      BY <1>1, <1>2, <1>3, <1>4, <2>3 DEF Abs
    <3>2. w < 0 => b = -B /\ x = -y
      BY <1>1, <1>2, <1>3, <1>4, <2>3 DEF Abs
    <3> HIDE DEF b, B, x, y
    <3>3. q * (-B) = -(q * B) /\ q * B \in Int
      BY <1>5, <2>2
    <3>4. CASE w > 0
      BY <3>1, <3>4
    <3>5. CASE w < 0
      BY <2>4, <3>2, <3>3, <3>5
    <3> QED BY <1>2, <3>4, <3>5
  <2>6. 2 * Abs(q * B - y) <= B
    <3> HIDE DEF e, B, y
    <3> QED BY <1>5, <2>5 DEF Abs, B
  <2> HIDE DEF circle, e, B, y
  <2>7. q \in 0 .. n - 1
    BY <1>2, <1>5, <2>2, <2>4, <2>6, RoundedInRange
  <2>8. read = q
    BY <1>2, <1>6, <2>7 DEF WrapIndex, Rem
  <2>9. N_RAYS * (A + read * w) - theta = e + 0 * circle
    BY <1>1, <1>2, <1>3, <1>5, <2>8 DEF e
  <2> QED BY <1>4, <1>7, <2>2, <2>9 DEF w, B
<1> QED BY <1>4, <1>8, <1>9 DEF FullCircle, n, A, w

-----------------------------------------------------------------------------
(***************************************************************************)
(* Which 16-bit value a float becomes, for every float: the run visits     *)
(* every 16-bit value and its half-way points, these every float.          *)
(***************************************************************************)

\* The value v of 16 bits, of which one step is worth d, is nearest to n, and
\* even when its neighbour is as near.
NearestStep(v, n, d) ==
  /\ 2 * (n - v * d) <= d
  /\ 2 * (v * d - n) <= d
  /\ 2 * (n - v * d) = d \/ 2 * (v * d - n) = d => v % 2 = 0

\* A quotient, from any way to write its number.
LEMMA QuotientUnique ==
  ASSUME NEW d \in Nat \ {0}, NEW q \in Int, NEW r \in Nat, r < d,
         NEW n \in Nat, n = d * q + r
  PROVE  n \div d = q
<1> DEFINE p == n \div d
           s == n % d
<1>1. p \in Nat /\ s \in 0 .. d - 1 /\ n = d * p + s
  BY DivMod
<1> HIDE DEF p, s
<1>2. d * (q - p) = s - r
  BY <1>1
<1>3. s - r < d /\ r - s < d
  BY <1>1
<1>4. CASE q > p
  <2>1. q - p >= 1 /\ q - p \in Int
    BY <1>1, <1>4
  <2>2. d * (q - p) >= d
    BY <2>1
  <2> QED BY <1>1, <1>2, <1>3, <2>1, <2>2
<1>5. CASE q < p
  <2>1. p - q >= 1 /\ p - q \in Int
    BY <1>1, <1>5
  <2>2. d * (p - q) >= d
    BY <2>1
  <2>3. d * (p - q) = r - s
    BY <1>1, <1>2
  <2> QED BY <1>1, <1>3, <2>1, <2>2, <2>3
<1>6. q = p
  BY <1>1, <1>4, <1>5
<1> QED BY <1>6 DEF p

\* The bias of half a step less one, and one more above an odd value, rounds
\* to the nearest.
LEMMA BiasRounds ==
  ASSUME NEW h \in Nat \ {0}, NEW d, d = 2 * h, NEW n \in Nat,
         NEW odd, odd = (n \div d) % 2, NEW v, v = (n + h - 1 + odd) \div d
  PROVE  /\ odd \in 0 .. 1
         /\ v \in Nat
         /\ NearestStep(v, n, d)
<1> DEFINE q == n \div d
           r == n % d
           p == d * q
<1>1. d \in Nat \ {0} /\ q \in Nat /\ r \in 0 .. d - 1 /\ n = d * q + r
  <2>1. d \in Nat \ {0}
    OBVIOUS
  <2> QED BY <2>1, DivMod
<1>2. odd \in 0 .. 1 /\ (odd = 1 => (q + 1) % 2 = 0)
      /\ (odd = 0 => q % 2 = 0)
  <2>1. odd = q % 2
    OBVIOUS
  <2> HIDE DEF q
  <2> QED BY <1>1, <2>1
<1> HIDE DEF q, r
<1>3. CASE r + odd <= h
  <2> DEFINE s == r + h - 1 + odd
  <2>1. s \in Nat /\ s < d /\ n + h - 1 + odd = d * q + s
        /\ n + h - 1 + odd \in Nat
    <3>1. p \in Int /\ n = p + r
      BY <1>1
    <3> HIDE DEF p
    <3>2. s \in Nat /\ s < d /\ n + h - 1 + odd = p + s
          /\ n + h - 1 + odd \in Nat
      BY <1>1, <1>2, <1>3, <3>1
    <3> QED BY <3>2 DEF p
  <2> HIDE DEF s
  <2>2. v = q
    BY <1>1, <2>1, QuotientUnique
  <2>3. q * d = p /\ p \in Int /\ n = p + r
    BY <1>1
  <2> HIDE DEF p
  <2>4. 2 * (n - q * d) <= d /\ 2 * (q * d - n) <= d
    BY <1>1, <1>2, <1>3, <2>3
  <2>5. 2 * (n - q * d) = d \/ 2 * (q * d - n) = d => odd = 0
    BY <1>1, <1>2, <1>3, <2>3
  <2> QED BY <1>1, <1>2, <2>2, <2>4, <2>5 DEF NearestStep
<1>4. CASE ~(r + odd <= h)
  <2> DEFINE s == r + h - 1 + odd - d
  <2>1. s \in Nat /\ s < d /\ n + h - 1 + odd = d * (q + 1) + s
        /\ n + h - 1 + odd \in Nat
    <3>1. p \in Int /\ n = p + r /\ d * (q + 1) = p + d
      BY <1>1
    <3> HIDE DEF p
    <3>2. s \in Nat /\ s < d /\ n + h - 1 + odd = p + d + s
          /\ n + h - 1 + odd \in Nat
      BY <1>1, <1>2, <1>4, <3>1
    <3> QED BY <3>1, <3>2
  <2> HIDE DEF s
  <2>2. v = q + 1 /\ q + 1 \in Nat
    BY <1>1, <2>1, QuotientUnique
  <2>3. (q + 1) * d = p + d /\ p \in Int /\ n = p + r
    BY <1>1
  <2> HIDE DEF p
  <2>4. 2 * (n - (q + 1) * d) <= d /\ 2 * ((q + 1) * d - n) <= d
    BY <1>1, <1>2, <1>4, <2>3
  <2>5. 2 * (n - (q + 1) * d) = d \/ 2 * ((q + 1) * d - n) = d => odd = 1
    BY <1>1, <1>2, <1>4, <2>3
  <2> QED BY <1>1, <1>2, <2>2, <2>4, <2>5 DEF NearestStep
<1> QED BY <1>2, <1>3, <1>4

\* The nearest of whole steps is between whole steps.
LEMMA NearestStepBounds ==
  ASSUME NEW d \in Nat \ {0}, NEW v \in Int, NEW n \in Int, NEW m \in Int,
         NearestStep(v, n, d)
  PROVE  /\ n <= m * d => v <= m
         /\ m * d <= n => m <= v
         /\ n = m * d => v = m
<1> DEFINE x == v * d
           y == m * d
<1>1. x \in Int /\ y \in Int /\ 2 * (n - x) <= d /\ 2 * (x - n) <= d
  BY DEF NearestStep
<1>2. ASSUME v >= m + 1 PROVE x >= y + d
  <2>1. v - (m + 1) \in Nat
    BY <1>2
  <2>2. (v - (m + 1)) * d \in Nat
    BY <2>1
  <2> QED BY <2>2
<1>3. ASSUME m >= v + 1 PROVE y >= x + d
  <2>1. m - (v + 1) \in Nat
    BY <1>3
  <2>2. (m - (v + 1)) * d \in Nat
    BY <2>1
  <2> QED BY <2>2
<1> SUFFICES /\ n <= y => v <= m
             /\ y <= n => m <= v
             /\ n = y => v = m
  OBVIOUS
<1> HIDE DEF x, y
<1> QED BY <1>1, <1>2, <1>3

\* The numbers of the two formats; the proofs know no others.
NORMAL == 114688

LEMMA FormatNumbers ==
  /\ HALF_BIAS \in Nat /\ HALF_STEP = 2 * (HALF_BIAS + 1)
  /\ BRAIN_BIAS \in Nat /\ BRAIN_STEP = 2 * (BRAIN_BIAS + 1)
  /\ BRAIN_INF \in Nat /\ FLOAT_INF = BRAIN_INF * BRAIN_STEP
  /\ HALF_INF \in Nat /\ HALF_INF > 1024
  /\ NORMAL \in Nat /\ NORMAL % 2 = 0 /\ Exponent(112) = NORMAL * HALF_STEP
  /\ Exponent(113) = Exponent(112) + 1024 * HALF_STEP
  /\ Exponent(127 + 16) = Exponent(112) + HALF_INF * HALF_STEP
<1>1. /\ HALF_BIAS \in Nat /\ HALF_STEP = 2 * (HALF_BIAS + 1)
      /\ BRAIN_BIAS \in Nat /\ BRAIN_STEP = 2 * (BRAIN_BIAS + 1)
  BY DEF HALF_BIAS, HALF_STEP, BRAIN_BIAS, BRAIN_STEP
<1>2. BRAIN_INF \in Nat /\ FLOAT_INF = BRAIN_INF * BRAIN_STEP
  BY DEF FLOAT_INF, BRAIN_INF, BRAIN_STEP, Exponent
<1>3. HALF_INF \in Nat /\ HALF_INF > 1024 /\ NORMAL \in Nat
  BY DEF HALF_INF, NORMAL
<1>4. NORMAL % 2 = 0
  BY DEF NORMAL
<1>5. /\ Exponent(112) = NORMAL * HALF_STEP
      /\ Exponent(113) = Exponent(112) + 1024 * HALF_STEP
      /\ Exponent(127 + 16) = Exponent(112) + HALF_INF * HALF_STEP
  BY DEF Exponent, NORMAL, HALF_STEP, HALF_INF
<1> QED BY <1>1, <1>2, <1>3, <1>4, <1>5

(***************************************************************************)
(* BFloat16: every float up to infinity becomes the nearest value, the even*)
(* one of two, and none becomes a NaN; every value comes back exactly      *)
(* (onnxruntime_float16.h:483-535).                                        *)
(***************************************************************************)
THEOREM BrainFloatNearest ==
  /\ \A f \in Nat : f <= FLOAT_INF =>
       /\ ToUint16ImplBrain(f) \in 0 .. BRAIN_INF
       /\ NearestStep(ToUint16ImplBrain(f), f, BRAIN_STEP)
  /\ \A v \in 0 .. BRAIN_INF : ToUint16ImplBrain(ToFloatImplBrain(v)) = v
<1> DEFINE d == BRAIN_STEP
           h == BRAIN_BIAS + 1
<1>1. /\ h \in Nat \ {0} /\ d = 2 * h /\ d \in Nat \ {0} /\ BRAIN_BIAS = h - 1
      /\ BRAIN_BIAS \in Nat
      /\ BRAIN_INF \in Nat /\ FLOAT_INF = BRAIN_INF * d /\ FLOAT_INF \in Nat
  BY FormatNumbers
<1> HIDE DEF h
<1>2. ASSUME NEW f \in Nat, f <= FLOAT_INF
      PROVE  /\ ToUint16ImplBrain(f) \in 0 .. BRAIN_INF
             /\ NearestStep(ToUint16ImplBrain(f), f, d)
  <2> DEFINE odd == (f \div d) % 2
             v == (f + h - 1 + odd) \div d
  <2>1. odd \in 0 .. 1 /\ v \in Nat /\ NearestStep(v, f, d)
    BY <1>1, BiasRounds
  <2>2. ToUint16ImplBrain(f) = (f + odd + BRAIN_BIAS) \div d
    BY <1>1, <1>2 DEF ToUint16ImplBrain
  <2> HIDE DEF odd
  <2>3. f + odd + BRAIN_BIAS = f + h - 1 + odd
    BY <1>1, <2>1
  <2>4. ToUint16ImplBrain(f) = v
    BY <2>2, <2>3
  <2> HIDE DEF v, d
  <2>5. v <= BRAIN_INF
    BY <1>1, <1>2, <2>1, NearestStepBounds
  <2> QED BY <1>1, <2>1, <2>4, <2>5
<1>3. ASSUME NEW v \in 0 .. BRAIN_INF
      PROVE  ToUint16ImplBrain(ToFloatImplBrain(v)) = v
  <2>1. v \in Nat /\ v <= BRAIN_INF /\ ~(v > BRAIN_INF)
    BY <1>1
  <2>2. ToFloatImplBrain(v) = v * d
    BY <2>1 DEF ToFloatImplBrain
  <2> HIDE DEF d
  <2>3. v * d \in Nat /\ v * d <= FLOAT_INF
    <3>1. BRAIN_INF - v \in Nat
      BY <1>1, <2>1
    <3>2. (BRAIN_INF - v) * d \in Nat
      BY <1>1, <3>1
    <3>3. v * d \in Nat /\ BRAIN_INF * d = v * d + (BRAIN_INF - v) * d
      BY <1>1, <2>1
    <3> QED BY <1>1, <3>2, <3>3
  <2>4. /\ ToUint16ImplBrain(v * d) \in 0 .. BRAIN_INF
        /\ NearestStep(ToUint16ImplBrain(v * d), v * d, d)
    BY <1>2, <2>3
  <2>5. ToUint16ImplBrain(v * d) \in Int
    BY <1>1, <2>4
  <2> QED BY <1>1, <2>1, <2>2, <2>3, <2>4, <2>5, NearestStepBounds
<1> QED BY <1>2, <1>3

(***************************************************************************)
(* Float16: every float from the smallest normal value up to the largest   *)
(* becomes the nearest value, and every normal value comes back exactly    *)
(* (onnxruntime_float16.h:246-323).  From 65520 on the nearest is infinity.*)
(***************************************************************************)
THEOREM HalfFloatNearest ==
  /\ \A f \in Nat : Exponent(113) <= f /\ f < Exponent(127 + 16) =>
       /\ ToUint16Impl(f) \in 1024 .. HALF_INF
       /\ NearestStep(ToUint16Impl(f), f - Exponent(112), HALF_STEP)
  /\ \A v \in 1024 .. HALF_INF - 1 :
       ToUint16Impl(ToFloatImpl(v)) = v
<1> DEFINE d == HALF_STEP
           h == HALF_BIAS + 1
           zero == Exponent(112)
           first == Exponent(113)
           beyond == Exponent(127 + 16)
           least == 1024
<1>1. /\ h \in Nat \ {0} /\ d = 2 * h /\ d \in Nat \ {0} /\ HALF_BIAS = h - 1
      /\ HALF_BIAS \in Nat
  BY FormatNumbers
<1>2. /\ HALF_INF \in Nat /\ HALF_INF > least /\ least \in Nat
      /\ NORMAL \in Nat /\ NORMAL % 2 = 0
      /\ zero = NORMAL * d /\ zero \in Nat
      /\ first = zero + least * d
      /\ beyond = zero + HALF_INF * d
  BY FormatNumbers
<1> HIDE DEF h, zero, first, beyond, least
<1>3. ASSUME NEW f \in Nat, first <= f, f < beyond
      PROVE  /\ ToUint16Impl(f) \in least .. HALF_INF
             /\ NearestStep(ToUint16Impl(f), f - zero, d)
  <2> DEFINE n == f - zero
             odd == (n \div d) % 2
             v == (n + h - 1 + odd) \div d
             low == least * d
             high == HALF_INF * d
  <2>1. n \in Nat /\ low <= n /\ n <= high /\ f = n + zero
    <3>1. low \in Nat /\ high \in Nat
      BY <1>1, <1>2
    <3> HIDE DEF low, high
    <3>2. first = zero + low /\ beyond = zero + high
      BY <1>2 DEF low, high
    <3> QED BY <1>2, <1>3, <3>1, <3>2
  <2> HIDE DEF n
  <2>2. odd \in 0 .. 1 /\ v \in Nat /\ NearestStep(v, n, d)
    BY <1>1, <2>1, BiasRounds
  <2>3. (f \div d) % 2 = odd
    <3> DEFINE q == n \div d
               r == n % d
    <3> HIDE DEF d
    <3>1. q \in Nat /\ r \in Nat /\ r < d /\ n = d * q + r
      <4>1. q \in Nat /\ r \in 0 .. d - 1 /\ n = d * q + r
        BY <1>1, <2>1, DivMod
      <4> QED BY <1>1, <4>1
    <3> HIDE DEF q, r
    <3> DEFINE m == q + NORMAL
    <3>2. f = d * m + r /\ m \in Int
      BY <1>1, <1>2, <2>1, <3>1
    <3> HIDE DEF m
    <3>3. f \div d = m
      BY <1>1, <3>1, <3>2, QuotientUnique
    <3>4. (q + NORMAL) % 2 = q % 2
      BY <1>2, <3>1
    <3> QED BY <3>3, <3>4 DEF q, m
  <2>4. ToUint16Impl(f) = (n + HALF_BIAS + odd) \div d
    <3>1. ~(f >= beyond) /\ ~(f < first)
      BY <1>1, <1>2, <1>3, <2>1
    <3>2. ToUint16Impl(f) =
            (n + HALF_BIAS + ((f \div d) % 2)) \div d
      BY <3>1 DEF ToUint16Impl, n, zero, first, beyond
    <3> HIDE DEF odd
    <3> QED BY <2>3, <3>2
  <2> HIDE DEF odd
  <2>5. n + HALF_BIAS + odd = n + h - 1 + odd
    BY <1>1, <2>1, <2>2
  <2>6. ToUint16Impl(f) = v
    BY <2>4, <2>5
  <2> HIDE DEF v, d
  <2>7. v \in Int /\ n \in Int /\ least \in Int /\ HALF_INF \in Int
    BY <1>2, <2>1, <2>2
  <2>8. n <= HALF_INF * d => v <= HALF_INF
    BY <1>1, <2>2, <2>7, NearestStepBounds
  <2>9. least * d <= n => least <= v
    BY <1>1, <2>2, <2>7, NearestStepBounds
  <2> QED BY <1>2, <2>1, <2>2, <2>6, <2>7, <2>8, <2>9 DEF n
<1>4. ASSUME NEW v \in least .. HALF_INF - 1
      PROVE  ToUint16Impl(ToFloatImpl(v)) = v
  <2>1. v \in Nat /\ v >= least /\ v < HALF_INF /\ ~(v >= HALF_INF)
    BY <1>2
  <2> DEFINE f == v * d + zero
  <2>2. ToFloatImpl(v) = f
    BY <2>1 DEF ToFloatImpl, zero, least
  <2> HIDE DEF d
  <2>3. /\ f \in Nat /\ f - zero = v * d
        /\ first <= f /\ f < beyond
    <3> DEFINE x == v * d
               low == least * d
               high == HALF_INF * d
    <3>1. x \in Nat /\ low \in Nat /\ high \in Nat /\ low <= x /\ x + d <= high
      <4>1. v - least \in Nat /\ HALF_INF - (v + 1) \in Nat
        BY <1>2, <2>1
      <4>2. (v - least) * d \in Nat /\ (HALF_INF - (v + 1)) * d \in Nat
        BY <1>1, <4>1
      <4> QED BY <1>1, <1>2, <2>1, <4>2
    <3>2. first = zero + low /\ beyond = zero + high
      BY <1>2
    <3> HIDE DEF x, low, high
    <3>3. x + zero \in Nat /\ (x + zero) - zero = x
          /\ first <= x + zero /\ x + zero < beyond
      BY <1>1, <1>2, <3>1, <3>2
    <3> QED BY <3>3 DEF x
  <2> HIDE DEF f
  <2>4. /\ ToUint16Impl(f) \in least .. HALF_INF
        /\ NearestStep(ToUint16Impl(f), v * d, d)
    BY <1>3, <2>3
  <2>5. ToUint16Impl(f) \in Int /\ v * d \in Int
    BY <1>1, <1>2, <2>1, <2>4
  <2> QED BY <1>1, <2>1, <2>2, <2>4, <2>5, NearestStepBounds
<1> QED BY <1>3, <1>4 DEF zero, first, beyond, least

(***************************************************************************)
(* What the addition of the magic number leaves is nearest too, whatever a *)
(* step of the subnormals is worth (onnxruntime_float16.h:269-276).        *)
(***************************************************************************)
THEOREM SubnormalRoundsNearest ==
  ASSUME NEW n \in Nat, NEW d \in Nat \ {0}
  PROVE  /\ RoundHalfEven(n, d) \in Nat
         /\ NearestStep(RoundHalfEven(n, d), n, d)
<1> DEFINE q == n \div d
           r == n % d
           v == RoundHalfEven(n, d)
           p == q * d
<1>1. q \in Nat /\ r \in 0 .. d - 1 /\ n = d * q + r
  BY DivMod
<1>2. v = IF 2 * r > d \/ (2 * r = d /\ (q % 2) = 1) THEN q + 1 ELSE q
  BY DEF RoundHalfEven
<1>3. (q % 2 = 1 => (q + 1) % 2 = 0) /\ (q % 2 # 1 => q % 2 = 0)
  <2> HIDE DEF q
  <2> QED BY <1>1
<1> HIDE DEF q, r, v
<1>4. p \in Int /\ n = p + r
  BY <1>1
<1>5. v * d = IF v = q THEN p ELSE p + d
  BY <1>1, <1>2
<1> HIDE DEF p
<1>6. v \in Nat
  BY <1>1, <1>2
<1> DEFINE w == v * d
<1>7. w \in Int /\ (w = p \/ w = p + d)
  BY <1>4, <1>5
<1> HIDE DEF w
<1>8. CASE 2 * r > d \/ (2 * r = d /\ (q % 2) = 1)
  <2>1. v = q + 1 /\ w = p + d
    BY <1>1, <1>2, <1>5, <1>8 DEF w
  <2>2. 2 * (n - w) <= d /\ 2 * (w - n) <= d
        /\ (2 * (n - w) = d \/ 2 * (w - n) = d => 2 * r = d)
    BY <1>1, <1>4, <1>8, <2>1
  <2>3. 2 * r = d => v % 2 = 0
    BY <1>1, <1>3, <1>8, <2>1
  <2> QED BY <1>6, <2>2, <2>3 DEF NearestStep, v, w
<1>9. CASE ~(2 * r > d \/ (2 * r = d /\ (q % 2) = 1))
  <2>1. v = q /\ w = p
    BY <1>1, <1>2, <1>5, <1>9 DEF w
  <2>2. 2 * (n - w) <= d /\ 2 * (w - n) <= d
        /\ (2 * (n - w) = d \/ 2 * (w - n) = d => 2 * r = d)
    BY <1>1, <1>4, <1>9, <2>1
  <2>3. 2 * r = d => v % 2 = 0
    BY <1>3, <1>9, <2>1
  <2> QED BY <1>6, <2>2, <2>3 DEF NearestStep, v, w
<1> QED BY <1>8, <1>9

-----------------------------------------------------------------------------
(***************************************************************************)
(* The 16-bit values themselves, what lies half-way between them, and the  *)
(* subnormals of Float16.                                                  *)
(***************************************************************************)

\* n is half-way between b and b + 1 steps of the size d.
IsHalfWay(n, b, d) ==
  \E h \in Nat : h > 1 /\ d = 2 * h /\ n = b * d + h

\* It becomes the even one of the two, its neighbours the nearer one.
LEMMA HalfWayRounds ==
  ASSUME NEW d \in Int, NEW b \in Nat, NEW mid \in Int,
         NEW n \in Int, NEW v \in Nat,
         IsHalfWay(mid, b, d), NearestStep(v, n, d)
  PROVE  /\ n = mid => v = Even(b)
         /\ n = mid - 1 => v = b
         /\ n = mid + 1 => v = b + 1
<1>1. PICK h \in Nat : h > 1 /\ d = 2 * h /\ mid = b * d + h
  BY DEF IsHalfWay
<1> DEFINE low == b * d
           x == v * d
<1>2. d \in Nat \ {0} /\ low \in Int /\ x \in Int /\ mid = low + h
  BY <1>1
<1>3. (b + 1) * d = low + d
  OBVIOUS
<1>4. ASSUME low + h - 1 <= n, n <= low + h + 1
      PROVE  v \in {b, b + 1}
  <2>1. b \in Int /\ b + 1 \in Int /\ v \in Int
    OBVIOUS
  <2>2. b * d <= n => b <= v
    BY <1>2, <2>1, NearestStepBounds
  <2> DEFINE c == b + 1
  <2> HIDE DEF c
  <2>3. n <= c * d => v <= c
    <3>1. c \in Int
      BY DEF c
    <3> QED BY <1>2, <2>1, <3>1, NearestStepBounds
  <2> HIDE DEF low
  <2>4. low <= n /\ n <= low + d
    BY <1>1, <1>2, <1>4
  <2> QED BY <1>3, <2>1, <2>2, <2>3, <2>4 DEF low, c
<1>5. /\ v = b => x = low
      /\ v = b + 1 => x = low + d
  BY <1>3
<1>6. /\ 2 * (n - x) <= d /\ 2 * (x - n) <= d
      /\ 2 * (n - x) = d \/ 2 * (x - n) = d => v % 2 = 0
  BY DEF NearestStep
<1>7. /\ Even(b) = IF b % 2 = 0 THEN b ELSE b + 1
      /\ b % 2 = 0 => (b + 1) % 2 # 0
      /\ b % 2 # 0 => (b + 1) % 2 = 0
  BY DEF Even
<1> HIDE DEF low, x
<1>8. n = mid => v = Even(b)
  <2> SUFFICES ASSUME n = mid PROVE v = Even(b)
    OBVIOUS
  <2>1. v \in {b, b + 1}
    BY <1>1, <1>2, <1>4
  <2>2. v % 2 = 0
    BY <1>1, <1>2, <1>5, <1>6, <2>1
  <2> QED BY <1>7, <2>1, <2>2
<1>9. n = mid - 1 => v = b
  BY <1>1, <1>2, <1>4, <1>5, <1>6
<1>10. n = mid + 1 => v = b + 1
  BY <1>1, <1>2, <1>4, <1>5, <1>6
<1> QED BY <1>8, <1>9, <1>10

\* The powers of two that weigh the bits of a subnormal: 2^p is its first
\* bit and 2^(23 - p) what that one is shifted by.
Pow2(k) == 2 ^ k

\* Those that are needed, as numbers.
LEMMA PowersComputed ==
  /\ Pow2(0) = 1 /\ Pow2(1) = 2 /\ Pow2(2) = 4 /\ Pow2(3) = 8
  /\ Pow2(4) = 16 /\ Pow2(5) = 32 /\ Pow2(6) = 64 /\ Pow2(7) = 128
  /\ Pow2(8) = 256 /\ Pow2(9) = 512 /\ Pow2(10) = 1024 /\ Pow2(11) = 2048
  /\ Pow2(13) = 8192 /\ Pow2(14) = 16384 /\ Pow2(15) = 32768
  /\ Pow2(16) = 65536 /\ Pow2(17) = 131072 /\ Pow2(18) = 262144
  /\ Pow2(19) = 524288 /\ Pow2(20) = 1048576 /\ Pow2(21) = 2097152
  /\ Pow2(22) = 4194304 /\ Pow2(23) = 8388608 /\ Pow2(24) = 16777216
BY DEF Pow2

\* All that the proofs below need to know of them.
LEMMA Powers ==
  ASSUME NEW p \in 0 .. 10
  PROVE  /\ Pow2(p) \in Nat \ {0}
         /\ Pow2(p + 1) = 2 * Pow2(p)
         /\ Pow2(23 - p) \in Nat /\ Pow2(23 - p) > 1
         /\ Pow2(24 - p) = 2 * Pow2(23 - p)
         /\ Pow2(p) * Pow2(23 - p) = Exponent(1)
<1>1. Exponent(1) = 8388608
  BY DEF Exponent
<1>2. CASE p \in 0 .. 5
  BY <1>1, <1>2, PowersComputed
<1>3. CASE p \in 6 .. 10
  BY <1>1, <1>3, PowersComputed
<1> QED BY <1>2, <1>3

\* v has the first bit 2^p.
FirstBit(v, p) == v \in Pow2(p) .. Pow2(p + 1) - 1

LEMMA HasFirstBit ==
  ASSUME NEW v \in Nat, 0 < v, v < 1024
  PROVE  \E p \in 0 .. 9 : FirstBit(v, p)
<1>1. \/ FirstBit(v, 0) \/ FirstBit(v, 1) \/ FirstBit(v, 2) \/ FirstBit(v, 3)
      \/ FirstBit(v, 4) \/ FirstBit(v, 5) \/ FirstBit(v, 6) \/ FirstBit(v, 7)
      \/ FirstBit(v, 8) \/ FirstBit(v, 9)
  BY PowersComputed DEF FirstBit
<1> QED BY <1>1

\* The float of v, whose first bit 2^p becomes the implicit one.
IsFloatOf(v, p) ==
  /\ v < 1024 => p <= 9
  /\ v - Pow2(p) \in Nat /\ v < 2 * Pow2(p)
  /\ ToFloatImpl(v) = Exponent(p + 103) + (v - Pow2(p)) * Pow2(23 - p)

\* It is that of a subnormal and of the 1024 values after them.
LEMMA SmallToFloat ==
  ASSUME NEW v \in Nat, 0 < v, v < 2048
  PROVE  \E p \in 0 .. 10 : IsFloatOf(v, p)
<1>1. v \in Nat /\ v # 0 /\ ~(v >= HALF_INF)
  BY FormatNumbers DEF HALF_INF
<1>2. CASE v < 1024
  <2> DEFINE p == CHOOSE p \in 0 .. 9 : FirstBit(v, p)
  <2>1. p \in 0 .. 9 /\ FirstBit(v, p)
    <3>1. \E q \in 0 .. 9 : FirstBit(v, q)
      BY <1>2, HasFirstBit
    <3> QED BY <3>1
  <2>2. ToFloatImpl(v) = Exponent(p + 103) + (v - Pow2(p)) * Pow2(23 - p)
    BY <1>1, <1>2 DEF ToFloatImpl, FirstBit, Pow2
  <2> HIDE DEF p
  <2>3. p \in 0 .. 10 /\ p <= 9
    BY <2>1
  <2>4. Pow2(p) \in Nat /\ Pow2(p + 1) = 2 * Pow2(p)
    BY <2>3, Powers
  <2>5. v - Pow2(p) \in Nat /\ v < 2 * Pow2(p)
    BY <1>1, <2>1, <2>4 DEF FirstBit
  <2>6. IsFloatOf(v, p)
    BY <2>2, <2>3, <2>5 DEF IsFloatOf
  <2> QED BY <2>3, <2>6
<1>3. CASE v >= 1024
  <2>1. Pow2(10) = 1024 /\ Pow2(23 - 10) = 8192 /\ 10 + 103 = 113
    BY PowersComputed
  <2>2. ToFloatImpl(v) = v * HALF_STEP + Exponent(112)
    BY <1>1, <1>3 DEF ToFloatImpl
  <2>3. ToFloatImpl(v) = Exponent(113) + (v - 1024) * 8192
    BY <1>1, <1>3, <2>2 DEF HALF_STEP, Exponent
  <2>4. v - 1024 \in Nat /\ v < 2 * 1024
    BY <1>1, <1>3
  <2>5. /\ v - Pow2(10) \in Nat /\ v < 2 * Pow2(10)
        /\ ToFloatImpl(v)
             = Exponent(10 + 103) + (v - Pow2(10)) * Pow2(23 - 10)
    BY <2>1, <2>3, <2>4
  <2>6. ~(v < 1024) /\ 10 \in 0 .. 10
    BY <1>1, <1>3
  <2>7. IsFloatOf(v, 10)
    BY <2>5, <2>6 DEF IsFloatOf
  <2> QED BY <2>6, <2>7
<1> QED BY <1>1, <1>2, <1>3

\* The bits of an exponent are a number.
LEMMA ExponentInt == \A e \in Nat : Exponent(e) \in Nat
BY DEF Exponent

\* What a float below the normal values becomes: its exponent gives the
\* size of a step.
LEMMA SmallToUint16 ==
  ASSUME NEW p \in 0 .. 10, NEW s \in Nat, s < Exponent(1)
  PROVE  ToUint16Impl(Exponent(p + 102) + s)
           = RoundHalfEven(Exponent(1) + s, Pow2(24 - p))
<1> DEFINE one == Exponent(1)
           e == p + 102
           f == Exponent(e) + s
<1>1. /\ one \in Nat \ {0} /\ e \in Nat
      /\ f \in Nat /\ f = one * e + s
      /\ f < Exponent(113) /\ ~(f >= Exponent(127 + 16))
  BY DEF Exponent
<1>2. ToUint16Impl(f) = Subnormal(f)
  BY <1>1 DEF ToUint16Impl
<1>3. 126 - e = 24 - p /\ ~(e < 102)
  OBVIOUS
<1>4. s < one
  OBVIOUS
<1>5. Subnormal(f) = IF f \div one < 102 THEN 0
                     ELSE RoundHalfEven(one + (f % one),
                                        2 ^ (126 - (f \div one)))
  BY DEF Subnormal
<1> HIDE DEF f, one, e
<1>6. f \div one = e
  <2>1. e \in Int
    BY <1>1
  <2> QED BY <1>1, <1>4, <2>1, QuotientUnique
<1>7. f % one = s
  <2>1. f = one * (f \div one) + (f % one) /\ f % one \in Nat
    BY <1>1, DivMod
  <2> DEFINE r == f % one
             t == one * e
  <2>2. f = t + r /\ f = t + s /\ r \in Nat /\ t \in Nat
    BY <1>1, <1>6, <2>1
  <2> HIDE DEF r, t
  <2>3. r = s
    BY <2>2
  <2> QED BY <2>3 DEF r
<1>8. Subnormal(f) = RoundHalfEven(one + s, 2 ^ (24 - p))
  BY <1>3, <1>5, <1>6, <1>7
<1> QED BY <1>2, <1>8 DEF f, one, e, Pow2

\* Every subnormal comes back from its float.
LEMMA SubnormalComesBack ==
  ASSUME NEW v \in Nat, v < 1024
  PROVE  ToUint16Impl(ToFloatImpl(v)) = v
<1>1. CASE v = 0
  <2>1. ToFloatImpl(0) = 0
    BY FormatNumbers DEF ToFloatImpl, HALF_INF
  <2>2. 0 \div Exponent(1) = 0 /\ 0 < Exponent(113)
        /\ ~(0 >= Exponent(127 + 16))
    BY DEF Exponent
  <2> QED BY <1>1, <2>1, <2>2 DEF ToUint16Impl, Subnormal
<1>2. CASE v # 0
  <2>1. v \in Nat /\ 0 < v /\ v < 1024 /\ v < 2048
    BY <1>2
  <2>2. PICK p \in 0 .. 10 : IsFloatOf(v, p)
    BY <2>1, SmallToFloat
  <2>3. /\ p <= 9
        /\ v - Pow2(p) \in Nat /\ v < 2 * Pow2(p)
        /\ ToFloatImpl(v)
             = Exponent(p + 103) + (v - Pow2(p)) * Pow2(23 - p)
    BY <2>2, <2>1 DEF IsFloatOf
  <2> DEFINE a == Pow2(p)
             h == Pow2(23 - p)
             s == (v - a) * h
  <2>4. p \in 0 .. 10 /\ p + 1 \in 0 .. 10 /\ (p + 1) + 102 = p + 103
        /\ 24 - (p + 1) = 23 - p
    BY <2>1, <2>3
  <2>5. a \in Nat \ {0} /\ h \in Nat \ {0} /\ a * h = Exponent(1)
    <3>1. h \in Nat /\ h > 1
      BY <2>4, Powers
    <3>2. a \in Nat \ {0} /\ a * h = Exponent(1)
      BY <2>4, Powers
    <3> HIDE DEF a, h
    <3> QED BY <3>1, <3>2
  <2>6. v - a \in Nat /\ v < 2 * a /\ ToFloatImpl(v) = Exponent(p + 103) + s
    BY <2>3
  <2> HIDE DEF a, h
  <2>7. s \in Nat /\ s < Exponent(1) /\ Exponent(1) + s = v * h
    <3>1. a - (v - a) - 1 \in Nat
      BY <2>1, <2>5, <2>6
    <3>2. (a - (v - a) - 1) * h \in Nat
      BY <2>5, <3>1
    <3>3. s \in Nat /\ a * h = s + (a - (v - a) - 1) * h + h
          /\ a * h + s = v * h
      BY <2>1, <2>5, <2>6
    <3> DEFINE rest == (a - (v - a) - 1) * h
               whole == a * h
    <3>4. s \in Nat /\ rest \in Nat /\ whole = s + rest + h
          /\ whole + s = v * h /\ whole = Exponent(1)
      BY <2>5, <3>2, <3>3
    <3> HIDE DEF rest, whole, s
    <3>5. s < whole
      BY <2>5, <3>4
    <3> QED BY <3>4, <3>5
  <2> HIDE DEF s
  <2>8. ToUint16Impl(Exponent(p + 103) + s)
          = RoundHalfEven(Exponent(1) + s, h)
    BY <2>4, <2>7, SmallToUint16 DEF h
  <2>9. ToUint16Impl(ToFloatImpl(v)) = RoundHalfEven(v * h, h)
    BY <2>6, <2>7, <2>8
  <2>10. /\ RoundHalfEven(v * h, h) \in Nat
        /\ NearestStep(RoundHalfEven(v * h, h), v * h, h)
    <3>1. v * h \in Nat
      BY <2>1, <2>5
    <3> QED BY <2>5, <3>1, SubnormalRoundsNearest
  <2>11. RoundHalfEven(v * h, h) \in Int /\ v * h \in Int /\ v \in Int
    BY <2>1, <2>5, <2>10
  <2> QED BY <2>5, <2>9, <2>10, <2>11, NearestStepBounds
<1> QED BY <1>1, <1>2

\* Half-way between two subnormals, or the largest of them and the smallest
\* normal value.
LEMMA SubnormalHalfWay ==
  ASSUME NEW b \in Nat, b < 1024
  PROVE  LET f == ToFloatImpl(2 * b + 1) - Exponent(1)
         IN  /\ ToUint16Impl(f) = Even(b)
             /\ ToUint16Impl(f - 1) = b
             /\ ToUint16Impl(f + 1) = b + 1
<1> DEFINE w == 2 * b + 1
           f == ToFloatImpl(w) - Exponent(1)
<1>1. w \in Nat /\ 0 < w /\ w < 2048
  OBVIOUS
<1>2. PICK p \in 0 .. 10 : IsFloatOf(w, p)
  <2> HIDE DEF w
  <2> QED BY <1>1, SmallToFloat
<1>3. /\ w - Pow2(p) \in Nat /\ w < 2 * Pow2(p)
      /\ ToFloatImpl(w) = Exponent(p + 103) + (w - Pow2(p)) * Pow2(23 - p)
  BY <1>2 DEF IsFloatOf
<1> DEFINE a == Pow2(p)
           h == Pow2(23 - p)
           d == Pow2(24 - p)
           s == (w - a) * h
           n == Exponent(1) + s
<1>4. /\ a \in Nat \ {0} /\ h \in Nat /\ h > 1 /\ d = 2 * h
      /\ a * h = Exponent(1)
  BY Powers
<1>5. w - a \in Nat /\ w < 2 * a /\ f = Exponent(p + 102) + s
  <2>1. Exponent(p + 103) = Exponent(p + 102) + Exponent(1)
        /\ Exponent(p + 102) \in Nat /\ Exponent(1) \in Nat
    BY DEF Exponent
  <2>2. s \in Nat
    BY <1>3, <1>4
  <2> HIDE DEF s
  <2>3. ToFloatImpl(w) = Exponent(p + 103) + s
    BY <1>3 DEF s
  <2>4. f = Exponent(p + 102) + s
    BY <2>1, <2>2, <2>3
  <2> QED BY <1>3, <2>4
<1> HIDE DEF a, h, f, d
<1>6. /\ s \in Nat /\ s + h <= Exponent(1) /\ Exponent(1) \in Nat
      /\ n = b * d + h
  <2>1. a - (w - a) - 1 \in Nat
    BY <1>1, <1>4, <1>5
  <2>2. (a - (w - a) - 1) * h \in Nat
    BY <1>4, <2>1
  <2>3. s \in Nat /\ a * h = s + (a - (w - a) - 1) * h + h
        /\ a * h + s = b * d + h
    <3>1. a * h + s = w * h
      BY <1>1, <1>4, <1>5
    <3>2. w * h = b * d + h
      BY <1>1, <1>4
    <3>3. s \in Nat /\ a * h = s + (a - (w - a) - 1) * h + h
      BY <1>1, <1>4, <1>5
    <3> QED BY <3>1, <3>2, <3>3
  <2> DEFINE rest == (a - (w - a) - 1) * h
             whole == a * h
  <2>4. s \in Nat /\ rest \in Nat /\ whole = s + rest + h
        /\ whole + s = b * d + h /\ whole = Exponent(1) /\ whole \in Nat
    BY <1>4, <2>2, <2>3
  <2> HIDE DEF rest, whole, s
  <2> QED BY <1>4, <2>4
<1> HIDE DEF s
<1>7. ASSUME NEW t \in Nat, t < Exponent(1)
      PROVE  /\ ToUint16Impl(Exponent(p + 102) + t) \in Nat
             /\ NearestStep(ToUint16Impl(Exponent(p + 102) + t),
                            Exponent(1) + t, d)
  <2>1. ToUint16Impl(Exponent(p + 102) + t)
          = RoundHalfEven(Exponent(1) + t, d)
    BY <1>7, SmallToUint16 DEF d
  <2>2. d \in Nat \ {0} /\ Exponent(1) + t \in Nat
    BY <1>4, <1>6
  <2> QED BY <2>1, <2>2, SubnormalRoundsNearest
<1>8. IsHalfWay(n, b, d) /\ d \in Int
  BY <1>4, <1>6 DEF IsHalfWay
<1>9. ASSUME NEW m \in Int, NEW u \in Nat, NearestStep(u, m, d)
      PROVE  /\ m = n => u = Even(b)
             /\ m = n - 1 => u = b
             /\ m = n + 1 => u = b + 1
  <2>1. n \in Int
    BY <1>6
  <2> HIDE DEF n
  <2> QED BY <1>8, <1>9, <2>1, HalfWayRounds
<1> DEFINE below == n - 1
           above == n + 1
<1>10. n \in Int /\ below \in Int /\ above \in Int
       /\ below = n - 1 /\ above = n + 1
  BY <1>6
<1> HIDE DEF below, above
<1> HIDE DEF n
<1>11. ToUint16Impl(f) = Even(b)
  <2>1. s < Exponent(1)
    BY <1>4, <1>6
  <2>2. ToUint16Impl(f) \in Nat /\ NearestStep(ToUint16Impl(f), n, d)
    BY <1>5, <1>6, <1>7, <2>1 DEF n
  <2> QED BY <1>9, <1>10, <2>2
<1>12. ToUint16Impl(f + 1) = b + 1
  <2>1. s + 1 \in Nat /\ s + 1 < Exponent(1)
        /\ f + 1 = Exponent(p + 102) + (s + 1)
        /\ Exponent(1) + (s + 1) = above
    BY <1>4, <1>5, <1>6, ExponentInt DEF n, below, above
  <2>2. ToUint16Impl(f + 1) \in Nat
        /\ NearestStep(ToUint16Impl(f + 1), above, d)
    BY <1>7, <2>1
  <2> QED BY <1>9, <1>10, <2>2
<1>13. ToUint16Impl(f - 1) = b
  <2>1. CASE s # 0
    <3>1. s - 1 \in Nat /\ s - 1 < Exponent(1)
          /\ f - 1 = Exponent(p + 102) + (s - 1)
          /\ Exponent(1) + (s - 1) = below
      BY <1>4, <1>5, <1>6, <2>1, ExponentInt DEF n, below, above
    <3>2. ToUint16Impl(f - 1) \in Nat
          /\ NearestStep(ToUint16Impl(f - 1), below, d)
      BY <1>7, <3>1
    <3> QED BY <1>9, <1>10, <3>2
  \* Only the smallest value is a power of two: below it the exponent is
  \* too small for the addition to leave anything.
  <2>2. CASE s = 0
    <3>1. w = a
      BY <1>1, <1>4, <1>5, <2>2 DEF s
    <3>2. p = 0 /\ b = 0
      <4>1. a = Pow2(p)
        BY DEF a
      <4>2. ASSUME NEW k \in 0 .. 9, p = k + 1 PROVE FALSE
        <5>1. Pow2(k + 1) = 2 * Pow2(k) /\ Pow2(k) \in Nat
          BY Powers
        <5> QED BY <1>1, <3>1, <4>1, <4>2, <5>1
      <4>3. p = 0
        <5>1. p # 0 => p - 1 \in 0 .. 9 /\ p = (p - 1) + 1
          OBVIOUS
        <5> QED BY <4>2, <5>1
      <4>4. Pow2(0) = 1
        BY PowersComputed
      <4> QED BY <1>1, <3>1, <4>1, <4>3, <4>4
    <3>3. f - 1 = Exponent(102) - 1
      BY <1>5, <2>2, <3>2 DEF Exponent
    <3>4. /\ Exponent(102) - 1 < Exponent(113)
          /\ ~(Exponent(102) - 1 >= Exponent(127 + 16))
          /\ (Exponent(102) - 1) \div Exponent(1) = 101
      BY DEF Exponent
    <3>5. ToUint16Impl(Exponent(102) - 1) = 0
      BY <3>4 DEF ToUint16Impl, Subnormal
    <3> QED BY <3>2, <3>3, <3>5
  <2> QED BY <2>1, <2>2
<1> QED BY <1>11, <1>12, <1>13 DEF f

\* Half-way between two normal values.
LEMMA NormalHalfWay ==
  ASSUME NEW b \in Nat, 1024 <= b, b < HALF_INF
  PROVE  LET f == b * HALF_STEP + Exponent(112) + HALF_BIAS + 1
         IN  /\ ToUint16Impl(f) = Even(b)
             /\ ToUint16Impl(f - 1) = b
             /\ ToUint16Impl(f + 1) = b + 1
<1> DEFINE d == HALF_STEP
           n == b * d + HALF_BIAS + 1
           zero == Exponent(112)
<1>1. /\ d \in Int /\ HALF_BIAS \in Nat /\ HALF_BIAS > 0
      /\ d = 2 * (HALF_BIAS + 1) /\ zero \in Nat /\ HALF_INF \in Nat
      /\ Exponent(113) = zero + 1024 * d
      /\ Exponent(127 + 16) = zero + HALF_INF * d
  BY FormatNumbers DEF HALF_BIAS
<1> HIDE DEF d, zero
<1>2. IsHalfWay(n, b, d) /\ n \in Int
  <2>1. HALF_BIAS + 1 \in Nat /\ HALF_BIAS + 1 > 1
        /\ n = b * d + (HALF_BIAS + 1)
    BY <1>1
  <2> QED BY <1>1, <2>1 DEF IsHalfWay
<1>3. 1024 * d <= n - 1 /\ n + 1 < HALF_INF * d
  <2>1. b - 1024 \in Nat /\ HALF_INF - (b + 1) \in Nat
    BY <1>1
  <2>2. (b - 1024) * d \in Nat /\ (HALF_INF - (b + 1)) * d \in Nat
    BY <1>1, <2>1
  <2>3. /\ b * d = (b - 1024) * d + 1024 * d
        /\ HALF_INF * d = (HALF_INF - (b + 1)) * d + b * d + d
    BY <1>1
  <2> DEFINE x == b * d
             y == (b - 1024) * d
             z == (HALF_INF - (b + 1)) * d
             low == 1024 * d
             high == HALF_INF * d
  <2>4. /\ n = x + HALF_BIAS + 1 /\ x \in Int /\ y \in Nat /\ z \in Nat
        /\ low \in Int /\ high \in Int /\ x = y + low /\ high = z + x + d
    BY <1>1, <2>2, <2>3
  <2> HIDE DEF n, x, y, z, low, high
  <2>5. low <= n - 1 /\ n + 1 < high
    BY <1>1, <2>4
  <2> QED BY <2>5 DEF low, high
<1> HIDE DEF n
<1>4. ASSUME NEW m \in Int, n - 1 <= m, m <= n + 1
      PROVE  /\ ToUint16Impl(m + zero) \in Nat
             /\ NearestStep(ToUint16Impl(m + zero), m, d)
  <2>1. /\ m + zero \in Nat /\ (m + zero) - zero = m
        /\ Exponent(113) <= m + zero /\ m + zero < Exponent(127 + 16)
    BY <1>1, <1>2, <1>3, <1>4
  <2> DEFINE f == m + zero
             v == ToUint16Impl(f)
  <2>2. f - zero = m /\ f \in Nat
    BY <2>1
  <2> HIDE DEF f
  <2>3. v \in 1024 .. HALF_INF /\ NearestStep(v, f - zero, d)
    BY <2>1, HalfFloatNearest DEF f, d, zero
  <2> HIDE DEF v
  <2>4. v \in Nat /\ NearestStep(v, m, d)
    BY <1>1, <2>2, <2>3
  <2> QED BY <2>4 DEF v, f
<1>5. ASSUME NEW m \in Int, n - 1 <= m, m <= n + 1
      PROVE  /\ m = n => ToUint16Impl(m + zero) = Even(b)
             /\ m = n - 1 => ToUint16Impl(m + zero) = b
             /\ m = n + 1 => ToUint16Impl(m + zero) = b + 1
  <2> DEFINE v == ToUint16Impl(m + zero)
  <2>1. v \in Nat /\ NearestStep(v, m, d)
    BY <1>4, <1>5
  <2> HIDE DEF v
  <2>2. /\ m = n => v = Even(b)
        /\ m = n - 1 => v = b
        /\ m = n + 1 => v = b + 1
    BY <1>1, <1>2, <2>1, HalfWayRounds
  <2> QED BY <2>2 DEF v
<1> DEFINE f == b * d + zero + HALF_BIAS + 1
<1>6. f = n + zero /\ f - 1 = (n - 1) + zero /\ f + 1 = (n + 1) + zero
  <2> DEFINE x == b * d
  <2>1. x \in Int /\ n = x + HALF_BIAS + 1 /\ f = x + zero + HALF_BIAS + 1
    BY <1>1 DEF n
  <2> HIDE DEF x, f
  <2> QED BY <1>1, <2>1
<1> HIDE DEF f
<1>7. n \in Int /\ n - 1 \in Int /\ n + 1 \in Int
      /\ n - 1 <= n /\ n <= n + 1 /\ n - 1 <= n + 1
  BY <1>2
<1>8. /\ ToUint16Impl(n + zero) = Even(b)
      /\ ToUint16Impl((n - 1) + zero) = b
      /\ ToUint16Impl((n + 1) + zero) = b + 1
  BY <1>5, <1>7
<1>9. /\ ToUint16Impl(f) = Even(b)
      /\ ToUint16Impl(f - 1) = b
      /\ ToUint16Impl(f + 1) = b + 1
  BY <1>6, <1>8
<1> QED BY <1>9 DEF f, d, zero

\* Half-way between two values of BFloat16.
LEMMA BrainHalfWayRounds ==
  ASSUME NEW b \in Nat, b < BRAIN_INF
  PROVE  LET f == b * BRAIN_STEP + BRAIN_BIAS + 1
         IN  /\ ToUint16ImplBrain(f) = Even(b)
             /\ ToUint16ImplBrain(f - 1) = b
             /\ ToUint16ImplBrain(f + 1) = b + 1
<1> DEFINE d == BRAIN_STEP
           n == b * d + BRAIN_BIAS + 1
<1>1. /\ d \in Int /\ BRAIN_BIAS \in Nat /\ BRAIN_BIAS > 0
      /\ d = 2 * (BRAIN_BIAS + 1) /\ BRAIN_INF \in Nat
      /\ FLOAT_INF = BRAIN_INF * d
  BY FormatNumbers DEF BRAIN_BIAS
<1> HIDE DEF d
<1>2. IsHalfWay(n, b, d) /\ n \in Int
  <2>1. BRAIN_BIAS + 1 \in Nat /\ BRAIN_BIAS + 1 > 1
        /\ n = b * d + (BRAIN_BIAS + 1)
    BY <1>1
  <2> QED BY <1>1, <2>1 DEF IsHalfWay
<1>3. 0 <= n - 1 /\ n + 1 <= FLOAT_INF
  <2>1. BRAIN_INF - (b + 1) \in Nat
    BY <1>1
  <2>2. (BRAIN_INF - (b + 1)) * d \in Nat /\ b * d \in Nat
    BY <1>1, <2>1
  <2>3. BRAIN_INF * d = (BRAIN_INF - (b + 1)) * d + b * d + d
    BY <1>1
  <2> DEFINE x == b * d
             z == (BRAIN_INF - (b + 1)) * d
             high == BRAIN_INF * d
  <2>4. /\ n = x + BRAIN_BIAS + 1 /\ x \in Nat /\ z \in Nat
        /\ high \in Int /\ high = z + x + d
    BY <1>1, <2>2, <2>3
  <2> HIDE DEF n, x, z, high
  <2>5. 0 <= n - 1 /\ n + 1 <= high
    BY <1>1, <2>4
  <2> QED BY <1>1, <2>5 DEF high
<1> HIDE DEF n
<1>4. ASSUME NEW m \in Int, n - 1 <= m, m <= n + 1
      PROVE  /\ m = n => ToUint16ImplBrain(m) = Even(b)
             /\ m = n - 1 => ToUint16ImplBrain(m) = b
             /\ m = n + 1 => ToUint16ImplBrain(m) = b + 1
  <2>1. m \in Nat /\ m <= FLOAT_INF
    <3>1. FLOAT_INF \in Int
      BY <1>1
    <3> QED BY <1>2, <1>3, <1>4, <3>1
  <2> DEFINE v == ToUint16ImplBrain(m)
  <2>2. v \in 0 .. BRAIN_INF /\ NearestStep(v, m, d)
    BY <2>1, BrainFloatNearest DEF d
  <2> HIDE DEF v
  <2>3. v \in Nat
    BY <1>1, <2>2
  <2>4. /\ m = n => v = Even(b)
        /\ m = n - 1 => v = b
        /\ m = n + 1 => v = b + 1
    BY <1>1, <1>2, <2>2, <2>3, HalfWayRounds
  <2> QED BY <2>4 DEF v
<1>5. n \in Int /\ n - 1 \in Int /\ n + 1 \in Int
      /\ n - 1 <= n /\ n <= n + 1 /\ n - 1 <= n + 1
  BY <1>2
<1>6. /\ ToUint16ImplBrain(n) = Even(b)
      /\ ToUint16ImplBrain(n - 1) = b
      /\ ToUint16ImplBrain(n + 1) = b + 1
  BY <1>4, <1>5
<1> QED BY <1>6 DEF n, d

\* Infinity and the NaNs of Float16.
LEMMA HalfBeyondComesBack ==
  ASSUME NEW v \in Nat, HALF_INF <= v
  PROVE  /\ v = HALF_INF => ToUint16Impl(ToFloatImpl(v)) = v
         /\ v > HALF_INF => ToUint16Impl(ToFloatImpl(v)) > HALF_INF
<1>1. ToFloatImpl(v) = v * HALF_STEP + Exponent(224)
  BY DEF ToFloatImpl
<1> DEFINE f == v * HALF_STEP + Exponent(224)
<1>2. f >= Exponent(127 + 16) /\ (f > FLOAT_INF <=> v > HALF_INF)
  BY DEF FLOAT_INF, Exponent, HALF_STEP, HALF_INF
<1>3. ToUint16Impl(f) = IF f > FLOAT_INF THEN 32256 ELSE HALF_INF
  BY <1>2 DEF ToUint16Impl
<1> HIDE DEF f
<1>4. 32256 > HALF_INF
  BY DEF HALF_INF
<1>5. /\ v = HALF_INF => ToUint16Impl(f) = v
      /\ v > HALF_INF => ToUint16Impl(f) > HALF_INF
  <2>1. v = HALF_INF => ~(v > HALF_INF)
    BY FormatNumbers
  <2> QED BY <1>2, <1>3, <1>4, <2>1
<1> QED BY <1>1, <1>5 DEF f

\* The NaNs of BFloat16.
LEMMA BrainBeyondComesBack ==
  ASSUME NEW v \in Nat, v > BRAIN_INF
  PROVE  ToUint16ImplBrain(ToFloatImplBrain(v)) > BRAIN_INF
<1>1. ToFloatImplBrain(v) > FLOAT_INF
  <2>1. FLOAT_INF + Exponent(1) \div 2 > FLOAT_INF
    BY DEF FLOAT_INF, Exponent
  <2> QED BY <2>1 DEF ToFloatImplBrain
<1>2. 32705 > BRAIN_INF
  BY DEF BRAIN_INF
<1> QED BY <1>1, <1>2 DEF ToUint16ImplBrain

-----------------------------------------------------------------------------
(***************************************************************************)
(* What holds of every behaviour of Algorithms.                            *)
(***************************************************************************)

\* The inputs keep their types, along every sequence of calls.
THEOREM InputsOKHolds == Spec => []InputsOK
<1>1. Init => InputsOK
  <2>1. 0 \in Ray /\ << >> \in Seq(Position) /\ 0 \in 0 .. SIGN - 1
    BY SamplingAssumption DEF Ray, SIGN
  <2>2. InitLidar => InputsOK
    BY <2>1 DEF InitLidar, InputsOK
  <2>3. InitCarrot => InputsOK
    <3> SUFFICES ASSUME InitCarrot PROVE InputsOK
      OBVIOUS
    <3>1. path \in Seq(Position) /\ path # << >> /\ lookahead \in Int
      BY InputAssumption DEF InitCarrot
    <3>2. 1 \in DOMAIN path
      BY <3>1
    <3> QED BY <2>1, <3>1, <3>2 DEF InitCarrot, InputsOK
  <2>4. InitFloat => InputsOK
    BY <2>1 DEF InitFloat, InputsOK
  <2> QED BY <2>2, <2>3, <2>4 DEF Init
<1>2. InputsOK /\ [Next]_vars => InputsOK'
  <2> SUFFICES ASSUME InputsOK, [Next]_vars PROVE InputsOK'
    OBVIOUS
  <2>1. CASE NextRay
    <3>1. ray' \in Ray
      BY <2>1, SamplingAssumption DEF NextRay, InputsOK, Ray
    <3> QED BY <2>1, <3>1 DEF NextRay, InputsOK, carrot
  <2>2. ASSUME NEW p \in Position, Call(p) PROVE InputsOK'
    <3>1. path # << >> /\ path \in Seq(Position) /\ idx \in DOMAIN path
          /\ robot \in Position
      BY <2>2 DEF Call, InputsOK
    <3>2. IsNearest(path, idx, robot, idx')
      BY <2>2, <3>1, NearestLoopCorrect DEF Call
    <3>3. idx' \in DOMAIN path
      BY <3>1, <3>2 DEF IsNearest
    <3> QED BY <2>2, <3>3 DEF Call, InputsOK, lidar
  <2>3. CASE NextValue
    <3>1. bits \in Nat
      BY <2>3 DEF NextValue, InputsOK
    <3>2. bits' \in 0 .. SIGN - 1
      BY <2>3, <3>1 DEF NextValue, SIGN
    <3> QED BY <2>3, <3>2 DEF NextValue, InputsOK, lidar, carrot
  <2>4. CASE UNCHANGED vars
    BY <2>4 DEF vars, InputsOK, lidar, carrot
  <2> QED BY <2>1, <2>2, <2>3, <2>4 DEF Next
<1> QED BY <1>1, <1>2, PTL DEF Spec

\* No ray reads outside a message's ranges, whatever the message
\* (rl_controller.cpp:204-207).
THEOREM BeamInRangeHolds == Spec => []BeamInRange
<1>1. InputsOK => BeamInRange
  BY InputAssumption, BeamInMessage DEF InputsOK, BeamInRange, Readable
<1> QED BY <1>1, InputsOKHolds, PTL

\* On a full-circle scan every ray reads a beam nearest to its angle
\* (rl_controller.cpp:198-207).
THEOREM NearestBeamHolds == Spec => []NearestBeam
<1>1. InputsOK => NearestBeam
  BY InputAssumption, BeamNearest DEF InputsOK, NearestBeam, Readable
<1> QED BY <1>1, InputsOKHolds, PTL

\* Every ray is in one sector (rl_controller.cpp:230-241).
THEOREM EveryRayInOneSectorHolds == Spec => []EveryRayInOneSector
<1>1. InputsOK => EveryRayInOneSector
  BY SectorsPartition DEF InputsOK, EveryRayInOneSector
<1> QED BY <1>1, InputsOKHolds, PTL

\* In every call the search returns the first nearest pose from where the
\* last one left carrot_idx_, and only that one (rl_controller.cpp:261-269).
THEOREM NearestLoopIsExactHolds == Spec => []NearestLoopIsExact
<1>1. InputsOK => NearestLoopIsExact
  <2> SUFFICES ASSUME InputsOK, NEW i \in DOMAIN path
               PROVE  IsNearest(path, idx, robot, i)
                        <=> i = NearestLoop(path, idx, robot)
    BY DEF NearestLoopIsExact
  <2>1. path \in Seq(Position) /\ idx \in DOMAIN path /\ robot \in Position
    BY DEF InputsOK
  <2>2. IsNearest(path, idx, robot, NearestLoop(path, idx, robot))
    BY <2>1, NearestLoopCorrect
  <2> QED BY <2>1, <2>2, NearestUnique
<1> QED BY <1>1, InputsOKHolds, PTL

\* The walk returns the first pose at least the lookahead along the path, or
\* the last pose, and only that one (rl_controller.cpp:271-279).
THEOREM WalkLoopIsExactHolds == Spec => []WalkLoopIsExact
<1>1. InputsOK => WalkLoopIsExact
  <2> SUFFICES ASSUME InputsOK, NEW i \in DOMAIN path, NEW j \in DOMAIN path
               PROVE  IsCarrot(path, i, lookahead, j)
                        <=> j = WalkLoop(path, i, lookahead)
    BY DEF WalkLoopIsExact
  <2>1. path \in Seq(Position) /\ lookahead \in Int
    BY DEF InputsOK
  <2>2. IsCarrot(path, i, lookahead, WalkLoop(path, i, lookahead))
    BY <2>1, WalkLoopCorrect
  <2> QED BY <2>1, <2>2, CarrotUnique
<1> QED BY <1>1, InputsOKHolds, PTL

\* Every 16-bit value comes back from its float, subnormals, infinity and
\* NaNs included, and a float half-way between two values becomes the even
\* one, its neighbours the nearer one (onnxruntime_float16.h:246-323,
\* 483-535).
THEOREM NearestValueHolds == Spec => []NearestValue
<1>1. InputsOK => NearestValue
  <2> SUFFICES ASSUME InputsOK, bits # NoBits PROVE NearestValue
    BY DEF NearestValue
  <2>1. bits \in Nat
    BY DEF InputsOK
  <2>2. /\ HALF_INF \in Nat /\ HALF_INF > 1024 /\ BRAIN_INF \in Nat
    BY FormatNumbers
  <2>3. RoundTrip
    <3> DEFINE h == ToUint16Impl(ToFloatImpl(bits))
               b == ToUint16ImplBrain(ToFloatImplBrain(bits))
    <3>1. bits < 1024 => h = bits
      BY <2>1, SubnormalComesBack
    <3>2. 1024 <= bits /\ bits < HALF_INF => h = bits
      <4>1. 1024 <= bits /\ bits < HALF_INF => bits \in 1024 .. HALF_INF - 1
        BY <2>1, <2>2
      <4> QED BY <4>1, HalfFloatNearest
    <3>3. HALF_INF <= bits => h = bits \/ (h > HALF_INF /\ bits > HALF_INF)
      <4>1. HALF_INF <= bits => bits = HALF_INF \/ bits > HALF_INF
        BY <2>1, <2>2
      <4> QED BY <2>1, <4>1, HalfBeyondComesBack
    <3>4. bits <= BRAIN_INF => b = bits
      <4>1. bits <= BRAIN_INF => bits \in 0 .. BRAIN_INF
        BY <2>1, <2>2
      <4> QED BY <4>1, BrainFloatNearest
    <3>5. bits > BRAIN_INF => b > BRAIN_INF
      BY <2>1, BrainBeyondComesBack
    <3> HIDE DEF h, b
    <3>6. /\ h = bits \/ (h > HALF_INF /\ bits > HALF_INF)
          /\ b = bits \/ (b > BRAIN_INF /\ bits > BRAIN_INF)
      BY <2>1, <2>2, <3>1, <3>2, <3>3, <3>4, <3>5
    <3> QED BY <3>6 DEF RoundTrip, h, b
  <2>4. ASSUME bits < HALF_INF
        PROVE  /\ ToUint16Impl(HalfWay) = Even(bits)
               /\ ToUint16Impl(HalfWay - 1) = bits
               /\ ToUint16Impl(HalfWay + 1) = bits + 1
    <3>1. CASE bits < 1024
      <4>1. HalfWay = ToFloatImpl(2 * bits + 1) - Exponent(1)
        BY <3>1 DEF HalfWay
      <4> QED BY <2>1, <3>1, <4>1, SubnormalHalfWay
    <3>2. CASE ~(bits < 1024)
      <4>1. HalfWay = bits * HALF_STEP + Exponent(112) + HALF_BIAS + 1
        BY <3>2 DEF HalfWay
      <4>2. 1024 <= bits
        BY <2>1, <3>2
      <4> QED BY <2>1, <2>4, <4>1, <4>2, NormalHalfWay
    <3> QED BY <3>1, <3>2
  <2>5. ASSUME bits < BRAIN_INF
        PROVE  /\ ToUint16ImplBrain(BrainHalfWay) = Even(bits)
               /\ ToUint16ImplBrain(BrainHalfWay - 1) = bits
               /\ ToUint16ImplBrain(BrainHalfWay + 1) = bits + 1
    BY <2>1, <2>5, BrainHalfWayRounds DEF BrainHalfWay
  <2> QED BY <2>3, <2>4, <2>5 DEF NearestValue
<1> QED BY <1>1, InputsOKHolds, PTL
=============================================================================
