------------------------ MODULE VelocitySmootherProofs ------------------------
(***************************************************************************)
(* Proofs about VelocitySmoother, for every choice of limits, ramps and    *)
(* timeout.                                                                *)
(***************************************************************************)
EXTENDS VelocitySmoother, TLAPS

\* The commands that the controller gives.
Commanded ==
  {c \in [Axis -> Int] :
    c["linear"] \in 0 .. MAX_LIN /\ c["angular"] \in -MAX_ANG .. MAX_ANG}

TypeOK ==
  /\ command_ \in Commanded \cup {NoCommand}
  /\ last_cmd_ \in [Axis -> Int]
  /\ stopped_ \in BOOLEAN
  /\ silence \in Nat

\* What is not sent any more does not move the base.
StoppedStands == stopped_ => last_cmd_ = Zero

\* Periods of silence beyond the timeout, each of which took one step off.
Overdue == silence - VELOCITY_TIMEOUT - 1

Braking ==
  \A a \in Axis :
    /\ Absolute(last_cmd_[a]) <= MAX_VELOCITY[a]
    /\ Silent =>
         \/ last_cmd_[a] = 0
         \/ Absolute(last_cmd_[a]) + Overdue * MAX_ACCEL[a] <= MAX_VELOCITY[a]

IInv == TypeOK /\ BaseWithinLimits /\ StoppedStands /\ Braking

-----------------------------------------------------------------------------
(***************************************************************************)
(* Arithmetic.                                                             *)
(***************************************************************************)
LEMMA MaxOfTwo ==
  ASSUME NEW x \in Int, NEW y \in Int
  PROVE  /\ Max({x, y}) \in {x, y}
         /\ x <= Max({x, y}) /\ y <= Max({x, y})
<1>1. \E m \in {x, y} : \A w \in {x, y} : m >= w
  <2>1. CASE x >= y
    BY <2>1
  <2>2. CASE ~(x >= y)
    BY <2>2
  <2> QED BY <2>1, <2>2
<1>2. Max({x, y}) \in {x, y} /\ \A w \in {x, y} : Max({x, y}) >= w
  BY <1>1 DEF Max
<1> QED BY <1>2

LEMMA ProductMonotonic ==
  ASSUME NEW m \in Nat, NEW n \in Nat, NEW d \in Nat, m <= n
  PROVE  m * d <= n * d
<1> DEFINE e == n - m
<1>1. e \in Nat /\ n = m + e
  OBVIOUS
<1> HIDE DEF e
<1>2. n * d = m * d + e * d /\ e * d \in Nat /\ m * d \in Nat
  BY <1>1
<1> QED BY <1>2

LEMMA Limits ==
  ASSUME NEW a \in Axis
  PROVE  /\ MAX_ACCEL[a] \in Nat \ {0} /\ MAX_VELOCITY[a] \in Nat \ {0}
         /\ MAX_DECEL[a] = -MAX_ACCEL[a] /\ MIN_VELOCITY[a] = -MAX_VELOCITY[a]
BY SmootherAssumption

\* One step never leaves the interval between the velocity and its target,
\* and a step towards zero is a full one unless it arrives.
LEMMA StepTowards ==
  ASSUME NEW a \in Axis, NEW x \in Int, NEW t \in Int
  PROVE  LET y == ApplyConstraints(x, t, a) IN
           /\ y \in Int
           /\ x <= t => y \in x .. t
           /\ t <= x => y \in t .. x
           /\ t = 0 => y = 0 \/ Absolute(y) + MAX_ACCEL[a] <= Absolute(x)
<1> DEFINE y == ApplyConstraints(x, t, a)
           d == MAX_ACCEL[a]
<1>1. y = x + Between(t - x, -d, d)
  BY Limits DEF ApplyConstraints
<1>2. d \in Nat \ {0}
  BY Limits
<1> HIDE DEF y, d
<1>3. /\ y \in Int
      /\ x <= t => y \in x .. t
      /\ t <= x => y \in t .. x
      /\ t = 0 => y = 0 \/ Absolute(y) + d <= Absolute(x)
  BY <1>1, <1>2 DEF Between, Absolute
<1> QED BY <1>3 DEF y, d

\* Forward only, and not beyond the limits, for the extreme actions.
LEMMA CommandForType ==
  ASSUME NEW forward \in {-10, 0, 10}, NEW turn \in {-10, 0, 10}
  PROVE  CommandFor(forward, turn) \in Commanded
<1> DEFINE scale == Max({100 - 6 * Absolute(turn), 30})
<1>1. scale \in 30 .. 100
  <2>1. 100 - 6 * Absolute(turn) \in {40, 100}
    BY DEF Absolute
  <2>2. 100 - 6 * Absolute(turn) \in Int
    BY <2>1
  <2>3. scale \in {100 - 6 * Absolute(turn), 30} /\ scale >= 30
    <3> DEFINE s == 100 - 6 * Absolute(turn)
    <3>1. s \in Int /\ scale = Max({s, 30})
      BY <2>2
    <3> HIDE DEF s, scale
    <3>2. scale \in {s, 30} /\ scale >= 30
      BY <3>1, MaxOfTwo
    <3> QED BY <3>2 DEF s
  <2> HIDE DEF scale
  <2> QED BY <2>1, <2>3
<1>2. MAX_LIN \in Nat /\ MAX_ANG \in Nat
  BY SmootherAssumption
<1>3. (turn * MAX_ANG) \div 10 \in -MAX_ANG .. MAX_ANG
  BY <1>2
<1> HIDE DEF scale
<1>4. ((forward + 10) * MAX_LIN * scale) \div 2000 \in 0 .. MAX_LIN
  <2>1. forward + 10 \in {0, 10, 20}
    OBVIOUS
  <2>2. MAX_LIN * scale \in 0 .. 100 * MAX_LIN
    BY <1>1, <1>2
  <2>3. (forward + 10) * MAX_LIN * scale \in 0 .. 2000 * MAX_LIN
    BY <2>1, <2>2, <1>1, <1>2
  <2> DEFINE n == (forward + 10) * MAX_LIN * scale
  <2>4. n \in 0 .. 2000 * MAX_LIN
    BY <2>3
  <2> HIDE DEF n
  <2>5. n \div 2000 \in 0 .. MAX_LIN
    BY <2>4, <1>2
  <2> QED BY <2>5 DEF n
<1> QED BY <1>3, <1>4, <1>2 DEF CommandFor, Commanded, Axis, scale

-----------------------------------------------------------------------------
(***************************************************************************)
(* The invariant.                                                          *)
(***************************************************************************)
LEMMA ZeroIsCommanded == Zero \in Commanded /\ \A a \in Axis : Zero[a] = 0
BY SmootherAssumption DEF Zero, Commanded, Axis

LEMMA InitIInv == Init => IInv
<1> SUFFICES ASSUME Init PROVE IInv
  OBVIOUS
<1>1. last_cmd_ = Zero /\ command_ = NoCommand /\ stopped_ = TRUE /\ silence = 0
  BY DEF Init
<1>2. TypeOK /\ StoppedStands
  BY <1>1, ZeroIsCommanded DEF TypeOK, StoppedStands, Commanded
<1>3. BaseWithinLimits
  BY <1>1, ZeroIsCommanded DEF BaseWithinLimits, Commanded
<1>4. Braking
  BY <1>1, ZeroIsCommanded, Limits DEF Braking, Absolute
<1> QED BY <1>2, <1>3, <1>4 DEF IInv

LEMMA Counting ==
  ASSUME NEW s \in Nat, NEW z \in {s, s + 1}, NEW t \in Nat
  PROVE  /\ z > t /\ ~(s > t) => z - t - 1 = 0
         /\ s > t => /\ s - t - 1 \in Nat
                     /\ z - t - 1 \in {s - t - 1, s - t - 1 + 1}
OBVIOUS

LEMMA OverdueGrows ==
  ASSUME silence \in Nat, silence' \in {silence, silence + 1}
  PROVE  /\ Silent' /\ ~Silent => Overdue' = 0
         /\ Silent => Overdue \in Nat /\ Overdue' \in {Overdue, Overdue + 1}
<1>1. VELOCITY_TIMEOUT \in Nat
  BY SmootherAssumption
<1> QED BY <1>1, Counting DEF Silent, Overdue

\* A period in which something is sent.
LEMMA SendKeeps ==
  ASSUME IInv, NEW c \in Commanded, Send(c), Silent => c = Zero,
         silence' \in {silence, silence + 1}
  PROVE  IInv'
<1> DEFINE target(a) == Between(c[a], MIN_VELOCITY[a], MAX_VELOCITY[a])
<1>1. /\ last_cmd_ \in [Axis -> Int] /\ silence \in Nat
      /\ c \in [Axis -> Int] /\ VELOCITY_TIMEOUT \in Nat
      /\ MAX_LIN \in Nat /\ MAX_ANG \in Nat
  BY SmootherAssumption DEF IInv, TypeOK, Commanded
<1>2. \A a \in Axis :
        /\ target(a) \in -MAX_VELOCITY[a] .. MAX_VELOCITY[a]
        /\ c[a] <= 0 => target(a) \in c[a] .. 0
        /\ c[a] >= 0 => target(a) \in 0 .. c[a]
  BY <1>1, Limits DEF Between
<1>3. \A a \in Axis :
        last_cmd_'[a] = ApplyConstraints(last_cmd_[a], target(a), a)
  BY DEF Send
<1> HIDE DEF target
<1>4. ASSUME NEW a \in Axis
      PROVE  LET x == last_cmd_[a]
                 t == target(a)
                 y == last_cmd_'[a]
             IN  /\ y \in Int
                 /\ x <= t => y \in x .. t
                 /\ t <= x => y \in t .. x
                 /\ t = 0 => y = 0 \/ Absolute(y) + MAX_ACCEL[a] <= Absolute(x)
  <2>1. last_cmd_[a] \in Int /\ target(a) \in Int
    BY <1>1, <1>2, Limits
  <2> QED BY <1>3, <2>1, StepTowards
<1>5. TypeOK'
  <2>1. last_cmd_' \in [Axis -> Int]
    <3>1. DOMAIN last_cmd_' = Axis /\ last_cmd_' = [a \in Axis |-> last_cmd_'[a]]
      BY DEF Send
    <3> QED BY <3>1, <1>4
  <2>2. command_' \in Commanded /\ stopped_' \in BOOLEAN
    BY DEF Send
  <2>3. silence' \in Nat
    BY <1>1
  <2> QED BY <2>1, <2>2, <2>3 DEF TypeOK
<1>6. BaseWithinLimits'
  <2>1. c["linear"] \in 0 .. MAX_LIN /\ c["angular"] \in -MAX_ANG .. MAX_ANG
    BY DEF Commanded
  <2>2. target("linear") \in 0 .. MAX_LIN
    BY <1>1, <1>2, <2>1 DEF Axis
  <2>3. target("angular") \in -MAX_ANG .. MAX_ANG
    BY <1>1, <1>2, <2>1 DEF Axis
  <2>4. /\ last_cmd_["linear"] \in 0 .. MAX_LIN
        /\ last_cmd_["angular"] \in -MAX_ANG .. MAX_ANG
    BY DEF IInv, BaseWithinLimits
  <2>5. last_cmd_'["linear"] \in 0 .. MAX_LIN
    BY <1>1, <1>4, <2>2, <2>4 DEF Axis
  <2>6. last_cmd_'["angular"] \in -MAX_ANG .. MAX_ANG
    BY <1>1, <1>4, <2>3, <2>4 DEF Axis
  <2> QED BY <2>5, <2>6 DEF BaseWithinLimits
<1>7. StoppedStands'
  BY DEF Send, StoppedStands
<1>8. Braking'
  <2> SUFFICES ASSUME NEW a \in Axis
               PROVE  /\ Absolute(last_cmd_'[a]) <= MAX_VELOCITY[a]
                      /\ Silent' =>
                           \/ last_cmd_'[a] = 0
                           \/ Absolute(last_cmd_'[a]) + Overdue' * MAX_ACCEL[a]
                                <= MAX_VELOCITY[a]
    BY DEF Braking
  <2> DEFINE x == last_cmd_[a]
             y == last_cmd_'[a]
             d == MAX_ACCEL[a]
             v == MAX_VELOCITY[a]
  <2>1. x \in Int /\ y \in Int /\ d \in Nat \ {0} /\ v \in Nat \ {0}
    BY <1>1, <1>4, Limits
  <2>2. Absolute(x) <= v
    BY DEF IInv, Braking
  <2>3. Absolute(y) <= v
    BY <1>2, <1>4, <2>1, <2>2 DEF Absolute
  <2>4. ASSUME Silent', ~Silent
        PROVE  Overdue' = 0
    BY <1>1, <2>4, OverdueGrows
  <2>5. ASSUME Silent, y # 0
        PROVE  Absolute(y) + Overdue' * d <= v
    <3>1. target(a) = 0
      BY <1>1, <1>2, <2>5, ZeroIsCommanded
    <3>2. Absolute(y) + d <= Absolute(x)
      BY <1>4, <2>5, <3>1
    <3>3. x # 0
      BY <2>1, <3>2 DEF Absolute
    <3>4. Absolute(x) + Overdue * d <= v
      BY <2>5, <3>3 DEF IInv, Braking
    <3>5. Overdue \in Nat /\ Overdue' \in {Overdue, Overdue + 1}
      BY <1>1, <2>5, OverdueGrows
    <3>6. Overdue' * d \in {Overdue * d, Overdue * d + d}
      BY <2>1, <3>5
    <3>7. Absolute(x) \in Nat /\ Absolute(y) \in Nat /\ Overdue * d \in Int
      BY <2>1, <3>5 DEF Absolute
    <3> HIDE DEF x, y, d, v
    <3> QED BY <2>1, <3>2, <3>4, <3>6, <3>7
  <2>6. CASE Silent
    BY <2>3, <2>5, <2>6
  <2>7. CASE ~Silent
    BY <2>1, <2>3, <2>4, <2>7 DEF Absolute
  <2> QED BY <2>6, <2>7
<1> QED BY <1>5, <1>6, <1>7, <1>8 DEF IInv

\* A command starts the count of silence again.
LEMMA CommandKeeps ==
  ASSUME IInv, command_' \in Commanded, silence' = 0,
         UNCHANGED <<last_cmd_, stopped_>>
  PROVE  IInv'
<1>1. TypeOK' /\ BaseWithinLimits' /\ StoppedStands'
  BY DEF IInv, TypeOK, BaseWithinLimits, StoppedStands
<1>2. ~Silent'
  BY SmootherAssumption DEF Silent
<1>3. Braking'
  BY <1>2 DEF IInv, Braking
<1> QED BY <1>1, <1>3 DEF IInv

LEMMA TimerKeeps == ASSUME IInv, SmootherTimer PROVE IInv'
<1>1. silence' \in {silence, silence + 1} /\ command_ \in Commanded
  BY DEF SmootherTimer, IInv, TypeOK
<1>2. CASE Silent /\ (last_cmd_ = Zero \/ stopped_)
  <2>1. /\ stopped_' = TRUE /\ UNCHANGED <<command_, last_cmd_>>
        /\ last_cmd_ = Zero
    BY <1>2 DEF SmootherTimer, IInv, StoppedStands
  <2>2. TypeOK' /\ BaseWithinLimits' /\ StoppedStands'
    BY <1>1, <2>1 DEF IInv, TypeOK, BaseWithinLimits, StoppedStands
  <2>3. Braking'
    BY <2>1, ZeroIsCommanded DEF IInv, Braking
  <2> QED BY <2>2, <2>3 DEF IInv
<1>3. CASE ~(Silent /\ (last_cmd_ = Zero \/ stopped_))
  <2> DEFINE c == IF Silent THEN Zero ELSE command_
  <2>1. Send(c)
    BY <1>3 DEF SmootherTimer
  <2>2. c \in Commanded /\ (Silent => c = Zero)
    BY <1>1, ZeroIsCommanded
  <2> QED BY <1>1, <2>1, <2>2, SendKeeps
<1> QED BY <1>2, <1>3

LEMMA NextIInv == IInv /\ [Next]_vars => IInv'
<1> SUFFICES ASSUME IInv, [Next]_vars PROVE IInv'
  OBVIOUS
<1>1. ASSUME NEW forward \in {-10, 0, 10}, NEW turn \in {-10, 0, 10},
             Command(forward, turn)
      PROVE  IInv'
  BY <1>1, CommandForType, CommandKeeps DEF Command
<1>2. CASE CommandZero
  BY <1>2, ZeroIsCommanded, CommandKeeps DEF CommandZero
<1>3. CASE SmootherTimer
  BY <1>3, TimerKeeps
<1>4. CASE UNCHANGED vars
  BY <1>4 DEF vars, IInv, TypeOK, BaseWithinLimits, StoppedStands, Braking,
     Silent, Overdue
<1> QED BY <1>1, <1>2, <1>3, <1>4 DEF Next

-----------------------------------------------------------------------------
(***************************************************************************)
(* The theorems.                                                           *)
(***************************************************************************)

\* The base keeps within the limits of the policy's commands, and never goes
\* backward, for all limits and ramps of the smoother.
THEOREM BaseWithinLimitsHolds == Spec => []BaseWithinLimits
<1>1. IInv => BaseWithinLimits
  BY DEF IInv
<1> QED BY <1>1, InitIInv, NextIInv, PTL DEF Spec

\* Ramp(a) periods take the largest speed off.
LEMMA RampIsEnough ==
  ASSUME NEW a \in Axis
  PROVE  /\ Ramp(a) \in Nat
         /\ MAX_VELOCITY[a] <= Ramp(a) * MAX_ACCEL[a]
<1> DEFINE d == MAX_ACCEL[a]
           v == MAX_VELOCITY[a]
           n == v + d - 1
<1>1. d \in Nat \ {0} /\ v \in Nat \ {0} /\ n \in Nat
  BY Limits
<1>2. Ramp(a) = n \div d
  <2>1. -MAX_DECEL[a] = d /\ MAX_VELOCITY[a] - MAX_DECEL[a] - 1 = n
    BY Limits
  <2> QED BY <2>1 DEF Ramp
<1> HIDE DEF d, v
<1>3. /\ n \div d \in Nat
      /\ n = d * (n \div d) + (n % d)
      /\ n % d \in 0 .. d - 1
  <2> HIDE DEF n
  <2> QED BY <1>1
<1>4. v <= (n \div d) * d
  <2> DEFINE q == n \div d
             r == n % d
  <2>1. q \in Nat /\ r \in 0 .. d - 1 /\ n = d * q + r
    BY <1>3
  <2>2. n = v + d - 1
    OBVIOUS
  <2> HIDE DEF q, r, n
  <2>3. v <= q * d
    BY <1>1, <2>1, <2>2
  <2> QED BY <2>3 DEF q
<1> QED BY <1>2, <1>3, <1>4 DEF d, v

LEMMA BrakingStops == IInv => SilenceStops
<1> SUFFICES ASSUME IInv,
                    silence > VELOCITY_TIMEOUT + Max({Ramp(a) : a \in Axis})
             PROVE  last_cmd_ = Zero
  BY DEF SilenceStops
<1> DEFINE longest == Max({Ramp(a) : a \in Axis})
<1>1. silence \in Nat /\ VELOCITY_TIMEOUT \in Nat /\ last_cmd_ \in [Axis -> Int]
  BY SmootherAssumption DEF IInv, TypeOK
<1>2. longest \in Nat /\ \A a \in Axis : Ramp(a) <= longest
  <2>1. {Ramp(a) : a \in Axis} = {Ramp("linear"), Ramp("angular")}
    BY DEF Axis
  <2>2. Ramp("linear") \in Nat /\ Ramp("angular") \in Nat
    BY RampIsEnough DEF Axis
  <2>3. Max({Ramp("linear"), Ramp("angular")}) \in Nat
    BY <2>2, MaxOfTwo
  <2> QED BY <2>1, <2>2, <2>3, MaxOfTwo DEF Axis
<1> HIDE DEF longest
<1>3. silence > VELOCITY_TIMEOUT + longest
  BY DEF longest
<1>4. Silent /\ Overdue \in Nat /\ Overdue >= longest
  BY <1>1, <1>2, <1>3 DEF Silent, Overdue
<1>5. ASSUME NEW a \in Axis PROVE last_cmd_[a] = 0
  <2> SUFFICES ASSUME last_cmd_[a] # 0 PROVE FALSE
    OBVIOUS
  <2> DEFINE d == MAX_ACCEL[a]
  <2>1. Absolute(last_cmd_[a]) + Overdue * d <= MAX_VELOCITY[a]
    BY <1>4 DEF IInv, Braking
  <2>2. /\ d \in Nat \ {0} /\ MAX_VELOCITY[a] \in Nat
        /\ Ramp(a) \in Nat /\ MAX_VELOCITY[a] <= Ramp(a) * d
    BY Limits, RampIsEnough
  <2> HIDE DEF d
  <2>3. Ramp(a) * d <= Overdue * d
    <3>1. Ramp(a) <= Overdue
      BY <1>2, <1>4, <2>2
    <3> QED BY <1>4, <2>2, <3>1, ProductMonotonic
  <2>4. Absolute(last_cmd_[a]) \in Nat \ {0}
    BY <1>1 DEF Absolute
  <2> DEFINE spent == Overdue * d
             needed == Ramp(a) * d
             speed == Absolute(last_cmd_[a])
  <2>5. /\ spent \in Nat /\ needed \in Nat /\ speed \in Nat \ {0}
        /\ speed + spent <= MAX_VELOCITY[a] /\ MAX_VELOCITY[a] <= needed
        /\ needed <= spent
    BY <1>4, <2>1, <2>2, <2>3, <2>4
  <2> HIDE DEF spent, needed, speed
  <2> QED BY <2>2, <2>5
<1> QED BY <1>1, <1>5 DEF Zero

\* Whatever was commanded last, for every timeout and all ramps, the base
\* stands when silence has lasted the timeout and the longer of the ramps.
THEOREM SilenceStopsHolds == Spec => []SilenceStops
BY BrakingStops, InitIInv, NextIInv, PTL DEF Spec

-----------------------------------------------------------------------------
(***************************************************************************)
(* Liveness.  YamlLimits is what nav2_params.yaml says: a command is not   *)
(* above the smoother's limits, and the base goes from one limit to the    *)
(* other in ten periods.  TimerEnabled is the fact about ENABLED that the  *)
(* provers cannot supply: the timer has something to do while the base is  *)
(* not at the command's velocity.  TLC finds no reachable state in which   *)
(* it is false.                                                            *)
(***************************************************************************)
YamlLimits ==
  /\ MAX_LIN <= MAX_VELOCITY["linear"] /\ MAX_ANG <= MAX_VELOCITY["angular"]
  /\ \A a \in Axis : MAX_VELOCITY[a] <= 5 * MAX_ACCEL[a]

TimerEnabled ==
  command_ # NoCommand /\ ~Silent /\ last_cmd_ # command_
    => ENABLED <<SmootherTimer>>_vars

Steady(c) == command_ = c /\ ~Silent

\* At most n periods from the command c.
Near(c, n) ==
  \A a \in Axis : Absolute(c[a] - last_cmd_[a]) <= n * MAX_ACCEL[a]

\* One period brings an axis nearer by its step of acceleration.
LEMMA StepNearer ==
  ASSUME NEW a \in Axis, NEW x \in Int, NEW t \in Int, NEW d \in Nat,
         Absolute(t - x) <= d + MAX_ACCEL[a]
  PROVE  Absolute(t - ApplyConstraints(x, t, a)) <= d
<1> DEFINE y == ApplyConstraints(x, t, a)
           m == MAX_ACCEL[a]
<1>1. y = x + Between(t - x, -m, m) /\ m \in Nat \ {0}
  BY Limits DEF ApplyConstraints
<1> HIDE DEF y, m
<1>2. Absolute(t - x) <= d + m => Absolute(t - y) <= d
  BY <1>1 DEF Between, Absolute
<1> QED BY <1>2 DEF y, m

\* Such a command passes the clamp to the velocity limits unchanged.
LEMMA WithinLimits ==
  ASSUME YamlLimits, NEW c \in Commanded, NEW a \in Axis
  PROVE  c[a] \in Int /\ Between(c[a], MIN_VELOCITY[a], MAX_VELOCITY[a]) = c[a]
BY Limits, SmootherAssumption
  DEF YamlLimits, Commanded, Between, Axis

LEMMA TimerGoesNearer ==
  ASSUME YamlLimits, IInv, NEW c \in Commanded, Steady(c), SmootherTimer,
         NEW n \in Nat, Near(c, n + 1)
  PROVE  Near(c, n)'
<1> SUFFICES ASSUME NEW a \in Axis
             PROVE  Absolute(c[a] - last_cmd_'[a]) <= n * MAX_ACCEL[a]
  BY DEF Near
<1>1. last_cmd_'[a] = ApplyConstraints(last_cmd_[a], c[a], a)
  BY WithinLimits DEF SmootherTimer, Steady, Send
<1>2. last_cmd_[a] \in Int /\ c[a] \in Int /\ MAX_ACCEL[a] \in Nat
  BY WithinLimits, Limits DEF IInv, TypeOK
<1>3. n * MAX_ACCEL[a] \in Nat
      /\ (n + 1) * MAX_ACCEL[a] = n * MAX_ACCEL[a] + MAX_ACCEL[a]
  BY <1>2
<1>4. Absolute(c[a] - last_cmd_[a]) <= n * MAX_ACCEL[a] + MAX_ACCEL[a]
  BY <1>3 DEF Near
<1> QED BY <1>1, <1>2, <1>3, <1>4, StepNearer

LEMMA NearStays ==
  ASSUME YamlLimits, IInv, NEW c \in Commanded, Steady(c), [Next]_vars,
         NEW n \in Nat, Near(c, n)
  PROVE  Near(c, n)'
<1>1. CASE SmootherTimer
  <2> SUFFICES ASSUME NEW a \in Axis
               PROVE  Absolute(c[a] - last_cmd_'[a]) <= n * MAX_ACCEL[a]
    BY DEF Near
  <2>1. last_cmd_'[a] = ApplyConstraints(last_cmd_[a], c[a], a)
    BY <1>1, WithinLimits DEF SmootherTimer, Steady, Send
  <2>2. last_cmd_[a] \in Int /\ c[a] \in Int
    BY WithinLimits DEF IInv, TypeOK
  <2>3. n * MAX_ACCEL[a] \in Nat /\ MAX_ACCEL[a] \in Nat
    BY Limits
  <2>4. Absolute(c[a] - last_cmd_[a]) <= n * MAX_ACCEL[a] + MAX_ACCEL[a]
    BY <2>2, <2>3 DEF Near, Absolute
  <2> QED BY <2>1, <2>2, <2>3, <2>4, StepNearer
<1>2. CASE UNCHANGED last_cmd_
  BY <1>2 DEF Near
<1> QED BY <1>1, <1>2 DEF Next, Command, CommandZero, vars

LEMMA NearAtLast ==
  ASSUME IInv, NEW c \in Commanded, Near(c, 0)
  PROVE  last_cmd_ = c
<1>1. \A a \in Axis : last_cmd_[a] = c[a]
  BY Limits DEF Near, Absolute, IInv, TypeOK, Commanded
<1> QED BY <1>1 DEF IInv, TypeOK, Commanded

LEMMA NearAtFirst ==
  ASSUME YamlLimits, IInv, NEW c \in Commanded
  PROVE  Near(c, 10)
<1> SUFFICES ASSUME NEW a \in Axis
             PROVE  Absolute(c[a] - last_cmd_[a]) <= 10 * MAX_ACCEL[a]
  BY DEF Near
<1>1. /\ last_cmd_[a] \in -MAX_VELOCITY[a] .. MAX_VELOCITY[a]
      /\ c[a] \in -MAX_VELOCITY[a] .. MAX_VELOCITY[a]
  BY Limits, SmootherAssumption
  DEF YamlLimits, Commanded, IInv, BaseWithinLimits, Axis
<1>2. MAX_VELOCITY[a] <= 5 * MAX_ACCEL[a] /\ MAX_VELOCITY[a] \in Nat
      /\ MAX_ACCEL[a] \in Nat
  BY Limits DEF YamlLimits
<1> QED BY <1>1, <1>2 DEF Absolute

(***************************************************************************)
(* With the limits of nav2_params.yaml the base reaches the velocity of a  *)
(* command that stays, and keeps it: each period of the timer brings every *)
(* axis nearer by one step of acceleration, no period takes one away, and  *)
(* ten periods span the whole range (nav2_params.yaml:289-292).            *)
(***************************************************************************)
THEOREM SteadyCommandReachedFairly ==
  YamlLimits => (FairSpec /\ []TimerEnabled => SteadyCommandReached)
<1> SUFFICES ASSUME YamlLimits,
                    NEW forward \in {-10, 0, 10}, NEW turn \in {-10, 0, 10}
             PROVE  LET c == CommandFor(forward, turn) IN
                      FairSpec /\ []TimerEnabled =>
                        (<>[](command_ = c /\ ~Silent) => <>[](last_cmd_ = c))
  BY DEF SteadyCommandReached
<1> DEFINE c == CommandFor(forward, turn)
           N(n) == Near(c, n)
           S == Steady(c)
           R == last_cmd_ = c
<1>1. c \in Commanded
  BY CommandForType
<1>2. IInv => N(10) /\ (N(0) => R) /\ (R => N(0))
  <2>1. R => N(0)
    BY <1>1, Limits DEF Near, Absolute, Commanded
  <2> QED BY <1>1, <2>1, NearAtFirst, NearAtLast
<1>3. IInv /\ S /\ [Next]_vars =>
        /\ N(0) => N(0)'
        /\ N(1) => N(1)'
        /\ N(2) => N(2)'
        /\ N(3) => N(3)'
        /\ N(4) => N(4)'
        /\ N(5) => N(5)'
        /\ N(6) => N(6)'
        /\ N(7) => N(7)'
        /\ N(8) => N(8)'
        /\ N(9) => N(9)'
  BY <1>1, NearStays
<1>4. IInv /\ S /\ SmootherTimer =>
        /\ N(1) => N(0)'
        /\ N(2) => N(1)'
        /\ N(3) => N(2)'
        /\ N(4) => N(3)'
        /\ N(5) => N(4)'
        /\ N(6) => N(5)'
        /\ N(7) => N(6)'
        /\ N(8) => N(7)'
        /\ N(9) => N(8)'
        /\ N(10) => N(9)'
  <2>1. \A n \in Nat : IInv /\ S /\ SmootherTimer /\ N(n + 1) => N(n)'
    BY <1>1, TimerGoesNearer
  <2> QED BY <2>1
<1>5. TimerEnabled => (S /\ ~R => ENABLED <<SmootherTimer>>_vars)
  BY <1>1 DEF TimerEnabled, Steady, NoCommand, Commanded, Axis
<1> HIDE DEF N, R, S
<1>6. FairSpec /\ []TimerEnabled => (<>[]S => <>[]R)
  BY <1>2, <1>3, <1>4, <1>5, InitIInv, NextIInv, PTL DEF FairSpec, Spec
<1> QED BY <1>6 DEF R, S, Steady
=============================================================================
