------------------------------ MODULE ServoProofs ------------------------------
(***************************************************************************)
(* Proofs about ServoMode: the limits of a trajectory, its stop, and moves *)
(* from rest to rest, for all commands, all limits and all ways in which a *)
(* command takes over from another one.                                    *)
(***************************************************************************)
EXTENDS ServoMode, TLAPS

(* The limits of a command once they are in place: never negative, the      *)
(* velocity within its limit, and no acceleration limit without a velocity  *)
(* limit.                                                                   *)
LimitsInPlace ==
  /\ IsFinite(command.velocity_limit) =>
       /\ command.velocity_limit \in 0..MaxVelocity
       /\ Abs(command.velocity) <= command.velocity_limit
  /\ IsFinite(command.accel_limit) => command.accel_limit >= 0 /\ IsFinite(command.velocity_limit)

ServoInv == TypeOK /\ (normalized => LimitsInPlace)

(* The limits come from a command: once they are in place those that        *)
(* normalising makes of it, before that its own.                            *)
SameLimits(c, d) ==
  c.velocity_limit = d.velocity_limit /\ c.accel_limit = d.accel_limit

OriginInv ==
  /\ normalized =>
       \/ ~IsFinite(command.velocity_limit) /\ ~IsFinite(command.accel_limit)
       \/ \E c \in Commands : SameLimits(command, NormalizeCommandLimits(c))
  /\ ~normalized => \E c \in Commands : SameLimits(command, c)

-----------------------------------------------------------------------------
(* The state of a tick.                                                     *)

Fields == {"position", "velocity", "stop", "velocity_limit", "accel_limit",
           "pos", "vel", "accel", "done"}

(* A state of the tick, perhaps before the trajectory took over the motor. *)
Ticking(s) ==
  /\ Fields = DOMAIN s
  /\ s.position \in Number /\ s.velocity \in Int /\ s.stop \in Number
  /\ s.velocity_limit \in Number /\ s.accel_limit \in Number
  /\ s.pos \in Number /\ s.vel \in Number /\ s.accel \in Int /\ s.done \in BOOLEAN

(* The trajectory has taken over the motor. *)
Moving(s) == Ticking(s) /\ s.pos \in Int /\ s.vel \in Int

LEMMA Numbers ==
  /\ NaN \notin Int /\ NaN \in Number /\ Int \subseteq Number
  /\ \A x \in Number : IsFinite(x) <=> x \in Int
  BY CommandsAssumption DEF Number, IsFinite

(* What a stage of the planner leaves alone. *)
Plans(s, p) ==
  /\ Moving(p)
  /\ p.pos = s.pos /\ p.velocity = s.velocity /\ p.stop = s.stop
  /\ p.velocity_limit = s.velocity_limit /\ p.accel_limit = s.accel_limit

LEMMA FinishedPlans ==
  ASSUME NEW s, Moving(s)
  PROVE  Plans(s, Finished(s)) /\ Finished(s).vel = s.velocity /\ Finished(s).accel = 0
  BY Numbers DEF Moving, Ticking, Fields, Plans, Finished

-----------------------------------------------------------------------------
(* The planner.                                                             *)

LEMMA VelocityModePlans ==
  ASSUME NEW s, Moving(s)
  PROVE  /\ Plans(s, VelocityMode(s))
         /\ s.accel_limit \in Nat \/ ~IsFinite(s.accel_limit) =>
              /\ Between(VelocityMode(s).vel, s.vel, s.velocity)
              /\ VelocityMode(s).vel = s.vel => s.vel = s.velocity \/ VelocityMode(s).accel = 0
         /\ s.accel_limit \in Nat => Abs(VelocityMode(s).vel - s.vel) <= s.accel_limit
  <1> DEFINE rising == s.velocity > s.vel
             a == IF rising THEN s.accel_limit ELSE -s.accel_limit
             v == s.vel + a
  <1>1. s.velocity \in Int /\ s.vel \in Int /\ s.accel_limit \in Number
    BY DEF Moving, Ticking
  <1>2. CASE ~IsFinite(s.accel_limit)
    <2>1. VelocityMode(s) = Finished(s)
      BY <1>2 DEF VelocityMode
    <2>2. s.accel_limit \notin Nat
      BY <1>1, <1>2, Numbers
    <2> QED BY <1>1, <2>1, <2>2, FinishedPlans DEF Between
  <1>3. CASE IsFinite(s.accel_limit) /\ (s.velocity > v) # rising
    <2>1. VelocityMode(s) = Finished(s)
      BY <1>3 DEF VelocityMode
    <2>2. s.accel_limit \in Int
      BY <1>1, <1>3, Numbers
    <2>3. s.accel_limit \in Nat => Abs(s.velocity - s.vel) <= s.accel_limit
      BY <1>1, <1>3, <2>2 DEF Abs
    <2> QED BY <1>1, <2>1, <2>3, FinishedPlans DEF Between
  <1>4. CASE IsFinite(s.accel_limit) /\ ~((s.velocity > v) # rising)
    <2>1. s.accel_limit \in Int
      BY <1>1, <1>4, Numbers
    <2>2. a \in Int /\ v \in Int /\ (v = s.vel => a = 0)
      <3>1. a \in Int
        BY <2>1
      <3> HIDE DEF a
      <3> QED BY <1>1, <3>1
    <2>3. VelocityMode(s) = [s EXCEPT !.accel = a, !.vel = v]
      BY <1>4, <2>2 DEF VelocityMode, Moving, Ticking, Fields
    <2>4. s.accel_limit \in Nat => Between(v, s.vel, s.velocity) /\ Abs(v - s.vel) <= s.accel_limit
      BY <1>1, <1>4, <2>1 DEF Between, Abs
    <2> HIDE DEF a, v
    <2>5. Plans(s, VelocityMode(s)) /\ VelocityMode(s).vel = v /\ VelocityMode(s).accel = a
      BY <2>2, <2>3, Numbers DEF Moving, Ticking, Fields, Plans
    <2> QED BY <1>4, <2>1, <2>2, <2>4, <2>5
  <1> QED BY <1>2, <1>3, <1>4

LEMMA TravelModePlans ==
  ASSUME NEW s, Moving(s), s.position \in Int, s.velocity_limit \in Int
  PROVE  /\ Plans(s, TravelMode(s)) /\ TravelMode(s).accel = 0
         /\ TravelMode(s).vel \in {s.velocity, s.velocity_limit, -s.velocity_limit}
  <1> DEFINE dx == s.position - s.pos
             v == IF dx < 0 THEN -s.velocity_limit ELSE s.velocity_limit
  <1>1. v \in Int
    OBVIOUS
  <1>2. TravelMode(s) = Finished(s) \/ TravelMode(s) = [s EXCEPT !.vel = v, !.accel = 0]
    BY DEF TravelMode
  <1>3. v = s.velocity_limit \/ v = -s.velocity_limit
    OBVIOUS
  <1> HIDE DEF v
  <1>4. CASE TravelMode(s) = Finished(s)
    BY <1>4, FinishedPlans
  <1>5. CASE TravelMode(s) = [s EXCEPT !.vel = v, !.accel = 0]
    <2>1. Plans(s, TravelMode(s)) /\ TravelMode(s).vel = v /\ TravelMode(s).accel = 0
      BY <1>1, <1>5, Numbers DEF Moving, Ticking, Fields, Plans
    <2> QED BY <2>1, <1>3
  <1> QED BY <1>2, <1>4, <1>5

(* A multiplication and a division, one at a time. *)
LEMMA Quotients ==
  /\ \A n \in Int, d \in Nat \ {0} : n \div d \in Int
  /\ \A n \in Nat, d \in Nat \ {0} : n \div d >= 0
  /\ \A d \in Nat \ {0} : 0 \div d = 0 /\ (d - 1) \div d = 0
  /\ \A x \in Int : x * x \in Nat
  BY SMT

(* The deceleration asked for is one, within the limit, and none from rest. *)
LEMMA RequiredSize ==
  ASSUME NEW v \in Nat, NEW d \in Nat \ {0}, NEW a \in Int, NEW r \in Required(v, d, a)
  PROVE  r \in Int /\ (a >= 0 => 0 <= r /\ r <= a /\ (v = 0 => r = 0))
  <1>1. PICK q \in {(v * v) \div d, (v * v + d - 1) \div d} : r = IF q > a THEN a ELSE q
    BY DEF Required
  <1>2. v * v \in Nat
    BY Quotients
  <1>3. (v * v) \div d \in Int /\ (v * v) \div d >= 0
    BY <1>2, Quotients
  <1>4. (v * v + d - 1) \div d \in Int /\ (v * v + d - 1) \div d >= 0
    <2> DEFINE n == v * v + d - 1
    <2>1. n \in Nat
      BY <1>2
    <2> HIDE DEF n
    <2>2. n \div d \in Int /\ n \div d >= 0
      BY <2>1, Quotients
    <2> QED BY <2>2 DEF n
  <1>5. q \in Int /\ q >= 0
    BY <1>1, <1>3, <1>4
  <1>6. v = 0 => q = 0
    <2>1. SUFFICES ASSUME v = 0 PROVE q = 0
      OBVIOUS
    <2>2. v * v = 0
      BY <2>1
    <2>3. v * v + d - 1 = d - 1
      BY <2>2
    <2>4. (v * v) \div d = 0 /\ (v * v + d - 1) \div d = 0
      BY <2>2, <2>3, Quotients
    <2> QED BY <1>1, <2>4
  <1> QED BY <1>1, <1>5, <1>6

(* The acceleration of a tick: within its limit; back towards the velocity  *)
(* limit from above it; and at the velocity limit towards the velocity of   *)
(* the command.                                                             *)
LEMMA AccelerationSize ==
  ASSUME NEW s, Moving(s), s.position \in Int, s.accel_limit \in Int,
         NEW r \in CalculateAcceleration(s)
  PROVE  /\ r \in Int
         /\ s.accel_limit >= 0 =>
              /\ -s.accel_limit <= r /\ r <= s.accel_limit
              /\ IsFinite(s.velocity_limit) =>
                   /\ Abs(s.vel) > s.velocity_limit =>
                        r = IF s.vel > 0 THEN -s.accel_limit ELSE s.accel_limit
                   /\ Abs(s.vel) = s.velocity_limit =>
                        /\ s.vel > s.velocity => r <= 0
                        /\ s.vel <= s.velocity => r >= 0
                        /\ s.vel = s.velocity /\ s.position # s.pos => r = 0
  <1> DEFINE a == s.accel_limit
             f == s.vel - s.velocity
             dx == s.position - s.pos
             against(x) == IF f > 0 THEN -x ELSE x
             tooFast == IsFinite(s.velocity_limit) /\ Abs(s.vel) > s.velocity_limit
             atMax == IsFinite(s.velocity_limit) /\ Abs(s.vel) = s.velocity_limit
             approaches == f * dx >= 0 /\ dx # 0
             brakes == MustBrake(Abs(f), Abs(dx), a)
  <1>1. s.vel \in Int /\ s.velocity \in Int /\ s.pos \in Int /\ s.velocity_limit \in Number
    BY DEF Moving, Ticking
  <1>2. a \in Int /\ f \in Int /\ dx \in Int
    BY <1>1
  <1>3. (s.vel > s.velocity <=> f > 0) /\ (s.vel = s.velocity <=> f = 0)
          /\ (s.position # s.pos <=> dx # 0)
    BY <1>1
  <1>4. tooFast => ~atMax
    <2>1. Abs(s.vel) \in Int /\ (IsFinite(s.velocity_limit) => s.velocity_limit \in Int)
      BY <1>1, Numbers DEF Abs
    <2> QED BY <2>1
  <1>5. f = 0 /\ dx # 0 => approaches
    BY <1>2
  <1>6. CalculateAcceleration(s) =
          CASE tooFast -> {IF s.vel > 0 THEN -a ELSE a}
            [] ~tooFast /\ ~approaches -> {against(a)}
            [] ~tooFast /\ approaches /\ brakes -> {against(x) : x \in Required(Abs(f), Abs(dx), a)}
            [] OTHER -> IF atMax THEN {0} ELSE {IF dx > 0 THEN a ELSE -a}
    BY DEF CalculateAcceleration
  <1> SUFFICES
        /\ r \in Int
        /\ a >= 0 =>
             /\ -a <= r /\ r <= a
             /\ tooFast => r = IF s.vel > 0 THEN -a ELSE a
             /\ atMax => (f > 0 => r <= 0) /\ (f <= 0 => r >= 0) /\ (f = 0 /\ dx # 0 => r = 0)
    BY <1>1, <1>2, <1>3
  <1>7. approaches => dx # 0
    OBVIOUS
  <1>8. Abs(f) \in Nat /\ (f = 0 => Abs(f) = 0) /\ (dx # 0 => Abs(dx) \in Nat \ {0})
    BY <1>2 DEF Abs
  <1> HIDE DEF a, f, dx, tooFast, atMax, approaches, brakes
  <1>9. CASE tooFast
    <2>1. r = IF s.vel > 0 THEN -a ELSE a
      BY <1>6, <1>9
    <2> QED BY <1>2, <1>4, <1>9, <2>1
  <1>10. CASE ~tooFast /\ ~approaches
    <2>1. r = against(a)
      BY <1>6, <1>10
    <2> QED BY <1>2, <1>5, <1>10, <2>1
  <1>11. CASE ~tooFast /\ approaches /\ brakes
    <2>1. PICK x \in Required(Abs(f), Abs(dx), a) : r = against(x)
      BY <1>6, <1>11
    <2>2. x \in Int /\ (a >= 0 => 0 <= x /\ x <= a /\ (f = 0 => x = 0))
      BY <1>2, <1>7, <1>8, <1>11, RequiredSize
    <2> QED BY <1>2, <1>11, <2>1, <2>2
  <1>12. CASE ~tooFast /\ approaches /\ ~brakes
    <2>1. r \in IF atMax THEN {0} ELSE {IF dx > 0 THEN a ELSE -a}
      BY <1>6, <1>12
    <2> QED BY <1>2, <1>12, <2>1
  <1> QED BY <1>9, <1>10, <1>11, <1>12

(* What a tick of acceleration comes to: the velocity, no faster than the   *)
(* limit or than it was, and a change no larger than half again of the      *)
(* acceleration limit.                                                      *)
LEMMA AccelModePlans ==
  ASSUME NEW s, Moving(s), s.position \in Int, s.accel_limit \in Int,
         NEW r \in CalculateAcceleration(s)
  PROVE  /\ Plans(s, AccelMode(s, r))
         /\ /\ s.velocity_limit \in Nat
            /\ 0 <= s.accel_limit /\ s.accel_limit <= s.velocity_limit
            /\ Abs(s.velocity) <= s.velocity_limit
            => /\ Abs(AccelMode(s, r).vel) <= Farther(Abs(s.vel), s.velocity_limit)
               /\ 2 * Abs(AccelMode(s, r).vel - s.vel) <= 3 * s.accel_limit
  <1> DEFINE a == s.accel_limit
             l == s.velocity_limit
             x == s.vel
             v1 == x + r
             atMax == /\ IsFinite(l)
                      /\ \/ Abs(x) < l /\ Abs(v1) > l
                         \/ Abs(v1) < l /\ Abs(x) > l
             v == IF ~atMax THEN v1 ELSE IF v1 >= 0 THEN l ELSE -l
             off == Abs(v - s.velocity)
             fast == IF off > Abs(s.velocity) THEN off ELSE Abs(s.velocity)
             there == Between(s.velocity, x, v) \/ 2 * off < a
             near == Abs(s.position - s.pos) <= 20 * fast
             accel == IF atMax THEN 0 ELSE r
  <1>1. x \in Int /\ s.velocity \in Int /\ s.pos \in Int /\ l \in Number /\ a \in Int
    BY DEF Moving, Ticking
  <1>2. r \in Int /\ v1 \in Int /\ accel \in Int
    BY <1>1, AccelerationSize
  <1>3. v \in Int
    <2>1. CASE ~atMax
      BY <1>2, <2>1
    <2>2. CASE atMax
      <3>1. l \in Int
        BY <1>1, <2>2, Numbers
      <3> QED BY <3>1, <2>2
    <2> QED BY <2>1, <2>2
  <1> DEFINE bounds == l \in Nat /\ 0 <= a /\ a <= l /\ Abs(s.velocity) <= l
  <1>4. ASSUME bounds
        PROVE  /\ -a <= r /\ r <= a
               /\ Abs(x) > l => r = IF x > 0 THEN -a ELSE a
               /\ Abs(x) = l => /\ x > s.velocity => r <= 0
                                /\ x <= s.velocity => r >= 0
                                /\ x = s.velocity /\ s.position # s.pos => r = 0
    BY <1>1, <1>4, AccelerationSize, Numbers
  <1>5. bounds => Abs(v - x) <= a
    <2> SUFFICES ASSUME bounds PROVE Abs(v - x) <= a
      OBVIOUS
    <2>1. IsFinite(l) /\ l \in Int
      BY Numbers
    <2> QED BY <1>1, <1>2, <1>3, <1>4, <2>1 DEF Abs
  <1>6. CASE there /\ near
    <2>1. AccelMode(s, r) = Finished(s)
      BY <1>6 DEF AccelMode
    <2>2. Plans(s, AccelMode(s, r)) /\ AccelMode(s, r).vel = s.velocity
      BY <2>1, FinishedPlans
    <2>3. bounds => 2 * Abs(s.velocity - x) <= 3 * a
      <3> SUFFICES ASSUME bounds PROVE 2 * Abs(s.velocity - x) <= 3 * a
        OBVIOUS
      <3>1. Abs(v - x) <= a
        BY <1>5
      <3>2. Between(s.velocity, x, v) \/ 2 * Abs(v - s.velocity) < a
        BY <1>6
      <3> HIDE DEF v
      <3> QED BY <1>1, <1>3, <3>1, <3>2 DEF Abs, Between
    <2>4. bounds => Abs(s.velocity) <= Farther(Abs(x), l)
      BY <1>1 DEF Abs, Farther
    <2> QED BY <2>2, <2>3, <2>4
  <1>7. CASE ~(there /\ near)
    <2>1. AccelMode(s, r) = [s EXCEPT !.vel = v, !.accel = accel]
      BY <1>7 DEF AccelMode
    <2>2. ~(x = s.velocity /\ s.position = s.pos)
      <3> SUFFICES ASSUME x = s.velocity, s.position = s.pos PROVE FALSE
        OBVIOUS
      <3>1. Between(s.velocity, x, v)
        BY <1>1, <1>3 DEF Between
      <3>2. fast \in Nat
        <4>1. off \in Nat /\ Abs(s.velocity) \in Nat
          BY <1>1, <1>3 DEF Abs
        <4> HIDE DEF off
        <4> QED BY <4>1
      <3>3. Abs(s.position - s.pos) = 0
        BY <1>1 DEF Abs
      <3> HIDE DEF fast
      <3>4. near
        BY <3>2, <3>3
      <3> QED BY <1>7, <3>1, <3>4
    <2>3. bounds => Abs(v) <= Farther(Abs(x), l)
      <3> SUFFICES ASSUME bounds PROVE Abs(v) <= Farther(Abs(x), l)
        OBVIOUS
      <3>1. IsFinite(l) /\ l \in Int
        BY Numbers
      <3>2. Abs(v) <= l \/ Abs(v) <= Abs(x)
        BY <1>1, <1>2, <1>3, <1>4, <2>2, <3>1 DEF Abs
      <3> HIDE DEF v
      <3> QED BY <1>1, <1>3, <3>2 DEF Abs, Farther
    <2> HIDE DEF v, accel
    <2>4. Plans(s, AccelMode(s, r)) /\ AccelMode(s, r).vel = v
      BY <1>2, <1>3, <2>1, Numbers DEF Moving, Ticking, Fields, Plans
    <2>5. bounds => 2 * Abs(v - x) <= 3 * a
      <3>1. Abs(v - x) \in Nat
        BY <1>1, <1>3 DEF Abs
      <3> QED BY <1>1, <1>5, <3>1
    <2> QED BY <2>3, <2>4, <2>5
  <1> QED BY <1>6, <1>7

(* The limits of a command, seen from the tick. *)
Bounded(s) ==
  /\ s.velocity_limit \in Nat /\ Abs(s.velocity) <= s.velocity_limit
  /\ IsFinite(s.accel_limit) => 0 <= s.accel_limit /\ s.accel_limit <= s.velocity_limit

(* What the planner keeps. *)
Kept(s, v) ==
  /\ Abs(v) <= Farther(Abs(s.vel), s.velocity_limit)
  /\ IsFinite(s.accel_limit) => 2 * Abs(v - s.vel) <= 3 * s.accel_limit

LEMMA PlannedPlans ==
  ASSUME NEW s, Moving(s), IsFinite(s.velocity_limit) \/ IsFinite(s.accel_limit),
         NEW p \in Planned(s)
  PROVE  Plans(s, p) /\ (Bounded(s) => Kept(s, p.vel))
  <1>1. /\ s.vel \in Int /\ s.velocity \in Int /\ s.pos \in Int
        /\ s.position \in Number /\ s.velocity_limit \in Number /\ s.accel_limit \in Number
    BY DEF Moving, Ticking
  <1>2. CASE s.done
    <2>1. p = s
      BY <1>2 DEF Planned
    <2>2. Plans(s, p)
      BY <2>1 DEF Plans
    <2>3. Bounded(s) => Kept(s, s.vel)
      <3>1. IsFinite(s.accel_limit) => s.accel_limit \in Int
        BY <1>1, Numbers
      <3> QED BY <1>1, <3>1 DEF Bounded, Kept, Abs, Farther
    <2> QED BY <2>1, <2>2, <2>3
  <1>3. CASE ~s.done /\ ~IsFinite(s.position)
    <2>1. p = VelocityMode(s)
      BY <1>3 DEF Planned
    <2>2. Plans(s, p)
      BY <2>1, VelocityModePlans
    <2>3. SUFFICES ASSUME Bounded(s) PROVE Kept(s, p.vel)
      BY <2>2
    <2>4. s.accel_limit \in Nat \/ ~IsFinite(s.accel_limit)
      BY <1>1, <2>3, Numbers DEF Bounded
    <2>5. Between(p.vel, s.vel, s.velocity)
      BY <2>1, <2>4, VelocityModePlans
    <2>6. p.vel \in Int
      BY <2>2 DEF Plans, Moving
    <2>7. IsFinite(s.accel_limit) => s.accel_limit \in Nat /\ Abs(p.vel - s.vel) <= s.accel_limit
      BY <2>1, <2>4, VelocityModePlans
    <2>8. Abs(p.vel) <= Farther(Abs(s.vel), s.velocity_limit)
      BY <1>1, <2>3, <2>5, <2>6 DEF Bounded, Between, Abs, Farther
    <2>9. IsFinite(s.accel_limit) => 2 * Abs(p.vel - s.vel) <= 3 * s.accel_limit
      BY <1>1, <2>6, <2>7 DEF Abs
    <2> QED BY <2>8, <2>9 DEF Kept
  <1>4. CASE ~s.done /\ IsFinite(s.position) /\ ~IsFinite(s.accel_limit)
    <2>1. p = TravelMode(s)
      BY <1>4 DEF Planned
    <2>2. s.position \in Int /\ s.velocity_limit \in Int
      BY <1>1, <1>4, Numbers
    <2>3. Plans(s, p) /\ p.vel \in {s.velocity, s.velocity_limit, -s.velocity_limit}
      BY <2>1, <2>2, TravelModePlans
    <2>4. Bounded(s) => Kept(s, p.vel)
      BY <1>1, <1>4, <2>2, <2>3 DEF Bounded, Kept, Abs, Farther
    <2> QED BY <2>3, <2>4
  <1>5. CASE ~s.done /\ IsFinite(s.position) /\ IsFinite(s.accel_limit)
    <2>1. PICK r \in CalculateAcceleration(s) : p = AccelMode(s, r)
      BY <1>5 DEF Planned
    <2>2. s.position \in Int /\ s.accel_limit \in Int
      BY <1>1, <1>5, Numbers
    <2> QED BY <1>5, <2>1, <2>2, AccelModePlans DEF Bounded, Kept
  <1>6. s.done \in BOOLEAN
    BY DEF Moving, Ticking
  <1> QED BY <1>2, <1>3, <1>4, <1>5, <1>6

-----------------------------------------------------------------------------
(* The end of a tick.                                                       *)

(* What FinishTrajectoryGuards may change besides the sample: the target    *)
(* and, at the stop, the velocity of the command.                           *)
Ends(s, t) ==
  /\ Moving(t)
  /\ t.velocity = s.velocity \/ t.velocity = 0
  /\ t.velocity_limit = s.velocity_limit /\ t.accel_limit = s.accel_limit /\ t.stop = s.stop

LEMMA StopEnds ==
  ASSUME NEW s, Moving(s), IsFinite(s.stop)
  PROVE  /\ Ends(s, AtStop(s)) /\ AtStop(s).pos = s.stop /\ AtStop(s).vel = 0
         /\ AtStop(s).velocity = 0 /\ AtStop(s).accel = 0 /\ AtStop(s).position = s.position
  <1>1. s.stop \in Int
    BY Numbers DEF Moving, Ticking
  <1> QED BY <1>1, Numbers DEF Moving, Ticking, Fields, AtStop, Ends

LEMMA GuardsEnd ==
  ASSUME NEW s, Moving(s), NEW error \in Int
  PROVE  Ends(s, FinishTrajectoryGuards(s, error))
  <1> DEFINE a == MovedTarget(s)
             b == Slipped(a, error)
  <1>1. Ends(s, a) /\ a.velocity = s.velocity
    <2>1. CASE IsFinite(s.position)
      <3>1. s.position + 2 * s.velocity \in Int
        BY <2>1, Numbers DEF Moving, Ticking
      <3>2. a = [s EXCEPT !.position = s.position + 2 * s.velocity]
        BY <2>1 DEF MovedTarget, Moving, Ticking, Fields
      <3> HIDE DEF a
      <3> QED BY <3>1, <3>2, Numbers DEF Moving, Ticking, Fields, Ends
    <2>2. CASE ~IsFinite(s.position)
      BY <2>2 DEF MovedTarget, Ends
    <2> QED BY <2>1, <2>2
  <1> HIDE DEF a
  <1>2. Ends(s, b) /\ b.velocity = a.velocity
    <2>1. CASE Slip > 0 /\ Abs(error) > Slip
      <3> DEFINE x == a.pos + error - (IF error > 0 THEN Slip ELSE -Slip)
      <3>1. x \in Int
        BY <1>1, LimitsAssumption DEF Moving, Ends
      <3>2. b = [a EXCEPT !.pos = x]
        BY <2>1 DEF Slipped
      <3> HIDE DEF b, x
      <3> QED BY <1>1, <3>1, <3>2, Numbers DEF Moving, Ticking, Fields, Ends
    <2>2. CASE ~(Slip > 0 /\ Abs(error) > Slip)
      BY <1>1, <2>2 DEF Slipped
    <2> QED BY <2>1, <2>2
  <1>3. FinishTrajectoryGuards(s, error) = StoppedAt(b)
    BY DEF FinishTrajectoryGuards, a
  <1> HIDE DEF b
  <1>4. CASE Reached(b)
    <2>1. IsFinite(b.stop)
      BY <1>4 DEF Reached, Passed
    <2> DEFINE q == AtStop(b)
    <2>2. Ends(b, q)
      BY <1>2, <2>1, StopEnds DEF Ends
    <2>3. StoppedAt(b) = [q EXCEPT !.position = NaN]
      BY <1>4 DEF StoppedAt
    <2> HIDE DEF q
    <2> QED BY <1>2, <1>3, <2>2, <2>3, Numbers DEF Moving, Ticking, Fields, Ends
  <1>5. CASE ~Reached(b)
    BY <1>2, <1>3, <1>5 DEF StoppedAt
  <1> QED BY <1>4, <1>5

(* The sample of a tick that the motor follows: the stop, or what was       *)
(* integrated, which then has not passed the stop.                          *)
BeforeStop(s, pos, vel) ==
  IsFinite(s.stop) => ~(vel > 0 /\ pos >= s.stop) /\ ~(vel < 0 /\ pos <= s.stop)

LEMMA GuardsSample ==
  ASSUME NEW s, Moving(s)
  PROVE  LET t == FinishTrajectoryGuards(s, 0)
         IN  \/ IsFinite(s.stop) /\ t.pos = s.stop /\ t.vel = 0
             \/ t.pos = s.pos /\ t.vel = s.vel /\ BeforeStop(s, s.pos, s.vel)
  <1> DEFINE a == MovedTarget(s)
  <1>1. a.pos = s.pos /\ a.vel = s.vel /\ a.stop = s.stop /\ Moving(a)
    <2>1. CASE IsFinite(s.position)
      <3>1. s.position + 2 * s.velocity \in Int
        BY <2>1, Numbers DEF Moving, Ticking
      <3>2. a = [s EXCEPT !.position = s.position + 2 * s.velocity]
        BY <2>1 DEF MovedTarget, Moving, Ticking, Fields
      <3> HIDE DEF a
      <3> QED BY <3>1, <3>2, Numbers DEF Moving, Ticking, Fields
    <2>2. CASE ~IsFinite(s.position)
      BY <2>2 DEF MovedTarget
    <2> QED BY <2>1, <2>2
  <1>2. Slipped(a, 0) = a
    <2>1. ~(Slip > 0 /\ Abs(0) > Slip)
      BY LimitsAssumption DEF Abs
    <2> QED BY <2>1 DEF Slipped
  <1>3. FinishTrajectoryGuards(s, 0) = StoppedAt(a)
    BY <1>2 DEF FinishTrajectoryGuards
  <1> HIDE DEF a
  <1>4. CASE Reached(a)
    <2>1. IsFinite(a.stop)
      BY <1>4 DEF Reached, Passed
    <2> DEFINE q == AtStop(a)
    <2>2. Moving(q) /\ q.pos = a.stop /\ q.vel = 0
      BY <1>1, <2>1, StopEnds DEF Ends
    <2>3. StoppedAt(a) = [q EXCEPT !.position = NaN]
      BY <1>4 DEF StoppedAt
    <2> HIDE DEF q
    <2>4. StoppedAt(a).pos = a.stop /\ StoppedAt(a).vel = 0
      BY <2>2, <2>3, Numbers DEF Moving, Ticking, Fields
    <2> QED BY <1>1, <1>3, <2>1, <2>4
  <1>5. CASE ~Reached(a)
    <2>1. StoppedAt(a) = a
      BY <1>5 DEF StoppedAt
    <2>2. BeforeStop(s, s.pos, s.vel)
      BY <1>1, <1>5 DEF Reached, Passed, BeforeStop
    <2> QED BY <1>1, <1>3, <2>1, <2>2
  <1> QED BY <1>4, <1>5

LEMMA IntegratedEnds ==
  ASSUME NEW p, Moving(p), NEW x \in Int
  PROVE  LET i == Integrated(KilledAtStop(p), x)
         IN  /\ Ends(p, i)
             /\ \/ IsFinite(p.stop) /\ i.pos = p.stop /\ i.vel = 0
                \/ /\ i.vel = p.vel
                   /\ i.pos = p.pos + (IF p.accel # 0 THEN x + p.vel ELSE 2 * p.vel)
  <1> DEFINE k == KilledAtStop(p)
             d == IF k.accel # 0 THEN x + k.vel ELSE 2 * k.vel
             i == Integrated(k, x)
  <1>1. /\ Ends(p, k)
        /\ \/ IsFinite(p.stop) /\ k.pos = p.stop /\ k.vel = 0 /\ k.accel = 0
           \/ k = p
    <2>1. CASE Passed(p)
      <3>1. IsFinite(p.stop)
        BY <2>1 DEF Passed
      <3>2. k = AtStop(p)
        BY <2>1 DEF KilledAtStop
      <3> HIDE DEF k
      <3> QED BY <3>1, <3>2, StopEnds
    <2>2. CASE ~Passed(p)
      BY <2>2 DEF KilledAtStop, Ends
    <2> QED BY <2>1, <2>2
  <1> HIDE DEF k
  <1>2. d \in Int /\ k.pos \in Int
    BY <1>1 DEF Ends, Moving, Ticking
  <1>3. i = [k EXCEPT !.pos = k.pos + d]
    BY DEF Integrated
  <1> HIDE DEF d, i
  <1>4. Ends(k, i) /\ i.pos = k.pos + d /\ i.vel = k.vel
    BY <1>1, <1>2, <1>3, Numbers DEF Moving, Ticking, Fields, Ends
  <1>5. Ends(p, i)
    BY <1>1, <1>4 DEF Ends
  <1>6. CASE IsFinite(p.stop) /\ k.pos = p.stop /\ k.vel = 0 /\ k.accel = 0
    <2>1. d = 0
      BY <1>6 DEF d
    <2>2. i.pos = p.stop /\ i.vel = 0
      BY <1>2, <1>4, <1>6, <2>1
    <2> QED BY <1>5, <1>6, <2>2 DEF i, k
  <1>7. CASE k = p
    <2>1. i.vel = p.vel /\ i.pos = p.pos + (IF p.accel # 0 THEN x + p.vel ELSE 2 * p.vel)
      BY <1>4, <1>7 DEF d
    <2> QED BY <1>5, <2>1 DEF i, k
  <1> QED BY <1>1, <1>6, <1>7

-----------------------------------------------------------------------------
(* A tick.                                                                  *)

(* A tick of a motor that the trajectory follows or takes over at m. *)
Starting(s, m) ==
  /\ Ticking(s)
  /\ \/ IsFinite(s.pos) /\ s.pos \in Int /\ s.vel \in Int
     \/ ~IsFinite(s.pos) /\ m.pos \in Int /\ m.vel \in Int

LEMMA TakeOver ==
  ASSUME NEW s, NEW m, Starting(s, m)
  PROVE  LET e == EnsureControlState(s, m)
         IN  /\ Ends(s, e) /\ e.velocity = s.velocity
             /\ e.position = s.position /\ e.done = s.done
             /\ IsFinite(s.pos) => e = s
             /\ ~IsFinite(s.pos) => e.pos = m.pos /\ e.vel = m.vel
  <1> DEFINE e == EnsureControlState(s, m)
  <1>1. CASE IsFinite(s.pos)
    <2>1. e = s
      BY <1>1 DEF EnsureControlState
    <2>2. Moving(s)
      BY <1>1 DEF Starting, Moving
    <2> QED BY <1>1, <2>1, <2>2 DEF Ends
  <1>2. CASE ~IsFinite(s.pos)
    <2>1. e = [s EXCEPT !.pos = m.pos, !.vel = m.vel, !.accel = 0]
      BY <1>2 DEF EnsureControlState
    <2> HIDE DEF e
    <2>2. /\ Ends(s, e) /\ e.velocity = s.velocity /\ e.position = s.position /\ e.done = s.done
          /\ e.pos = m.pos /\ e.vel = m.vel
      BY <1>2, <2>1, Numbers DEF Starting, Ticking, Moving, Fields, Ends
    <2> QED BY <1>2, <2>2 DEF e
  <1> QED BY <1>1, <1>2

LEMMA UnlimitedEnds ==
  ASSUME NEW s, NEW m, Starting(s, m)
  PROVE  Ends(s, Unlimited(s, m))
  <1> DEFINE e == [s EXCEPT !.vel = s.velocity, !.accel = 0, !.done = TRUE]
             f == EnsureControlState(e, m)
  <1>1. CASE IsFinite(s.position)
    <2> DEFINE g == Finished(s)
    <2>1. Unlimited(s, m) = [g EXCEPT !.pos = s.position]
      BY <1>1 DEF Unlimited
    <2>2. /\ Ticking(g) /\ g.vel \in Int /\ g.velocity = s.velocity /\ g.stop = s.stop
          /\ g.velocity_limit = s.velocity_limit /\ g.accel_limit = s.accel_limit
      BY Numbers DEF Starting, Ticking, Fields, Finished
    <2>3. s.position \in Int
      BY <1>1, Numbers DEF Starting, Ticking
    <2> HIDE DEF g
    <2> QED BY <2>1, <2>2, <2>3, Numbers DEF Ticking, Moving, Fields, Ends
  <1>2. CASE ~IsFinite(s.position)
    <2>1. Unlimited(s, m) = [f EXCEPT !.pos = f.pos + 2 * f.vel]
      BY <1>2 DEF Unlimited
    <2>2. /\ Starting(e, m) /\ e.velocity = s.velocity /\ e.stop = s.stop
          /\ e.velocity_limit = s.velocity_limit /\ e.accel_limit = s.accel_limit
      BY Numbers DEF Starting, Ticking, Fields
    <2> HIDE DEF e
    <2>3. Ends(e, f) /\ f.velocity = e.velocity
      BY <2>2, TakeOver
    <2> HIDE DEF f
    <2>4. f.pos + 2 * f.vel \in Int
      BY <2>3 DEF Ends, Moving
    <2> QED BY <2>1, <2>2, <2>3, <2>4, Numbers DEF Ticking, Moving, Fields, Ends
  <1> QED BY <1>1, <1>2

(* A tick with limits: what was planned, killed at the stop and integrated. *)
LEMMA LimitedTick ==
  ASSUME NEW s, NEW m, Starting(s, m), NEW p \in Limited(s, m)
  PROVE  \E e, q :
           /\ Ends(s, e) /\ e.velocity = s.velocity /\ e.position = s.position
           /\ e.done => ~IsFinite(s.position) /\ s.velocity = 0
           /\ ~IsFinite(s.position) /\ s.velocity = 0 => e.done = s.done
           /\ IsFinite(s.pos) => e.pos = s.pos /\ e.vel = s.vel
           /\ ~IsFinite(s.pos) => e.pos = m.pos /\ e.vel = m.vel
           /\ q \in Planned(e)
           /\ p = Integrated(KilledAtStop(q), e.vel)
  <1> DEFINE u == IF IsFinite(s.position) \/ s.velocity # 0 THEN [s EXCEPT !.done = FALSE] ELSE s
             e == EnsureControlState(u, m)
  <1>1. /\ Starting(u, m) /\ u.velocity = s.velocity /\ u.stop = s.stop
        /\ u.velocity_limit = s.velocity_limit /\ u.accel_limit = s.accel_limit
        /\ u.position = s.position /\ u.pos = s.pos /\ u.vel = s.vel
        /\ u.done => ~IsFinite(s.position) /\ s.velocity = 0
        /\ ~IsFinite(s.position) /\ s.velocity = 0 => u.done = s.done
    <2>1. CASE IsFinite(s.position) \/ s.velocity # 0
      <3>1. u = [s EXCEPT !.done = FALSE]
        BY <2>1
      <3> HIDE DEF u
      <3> QED BY <2>1, <3>1, Numbers DEF Starting, Ticking, Fields
    <2>2. CASE ~(IsFinite(s.position) \/ s.velocity # 0)
      <3>1. u = s
        BY <2>2
      <3> QED BY <2>2, <3>1
    <2> QED BY <2>1, <2>2
  <1>2. PICK q \in Planned(e) : p = Integrated(KilledAtStop(q), e.vel)
    BY DEF Limited
  <1> HIDE DEF u
  <1>3. /\ Ends(u, e) /\ e.velocity = u.velocity /\ e.position = u.position /\ e.done = u.done
        /\ IsFinite(u.pos) => e = u
        /\ ~IsFinite(u.pos) => e.pos = m.pos /\ e.vel = m.vel
    BY <1>1, TakeOver
  <1> HIDE DEF e
  <1>4. Ends(s, e)
    BY <1>1, <1>3 DEF Ends
  <1> QED BY <1>1, <1>2, <1>3, <1>4

LEMMA UpdateEnds ==
  ASSUME NEW s, NEW m, Starting(s, m), NEW p \in UpdateTrajectory(s, m)
  PROVE  Ends(s, p)
  <1>1. CASE ~(IsFinite(s.velocity_limit) \/ IsFinite(s.accel_limit))
    <2>1. p = Unlimited(s, m)
      BY <1>1 DEF UpdateTrajectory
    <2> QED BY <2>1, UnlimitedEnds
  <1>2. CASE IsFinite(s.velocity_limit) \/ IsFinite(s.accel_limit)
    <2>1. p \in Limited(s, m)
      BY <1>2 DEF UpdateTrajectory
    <2>2. PICK e, q :
           /\ Ends(s, e) /\ e.velocity = s.velocity
           /\ q \in Planned(e) /\ p = Integrated(KilledAtStop(q), e.vel)
      BY <2>1, LimitedTick
    <2>3. Moving(e) /\ e.vel \in Int
      BY <2>2 DEF Ends, Moving
    <2>4. Plans(e, q)
      BY <1>2, <2>2, <2>3, PlannedPlans DEF Ends
    <2>5. Ends(q, p)
      BY <2>2, <2>3, <2>4, IntegratedEnds DEF Plans
    <2> QED BY <2>2, <2>4, <2>5 DEF Ends, Plans
  <1> QED BY <1>1, <1>2

(* What a tick starts from. *)
TickState ==
  [position |-> command.position, velocity |-> command.velocity,
   stop |-> command.stop, velocity_limit |-> command.velocity_limit,
   accel_limit |-> command.accel_limit,
   pos |-> position, vel |-> velocity, accel |-> 0, done |-> trajectory_done]

LEMMA TickStep ==
  ASSUME TypeOK, Tick
  PROVE  \E m, p, error, t :
           /\ Starting(TickState, m) /\ p \in UpdateTrajectory(TickState, m)
           /\ t = FinishTrajectoryGuards(p, error) /\ Ends(TickState, t)
           /\ error \in Int /\ (pushes' = pushes => error = 0) /\ pushes' \in 0..MaxPushes
           /\ position' = t.pos /\ velocity' = t.vel /\ trajectory_done' = t.done
           /\ command' = [command EXCEPT !.position = t.position, !.velocity = t.velocity]
           /\ UNCHANGED <<active, normalized, sent>>
  <1>1. PICK m \in (IF IsFinite(position) THEN {NaN} ELSE Measured) :
          \E p \in UpdateTrajectory(TickState, m),
             error \in (IF pushes > 0 THEN Pushes ELSE {}) \cup {0} :
            LET t == FinishTrajectoryGuards(p, error)
            IN  /\ pushes' = IF error = 0 THEN pushes ELSE pushes - 1
                /\ position' = t.pos /\ velocity' = t.vel /\ trajectory_done' = t.done
                /\ command' = [command EXCEPT !.position = t.position, !.velocity = t.velocity]
    BY Zenon DEF Tick, TickState
  <1>2. PICK p \in UpdateTrajectory(TickState, m),
             error \in (IF pushes > 0 THEN Pushes ELSE {}) \cup {0} :
            LET t == FinishTrajectoryGuards(p, error)
            IN  /\ pushes' = IF error = 0 THEN pushes ELSE pushes - 1
                /\ position' = t.pos /\ velocity' = t.vel /\ trajectory_done' = t.done
                /\ command' = [command EXCEPT !.position = t.position, !.velocity = t.velocity]
    BY <1>1
  <1> DEFINE t == FinishTrajectoryGuards(p, error)
  <1>3. UNCHANGED <<active, normalized, sent>>
    BY DEF Tick
  <1>4. Starting(TickState, m)
    <2>1. Ticking(TickState)
      BY DEF TypeOK, CommandRecords, Ticking, TickState, Fields
    <2>2. TickState.pos = position /\ TickState.vel = velocity
      BY DEF TickState
    <2>3. CASE IsFinite(position)
      <3>1. position \in Int /\ velocity \in Int
        BY <2>3, Numbers DEF TypeOK
      <3> QED BY <2>1, <2>2, <2>3, <3>1 DEF Starting
    <2>4. CASE ~IsFinite(position)
      <3>1. m \in [pos : Int, vel : Int]
        BY <1>1, <2>4, CommandsAssumption
      <3> QED BY <2>1, <2>2, <2>4, <3>1 DEF Starting
    <2> QED BY <2>3, <2>4
  <1>5. error \in Int /\ (error # 0 => pushes > 0)
    BY <1>2, BoundsAssumption
  <1>6. (pushes' = pushes => error = 0) /\ pushes' \in 0..MaxPushes
    <2>1. pushes \in Int /\ 0 <= pushes /\ pushes <= MaxPushes
      BY BoundsAssumption DEF TypeOK
    <2> QED BY <1>2, <1>5, <2>1, BoundsAssumption
  <1>7. Ends(TickState, p)
    BY <1>2, <1>4, UpdateEnds
  <1>8. Ends(p, t)
    BY <1>5, <1>7, GuardsEnd DEF Ends
  <1>9. Ends(TickState, t)
    BY <1>7, <1>8 DEF Ends
  <1> HIDE DEF t
  <1> QED BY <1>2, <1>3, <1>4, <1>5, <1>6, <1>9 DEF t

-----------------------------------------------------------------------------
(* The invariant.                                                           *)

LEMMA DefaultedNumber ==
  ASSUME NEW given \in Number, NEW default \in Nat \cup {NaN}
  PROVE  Defaulted(given, default) \in Nat \cup {NaN}
  BY Numbers DEF Defaulted

(* Normalising puts the limits in place. *)
LEMMA Normal ==
  ASSUME NEW c \in CommandRecords
  PROVE  LET n == NormalizeCommandLimits(c)
         IN  /\ n \in CommandRecords
             /\ IsFinite(n.velocity_limit) =>
                  n.velocity_limit \in 0..MaxVelocity /\ Abs(n.velocity) <= n.velocity_limit
             /\ IsFinite(n.accel_limit) => n.accel_limit >= 0 /\ IsFinite(n.velocity_limit)
  <1> DEFINE v == Defaulted(c.velocity_limit, DefaultVelocity)
             a == Defaulted(c.accel_limit, DefaultAccel)
             l == NormalVelocityLimit(c)
             b == IF IsFinite(l) THEN l ELSE MaxVelocity
             w == Limit(c.velocity, b)
             n == NormalizeCommandLimits(c)
  <1>1. /\ c.position \in Number /\ c.velocity \in Int /\ c.stop \in Number
        /\ c.velocity_limit \in Number /\ c.accel_limit \in Number
    BY DEF CommandRecords
  <1>2. v \in Nat \cup {NaN} /\ a \in Nat \cup {NaN}
    BY <1>1, DefaultedNumber, CommandsAssumption
  <1>3. l = IF IsFinite(v) THEN Limit(v, MaxVelocity) ELSE IF IsFinite(a) THEN MaxVelocity ELSE NaN
    BY DEF NormalVelocityLimit
  <1> HIDE DEF v, a, l
  <1>4. MaxVelocity \in Nat
    BY LimitsAssumption
  <1>5. l = NaN \/ l \in 0..MaxVelocity
    BY <1>2, <1>3, <1>4, Numbers DEF Limit, IsFinite
  <1>6. IsFinite(a) => IsFinite(l)
    <2>1. IsFinite(l) <=> l # NaN
      BY DEF IsFinite
    <2>2. IsFinite(a) => l \in Int
      BY <1>2, <1>3, <1>4 DEF Limit, IsFinite
    <2> QED BY <2>1, <2>2, Numbers
  <1>7. b \in Nat /\ (IsFinite(l) => b = l)
    BY <1>4, <1>5 DEF IsFinite
  <1> HIDE DEF b
  <1>8. w \in Int /\ Abs(w) <= b
    BY <1>1, <1>7 DEF Limit, Abs
  <1>9. n = [c EXCEPT !.velocity_limit = l, !.accel_limit = a, !.velocity = w]
    BY DEF NormalizeCommandLimits, l, a, b, CommandRecords
  <1> HIDE DEF w, n
  <1>10. /\ n.velocity_limit = l /\ n.accel_limit = a /\ n.velocity = w
    BY <1>9 DEF CommandRecords
  <1>11. n \in CommandRecords
    <2>1. l \in Number /\ a \in Number
      BY <1>2, <1>5, Numbers
    <2> QED BY <1>8, <1>9, <2>1 DEF CommandRecords
  <1>12. IsFinite(a) => a >= 0
    BY <1>2 DEF IsFinite
  <1> QED BY <1>5, <1>6, <1>7, <1>8, <1>10, <1>11, <1>12 DEF IsFinite, n

LEMMA ServoInit == Init => ServoInv
  <1> SUFFICES ASSUME Init PROVE ServoInv
    OBVIOUS
  <1>1. command \in CommandRecords
    BY Numbers DEF Init, CommandRecords
  <1>2. command.velocity_limit = NaN /\ command.accel_limit = NaN
    BY DEF Init
  <1>3. LimitsInPlace
    BY <1>2 DEF LimitsInPlace, IsFinite
  <1>4. sent \in 0..MaxCommands /\ pushes \in 0..MaxPushes
    BY BoundsAssumption DEF Init
  <1>5. /\ active \in BOOLEAN /\ normalized \in BOOLEAN /\ trajectory_done \in BOOLEAN
        /\ position \in Number /\ velocity \in Number /\ (IsFinite(position) <=> IsFinite(velocity))
    BY Numbers DEF Init
  <1> QED BY <1>1, <1>3, <1>4, <1>5 DEF ServoInv, TypeOK

(* What a tick does to the command: its limits stay, its velocity may become *)
(* zero.                                                                    *)
LEMMA TickCommand ==
  ASSUME TypeOK, Tick
  PROVE  /\ command' \in CommandRecords
         /\ command'.velocity = command.velocity \/ command'.velocity = 0
         /\ command'.velocity_limit = command.velocity_limit
         /\ command'.accel_limit = command.accel_limit
  <1>1. PICK t : /\ Ends(TickState, t)
                 /\ command' = [command EXCEPT !.position = t.position, !.velocity = t.velocity]
    BY TickStep
  <1>2. t.position \in Number /\ t.velocity \in Int
    BY <1>1 DEF Ends, Moving, Ticking
  <1>3. t.velocity = command.velocity \/ t.velocity = 0
    BY <1>1 DEF Ends, TickState
  <1>4. command \in CommandRecords
    BY DEF TypeOK
  <1> QED BY <1>1, <1>2, <1>3, <1>4 DEF CommandRecords

LEMMA ServoStep == ServoInv /\ [Next]_vars => ServoInv'
  <1> SUFFICES ASSUME ServoInv, [Next]_vars PROVE ServoInv'
    OBVIOUS
  <1>1. TypeOK /\ (normalized => LimitsInPlace)
    BY DEF ServoInv
  <1>2. ASSUME NEW c \in Commands, Start(c) PROVE ServoInv'
    <2>1. c \in CommandRecords
      BY CommandsAssumption
    <2>2. command' \in CommandRecords /\ LimitsInPlace'
      BY <1>2, <2>1, Normal DEF Start, LimitsInPlace
    <2>3. sent' \in 0..MaxCommands
      BY <1>1, <1>2, BoundsAssumption DEF Start, TypeOK
    <2>4. (/\ active \in BOOLEAN /\ normalized \in BOOLEAN /\ trajectory_done \in BOOLEAN
           /\ position \in Number /\ velocity \in Number
           /\ (IsFinite(position) <=> IsFinite(velocity)) /\ pushes \in 0..MaxPushes)'
      BY <1>1, <1>2, Numbers DEF Start, TypeOK
    <2> QED BY <2>2, <2>3, <2>4 DEF ServoInv, TypeOK
  <1>3. ASSUME NEW c \in Commands, CopyCommand(c) PROVE ServoInv'
    <2>1. command' \in CommandRecords
      BY <1>3, CommandsAssumption DEF CopyCommand
    <2>2. sent' \in 0..MaxCommands
      BY <1>1, <1>3, BoundsAssumption DEF CopyCommand, TypeOK
    <2>3. (/\ active \in BOOLEAN /\ normalized \in BOOLEAN /\ trajectory_done \in BOOLEAN
           /\ position \in Number /\ velocity \in Number
           /\ (IsFinite(position) <=> IsFinite(velocity)) /\ pushes \in 0..MaxPushes)'
      BY <1>1, <1>3 DEF CopyCommand, TypeOK, control
    <2>4. normalized' = FALSE
      BY <1>3 DEF CopyCommand
    <2> QED BY <2>1, <2>2, <2>3, <2>4 DEF ServoInv, TypeOK
  <1>4. CASE FinishCommand
    <2>1. command' \in CommandRecords /\ LimitsInPlace'
      <3>1. command \in CommandRecords
        BY <1>1 DEF TypeOK
      <3> QED BY <1>4, <3>1, Normal DEF FinishCommand, LimitsInPlace
    <2>2. (/\ active \in BOOLEAN /\ normalized \in BOOLEAN /\ trajectory_done \in BOOLEAN
           /\ position \in Number /\ velocity \in Number
           /\ (IsFinite(position) <=> IsFinite(velocity))
           /\ sent \in 0..MaxCommands /\ pushes \in 0..MaxPushes)'
      BY <1>1, <1>4 DEF FinishCommand, TypeOK
    <2> QED BY <2>1, <2>2 DEF ServoInv, TypeOK
  <1>5. CASE Stop
    <2>1. TypeOK'
      BY <1>1, <1>5, Numbers DEF Stop, TypeOK
    <2>2. (normalized => LimitsInPlace)'
      BY <1>1, <1>5 DEF Stop, LimitsInPlace
    <2> QED BY <2>1, <2>2 DEF ServoInv
  <1>6. CASE Tick
    <2>1. /\ command' \in CommandRecords
          /\ command'.velocity = command.velocity \/ command'.velocity = 0
          /\ command'.velocity_limit = command.velocity_limit
          /\ command'.accel_limit = command.accel_limit
      BY <1>1, <1>6, TickCommand
    <2>2. PICK t : /\ Ends(TickState, t) /\ pushes' \in 0..MaxPushes
                   /\ position' = t.pos /\ velocity' = t.vel /\ trajectory_done' = t.done
                   /\ UNCHANGED <<active, normalized, sent>>
      BY <1>1, <1>6, TickStep
    <2>3. position' \in Int /\ velocity' \in Int /\ trajectory_done' \in BOOLEAN
      BY <2>2 DEF Ends, Moving, Ticking
    <2>4. (/\ position \in Number /\ velocity \in Number
           /\ (IsFinite(position) <=> IsFinite(velocity)))'
      BY <2>3, Numbers
    <2>5. TypeOK'
      BY <1>1, <2>1, <2>2, <2>3, <2>4 DEF TypeOK
    <2>6. (normalized => LimitsInPlace)'
      <3> SUFFICES ASSUME normalized' PROVE LimitsInPlace'
        OBVIOUS
      <3>1. LimitsInPlace
        BY <1>1, <2>2
      <3>2. IsFinite(command.velocity_limit) => Abs(command'.velocity) <= command.velocity_limit
        BY <2>1, <3>1, LimitsAssumption DEF LimitsInPlace, Abs
      <3> QED BY <2>1, <3>1, <3>2 DEF LimitsInPlace
    <2> QED BY <2>5, <2>6 DEF ServoInv
  <1>7. CASE UNCHANGED vars
    <2>1. TypeOK'
      BY <1>1, <1>7 DEF vars, control, TypeOK
    <2>2. (normalized => LimitsInPlace)'
      BY <1>1, <1>7 DEF vars, LimitsInPlace
    <2> QED BY <2>1, <2>2 DEF ServoInv
  <1> QED BY <1>2, <1>3, <1>4, <1>5, <1>6, <1>7 DEF Next

(* NormalizeCommandLimits and the whole of a tick: outside the window of a  *)
(* refresh the limits of the command are in place, and what a tick keeps of *)
(* a command and of a trajectory is of its type.                            *)
THEOREM ServoInductive == Spec => []ServoInv
  BY ServoInit, ServoStep, PTL DEF Spec

-----------------------------------------------------------------------------
(* The limits.                                                              *)

(* The limits that normalising arrives at depend on the limits alone. *)
LEMMA LimitsOfLimits ==
  ASSUME NEW c \in CommandRecords, NEW d \in CommandRecords, SameLimits(c, d)
  PROVE  SameLimits(NormalizeCommandLimits(c), NormalizeCommandLimits(d))
  <1>1. NormalVelocityLimit(c) = NormalVelocityLimit(d)
    BY DEF NormalVelocityLimit, SameLimits
  <1>2. ASSUME NEW e \in CommandRecords
        PROVE  /\ NormalizeCommandLimits(e).velocity_limit = NormalVelocityLimit(e)
               /\ NormalizeCommandLimits(e).accel_limit = Defaulted(e.accel_limit, DefaultAccel)
    BY DEF CommandRecords, NormalizeCommandLimits
  <1> QED BY <1>1, <1>2 DEF SameLimits

LEMMA OriginStep ==
  ASSUME ServoInv, OriginInv, [Next]_vars
  PROVE  OriginInv'
  <1>1. TypeOK
    BY DEF ServoInv
  <1>2. ASSUME NEW c \in Commands, Start(c) PROVE OriginInv'
    BY <1>2 DEF Start, OriginInv, SameLimits
  <1>3. ASSUME NEW c \in Commands, CopyCommand(c) PROVE OriginInv'
    BY <1>3 DEF CopyCommand, OriginInv, SameLimits
  <1>4. CASE FinishCommand
    <2>1. PICK c \in Commands : SameLimits(command, c)
      BY <1>4 DEF FinishCommand, OriginInv
    <2>2. c \in CommandRecords /\ command \in CommandRecords
      BY <1>1, CommandsAssumption DEF TypeOK
    <2>3. SameLimits(NormalizeCommandLimits(command), NormalizeCommandLimits(c))
      BY <2>1, <2>2, LimitsOfLimits
    <2>4. normalized' /\ command' = NormalizeCommandLimits(command)
      BY <1>4 DEF FinishCommand
    <2> QED BY <2>3, <2>4 DEF OriginInv
  <1>5. CASE Stop
    BY <1>5 DEF Stop, OriginInv
  <1>6. CASE Tick
    <2>1. SameLimits(command', command)
      BY <1>1, <1>6, TickCommand DEF SameLimits
    <2>2. normalized' = normalized
      BY <1>6 DEF Tick
    <2> QED BY <2>1, <2>2 DEF OriginInv, SameLimits
  <1>7. CASE UNCHANGED vars
    BY <1>7 DEF vars, OriginInv
  <1> QED BY <1>2, <1>3, <1>4, <1>5, <1>6, <1>7 DEF Next

LEMMA OriginInductive == Spec => []OriginInv
  <1>1. Init => OriginInv
    BY DEF Init, OriginInv, IsFinite
  <1>2. ServoInv /\ OriginInv /\ [Next]_vars => OriginInv'
    BY OriginStep
  <1> QED BY <1>1, <1>2, ServoInductive, PTL DEF Spec

(* What is asked of all commands holds of the one in place. *)
LEMMA CommandOfCommands ==
  ASSUME OriginInv, normalized
  PROVE  (GentleCommands => Gentle(command)) /\ (FineCommands => Fine(command))
  BY DEF OriginInv, SameLimits, GentleCommands, FineCommands, Gentle, Fine

(* The step of a planned tick, disassembled. *)
LEMMA PlannedStep ==
  ASSUME TypeOK, [Next]_vars, PlannedTick
  PROVE  \/ UNCHANGED vars
         \/ \E m, p, t :
              /\ Starting(TickState, m) /\ Moving(TickState)
              /\ p \in UpdateTrajectory(TickState, m) /\ Ends(TickState, p)
              /\ t = FinishTrajectoryGuards(p, 0)
              /\ position' = t.pos /\ velocity' = t.vel
  <1> USE DEF PlannedTick
  <1>1. ASSUME NEW c \in Commands, Start(c) PROVE FALSE
    BY <1>1 DEF Start
  <1>2. ASSUME NEW c \in Commands, CopyCommand(c) PROVE FALSE
    BY <1>2, BoundsAssumption DEF CopyCommand, TypeOK
  <1>3. ~FinishCommand /\ ~Stop
    BY DEF FinishCommand, Stop
  <1>4. CASE Tick
    <2>1. PICK m, p, error, t :
              /\ Starting(TickState, m) /\ p \in UpdateTrajectory(TickState, m)
              /\ t = FinishTrajectoryGuards(p, error)
              /\ pushes' = pushes => error = 0
              /\ position' = t.pos /\ velocity' = t.vel
      BY <1>4, TickStep
    <2>2. Moving(TickState)
      <3>1. position \in Int /\ velocity \in Int
        BY Numbers DEF TypeOK
      <3> QED BY <2>1, <3>1 DEF Starting, Moving, TickState
    <2>3. Ends(TickState, p)
      BY <2>1, UpdateEnds
    <2> QED BY <2>1, <2>2, <2>3
  <1> QED BY <1>1, <1>2, <1>3, <1>4 DEF Next

(* A sample that was planned from e, the trajectory and its command, as q. *)
Sampled(e, q) ==
  /\ Moving(e) /\ e.pos = position /\ e.vel = velocity
  /\ e.velocity = command.velocity /\ e.position = command.position
  /\ e.velocity_limit = command.velocity_limit /\ e.accel_limit = command.accel_limit
  /\ e.done => ~IsFinite(command.position) /\ command.velocity = 0
  /\ q \in Planned(e) /\ Plans(e, q) /\ (Bounded(e) => Kept(e, q.vel))
  /\ velocity' = q.vel
  /\ position' = position + (IF q.accel # 0 THEN velocity + q.vel ELSE 2 * q.vel)
  /\ BeforeStop(command, position', velocity')

(* A planned tick with limits ends at the stop or where the plan takes it. *)
LEMMA LimitedSample ==
  ASSUME ServoInv, [Next]_vars, PlannedTick,
         IsFinite(command.velocity_limit) \/ IsFinite(command.accel_limit)
  PROVE  \/ UNCHANGED vars
         \/ IsFinite(command.stop) /\ position' = command.stop /\ velocity' = 0
         \/ \E e, q : Sampled(e, q)
  <1>1. TypeOK
    BY DEF ServoInv
  <1> SUFFICES ASSUME ~(UNCHANGED vars)
               PROVE  \/ IsFinite(command.stop) /\ position' = command.stop /\ velocity' = 0
                      \/ \E e, q : Sampled(e, q)
    OBVIOUS
  <1>2. PICK m, p, t :
              /\ Starting(TickState, m) /\ Moving(TickState)
              /\ p \in UpdateTrajectory(TickState, m) /\ Ends(TickState, p)
              /\ t = FinishTrajectoryGuards(p, 0)
              /\ position' = t.pos /\ velocity' = t.vel
    BY <1>1, PlannedStep
  <1> DEFINE s == TickState
  <1>3. /\ s.position = command.position /\ s.velocity = command.velocity
        /\ s.stop = command.stop /\ s.velocity_limit = command.velocity_limit
        /\ s.accel_limit = command.accel_limit /\ s.pos = position /\ s.vel = velocity
    BY DEF TickState
  <1> HIDE DEF s
  <1>4. p \in Limited(s, m)
    BY <1>2, <1>3 DEF UpdateTrajectory, s
  <1>5. PICK e, q :
           /\ Ends(s, e) /\ e.velocity = s.velocity /\ e.position = s.position
           /\ e.done => ~IsFinite(s.position) /\ s.velocity = 0
           /\ IsFinite(s.pos) => e.pos = s.pos /\ e.vel = s.vel
           /\ q \in Planned(e)
           /\ p = Integrated(KilledAtStop(q), e.vel)
    BY <1>2, <1>4, LimitedTick DEF s
  <1>6. /\ Moving(e) /\ e.vel \in Int /\ e.stop = command.stop /\ e.pos = position /\ e.vel = velocity
        /\ e.velocity_limit = command.velocity_limit /\ e.accel_limit = command.accel_limit
    BY <1>3, <1>5 DEF Ends, Moving, PlannedTick
  <1>7. Plans(e, q) /\ (Bounded(e) => Kept(e, q.vel))
    BY <1>5, <1>6, PlannedPlans
  <1>8. Moving(q) /\ q.stop = command.stop /\ q.pos = position
    BY <1>6, <1>7 DEF Plans
  <1>9. /\ Ends(q, p)
        /\ \/ IsFinite(q.stop) /\ p.pos = q.stop /\ p.vel = 0
           \/ /\ p.vel = q.vel
              /\ p.pos = q.pos + (IF q.accel # 0 THEN e.vel + q.vel ELSE 2 * q.vel)
    BY <1>5, <1>6, <1>8, IntegratedEnds
  <1>10. Moving(p) /\ p.stop = command.stop
    BY <1>8, <1>9 DEF Ends
  <1>11. \/ IsFinite(p.stop) /\ t.pos = p.stop /\ t.vel = 0
         \/ t.pos = p.pos /\ t.vel = p.vel /\ BeforeStop(p, p.pos, p.vel)
    BY <1>2, <1>10, GuardsSample
  <1>12. CASE IsFinite(p.stop) /\ t.pos = p.stop /\ t.vel = 0
    BY <1>2, <1>10, <1>12
  <1>13. CASE t.pos = p.pos /\ t.vel = p.vel /\ BeforeStop(p, p.pos, p.vel)
    <2>1. CASE IsFinite(q.stop) /\ p.pos = q.stop /\ p.vel = 0
      BY <1>2, <1>8, <1>13, <2>1
    <2>2. CASE /\ p.vel = q.vel
               /\ p.pos = q.pos + (IF q.accel # 0 THEN e.vel + q.vel ELSE 2 * q.vel)
      <3>1. velocity' = q.vel
        BY <1>2, <1>13, <2>2
      <3>2. position' = position + (IF q.accel # 0 THEN velocity + q.vel ELSE 2 * q.vel)
        BY <1>2, <1>6, <1>8, <1>13, <2>2
      <3>3. BeforeStop(command, position', velocity')
        BY <1>2, <1>10, <1>13 DEF BeforeStop
      <3> QED BY <1>3, <1>5, <1>6, <1>7, <3>1, <3>2, <3>3 DEF Sampled
    <2> QED BY <1>9, <2>1, <2>2
  <1> QED BY <1>11, <1>12, <1>13

LEMMA LimitsStep ==
  ASSUME GentleCommands, ServoInv, OriginInv, [Next]_vars, PlannedTick,
         IsFinite(command.velocity_limit)
  PROVE  WithinLimits
  <1> DEFINE l == command.velocity_limit
             x == velocity
             a == command.accel_limit
             fastest == Farther(Abs(x), l)
  <1>1. TypeOK /\ LimitsInPlace /\ Gentle(command)
    BY CommandOfCommands DEF ServoInv, PlannedTick
  <1>2. /\ x \in Int /\ position \in Int /\ l \in Nat /\ l <= MaxVelocity
        /\ command.velocity \in Int /\ Abs(command.velocity) <= l
    BY <1>1, Numbers, LimitsAssumption DEF TypeOK, CommandRecords, LimitsInPlace, PlannedTick
  <1>3. IsFinite(a) => a \in Int /\ 0 <= a /\ a <= l
    BY <1>1, Numbers DEF TypeOK, CommandRecords, LimitsInPlace, Gentle
  <1>4. fastest \in Nat /\ Abs(x) <= fastest /\ fastest <= Farther(Abs(x), MaxVelocity)
    BY <1>2, LimitsAssumption DEF Abs, Farther
  <1>5. CASE UNCHANGED vars
    <2>1. velocity' = x /\ position' = position
      BY <1>5 DEF vars, control
    <2>2. Abs(x - x) = 0 /\ Abs(position - position) = 0
      BY <1>2 DEF Abs
    <2> QED BY <1>3, <1>4, <2>1, <2>2 DEF WithinLimits
  <1>6. CASE IsFinite(command.stop) /\ position' = command.stop /\ velocity' = 0
    <2>1. Abs(velocity') = 0
      BY <1>6 DEF Abs
    <2> QED BY <1>4, <1>6, <2>1 DEF WithinLimits
  <1>7. ASSUME NEW e, NEW q, Sampled(e, q)
        PROVE  WithinLimits
    <2>1. q.vel \in Int
      BY <1>7 DEF Sampled, Plans, Moving
    <2>2. Kept(e, q.vel)
      BY <1>2, <1>3, <1>7 DEF Sampled, Bounded
    <2>3. Abs(velocity') <= fastest /\ (IsFinite(a) => 2 * Abs(velocity' - x) <= 3 * a)
      BY <1>7, <2>2 DEF Sampled, Kept
    <2> DEFINE d == position' - position
               y == velocity'
    <2>4. d = x + y \/ d = 2 * y
      BY <1>2, <1>7, <2>1 DEF Sampled
    <2>5. y \in Int /\ d \in Int /\ Abs(y) <= fastest
      BY <1>2, <1>7, <2>1, <2>3 DEF Sampled
    <2> HIDE DEF fastest, d, y
    <2>6. Abs(d) <= 2 * fastest
      BY <1>2, <1>4, <2>4, <2>5 DEF Abs
    <2> QED BY <1>4, <2>3, <2>6 DEF WithinLimits, fastest, d, y
  <1> QED BY <1>5, <1>6, <1>7, LimitedSample

(* UpdateTrajectory with CalculateAcceleration: no tick of a trajectory      *)
(* leaves the limits of its command, whatever it was doing when the command *)
(* came, for all commands and limits in which a tick of acceleration is no  *)
(* more than the velocity limit.  The hypothesis is needed: with more, the  *)
(* setpoint swings across zero and beyond its limit.                        *)
THEOREM LimitsKept == ASSUME GentleCommands PROVE Spec => LimitsHold
  <1>1. ServoInv /\ OriginInv /\ [Next]_vars =>
          [PlannedTick /\ IsFinite(command.velocity_limit) => WithinLimits]_vars
    BY LimitsStep
  <1> QED BY <1>1, ServoInductive, OriginInductive, PTL DEF Spec, LimitsHold

-----------------------------------------------------------------------------
(* The stop.                                                                *)

(* The signs of a velocity command towards its stop. *)
LEMMA Signs ==
  \A v \in Int, y \in Int : v # 0 /\ v * y >= 0 => (v > 0 /\ y >= 0) \/ (v < 0 /\ y <= 0)
  <1> SUFFICES ASSUME NEW v \in Int, NEW y \in Int, v # 0, v * y >= 0
               PROVE  (v > 0 /\ y >= 0) \/ (v < 0 /\ y <= 0)
    OBVIOUS
  <1>1. \A m \in Nat \ {0}, n \in Nat \ {0} : m * n > 0
    BY SMT
  <1>2. ~(v > 0 /\ y < 0)
    <2> SUFFICES ASSUME v > 0, y < 0 PROVE FALSE
      OBVIOUS
    <2>1. v * (-y) > 0
      BY <1>1
    <2>2. v * (-y) = -(v * y)
      OBVIOUS
    <2> QED BY <2>1, <2>2
  <1>3. ~(v < 0 /\ y > 0)
    <2> SUFFICES ASSUME v < 0, y > 0 PROVE FALSE
      OBVIOUS
    <2>1. (-v) * y > 0
      BY <1>1
    <2>2. (-v) * y = -(v * y)
      OBVIOUS
    <2> QED BY <2>1, <2>2
  <1> QED BY <1>2, <1>3

(* A sample on the way to the stop is on this side of it. *)
LEMMA OnTheWay ==
  ASSUME NEW pos \in Int, NEW stop \in Int, NEW v \in Int, NEW y \in Int, NEW d \in Int,
         v # 0, v * (stop - pos) >= 0,
         v > 0 => y >= 0 /\ d >= 0, v < 0 => y <= 0 /\ d <= 0,
         y = 0 => d = 0,
         ~(y > 0 /\ pos + d >= stop), ~(y < 0 /\ pos + d <= stop)
  PROVE  Between(pos + d, pos, stop)
  <1>1. (v > 0 /\ stop - pos >= 0) \/ (v < 0 /\ stop - pos <= 0)
    BY Signs
  <1> QED BY <1>1 DEF Between

LEMMA StopStep ==
  ASSUME ServoInv, [Next]_vars, PlannedTick,
         IsFinite(command.stop), ~IsFinite(command.position), command.velocity # 0,
         velocity * command.velocity >= 0,
         command.velocity * (command.stop - position) >= 0
  PROVE  Between(position', position, command.stop)
  <1> DEFINE v == command.velocity
             x == velocity
             stop == command.stop
  <1>1. TypeOK /\ LimitsInPlace
    BY DEF ServoInv, PlannedTick
  <1>2. x \in Int /\ position \in Int /\ v \in Int /\ stop \in Int
        /\ command.accel_limit \in Number
    BY <1>1, Numbers DEF TypeOK, CommandRecords, PlannedTick
  <1>3. v * x >= 0
    <2>1. \A m \in Int, n \in Int : m * n = n * m
      BY SMT
    <2>2. v * x = x * v
      BY <1>2, <2>1
    <2> QED BY <2>2
  <1>4. (v > 0 /\ x >= 0) \/ (v < 0 /\ x <= 0)
    BY <1>2, <1>3, Signs
  <1>5. CASE UNCHANGED vars
    <2>1. position' = position
      BY <1>5 DEF vars, control
    <2> QED BY <1>2, <2>1 DEF Between
  <1>6. CASE position' = stop
    BY <1>2, <1>6 DEF Between
  <1>7. CASE IsFinite(command.velocity_limit) \/ IsFinite(command.accel_limit)
    <2> SUFFICES ASSUME NEW e, NEW q, Sampled(e, q) PROVE Between(position', position, stop)
      BY <1>5, <1>6, <1>7, LimitedSample
    <2>1. q = VelocityMode(e)
      <3>1. ~e.done /\ ~IsFinite(e.position)
        BY DEF Sampled
      <3>2. q \in Planned(e)
        BY DEF Sampled
      <3> QED BY <3>1, <3>2 DEF Planned
    <2> DEFINE y == q.vel
               d == IF q.accel # 0 THEN x + y ELSE 2 * y
    <2>2. e.vel = x /\ e.velocity = v /\ Moving(e) /\ e.accel_limit = command.accel_limit
      BY DEF Sampled
    <2>3. e.accel_limit \in Nat \/ ~IsFinite(e.accel_limit)
      BY <1>1, <1>2, <2>2, Numbers DEF LimitsInPlace
    <2>4. Between(y, x, v) /\ (y = x => x = v \/ q.accel = 0)
      BY <2>1, <2>2, <2>3, VelocityModePlans
    <2>5. y \in Int
      BY DEF Sampled, Plans, Moving
    <2>6. position' = position + d /\ velocity' = y /\ BeforeStop(command, position', velocity')
      BY DEF Sampled
    <2>7. (v > 0 => y >= 0) /\ (v < 0 => y <= 0)
      BY <1>2, <1>4, <2>4, <2>5 DEF Between
    <2>8. y = 0 => q.accel = 0
      BY <1>2, <1>4, <2>4, <2>5 DEF Between
    <2> HIDE DEF v, x, stop, y
    <2>9. d \in Int /\ (v > 0 => d >= 0) /\ (v < 0 => d <= 0) /\ (y = 0 => d = 0)
      BY <1>2, <1>4, <2>5, <2>7, <2>8
    <2>10. ~(y > 0 /\ position + d >= stop) /\ ~(y < 0 /\ position + d <= stop)
      BY <2>6 DEF BeforeStop, stop
    <2> HIDE DEF d
    <2>11. v # 0 /\ v * (stop - position) >= 0
      BY DEF v, stop
    <2> QED BY <1>2, <2>5, <2>6, <2>7, <2>9, <2>10, <2>11, OnTheWay
  <1>8. CASE ~(IsFinite(command.velocity_limit) \/ IsFinite(command.accel_limit))
    <2> SUFFICES ASSUME NEW m, NEW p, NEW t,
                        Starting(TickState, m), Moving(TickState),
                        p \in UpdateTrajectory(TickState, m), Ends(TickState, p),
                        t = FinishTrajectoryGuards(p, 0),
                        position' = t.pos, velocity' = t.vel
                 PROVE  Between(position', position, stop)
      BY <1>1, <1>5, PlannedStep
    <2> DEFINE s == TickState
               e == [s EXCEPT !.vel = s.velocity, !.accel = 0, !.done = TRUE]
               f == EnsureControlState(e, m)
    <2>1. /\ s.position = command.position /\ s.velocity = v
          /\ s.stop = stop /\ s.velocity_limit = command.velocity_limit
          /\ s.accel_limit = command.accel_limit /\ s.pos = position /\ s.vel = x
      BY DEF TickState
    <2> HIDE DEF s
    <2>2. p = [f EXCEPT !.pos = f.pos + 2 * f.vel]
      BY <1>8, <2>1 DEF UpdateTrajectory, Unlimited, s
    <2>3. Moving(e) /\ e.pos = position /\ e.vel = v /\ e.stop = stop
      BY <1>2, <2>1, Numbers DEF Moving, Ticking, Fields, s
    <2> HIDE DEF e
    <2>4. f = e
      <3>1. IsFinite(e.pos)
        BY <1>2, <2>3, Numbers
      <3> QED BY <3>1 DEF EnsureControlState
    <2> HIDE DEF f
    <2>5. p.pos = position + 2 * v /\ p.vel = v /\ p.stop = stop
      BY <2>2, <2>3, <2>4 DEF Moving, Ticking, Fields
    <2>6. Moving(p)
      BY DEF Ends
    <2>7. \/ t.pos = stop
          \/ t.pos = p.pos /\ t.vel = p.vel /\ BeforeStop(p, p.pos, p.vel)
      BY <2>5, <2>6, GuardsSample
    <2>8. CASE t.pos = stop
      BY <1>6, <2>8
    <2>9. CASE t.pos = p.pos /\ t.vel = p.vel /\ BeforeStop(p, p.pos, p.vel)
      <3>1. position' = position + 2 * v
        BY <2>5, <2>9
      <3>2. ~(v > 0 /\ position + 2 * v >= stop) /\ ~(v < 0 /\ position + 2 * v <= stop)
        BY <2>5, <2>9 DEF BeforeStop
      <3>3. v # 0 /\ v * (stop - position) >= 0
        OBVIOUS
      <3> HIDE DEF v, x, stop
      <3> DEFINE d == 2 * v
      <3>4. d \in Int /\ (v > 0 => d >= 0) /\ (v < 0 => d <= 0) /\ (v = 0 => d = 0)
        BY <1>2
      <3>5. Between(position + d, position, stop)
        <4>1. ~(v > 0 /\ position + d >= stop) /\ ~(v < 0 /\ position + d <= stop)
          BY <3>2
        <4>2. (v > 0 => v >= 0 /\ d >= 0) /\ (v < 0 => v <= 0 /\ d <= 0)
          BY <1>2, <3>4
        <4> HIDE DEF d
        <4> QED BY <1>2, <3>3, <3>4, <4>1, <4>2, OnTheWay
      <3> QED BY <3>1, <3>5
    <2> QED BY <2>7, <2>8, <2>9
  <1> QED BY <1>7, <1>8

(* FinishTrajectoryGuards with UpdateTrajectory: whatever the limits, and    *)
(* without any, a velocity command brings the setpoint to its stop and      *)
(* never a sample past it.                                                  *)
THEOREM StopIsHeld == Spec => StopHolds
  <1>1. ServoInv /\ [Next]_vars =>
          [PlannedTick /\ IsFinite(command.stop) /\ ~IsFinite(command.position)
             /\ command.velocity # 0
             /\ velocity * command.velocity >= 0
             /\ command.velocity * (command.stop - position) >= 0
             => Between(position', position, command.stop)]_vars
    BY StopStep
  <1> QED BY <1>1, ServoInductive, PTL DEF Spec, StopHolds

-----------------------------------------------------------------------------
(* The way a trajectory needs to come to rest.                              *)

(* What a trajectory can still do: with the velocity v and e to go, it comes *)
(* to rest no more than 19 ticks of acceleration behind its target.          *)
Settles(v, e, a) ==
  /\ v > 0 => v * v - a * e <= 19 * (a * a)
  /\ v < 0 => v * v + a * e <= 19 * (a * a)

(* The acceleration of a tick at the velocity v >= 0, with e to go. *)
Accelerates(v, e, a, l, r) ==
  \/ v > 0 /\ e <= 0 /\ r = -a
  \/ e > 0 /\ \E q \in Required(v, e, a) : r = -q
  \/ e > 0 /\ ~MustBrake(v, e, a) /\ r = IF v = l THEN 0 ELSE a

(* The velocity that it comes to, held at the limit, and the way. *)
Carries(v, r, l, w, d) ==
  IF v < l /\ v + r > l THEN w = l /\ d = 2 * l ELSE w = v + r /\ d = v + w

(* It stays where it may be. *)
Stays(w, e, a, l, d) ==
  /\ -l <= w /\ w <= l
  /\ Settles(w, e - d, a)
  /\ d > 0 => e - d >= -(20 * a)
  /\ d < 0 => e - d <= 20 * a

LEMMA Products ==
  /\ \A x, y \in Int : x * y \in Int /\ x * y = y * x /\ (-x) * (-y) = x * y /\ x * (-y) = -(x * y)
  /\ \A x, y \in Nat : x * y \in Nat
  /\ \A x \in Int : x * x \in Nat /\ (x # 0 => x * x > 0)
  /\ \A x, y, z \in Int : x <= y /\ z >= 0 => z * x <= z * y
  /\ \A x, y, z \in Int : z * x <= z * y /\ z > 0 => x <= y
  /\ \A x \in Nat : x <= x * x
  /\ \A x, y \in Nat : x <= y => x * x <= y * y
  BY SMT

LEMMA Divides ==
  /\ \A n \in Nat, d \in Nat \ {0} : d * (n \div d) <= n /\ n < d * (n \div d) + d
  /\ \A n \in Nat, d \in Nat \ {0} :
       n <= d * ((n + d - 1) \div d) /\ d * ((n + d - 1) \div d) < n + d
  BY SMT

(* Rounded either way, the deceleration is off by less than one. *)
LEMMA RequiredRounds ==
  ASSUME NEW v \in Nat, NEW e \in Nat \ {0}, NEW a \in Nat, NEW q \in Required(v, e, a)
  PROVE  /\ e * q < v * v + e
         /\ q < a => v * v < e * q + e
  <1> DEFINE n == v * v
  <1>1. n \in Nat
    BY Products
  <1>2. PICK x \in {n \div e, (n + e - 1) \div e} : q = IF x > a THEN a ELSE x
    BY DEF Required
  <1> HIDE DEF n
  <1>3. n \div e \in Int /\ (n + e - 1) \div e \in Int
    BY <1>1, SMT
  <1>4. x \in Int /\ e * x < n + e /\ n < e * x + e
    <2>1. e * (n \div e) <= n /\ n < e * (n \div e) + e
      BY <1>1, Divides
    <2>2. n <= e * ((n + e - 1) \div e) /\ e * ((n + e - 1) \div e) < n + e
      BY <1>1, Divides
    <2> DEFINE y == n \div e
               z == (n + e - 1) \div e
    <2>3. y \in Int /\ z \in Int /\ x \in {y, z}
      BY <1>2, <1>3
    <2> HIDE DEF y, z
    <2>4. e * y \in Int /\ e * z \in Int
      BY <2>3, Products
    <2>5. e * y < n + e /\ n < e * y + e /\ e * z < n + e /\ n < e * z + e
      BY <1>1, <2>1, <2>2, <2>4 DEF y, z
    <2> QED BY <2>3, <2>5
  <1>5. q \in Int /\ q <= x /\ (q < a => q = x)
    BY <1>2, <1>4
  <1>6. e * q \in Int /\ e * x \in Int /\ e * q <= e * x
    BY <1>4, <1>5, Products
  <1> HIDE DEF n
  <1>7. e * q < n + e /\ (q < a => n < e * q + e)
    BY <1>1, <1>4, <1>5, <1>6
  <1> QED BY <1>7 DEF n

(* What a tick of deceleration does to the way the trajectory needs. *)
LEMMA Slower ==
  ASSUME NEW v \in Int, NEW e \in Int, NEW a \in Int, NEW q \in Int
  PROVE  (v - q) * (v - q) - a * (e - (v + (v - q))) = v * v - a * e + (a - q) * (2 * v - q)
  OBVIOUS

(* Braking with less than the acceleration limit, rounded down by one. *)
LEMMA RoundedDown ==
  ASSUME NEW v \in Nat, NEW e \in Nat \ {0}, NEW a \in Nat, NEW q \in Nat, q < a,
         v * v < e * q + e
  PROVE  v * v - a * e + (a - q) * (2 * v - q) <= 2 * v + a
  <1> DEFINE s == q + 1
             n == v * v - a * e + (a - q) * (2 * v - q)
             m == 2 * v + a
  <1>1. s * e >= v * v + 1
    OBVIOUS
  <1>2. a * (s * e) >= a * (v * v + 1)
    BY <1>1
  <1>3. (a - s) * ((v - s) * (v - s)) >= 0
    <2>1. a - s \in Nat /\ (v - s) * (v - s) \in Nat
      BY Products
    <2> QED BY <2>1, Products
  <1>4. s * m - s * n = a * (s * e) - a * (v * v + 1) + (a - s) * ((v - s) * (v - s)) + a
                          + s * (2 * s - 1)
    OBVIOUS
  <1>5. s * (2 * s - 1) >= 0
    BY Products
  <1>6. s * n <= s * m
    BY <1>2, <1>3, <1>4, <1>5
  <1>7. n \in Int /\ m \in Int /\ s \in Int /\ s > 0
    OBVIOUS
  <1> HIDE DEF s, n, m
  <1>8. n <= m
    BY <1>6, <1>7, Products
  <1> QED BY <1>8 DEF n, m

(* In a tick of deceleration the trajectory stays where it may be. *)
LEMMA BrakingStays ==
  ASSUME NEW v \in Nat, NEW e \in Int, NEW a \in Nat, NEW l \in Nat, NEW q \in Nat,
         v <= l, a <= l, a > 0 => l <= 9 * a * a,
         Settles(v, e, a), q <= a,
         \/ v > 0 /\ e <= 0 /\ q = a
         \/ e > 0 /\ e * q < v * v + e /\ (q < a => v * v < e * q + e)
  PROVE  Settles(v - q, e - (v + (v - q)), a)
  <1> DEFINE w == v - q
             d == v + w
  <1>1. w * w - a * (e - d) = v * v - a * e + (a - q) * (2 * v - q)
    BY Slower
  <1>2. w > 0 => w * w - a * (e - d) <= 19 * (a * a)
    <2>1. CASE q = a
      <3>1. (a - q) * (2 * v - q) = 0
        BY <2>1
      <3> QED BY <1>1, <3>1 DEF Settles
    <2>2. CASE q < a
      <3>1. v * v - a * e + (a - q) * (2 * v - q) <= 2 * v + a
        BY <2>2, RoundedDown
      <3>2. 2 * v + a <= 19 * (a * a)
        <4>1. a <= a * a /\ a * a \in Nat
          BY Products
        <4>2. 9 * a * a = 9 * (a * a)
          OBVIOUS
        <4> QED BY <2>2, <4>1, <4>2
      <3> QED BY <1>1, <3>1, <3>2
    <2> QED BY <2>1, <2>2
  <1>3. w < 0 => w * w + a * (e - d) <= 19 * (a * a)
    <2> SUFFICES ASSUME w < 0 PROVE w * w + a * (e - d) <= 19 * (a * a)
      OBVIOUS
    <2>1. -w \in Nat /\ -w <= a
      OBVIOUS
    <2>2. w * w <= a * a
      BY <2>1, Products
    <2>3. e <= v
      <3>1. CASE e <= 0
        BY <3>1
      <3>2. CASE e > 0 /\ e * q < v * v + e
        <4>1. SUFFICES ASSUME e > v PROVE FALSE
          OBVIOUS
        <4>2. q >= v + 1
          OBVIOUS
        <4>3. e * q >= e * (v + 1)
          BY <3>2, <4>2, Products
        <4>4. e * (v + 1) = e * v + e
          OBVIOUS
        <4>5. v * e >= v * v /\ v * e = e * v
          BY <4>1, Products
        <4> QED BY <3>2, <4>3, <4>4, <4>5
      <3> QED BY <3>1, <3>2
    <2>4. e - d <= a
      BY <2>3
    <2>5. a * (e - d) <= a * a
      BY <2>4, Products
    <2>6. a * a \in Nat
      BY Products
    <2> QED BY <2>2, <2>5, <2>6
  <1> QED BY <1>2, <1>3 DEF Settles

(* And in one towards the target, as long as it need not brake. *)
LEMMA TowardsStays ==
  ASSUME NEW v \in Nat, NEW e \in Nat \ {0}, NEW a \in Nat, NEW l \in Nat, NEW w \in Int, NEW d \in Int,
         v <= l, a <= l, ~MustBrake(v, e, a),
         Carries(v, IF v = l THEN 0 ELSE a, l, w, d)
  PROVE  Settles(w, e - d, a) /\ 0 <= w /\ w <= l /\ d >= 0
  <1>1. (e - (v + v + a)) * a >= (v + a) * (v + a)
    BY DEF MustBrake
  <1>2. CASE v = l
    <2>1. w = v /\ d = 2 * v
      BY <1>2 DEF Carries
    <2>2. w * w - a * (e - d) <= 0
      <3>1. (v + a) * (v + a) - (e - (v + v + a)) * a = v * v - a * (e - 2 * v) + 2 * (a * v) + 2 * (a * a)
        OBVIOUS
      <3>2. a * v >= 0 /\ a * a >= 0
        BY Products
      <3> QED BY <1>1, <2>1, <3>1, <3>2
    <2>3. a * a >= 0
      BY Products
    <2> QED BY <1>2, <2>1, <2>2, <2>3 DEF Settles
  <1>3. CASE v < l /\ v + a <= l
    <2>1. w = v + a /\ d = v + v + a
      BY <1>3 DEF Carries
    <2>2. a * (e - d) = (e - d) * a
      BY Products
    <2>3. a * a >= 0
      BY Products
    <2> QED BY <1>1, <1>3, <2>1, <2>2, <2>3 DEF Settles
  <1>4. CASE v < l /\ v + a > l
    <2>1. w = l /\ d = 2 * l
      BY <1>4 DEF Carries
    <2>2. l * l <= (v + a) * (v + a)
      BY <1>4, Products
    <2>3. a * (2 * l) <= a * (2 * (v + a))
      BY <1>4, Products
    <2>5. a * (2 * l) - a * e = -(a * (e - 2 * l))
      OBVIOUS
    <2>6. (v + a) * (v + a) = v * v + 2 * (a * v) + a * a
      OBVIOUS
    <2>7. a * v >= 0 /\ a * a >= 0
      BY Products
    <2>8. l * l - a * (e - 2 * l) <= 19 * (a * a)
      <3>1. (e - (v + v + a)) * a = a * e - 2 * (a * v) - a * a
        OBVIOUS
      <3>2. a * (2 * (v + a)) = 2 * (a * v) + 2 * (a * a)
        OBVIOUS
      <3> QED BY <1>1, <2>2, <2>3, <2>5, <2>6, <2>7, <3>1, <3>2
    <2> QED BY <2>1, <2>8 DEF Settles
  <1> QED BY <1>2, <1>3, <1>4

(* So it is never far behind its target, or before it when it turns back. *)
LEMMA NeverFar ==
  ASSUME NEW v \in Nat, NEW e \in Int, NEW a \in Nat, NEW w \in Int, NEW d \in Int,
         Settles(v, e, a), Settles(w, e - d, a),
         w <= 0 => d = v + w /\ v <= a,
         w > 0 => d > 0
  PROVE  (d > 0 => e - d >= -(20 * a)) /\ (d < 0 => e - d <= 20 * a)
  <1>1. a * a \in Nat /\ w * w \in Nat /\ v * v \in Nat /\ a * v \in Nat
    BY Products
  <1>2. CASE w > 0
    <2>1. w * w > 0
      BY <1>2, Products
    <2>2. a * (e - d) >= -(19 * (a * a))
      BY <1>1, <1>2, <2>1 DEF Settles
    <2>3. a > 0
      <3>1. SUFFICES ASSUME a = 0 PROVE FALSE
        OBVIOUS
      <3>2. a * (e - d) = 0 /\ a * a = 0
        BY <3>1
      <3> QED BY <1>2, <2>1, <3>2 DEF Settles
    <2>4. a * (-(20 * a)) <= a * (e - d)
      BY <1>1, <2>2
    <2>5. -(20 * a) <= e - d
      BY <2>3, <2>4, Products
    <2> QED BY <1>2, <2>5
  <1>3. CASE w <= 0 /\ d > 0
    <2>1. v > 0 /\ v * v > 0
      BY <1>3, Products
    <2>2. a * e >= v * v - 19 * (a * a)
      BY <1>1, <2>1 DEF Settles
    <2>3. a > 0
      BY <1>3, <2>1
    <2>4. a * d <= a * a
      BY <1>3, Products
    <2>5. a * (e - d) = a * e - a * d
      OBVIOUS
    <2>6. a * (-(20 * a)) <= a * (e - d)
      BY <1>1, <2>1, <2>2, <2>4, <2>5
    <2>7. -(20 * a) <= e - d
      BY <2>3, <2>6, Products
    <2> QED BY <1>3, <2>7
  <1>4. CASE w <= 0 /\ d < 0
    <2>1. w < 0 /\ w * w > 0
      BY <1>4, Products
    <2>2. a * (e - d) <= 19 * (a * a)
      BY <1>1, <2>1 DEF Settles
    <2>3. a > 0
      <3>1. SUFFICES ASSUME a = 0 PROVE FALSE
        OBVIOUS
      <3>2. a * (e - d) = 0 /\ a * a = 0
        BY <3>1
      <3> QED BY <2>1, <3>2 DEF Settles
    <2>4. a * (e - d) <= a * (20 * a)
      BY <1>1, <2>2
    <2>5. e - d <= 20 * a
      BY <2>3, <2>4, Products
    <2> QED BY <1>4, <2>5
  <1> QED BY <1>2, <1>3, <1>4

(* What the planner does to a trajectory that goes on as it went. *)
LEMMA AheadStays ==
  ASSUME NEW v \in Nat, NEW e \in Int, NEW a \in Nat, NEW l \in Nat,
         NEW r, NEW w, NEW d,
         v <= l, a <= l, a > 0 => l <= 9 * a * a,
         Settles(v, e, a), Accelerates(v, e, a, l, r), Carries(v, r, l, w, d)
  PROVE  Stays(w, e, a, l, d)
  <1>1. CASE e > 0 /\ ~MustBrake(v, e, a) /\ r = IF v = l THEN 0 ELSE a
    <2>1. w \in Int /\ d \in Int
      BY <1>1 DEF Carries
    <2>2. Settles(w, e - d, a) /\ 0 <= w /\ w <= l /\ d >= 0
      BY <1>1, <2>1, TowardsStays
    <2>3. (w <= 0 => d = v + w /\ v <= a) /\ (w > 0 => d > 0)
      BY <1>1, <2>1, <2>2 DEF Carries
    <2>4. (d > 0 => e - d >= -(20 * a)) /\ (d < 0 => e - d <= 20 * a)
      BY <2>1, <2>2, <2>3, NeverFar
    <2> QED BY <2>1, <2>2, <2>4 DEF Stays
  <1>2. ASSUME NEW q \in Nat, q <= a, r = -q,
               \/ v > 0 /\ e <= 0 /\ q = a
               \/ e > 0 /\ e * q < v * v + e /\ (q < a => v * v < e * q + e)
        PROVE  Stays(w, e, a, l, d)
    <2>1. w = v - q /\ d = v + (v - q)
      BY <1>2 DEF Carries
    <2>2. Settles(v - q, e - (v + (v - q)), a)
      BY <1>2, BrakingStays
    <2>3. Settles(w, e - d, a) /\ w \in Int /\ d \in Int
      BY <2>1, <2>2
    <2>4. (w <= 0 => d = v + w /\ v <= a) /\ (w > 0 => d > 0) /\ -l <= w /\ w <= l
      BY <1>2, <2>1
    <2>5. (d > 0 => e - d >= -(20 * a)) /\ (d < 0 => e - d <= 20 * a)
      BY <2>3, <2>4, NeverFar
    <2> QED BY <2>3, <2>4, <2>5 DEF Stays
  <1>3. CASE v > 0 /\ e <= 0 /\ r = -a
    BY <1>2, <1>3
  <1>4. ASSUME e > 0, NEW q \in Required(v, e, a), r = -q
        PROVE  Stays(w, e, a, l, d)
    <2>1. q \in Nat /\ q <= a
      BY <1>4, RequiredSize
    <2>2. e * q < v * v + e /\ (q < a => v * v < e * q + e)
      BY <1>4, RequiredRounds
    <2> QED BY <1>2, <1>4, <2>1, <2>2
  <1> QED BY <1>1, <1>3, <1>4 DEF Accelerates

(* The same for a trajectory that goes down. *)
LEMMA BackStays ==
  ASSUME NEW v \in Int, NEW e \in Int, NEW a \in Nat, NEW l \in Nat,
         NEW r \in Int, NEW w \in Int, NEW d \in Int,
         v <= 0, -v <= l, a <= l, a > 0 => l <= 9 * a * a,
         Settles(v, e, a), Accelerates(-v, -e, a, l, -r), Carries(-v, -r, l, -w, -d)
  PROVE  Stays(w, e, a, l, d)
  <1>1. -v \in Nat /\ -e \in Int
    OBVIOUS
  <1>2. ASSUME NEW x \in Int, NEW y \in Int PROVE Settles(x, y, a) <=> Settles(-x, -y, a)
    <2>1. (-x) * (-x) = x * x /\ a * (-y) = -(a * y)
      BY Products
    <2>2. x * x \in Int /\ a * y \in Int /\ a * a \in Int
      BY Products
    <2> QED BY <2>1, <2>2 DEF Settles
  <1>3. Settles(-v, -e, a)
    BY <1>2
  <1>4. Stays(-w, -e, a, l, -d)
    BY <1>1, <1>3, AheadStays
  <1>5. Settles(-w, -(e - d), a)
    BY <1>4 DEF Stays
  <1>6. Settles(w, e - d, a)
    BY <1>2, <1>5
  <1> QED BY <1>4, <1>6 DEF Stays

(* A move to a position, planned with an acceleration limit. *)
Travels(s) ==
  /\ Moving(s) /\ ~s.done /\ s.position \in Int /\ s.velocity = 0
  /\ s.velocity_limit \in Nat /\ s.accel_limit \in Nat
  /\ s.accel_limit <= s.velocity_limit
  /\ -s.velocity_limit <= s.vel /\ s.vel <= s.velocity_limit

ToGo(s) == s.position - s.pos

(* CalculateAcceleration in terms of what is ahead. *)
LEMMA AccelerationAhead ==
  ASSUME NEW s, Travels(s), s.vel # 0 \/ ToGo(s) # 0,
         NEW r \in CalculateAcceleration(s)
  PROVE  /\ r \in Int
         /\ \/ /\ s.vel >= 0
               /\ Accelerates(s.vel, ToGo(s), s.accel_limit, s.velocity_limit, r)
            \/ /\ s.vel <= 0
               /\ Accelerates(-s.vel, -ToGo(s), s.accel_limit, s.velocity_limit, -r)
  <1> DEFINE a == s.accel_limit
             l == s.velocity_limit
             v == s.vel
             e == ToGo(s)
             against(x) == IF v > 0 THEN -x ELSE x
             approaches == v * e >= 0 /\ e # 0
             atMax == Abs(v) = l
             brakes == MustBrake(Abs(v), Abs(e), a)
  <1>1. v \in Int /\ e \in Int /\ a \in Nat /\ l \in Nat /\ IsFinite(l)
    BY Numbers DEF Travels, Moving, ToGo
  <1>2. ~(Abs(v) > l)
    BY <1>1 DEF Travels, Abs
  <1>3. s.vel - s.velocity = v
    BY <1>1 DEF Travels
  <1>4. CalculateAcceleration(s) =
          CASE ~approaches -> {against(a)}
            [] approaches /\ brakes -> {against(x) : x \in Required(Abs(v), Abs(e), a)}
            [] OTHER -> IF atMax THEN {0} ELSE {IF e > 0 THEN a ELSE -a}
    BY <1>1, <1>2, <1>3 DEF CalculateAcceleration, ToGo
  <1>5. \A x, y \in Int : x # 0 /\ y # 0 /\ x * y >= 0 => (x > 0 /\ y > 0) \/ (x < 0 /\ y < 0)
    BY Signs
  <1>6. v # 0 \/ e # 0
    OBVIOUS
  <1>7. v = 0 => v * e = 0
    BY <1>1
  <1>8. \A x, y \in Int : (x > 0 /\ y > 0) \/ (x < 0 /\ y < 0) => x * y >= 0
    BY SMT
  <1> HIDE DEF a, l, v, e
  <1>9. CASE ~approaches
    <2>1. r = against(a)
      BY <1>4, <1>9
    <2>2. v # 0
      BY <1>1, <1>6, <1>7, <1>9
    <2>3. (v > 0 => e <= 0) /\ (v < 0 => e >= 0)
      BY <1>1, <1>8, <1>9
    <2>4. r \in Int
      BY <1>1, <2>1
    <2>5. v > 0 => Accelerates(v, e, a, l, r)
      BY <2>1, <2>3 DEF Accelerates
    <2>6. v < 0 => Accelerates(-v, -e, a, l, -r)
      BY <1>1, <2>1, <2>3 DEF Accelerates
    <2> QED BY <1>1, <2>2, <2>4, <2>5, <2>6 DEF a, l, v, e
  <1>10. CASE approaches
    <2>1. (v > 0 => e > 0) /\ (v < 0 => e < 0) /\ e # 0
      BY <1>1, <1>5, <1>10
    <2>2. CASE brakes
      <3>1. PICK q \in Required(Abs(v), Abs(e), a) : r = against(q)
        BY <1>4, <1>10, <2>2
      <3>2. Abs(v) \in Nat /\ Abs(e) \in Nat \ {0} /\ (v = 0 => Abs(v) = 0)
        BY <1>1, <2>1 DEF Abs
      <3>3. q \in Int /\ (v = 0 => q = 0)
        BY <1>1, <3>2, RequiredSize
      <3>4. CASE e > 0
        <4>1. v >= 0 /\ Abs(v) = v /\ Abs(e) = e /\ r = -q
          BY <1>1, <2>1, <3>1, <3>3, <3>4 DEF Abs
        <4>2. Accelerates(v, e, a, l, r)
          BY <3>4, <4>1 DEF Accelerates
        <4> QED BY <3>3, <4>1, <4>2 DEF a, l, v, e
      <3>5. CASE e < 0
        <4>1. v <= 0 /\ Abs(v) = -v /\ Abs(e) = -e /\ -r = -q /\ -e > 0
          BY <1>1, <2>1, <3>1, <3>3, <3>5 DEF Abs
        <4>2. Accelerates(-v, -e, a, l, -r)
          BY <4>1 DEF Accelerates
        <4> QED BY <3>1, <3>3, <4>1, <4>2 DEF a, l, v, e
      <3> QED BY <1>1, <2>1, <3>4, <3>5
    <2>3. CASE ~brakes
      <3>1. r = IF atMax THEN 0 ELSE IF e > 0 THEN a ELSE -a
        BY <1>4, <1>10, <2>3
      <3>2. CASE e > 0
        <4>1. v >= 0 /\ Abs(v) = v /\ Abs(e) = e
          BY <1>1, <2>1, <3>2 DEF Abs
        <4>2. Accelerates(v, e, a, l, r)
          BY <2>3, <3>1, <3>2, <4>1 DEF Accelerates
        <4> QED BY <1>1, <3>1, <4>1, <4>2 DEF a, l, v, e
      <3>3. CASE e < 0
        <4>1. v <= 0 /\ Abs(v) = -v /\ Abs(e) = -e /\ -e > 0
          BY <1>1, <2>1, <3>3 DEF Abs
        <4>2. -r = IF -v = l THEN 0 ELSE a
          BY <1>1, <3>1, <3>3, <4>1
        <4>3. Accelerates(-v, -e, a, l, -r)
          BY <2>3, <4>1, <4>2 DEF Accelerates
        <4> QED BY <1>1, <3>1, <4>1, <4>3 DEF a, l, v, e
      <3> QED BY <1>1, <2>1, <3>2, <3>3
    <2> QED BY <2>2, <2>3
  <1> QED BY <1>9, <1>10

(* The way that is integrated. *)
Way(s, p) == IF p.accel # 0 THEN s.vel + p.vel ELSE 2 * p.vel

Near(e, tolerance) == -tolerance <= e /\ e <= tolerance

(* The end of a move is called near its target, where the trajectory is.    *)
EndsNear(s, p, tolerance) ==
  /\ p.position = NaN /\ p.done /\ p.vel = 0 /\ p.accel = 0
  /\ Near(ToGo(s), tolerance)

LEMMA FinishedEnds ==
  ASSUME NEW s, Moving(s), s.velocity = 0
  PROVE  /\ Finished(s).position = NaN /\ Finished(s).done
         /\ Finished(s).vel = 0 /\ Finished(s).accel = 0
  BY Numbers DEF Moving, Ticking, Fields, Finished

(* A tick of a move with an acceleration limit. *)
LEMMA AccelModeStays ==
  ASSUME NEW s, Travels(s), NEW r \in CalculateAcceleration(s),
         s.accel_limit > 0 => s.velocity_limit <= 9 * s.accel_limit * s.accel_limit,
         Settles(s.vel, ToGo(s), s.accel_limit)
  PROVE  LET p == AccelMode(s, r)
         IN  \/ EndsNear(s, p, 20 * s.accel_limit)
             \/ /\ p.position = s.position /\ ~p.done
                /\ Stays(p.vel, ToGo(s), s.accel_limit, s.velocity_limit, Way(s, p))
  <1> DEFINE a == s.accel_limit
             l == s.velocity_limit
             x == s.vel
             e == ToGo(s)
             v1 == x + r
             atMax == \/ Abs(x) < l /\ Abs(v1) > l
                      \/ Abs(v1) < l /\ Abs(x) > l
             v == IF ~atMax THEN v1 ELSE IF v1 >= 0 THEN l ELSE -l
             fast == IF Abs(v) > 0 THEN Abs(v) ELSE 0
             there == Between(0, x, v) \/ 2 * Abs(v) < a
             near == Abs(e) <= 20 * fast
             accel == IF atMax THEN 0 ELSE r
             d == IF accel # 0 THEN x + v ELSE 2 * v
             p == AccelMode(s, r)
  <1>1. x \in Int /\ e \in Int /\ a \in Nat /\ l \in Nat /\ IsFinite(l) /\ a <= l
        /\ -l <= x /\ x <= l /\ Moving(s) /\ s.velocity = 0 /\ ~s.done
    BY Numbers DEF Travels, Moving, ToGo
  <1>2. r \in Int /\ -a <= r /\ r <= a
    <2>1. s.accel_limit >= 0 /\ s.position \in Int /\ s.accel_limit \in Int
      BY DEF Travels
    <2> QED BY <1>1, <2>1, AccelerationSize
  <1>3. v \in Int /\ Abs(v - 0) = Abs(v) /\ Abs(0) = 0
    BY <1>1, <1>2 DEF Abs
  <1>4. p = IF there /\ near THEN Finished(s) ELSE [s EXCEPT !.vel = v, !.accel = accel]
    BY <1>1, <1>3 DEF AccelMode, ToGo
  <1>5. Abs(v) \in Nat /\ fast = Abs(v)
    BY <1>3 DEF Abs
  <1>6. CASE there /\ near
    <2>1. x - a <= v /\ v <= x + a
      BY <1>1, <1>2 DEF Abs
    <2> HIDE DEF v
    <2>2. Abs(v) <= a
      BY <1>1, <1>3, <1>6, <2>1 DEF Abs, Between
    <2>3. Abs(e) <= 20 * Abs(v)
      BY <1>5, <1>6
    <2>4. -(20 * a) <= e /\ e <= 20 * a
      BY <1>1, <1>5, <2>2, <2>3 DEF Abs
    <2>5. p = Finished(s)
      BY <1>4, <1>6
    <2>6. EndsNear(s, p, 20 * a)
      BY <1>1, <2>4, <2>5, FinishedEnds DEF EndsNear, Near
    <2> QED BY <2>6
  <1>7. CASE ~(there /\ near)
    <2>1. p = [s EXCEPT !.vel = v, !.accel = accel]
      BY <1>4, <1>7
    <2>2. p.position = s.position /\ p.done = s.done /\ p.vel = v /\ p.accel = accel
      <3> HIDE DEF v, accel, p
      <3> QED BY <1>1, <2>1 DEF Moving, Ticking, Fields
    <2>3. Way(s, p) = d
      BY <2>2 DEF Way
    <2>4. x # 0 \/ e # 0
      <3>1. SUFFICES ASSUME x = 0, e = 0 PROVE FALSE
        OBVIOUS
      <3> HIDE DEF v
      <3>2. there /\ near
        BY <1>3, <1>5, <3>1 DEF Between, Abs
      <3> QED BY <1>7, <3>2
    <2>5. d \in Int /\ (a > 0 => l <= 9 * a * a) /\ Settles(x, e, a)
      BY <1>1, <1>2, <1>3
    <2>6. \/ x >= 0 /\ Accelerates(x, e, a, l, r)
          \/ x <= 0 /\ Accelerates(-x, -e, a, l, -r)
      BY <2>4, AccelerationAhead
    <2>7. ASSUME x >= 0, Accelerates(x, e, a, l, r)
          PROVE  Stays(v, e, a, l, d)
      <3>1. Carries(x, r, l, v, d)
        BY <1>1, <1>2, <2>7 DEF Abs, Carries
      <3>2. x \in Nat
        BY <1>1, <2>7
      <3> HIDE DEF v, d, a, l, x, e
      <3> QED BY <1>1, <2>5, <2>7, <3>1, <3>2, AheadStays
    <2>8. ASSUME x <= 0, Accelerates(-x, -e, a, l, -r)
          PROVE  Stays(v, e, a, l, d)
      <3>1. CASE -x < l /\ -x + -r > l
        <4>1. v = -l /\ d = -(2 * l)
          BY <1>1, <1>2, <2>8, <3>1 DEF Abs
        <4>2. Carries(-x, -r, l, -v, -d)
          BY <1>1, <3>1, <4>1 DEF Carries
        <4> HIDE DEF v, d, a, l, x, e
        <4>3. -x <= l
          BY <1>1
        <4> QED BY <1>1, <1>2, <1>3, <2>5, <2>8, <4>2, <4>3, BackStays
      <3>2. CASE ~(-x < l /\ -x + -r > l)
        <4>1. v = x + r /\ d = x + v
          <5>1. ~atMax
            BY <1>1, <1>2, <2>8, <3>2 DEF Abs
          <5>2. v = x + r /\ accel = r
            BY <5>1
          <5> HIDE DEF v, accel
          <5> QED BY <1>1, <1>2, <5>2
        <4>2. -v = -x + -r /\ -d = -x + -v
          BY <1>1, <1>2, <4>1
        <4>3. Carries(-x, -r, l, -v, -d)
          BY <3>2, <4>2 DEF Carries
        <4> HIDE DEF v, d, a, l, x, e
        <4>4. -x <= l
          BY <1>1
        <4> QED BY <1>1, <1>2, <1>3, <2>5, <2>8, <4>3, <4>4, BackStays
      <3> QED BY <3>1, <3>2
    <2> QED BY <1>1, <2>2, <2>3, <2>6, <2>7, <2>8
  <1> QED BY <1>6, <1>7

(* A tick of a move at full speed. *)
LEMMA TravelModeStays ==
  ASSUME NEW s, Moving(s), ~s.done, s.position \in Int, s.velocity = 0,
         s.velocity_limit \in Nat \ {0}
  PROVE  LET p == TravelMode(s)
         IN  \/ EndsNear(s, p, 2 * s.velocity_limit)
             \/ /\ p.position = s.position /\ ~p.done
                /\ \/ 0 <= Way(s, p) /\ Way(s, p) <= ToGo(s)
                   \/ ToGo(s) <= Way(s, p) /\ Way(s, p) <= 0
  <1> DEFINE e == ToGo(s)
             v == IF e < 0 THEN -s.velocity_limit ELSE s.velocity_limit
             p == TravelMode(s)
  <1>1. e \in Int /\ v \in Int
    BY DEF Moving, ToGo
  <1>2. p = IF (e - 2 * v < 0) # (e < 0) THEN Finished(s) ELSE [s EXCEPT !.vel = v, !.accel = 0]
    BY DEF TravelMode, ToGo
  <1>3. CASE (e - 2 * v < 0) # (e < 0)
    <2>1. -(2 * s.velocity_limit) <= e /\ e <= 2 * s.velocity_limit
      BY <1>1, <1>3
    <2> QED BY <1>2, <1>3, <2>1, FinishedEnds DEF EndsNear, Near
  <1>4. CASE (e - 2 * v < 0) = (e < 0)
    <2>1. p = [s EXCEPT !.vel = v, !.accel = 0]
      BY <1>2, <1>4
    <2>2. p.position = s.position /\ p.done = s.done /\ p.vel = v /\ p.accel = 0
      <3> HIDE DEF v, p
      <3> QED BY <2>1 DEF Moving, Ticking, Fields
    <2>3. Way(s, p) = 2 * v
      BY <2>2 DEF Way
    <2>4. (0 <= 2 * v /\ 2 * v <= e) \/ (e <= 2 * v /\ 2 * v <= 0)
      BY <1>1, <1>4
    <2> QED BY <2>2, <2>3, <2>4
  <1> QED BY <1>3, <1>4

-----------------------------------------------------------------------------
(* A move from rest to rest.                                                *)

(* On its way from b.from to b.to, at x with the velocity v. *)
OnCourse(b, x, v) ==
  IF IsFinite(b.accel)
  THEN /\ -b.limit <= v /\ v <= b.limit
       /\ Settles(v, b.to - x, b.accel)
       /\ Between(x, b.from, b.to) \/ Near(b.to - x, 20 * b.accel)
  ELSE Between(x, b.from, b.to)

Arrived(b, x, v) == v = 0 /\ Near(b.to - x, Tolerance(b))

(* A move under the limits of a command. *)
Moves(b, c) ==
  /\ b.from \in Int /\ b.to \in Int
  /\ b.limit = c.velocity_limit /\ b.accel = c.accel_limit
  /\ c.velocity = 0 /\ ~IsFinite(c.stop) /\ c.velocity_limit # 0

(* Its state, as the command and the trajectory have it. *)
InMove(b, target, done, x, v) ==
  IF done THEN ~IsFinite(target) /\ Arrived(b, x, v) ELSE target = b.to /\ OnCourse(b, x, v)

MoveInv ==
  IsFinite(move) =>
    /\ normalized /\ position \in Int /\ Moves(move, command)
    /\ InMove(move, command.position, trajectory_done, position, velocity)

(* The limits of a move that the planner can hold. *)
Holdable(b) ==
  /\ b.limit \in Nat
  /\ IsFinite(b.accel) =>
       /\ b.accel \in Nat /\ b.accel <= b.limit
       /\ b.accel > 0 => b.limit <= 9 * b.accel * b.accel

(* A way that ends on this side of the target, or near it. *)
LEMMA OnTheCourse ==
  ASSUME NEW x \in Int, NEW f \in Int, NEW t \in Int, NEW d \in Int, NEW n \in Int,
         Between(x, f, t) \/ Near(t - x, n),
         d > 0 => t - x - d >= -n,
         d < 0 => t - x - d <= n
  PROVE  Between(x + d, f, t) \/ Near(t - (x + d), n)
  BY DEF Between, Near

(* What the planner makes of a move. *)
LEMMA CoursePlanned ==
  ASSUME NEW b, NEW e, Moving(e), Moves(b, e), Holdable(b),
         InMove(b, e.position, e.done, e.pos, e.vel),
         NEW q \in Planned(e)
  PROVE  InMove(b, q.position, q.done, e.pos + Way(e, q), q.vel)
  <1> DEFINE x == e.pos
             g == b.to - x
             d == Way(e, q)
  <1>1. /\ x \in Int /\ e.vel \in Int /\ b.from \in Int /\ b.to \in Int /\ g \in Int
        /\ e.velocity_limit = b.limit /\ e.accel_limit = b.accel /\ e.velocity = 0
        /\ b.limit \in Nat \ {0} /\ IsFinite(b.limit)
    BY Numbers DEF Moving, Moves, Holdable
  <1>2. CASE e.done
    <2>1. q = e
      BY <1>2 DEF Planned
    <2>2. e.vel = 0 /\ ~IsFinite(e.position) /\ Arrived(b, x, 0)
      BY <1>2 DEF InMove, Arrived
    <2>3. x + d = x
      BY <1>1, <2>1, <2>2 DEF Way
    <2> HIDE DEF x, d
    <2>4. InMove(b, q.position, q.done, x + d, q.vel)
      BY <1>2, <2>1, <2>2, <2>3 DEF InMove
    <2> QED BY <2>4 DEF x, d
  <1>3. CASE ~e.done
    <2>1. e.position = b.to /\ OnCourse(b, x, e.vel) /\ IsFinite(e.position) /\ e.position \in Int
          /\ ToGo(e) = g
      BY <1>1, <1>3, Numbers DEF InMove, ToGo
    <2>2. ASSUME NEW n \in Int, EndsNear(e, q, n), n = Tolerance(b)
          PROVE  InMove(b, q.position, q.done, x + d, q.vel)
      <3>1. d = 0 /\ x + d = x
        BY <1>1, <2>2 DEF EndsNear, Way
      <3>2. Arrived(b, x, q.vel)
        BY <2>1, <2>2 DEF EndsNear, Arrived
      <3>3. ~IsFinite(q.position) /\ q.done
        BY <2>2 DEF EndsNear, IsFinite
      <3> HIDE DEF x, d
      <3> QED BY <3>1, <3>2, <3>3 DEF InMove
    <2>3. CASE IsFinite(b.accel)
      <3> DEFINE a == b.accel
                 n == 20 * a
      <3>1. a \in Nat /\ n \in Int /\ n = Tolerance(b)
        BY <2>3 DEF Holdable, Tolerance
      <3>2. Travels(e) /\ Settles(e.vel, ToGo(e), e.accel_limit)
        BY <1>1, <1>3, <2>1, <2>3 DEF Travels, Holdable, OnCourse
      <3>3. PICK r \in CalculateAcceleration(e) : q = AccelMode(e, r)
        BY <1>1, <1>3, <2>1, <2>3 DEF Planned
      <3>4. \/ EndsNear(e, q, n)
            \/ /\ q.position = e.position /\ ~q.done
               /\ Stays(q.vel, g, a, b.limit, d)
        BY <1>1, <2>1, <2>3, <3>2, <3>3, AccelModeStays DEF Holdable
      <3>5. CASE EndsNear(e, q, n)
        BY <2>2, <3>1, <3>5
      <3>6. CASE q.position = e.position /\ ~q.done /\ Stays(q.vel, g, a, b.limit, d)
        <4>1. q \in {AccelMode(e, z) : z \in CalculateAcceleration(e)}
          BY <3>3
        <4>2. q.vel \in Int /\ d \in Int
          <5>1. e.position \in Int /\ e.accel_limit \in Int
            BY <1>1, <2>1, <3>1
          <5>2. Plans(e, q)
            BY <3>3, <5>1, AccelModePlans
          <5> QED BY <1>1, <5>2 DEF Plans, Moving, Way
        <4> HIDE DEF d, x
        <4>3. g - d = b.to - (x + d)
          BY <1>1, <4>2
        <4>4. Between(x + d, b.from, b.to) \/ Near(b.to - (x + d), n)
          <5>1. Between(x, b.from, b.to) \/ Near(b.to - x, n)
            BY <2>1, <2>3 DEF OnCourse
          <5>2. (d > 0 => b.to - x - d >= -n) /\ (d < 0 => b.to - x - d <= n)
            BY <3>6 DEF Stays
          <5> QED BY <1>1, <3>1, <4>2, <5>1, <5>2, OnTheCourse
        <4>5. Settles(q.vel, b.to - (x + d), a) /\ -b.limit <= q.vel /\ q.vel <= b.limit
          BY <3>6, <4>3 DEF Stays
        <4>6. OnCourse(b, x + d, q.vel)
          BY <2>3, <4>4, <4>5 DEF OnCourse
        <4> QED BY <2>1, <3>6, <4>6 DEF InMove, x, d
      <3> QED BY <3>4, <3>5, <3>6
    <2>4. CASE ~IsFinite(b.accel)
      <3>1. q = TravelMode(e)
        BY <1>1, <1>3, <2>1, <2>4 DEF Planned
      <3>2. \/ EndsNear(e, q, 2 * b.limit)
            \/ /\ q.position = e.position /\ ~q.done
               /\ (0 <= d /\ d <= g) \/ (g <= d /\ d <= 0)
        BY <1>1, <1>3, <2>1, <3>1, TravelModeStays
      <3>3. CASE EndsNear(e, q, 2 * b.limit)
        <4>1. 2 * b.limit \in Int /\ 2 * b.limit = Tolerance(b)
          BY <1>1, <2>4 DEF Tolerance
        <4> QED BY <2>2, <3>3, <4>1
      <3>4. CASE /\ q.position = e.position /\ ~q.done
                 /\ (0 <= d /\ d <= g) \/ (g <= d /\ d <= 0)
        <4>1. d \in Int
          <5>1. e.position \in Int /\ e.velocity_limit \in Int
            BY <1>1, <2>1
          <5>2. Plans(e, q)
            BY <3>1, <5>1, TravelModePlans
          <5> QED BY <1>1, <5>2 DEF Plans, Moving, Way
        <4>2. Between(x, b.from, b.to)
          BY <2>1, <2>4 DEF OnCourse
        <4> HIDE DEF d, x
        <4>3. Between(x + d, b.from, b.to)
          BY <1>1, <3>4, <4>1, <4>2 DEF Between, x
        <4> QED BY <2>1, <2>4, <3>4, <4>3 DEF InMove, OnCourse, x, d
      <3> QED BY <3>2, <3>3, <3>4
    <2> QED BY <2>3, <2>4
  <1>4. e.done \in BOOLEAN
    BY DEF Moving, Ticking
  <1> QED BY <1>2, <1>3, <1>4

(* Without a stop the plan is integrated as it is, and left as it is. *)
LEMMA FreelyIntegrated ==
  ASSUME NEW q, Moving(q), ~IsFinite(q.stop), NEW x \in Int
  PROVE  LET i == Integrated(KilledAtStop(q), x)
         IN  /\ Moving(i) /\ i.velocity = q.velocity /\ i.stop = q.stop
             /\ i.position = q.position /\ i.done = q.done /\ i.vel = q.vel
             /\ i.pos = q.pos + (IF q.accel # 0 THEN x + q.vel ELSE 2 * q.vel)
  <1> DEFINE y == q.pos + (IF q.accel # 0 THEN x + q.vel ELSE 2 * q.vel)
             i == Integrated(KilledAtStop(q), x)
  <1>1. KilledAtStop(q) = q
    BY DEF KilledAtStop, Passed
  <1>2. y \in Int
    BY DEF Moving, Ticking
  <1>3. i = [q EXCEPT !.pos = y]
    BY <1>1 DEF Integrated
  <1> HIDE DEF i, y
  <1>4. /\ Moving(i) /\ i.velocity = q.velocity /\ i.stop = q.stop
        /\ i.position = q.position /\ i.done = q.done /\ i.vel = q.vel /\ i.pos = y
    BY <1>2, <1>3, Numbers DEF Moving, Ticking, Fields
  <1> QED BY <1>4 DEF i, y

LEMMA FreelyFinished ==
  ASSUME NEW p, Moving(p), ~IsFinite(p.stop), p.velocity = 0,
         NEW error \in Int, Slipped(p, error) = p
  PROVE  LET t == FinishTrajectoryGuards(p, error)
         IN  /\ t.position = p.position /\ t.velocity = 0 /\ t.done = p.done
             /\ t.pos = p.pos /\ t.vel = p.vel
  <1> DEFINE a == MovedTarget(p)
  <1>1. /\ a.position = p.position /\ a.velocity = 0 /\ a.done = p.done
        /\ a.pos = p.pos /\ a.vel = p.vel /\ a.stop = p.stop
    <2>1. CASE IsFinite(p.position)
      <3>1. p.position + 2 * p.velocity = p.position
        BY <2>1, Numbers DEF Moving, Ticking
      <3>2. a = [p EXCEPT !.position = p.position]
        BY <2>1, <3>1 DEF MovedTarget
      <3> HIDE DEF a
      <3> QED BY <3>2 DEF Moving, Ticking, Fields
    <2>2. CASE ~IsFinite(p.position)
      BY <2>2 DEF MovedTarget
    <2> QED BY <2>1, <2>2
  <1>2. ~(Slip > 0 /\ Abs(error) > Slip)
    <2> SUFFICES ASSUME Slip > 0, Abs(error) > Slip PROVE FALSE
      OBVIOUS
    <2> DEFINE y == p.pos + error - (IF error > 0 THEN Slip ELSE -Slip)
    <2>1. p = [p EXCEPT !.pos = y]
      BY DEF Slipped
    <2>2. y \in Int /\ y # p.pos
      BY LimitsAssumption DEF Moving, Abs
    <2> HIDE DEF y
    <2>3. p.pos = y
      BY <2>1 DEF Moving, Ticking, Fields
    <2> QED BY <2>2, <2>3
  <1>3. Slipped(a, error) = a
    BY <1>2 DEF Slipped
  <1>4. StoppedAt(a) = a
    BY <1>1 DEF StoppedAt, Reached, Passed
  <1>5. FinishTrajectoryGuards(p, error) = a
    BY <1>3, <1>4 DEF FinishTrajectoryGuards
  <1> QED BY <1>1, <1>5

(* What UpdateTrajectory makes of a move. *)
LEMMA CourseUpdated ==
  ASSUME NEW b, NEW s, NEW m, Starting(s, m), Moves(b, s),
         IsFinite(b.limit) => Holdable(b),
         IsFinite(b.accel) => IsFinite(b.limit),
         NEW x, NEW v,
         IF IsFinite(s.pos) THEN x = s.pos /\ v = s.vel ELSE x = m.pos /\ v = m.vel,
         InMove(b, s.position, ~IsFinite(s.position) /\ s.done, x, v),
         IsFinite(s.position) \/ (s.done /\ IsFinite(s.pos)),
         NEW p \in UpdateTrajectory(s, m)
  PROVE  /\ Moving(p) /\ p.velocity = 0 /\ p.stop = s.stop
         /\ InMove(b, p.position, p.done, p.pos, p.vel)
  <1>1. /\ Ticking(s) /\ x \in Int /\ v \in Int /\ b.from \in Int /\ b.to \in Int
        /\ s.velocity = 0 /\ ~IsFinite(s.stop)
        /\ s.velocity_limit = b.limit /\ s.accel_limit = b.accel
    BY DEF Starting, Moves
  <1>2. CASE ~IsFinite(b.limit)
    <2>1. p = Unlimited(s, m) /\ ~IsFinite(b.accel)
      BY <1>1, <1>2 DEF UpdateTrajectory
    <2>2. Tolerance(b) = 0
      BY <1>2, <2>1 DEF Tolerance
    <2>3. CASE IsFinite(s.position)
      <3> DEFINE g == Finished(s)
      <3>1. p = [g EXCEPT !.pos = s.position]
        BY <2>1, <2>3 DEF Unlimited
      <3>2. s.position = b.to
        BY <2>3 DEF InMove
      <3>3. /\ Ticking(g) /\ g.position = NaN /\ g.vel = 0 /\ g.velocity = 0 /\ g.stop = s.stop /\ g.done
        BY <1>1, Numbers DEF Ticking, Fields, Finished
      <3> HIDE DEF g
      <3>4. /\ Moving(p) /\ p.position = NaN /\ p.vel = 0 /\ p.velocity = 0 /\ p.stop = s.stop
            /\ p.done /\ p.pos = b.to
        BY <1>1, <3>1, <3>2, <3>3, Numbers DEF Ticking, Moving, Fields
      <3>5. Arrived(b, p.pos, p.vel)
        BY <1>1, <2>2, <3>4 DEF Arrived, Near
      <3> QED BY <3>4, <3>5 DEF InMove, IsFinite
    <2>4. CASE ~IsFinite(s.position)
      <3> DEFINE e == [s EXCEPT !.vel = s.velocity, !.accel = 0, !.done = TRUE]
                 f == EnsureControlState(e, m)
      <3>1. p = [f EXCEPT !.pos = f.pos + 2 * f.vel]
        BY <2>1, <2>4 DEF Unlimited
      <3>2. /\ Ticking(e) /\ e.position = s.position /\ e.vel = 0 /\ e.velocity = 0
            /\ e.stop = s.stop /\ e.done /\ e.pos = x /\ IsFinite(e.pos)
        BY <1>1, <2>4, Numbers DEF Ticking, Fields
      <3> HIDE DEF e
      <3>3. f = e
        BY <3>2 DEF EnsureControlState
      <3> HIDE DEF f
      <3>4. f.pos + 2 * f.vel = x
        BY <1>1, <3>2, <3>3
      <3>5. /\ Moving(p) /\ p.position = s.position /\ p.vel = 0 /\ p.velocity = 0
            /\ p.stop = s.stop /\ p.done /\ p.pos = x
        BY <1>1, <3>1, <3>2, <3>3, <3>4, Numbers DEF Ticking, Moving, Fields
      <3>6. Arrived(b, x, v) /\ v = 0
        BY <2>4 DEF InMove, Arrived
      <3> QED BY <2>4, <3>5, <3>6 DEF InMove
    <2> QED BY <2>3, <2>4
  <1>3. CASE IsFinite(b.limit)
    <2>1. p \in Limited(s, m)
      BY <1>1, <1>3 DEF UpdateTrajectory
    <2>2. PICK e, q :
           /\ Ends(s, e) /\ e.velocity = s.velocity /\ e.position = s.position
           /\ e.done => ~IsFinite(s.position) /\ s.velocity = 0
           /\ ~IsFinite(s.position) /\ s.velocity = 0 => e.done = s.done
           /\ IsFinite(s.pos) => e.pos = s.pos /\ e.vel = s.vel
           /\ ~IsFinite(s.pos) => e.pos = m.pos /\ e.vel = m.vel
           /\ q \in Planned(e)
           /\ p = Integrated(KilledAtStop(q), e.vel)
      BY <2>1, LimitedTick
    <2>3. Moving(e) /\ Moves(b, e) /\ e.pos = x /\ e.vel = v /\ e.stop = s.stop
      BY <2>2 DEF Ends, Moves
    <2>4. e.done = (~IsFinite(s.position) /\ s.done)
      BY <1>1, <2>2, <2>3 DEF Moving, Ticking
    <2>5. InMove(b, e.position, e.done, e.pos, e.vel)
      BY <2>2, <2>3, <2>4
    <2>6. InMove(b, q.position, q.done, x + Way(e, q), q.vel)
      BY <1>3, <2>2, <2>3, <2>5, CoursePlanned
    <2>7. Plans(e, q)
      BY <1>1, <1>3, <2>2, <2>3, PlannedPlans DEF Moves
    <2>8. Moving(q) /\ q.pos = x /\ q.velocity = 0 /\ q.stop = s.stop /\ ~IsFinite(q.stop)
      BY <1>1, <2>2, <2>3, <2>7 DEF Plans
    <2>9. /\ Moving(p) /\ p.velocity = 0 /\ p.stop = s.stop
          /\ p.position = q.position /\ p.done = q.done /\ p.vel = q.vel
          /\ p.pos = x + Way(e, q)
      <3>1. e.vel \in Int /\ p = Integrated(KilledAtStop(q), e.vel)
        BY <1>1, <2>2, <2>3
      <3>2. /\ Moving(p) /\ p.velocity = q.velocity /\ p.stop = q.stop
            /\ p.position = q.position /\ p.done = q.done /\ p.vel = q.vel
            /\ p.pos = q.pos + (IF q.accel # 0 THEN e.vel + q.vel ELSE 2 * q.vel)
        BY <2>8, <3>1, FreelyIntegrated
      <3> QED BY <2>8, <3>2 DEF Way
    <2> QED BY <2>6, <2>9
  <1> QED BY <1>2, <1>3

(* The limits of a command that a host may give are such. *)
LEMMA CommandHolds ==
  ASSUME GentleCommands, FineCommands, ServoInv, OriginInv, normalized,
         NEW b, Moves(b, command)
  PROVE  /\ IsFinite(b.limit) => Holdable(b)
         /\ IsFinite(b.accel) => IsFinite(b.limit)
  <1>1. LimitsInPlace /\ Gentle(command) /\ Fine(command) /\ command \in CommandRecords
    BY CommandOfCommands DEF ServoInv, TypeOK
  <1>2. b.limit = command.velocity_limit /\ b.accel = command.accel_limit
    BY DEF Moves
  <1>3. b.accel \in Number
    BY <1>1, <1>2 DEF CommandRecords
  <1>4. IsFinite(b.limit) => b.limit \in Nat
    BY <1>1, <1>2, LimitsAssumption DEF LimitsInPlace
  <1>5. IsFinite(b.accel) => b.accel \in Nat /\ IsFinite(b.limit) /\ b.accel <= b.limit
    BY <1>1, <1>2, <1>3, Numbers DEF LimitsInPlace, Gentle
  <1> QED BY <1>1, <1>2, <1>4, <1>5 DEF Holdable, Fine

(* A move begins at rest where it is. *)
LEMMA MoveBegins ==
  ASSUME NEW c \in CommandRecords, NEW x \in Int, NEW v,
         IsFinite(MoveOf(c, x, v)),
         IsFinite(c.accel_limit) => IsFinite(c.velocity_limit),
         IsFinite(c.velocity_limit) => c.velocity_limit \in Nat
  PROVE  LET b == MoveOf(c, x, v)
         IN  Moves(b, c) /\ InMove(b, c.position, FALSE, x, v) /\ IsFinite(c.position)
  <1> DEFINE b == MoveOf(c, x, v)
  <1>1. /\ v = 0 /\ IsFinite(c.position) /\ c.velocity = 0 /\ ~IsFinite(c.stop)
        /\ c.velocity_limit # 0
        /\ b = [from |-> x, to |-> c.position, limit |-> c.velocity_limit, accel |-> c.accel_limit]
    BY DEF MoveOf, IsFinite
  <1>2. c.position \in Int
    BY <1>1, Numbers DEF CommandRecords
  <1>3. b.from = x /\ b.to = c.position /\ b.limit = c.velocity_limit /\ b.accel = c.accel_limit
    BY <1>1
  <1> HIDE DEF b
  <1>4. Moves(b, c)
    BY <1>1, <1>2, <1>3 DEF Moves
  <1>5. Between(x, b.from, b.to)
    BY <1>2, <1>3 DEF Between
  <1>6. IsFinite(b.accel) => -b.limit <= v /\ v <= b.limit /\ Settles(v, b.to - x, b.accel)
    BY <1>1, <1>3 DEF Settles
  <1>7. InMove(b, c.position, FALSE, x, v)
    BY <1>3, <1>5, <1>6 DEF InMove, OnCourse
  <1> QED BY <1>1, <1>4, <1>7 DEF b

LEMMA MoveTick ==
  ASSUME GentleCommands, FineCommands, ServoInv, OriginInv, MoveInv, Tick, IsFinite(move')
  PROVE  MoveInv'
  <1> DEFINE s == TickState
  <1>1. PICK m \in (IF IsFinite(position) THEN {NaN} ELSE Measured) :
          \E p \in UpdateTrajectory(s, m),
             error \in (IF pushes > 0 THEN Pushes ELSE {}) \cup {0} :
            LET t == FinishTrajectoryGuards(p, error)
            IN  /\ position' = t.pos /\ velocity' = t.vel /\ trajectory_done' = t.done
                /\ command' = [command EXCEPT !.position = t.position, !.velocity = t.velocity]
                /\ move' = IF Slipped(p, error) # p \/ ~normalized THEN NaN
                           ELSE IF IsFinite(position) THEN move
                           ELSE MoveOf(command, m.pos, m.vel)
    BY Zenon DEF Tick, TickState
  <1>2. PICK p \in UpdateTrajectory(s, m),
             error \in (IF pushes > 0 THEN Pushes ELSE {}) \cup {0} :
            LET t == FinishTrajectoryGuards(p, error)
            IN  /\ position' = t.pos /\ velocity' = t.vel /\ trajectory_done' = t.done
                /\ command' = [command EXCEPT !.position = t.position, !.velocity = t.velocity]
                /\ move' = IF Slipped(p, error) # p \/ ~normalized THEN NaN
                           ELSE IF IsFinite(position) THEN move
                           ELSE MoveOf(command, m.pos, m.vel)
    BY <1>1
  <1> DEFINE t == FinishTrajectoryGuards(p, error)
  <1>3. Slipped(p, error) = p /\ normalized /\ normalized' /\ error \in Int
    <2>1. normalized' = normalized
      BY DEF Tick
    <2>2. error \in Int
      BY <1>2, BoundsAssumption
    <2> QED BY <1>2, <2>1, <2>2 DEF IsFinite
  <1>4. TypeOK /\ LimitsInPlace /\ command \in CommandRecords /\ position \in Number
    BY <1>3 DEF ServoInv, TypeOK
  <1>5. Ticking(s) /\ s.position = command.position /\ s.velocity = command.velocity
        /\ s.stop = command.stop /\ s.velocity_limit = command.velocity_limit
        /\ s.accel_limit = command.accel_limit /\ s.pos = position /\ s.vel = velocity
        /\ s.done = trajectory_done
    BY <1>4 DEF TypeOK, CommandRecords, Ticking, TickState, Fields
  <1> HIDE DEF s
  <1>6. PICK b, x, v :
          /\ move' = b /\ Moves(b, command) /\ Starting(s, m)
          /\ IF IsFinite(position) THEN x = position /\ v = velocity ELSE x = m.pos /\ v = m.vel
          /\ InMove(b, command.position, ~IsFinite(command.position) /\ trajectory_done, x, v)
          /\ IsFinite(command.position) \/ (trajectory_done /\ IsFinite(position))
    <2>1. CASE IsFinite(position)
      <3>1. move' = move /\ IsFinite(move)
        BY <1>2, <1>3, <2>1
      <3>2. /\ Moves(move, command)
            /\ InMove(move, command.position, trajectory_done, position, velocity)
        BY <3>1 DEF MoveInv
      <3>3. Starting(s, m)
        <4>1. position \in Int /\ velocity \in Int
          BY <1>4, <2>1, Numbers DEF TypeOK
        <4> QED BY <1>5, <2>1, <4>1 DEF Starting
      <3>4. trajectory_done => ~IsFinite(command.position)
        BY <3>2 DEF InMove
      <3>5. ~trajectory_done => IsFinite(command.position)
        <4>1. ~trajectory_done => command.position = move.to /\ move.to \in Int
          BY <3>2 DEF InMove, Moves
        <4> QED BY <4>1, Numbers DEF IsFinite
      <3>6. trajectory_done = (~IsFinite(command.position) /\ trajectory_done)
        BY <1>4, <3>4 DEF TypeOK
      <3>7. InMove(move, command.position, ~IsFinite(command.position) /\ trajectory_done,
                   position, velocity)
        BY <3>2, <3>6
      <3> QED BY <2>1, <3>1, <3>2, <3>3, <3>5, <3>7
    <2>2. CASE ~IsFinite(position)
      <3> DEFINE b == MoveOf(command, m.pos, m.vel)
      <3>1. m \in Measured /\ m.pos \in Int /\ m.vel \in Int
        BY <2>2, CommandsAssumption
      <3>2. move' = b
        BY <1>2, <1>3, <2>2
      <3>3. /\ IsFinite(command.accel_limit) => IsFinite(command.velocity_limit)
            /\ IsFinite(command.velocity_limit) => command.velocity_limit \in Nat
        BY <1>4, LimitsAssumption DEF LimitsInPlace
      <3>4. Moves(b, command) /\ InMove(b, command.position, FALSE, m.pos, m.vel)
            /\ IsFinite(command.position)
        BY <1>4, <3>1, <3>2, <3>3, MoveBegins
      <3>5. (~IsFinite(command.position) /\ trajectory_done) = FALSE
        BY <3>4
      <3>6. Starting(s, m)
        BY <1>5, <2>2, <3>1 DEF Starting
      <3>7. InMove(b, command.position, ~IsFinite(command.position) /\ trajectory_done, m.pos, m.vel)
        BY <3>4, <3>5
      <3> HIDE DEF b
      <3>8. /\ move' = b /\ Moves(b, command) /\ Starting(s, m)
            /\ IF IsFinite(position) THEN m.pos = position /\ m.vel = velocity
               ELSE m.pos = m.pos /\ m.vel = m.vel
            /\ InMove(b, command.position, ~IsFinite(command.position) /\ trajectory_done,
                      m.pos, m.vel)
            /\ IsFinite(command.position) \/ (trajectory_done /\ IsFinite(position))
        BY <2>2, <3>2, <3>4, <3>6, <3>7
      <3> QED BY Zenon, <3>8
    <2> QED BY <2>1, <2>2
  <1>7. (IsFinite(b.limit) => Holdable(b)) /\ (IsFinite(b.accel) => IsFinite(b.limit))
    BY <1>3, <1>6, CommandHolds
  <1>8. Moves(b, s)
    BY <1>5, <1>6 DEF Moves
  <1>9. /\ Moving(p) /\ p.velocity = 0 /\ p.stop = command.stop
        /\ InMove(b, p.position, p.done, p.pos, p.vel)
    <2>1. IF IsFinite(s.pos) THEN x = s.pos /\ v = s.vel ELSE x = m.pos /\ v = m.vel
      BY <1>5, <1>6
    <2>2. InMove(b, s.position, ~IsFinite(s.position) /\ s.done, x, v)
      BY <1>5, <1>6
    <2>3. IsFinite(s.position) \/ (s.done /\ IsFinite(s.pos))
      BY <1>5, <1>6
    <2>4. /\ Moving(p) /\ p.velocity = 0 /\ p.stop = s.stop
          /\ InMove(b, p.position, p.done, p.pos, p.vel)
      BY <1>2, <1>6, <1>7, <1>8, <2>1, <2>2, <2>3, CourseUpdated
    <2> QED BY <1>5, <2>4
  <1>10. ~IsFinite(command.stop)
    BY <1>6 DEF Moves
  <1>11. /\ t.position = p.position /\ t.velocity = 0 /\ t.done = p.done
         /\ t.pos = p.pos /\ t.vel = p.vel
    BY <1>3, <1>9, <1>10, FreelyFinished
  <1> HIDE DEF t
  <1>12. /\ position' = t.pos /\ velocity' = t.vel /\ trajectory_done' = t.done
         /\ command' = [command EXCEPT !.position = t.position, !.velocity = t.velocity]
    BY <1>2 DEF t
  <1>13. /\ command'.position = p.position /\ command'.velocity = 0
         /\ command'.stop = command.stop /\ command'.velocity_limit = command.velocity_limit
         /\ command'.accel_limit = command.accel_limit
    BY <1>4, <1>11, <1>12 DEF CommandRecords
  <1>14. Moves(b, command')
    BY <1>6, <1>13 DEF Moves
  <1>15. InMove(b, command'.position, trajectory_done', position', velocity')
    BY <1>9, <1>11, <1>12, <1>13
  <1>16. position' \in Int
    BY <1>9, <1>11, <1>12 DEF Moving
  <1> QED BY <1>3, <1>6, <1>14, <1>15, <1>16 DEF MoveInv

LEMMA MoveStep ==
  ASSUME GentleCommands, FineCommands, ServoInv, OriginInv, MoveInv, [Next]_vars
  PROVE  MoveInv'
  <1>1. ASSUME move' = NaN PROVE MoveInv'
    BY <1>1 DEF MoveInv, IsFinite
  <1>2. ASSUME NEW c \in Commands, Start(c) \/ CopyCommand(c) PROVE MoveInv'
    BY <1>1, <1>2 DEF Start, CopyCommand
  <1>3. CASE Stop
    BY <1>1, <1>3 DEF Stop
  <1>4. CASE FinishCommand
    <2> DEFINE c == NormalizeCommandLimits(command)
               b == MoveOf(c, position, velocity)
    <2> SUFFICES ASSUME IsFinite(move') PROVE MoveInv'
      BY DEF MoveInv
    <2>1. /\ command' = c /\ move' = b /\ normalized' /\ trajectory_done' = FALSE
          /\ position' = position /\ velocity' = velocity
      BY <1>4 DEF FinishCommand
    <2>2. command \in CommandRecords /\ position \in Number
      BY DEF ServoInv, TypeOK
    <2>3. c \in CommandRecords
          /\ (IsFinite(c.accel_limit) => IsFinite(c.velocity_limit))
          /\ (IsFinite(c.velocity_limit) => c.velocity_limit \in Nat)
      BY <2>2, Normal, LimitsAssumption
    <2> HIDE DEF c
    <2>4. position \in Int
      <3>1. IsFinite(position)
        BY <2>1 DEF MoveOf, IsFinite
      <3> QED BY <2>2, <3>1, Numbers
    <2>5. Moves(b, c) /\ InMove(b, c.position, FALSE, position, velocity)
      BY <2>1, <2>3, <2>4, MoveBegins
    <2> HIDE DEF b
    <2> QED BY <2>1, <2>4, <2>5 DEF MoveInv
  <1>5. CASE Tick
    <2>1. CASE IsFinite(move')
      BY <1>5, <2>1, MoveTick
    <2>2. CASE ~IsFinite(move')
      BY <2>2 DEF MoveInv
    <2> QED BY <2>1, <2>2
  <1>6. CASE UNCHANGED vars
    BY <1>6 DEF vars, control, MoveInv
  <1> QED BY <1>2, <1>3, <1>4, <1>5, <1>6 DEF Next

(* The invariant of a move: on its way it can still come to rest near its   *)
(* target, and it is called done nowhere else.                              *)
THEOREM MoveInductive ==
  ASSUME GentleCommands, FineCommands
  PROVE  Spec => []MoveInv
  <1>1. Init => MoveInv
    BY DEF Init, MoveInv, IsFinite
  <1>2. ServoInv /\ OriginInv /\ MoveInv /\ [Next]_vars => MoveInv'
    BY MoveStep
  <1> QED BY <1>1, <1>2, ServoInductive, OriginInductive, PTL DEF Spec

LEMMA MoveResult ==
  ASSUME GentleCommands, FineCommands, ServoInv, OriginInv, MoveInv
  PROVE  NoOvershoot
  <1> SUFFICES ASSUME IsFinite(move)
               PROVE  LET e == Abs(position - move.to)
                      IN  /\ Between(position, move.from, move.to) \/ e <= Tolerance(move)
                          /\ trajectory_done /\ normalized => e <= Tolerance(move)
    BY DEF NoOvershoot
  <1>1. /\ normalized /\ position \in Int /\ Moves(move, command)
        /\ InMove(move, command.position, trajectory_done, position, velocity)
    BY DEF MoveInv
  <1>2. (IsFinite(move.limit) => Holdable(move)) /\ (IsFinite(move.accel) => IsFinite(move.limit))
    BY <1>1, CommandHolds
  <1>3. Tolerance(move) \in Int
    BY <1>2 DEF Tolerance, Holdable
  <1>4. move.to \in Int
    BY <1>1 DEF Moves
  <1>5. Near(move.to - position, Tolerance(move)) => Abs(position - move.to) <= Tolerance(move)
    BY <1>1, <1>3, <1>4 DEF Near, Abs
  <1>6. trajectory_done => Near(move.to - position, Tolerance(move))
    BY <1>1 DEF InMove, Arrived
  <1>7. ~trajectory_done =>
          Between(position, move.from, move.to) \/ Near(move.to - position, Tolerance(move))
    BY <1>1 DEF InMove, OnCourse, Tolerance
  <1> QED BY <1>5, <1>6, <1>7

(* UpdateTrajectory over a whole move: from rest to rest it stays between    *)
(* its ends or near its target, and is called done near its target, for all *)
(* commands in which the acceleration of a tick is no more than the velocity *)
(* limit, in a unit so fine that rounding a deceleration does not matter.    *)
THEOREM MovesStay ==
  ASSUME GentleCommands, FineCommands
  PROVE  Spec => []NoOvershoot
  <1>1. ServoInv /\ OriginInv /\ MoveInv => NoOvershoot
    BY MoveResult
  <1> QED BY <1>1, ServoInductive, OriginInductive, MoveInductive, PTL
=============================================================================
