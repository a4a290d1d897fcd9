------------------------------- MODULE ServoMode -------------------------------
(***************************************************************************)
(* math::servo_mode::ServoMode: the virtual trajectory behind a servo      *)
(* session, between the main loop that writes commands and the control     *)
(* interrupt that steps it. One tick lasts 1, a velocity is a distance per *)
(* tick and positions count halves of that distance, so that the           *)
(* trapezoid of a tick is an integer; the one division of the planner is   *)
(* rounded either way. The PID behind the trajectory is left out.          *)
(***************************************************************************)
EXTENDS Integers

CONSTANTS
  NaN,                \* QuietNan()
  Commands,           \* what StartServo may hand over: records of five fields
  Measured,           \* encoder positions and velocities a session begins at
  MaxVelocity,        \* options_.max_velocity_cmd_rad_s
  DefaultVelocity,    \* options_.default_velocity_limit_rad_s
  DefaultAccel,       \* options_.default_accel_limit_rad_s2, NaN or a number
  Slip,               \* options_.max_position_slip_rad
  Pushes,             \* how far a tick may find the motor off the trajectory
  MaxPushes,          \* bound: ticks that find it off
  MaxCommands,        \* bound: starts and refreshes
  Range               \* bound: the trajectory is followed within -Range .. Range

ASSUME LimitsAssumption == MaxVelocity \in Nat \ {0} /\ Slip \in Nat /\ Range \in Nat

Number == Int \cup {NaN}
CommandRecords ==
  [position : Number, velocity : Int, stop : Number, velocity_limit : Number, accel_limit : Number]

ASSUME CommandsAssumption ==
  /\ NaN \notin Int
  /\ Commands \subseteq CommandRecords
  /\ Measured \subseteq [pos : Int, vel : Int]
  /\ DefaultVelocity \in Nat \cup {NaN} /\ DefaultAccel \in Nat \cup {NaN}
ASSUME BoundsAssumption == Pushes \subseteq Int /\ MaxPushes \in Nat /\ MaxCommands \in Nat

VARIABLES
  active,
  command,            \* command_
  normalized,         \* FALSE between the copy of a command and its limits
  position,           \* control_position_turns_
  velocity,           \* control_velocity_hz_
  trajectory_done,
  pushes, sent,       \* what is left of the bounds
  move                \* history: where an undisturbed move began and goes

control == <<position, velocity, trajectory_done>>
vars == <<active, command, normalized, control, pushes, sent, move>>

IsFinite(x) == x # NaN
Abs(x) == IF x < 0 THEN -x ELSE x
Limit(x, bound) == IF x > bound THEN bound ELSE IF x < -bound THEN -bound ELSE x
Between(x, a, b) == (a <= x /\ x <= b) \/ (b <= x /\ x <= a)

-----------------------------------------------------------------------------
(* Commands.                                                                *)

Defaulted(given, default) ==
  IF ~IsFinite(given) THEN default ELSE IF given < 0 THEN NaN ELSE given

(* Mutant: a limit above the ceiling is kept. *)
NormalVelocityLimit_Trusted(c) ==
  LET v == Defaulted(c.velocity_limit, DefaultVelocity)
  IN  IF ~IsFinite(v) /\ IsFinite(Defaulted(c.accel_limit, DefaultAccel))
      THEN MaxVelocity ELSE v

NormalVelocityLimit(c) ==
  LET v == Defaulted(c.velocity_limit, DefaultVelocity)
      a == Defaulted(c.accel_limit, DefaultAccel)
  IN  IF IsFinite(v) THEN Limit(v, MaxVelocity)
      ELSE IF IsFinite(a) THEN MaxVelocity ELSE NaN

NormalizeCommandLimits(c) ==
  LET v == NormalVelocityLimit(c)
  IN  [c EXCEPT !.velocity_limit = v,
                !.accel_limit    = Defaulted(c.accel_limit, DefaultAccel),
                !.velocity       = Limit(@, IF IsFinite(v) THEN v ELSE MaxVelocity)]

(* A tick of acceleration is no more than the velocity limit. *)
Gentle(c) == IsFinite(c.accel_limit) => c.accel_limit <= c.velocity_limit
GentleCommands == \A c \in Commands : Gentle(NormalizeCommandLimits(c))

(* The unit is so fine that a deceleration rounded by one does not matter.  *)
Fine(c) ==
  IsFinite(c.accel_limit) /\ c.accel_limit > 0 =>
    c.velocity_limit <= 9 * c.accel_limit * c.accel_limit
FineCommands == \A c \in Commands : Fine(NormalizeCommandLimits(c))

(* A move from rest to rest whose end is reached by the planner alone.       *)
MoveOf(c, from, v) ==
  IF /\ IsFinite(from) /\ v = 0
     /\ IsFinite(c.position) /\ c.velocity = 0 /\ ~IsFinite(c.stop)
     /\ c.velocity_limit # 0
  THEN [from |-> from, to |-> c.position, limit |-> c.velocity_limit, accel |-> c.accel_limit]
  ELSE NaN

Init ==
  /\ active = FALSE
  /\ command = [position |-> NaN, velocity |-> 0, stop |-> NaN,
                velocity_limit |-> NaN, accel_limit |-> NaN]
  /\ normalized = TRUE
  /\ position = NaN /\ velocity = NaN
  /\ trajectory_done = FALSE
  /\ pushes = MaxPushes /\ sent = 0
  /\ move = NaN

(* StartServo on a session of another mode, or at rest: the interrupt is     *)
(* closed, so that the command is whole before the first tick.               *)
Start(c) ==
  /\ ~active /\ sent < MaxCommands
  /\ active' = TRUE
  /\ command' = NormalizeCommandLimits(c)
  /\ normalized' = TRUE
  /\ position' = NaN /\ velocity' = NaN /\ trajectory_done' = FALSE
  /\ sent' = sent + 1
  /\ move' = NaN
  /\ UNCHANGED pushes

(* The refresh of a running session, SetCommand, first half: the interrupt   *)
(* is open and may step the command before it has its limits.                *)
CopyCommand(c) ==
  /\ active /\ normalized /\ sent < MaxCommands
  /\ command' = c
  /\ normalized' = FALSE
  /\ sent' = sent + 1
  /\ move' = NaN
  /\ UNCHANGED <<active, control, pushes>>

FinishCommand ==
  /\ ~normalized
  /\ command' = NormalizeCommandLimits(command)
  /\ normalized' = TRUE
  /\ trajectory_done' = FALSE
  /\ move' = MoveOf(command', position, velocity)
  /\ UNCHANGED <<active, position, velocity, pushes, sent>>

(* A trip of the interrupt may stop the session between the two. *)
Stop ==
  /\ active
  /\ active' = FALSE
  /\ position' = NaN /\ velocity' = NaN /\ trajectory_done' = FALSE
  /\ move' = NaN
  /\ UNCHANGED <<command, normalized, pushes, sent>>

-----------------------------------------------------------------------------
(* UpdateTrajectory as a pipeline over the state of one tick: the command    *)
(* with the fields pos, vel, accel and done of the trajectory.               *)

(* EnsureControlState: the first tick of a session takes over the motor. *)
EnsureControlState(s, m) ==
  IF IsFinite(s.pos) THEN s ELSE [s EXCEPT !.pos = m.pos, !.vel = m.vel, !.accel = 0]

Finished(s) ==
  [s EXCEPT !.position = NaN, !.vel = s.velocity, !.accel = 0, !.done = TRUE]

(* Neither limit: the setpoint jumps. *)
Unlimited(s, m) ==
  LET e == [s EXCEPT !.vel = s.velocity, !.accel = 0, !.done = TRUE]
      f == EnsureControlState(e, m)
  IN  IF IsFinite(s.position) THEN [Finished(s) EXCEPT !.pos = s.position]
      ELSE [f EXCEPT !.pos = @ + 2 * f.vel]

(* Mutant: the velocity must be met exactly. *)
VelocityMode_Exact(s) ==
  LET a == IF s.velocity > s.vel THEN s.accel_limit ELSE -s.accel_limit
  IN  IF ~IsFinite(s.accel_limit) \/ s.velocity = s.vel + a
      THEN Finished(s)
      ELSE [s EXCEPT !.accel = a, !.vel = @ + a]

(* No position: the velocity is approached with the acceleration limit. *)
VelocityMode(s) ==
  LET rising == s.velocity > s.vel
      a      == IF rising THEN s.accel_limit ELSE -s.accel_limit
  IN  IF ~IsFinite(s.accel_limit) \/ (s.velocity > s.vel + a) # rising
      THEN Finished(s)
      ELSE [s EXCEPT !.accel = a, !.vel = @ + a]

(* A velocity limit alone: full speed until the next tick would pass. *)
TravelMode(s) ==
  LET dx == s.position - s.pos
      v  == IF dx < 0 THEN -s.velocity_limit ELSE s.velocity_limit
  IN  IF (dx - 2 * v < 0) # (dx < 0) THEN Finished(s)
      ELSE [s EXCEPT !.vel = v, !.accel = 0]

(* The deceleration that stops at the target, v^2 / 2dx, at most a. *)
Required(v, dx, a) ==
  {IF r > a THEN a ELSE r : r \in {(v * v) \div dx, (v * v + dx - 1) \div dx}}

(* Mutant: no look ahead at the stop distance after this tick. *)
MustBrake_Late(f, dx, a) == dx * a <= f * f

(* Braking starts when the distance after one more tick of acceleration      *)
(* would not do.                                                             *)
MustBrake(f, dx, a) ==
  \/ dx * a <= f * f
  \/ (dx - (f + f + a)) * a < (f + a) * (f + a)

CalculateAcceleration(s) ==
  LET a        == s.accel_limit
      f        == s.vel - s.velocity
      dx       == s.position - s.pos
      against(r) == IF f > 0 THEN -r ELSE r
      tooFast  == IsFinite(s.velocity_limit) /\ Abs(s.vel) > s.velocity_limit
      atMax    == IsFinite(s.velocity_limit) /\ Abs(s.vel) = s.velocity_limit
      approaches == f * dx >= 0 /\ dx # 0
  IN  CASE tooFast -> {IF s.vel > 0 THEN -a ELSE a}
        [] ~tooFast /\ ~approaches -> {against(a)}
        [] ~tooFast /\ approaches /\ MustBrake(Abs(f), Abs(dx), a) ->
             {against(r) : r \in Required(Abs(f), Abs(dx), a)}
        [] OTHER -> IF atMax THEN {0} ELSE {IF dx > 0 THEN a ELSE -a}

(* The acceleration of the tick, held at the velocity limit, and the end of  *)
(* the move: the velocity is there and the position is close.                *)
AccelMode(s, acceleration) ==
  LET v1     == s.vel + acceleration
      atMax  == /\ IsFinite(s.velocity_limit)
                /\ \/ Abs(s.vel) < s.velocity_limit /\ Abs(v1) > s.velocity_limit
                   \/ Abs(v1) < s.velocity_limit /\ Abs(s.vel) > s.velocity_limit
      v      == IF ~atMax THEN v1 ELSE IF v1 >= 0 THEN s.velocity_limit ELSE -s.velocity_limit
      off    == Abs(v - s.velocity)
      fast   == IF off > Abs(s.velocity) THEN off ELSE Abs(s.velocity)
      there  == Between(s.velocity, s.vel, v) \/ 2 * off < s.accel_limit
      near   == Abs(s.position - s.pos) <= 20 * fast
  IN  IF there /\ near THEN Finished(s)
      ELSE [s EXCEPT !.vel = v, !.accel = IF atMax THEN 0 ELSE acceleration]

Planned(s) ==
  CASE s.done -> {s}
    [] ~s.done /\ ~IsFinite(s.position) -> {VelocityMode(s)}
    [] ~s.done /\ IsFinite(s.position) /\ ~IsFinite(s.accel_limit) -> {TravelMode(s)}
    [] OTHER -> {AccelMode(s, a) : a \in CalculateAcceleration(s)}

Passed(s) ==
  /\ IsFinite(s.stop)
  /\ (s.vel > 0 /\ s.pos >= s.stop) \/ (s.vel < 0 /\ s.pos <= s.stop)

AtStop(s) == [s EXCEPT !.pos = s.stop, !.vel = 0, !.accel = 0, !.velocity = 0, !.done = TRUE]

(* The stop is on or behind: no velocity is integrated. *)
KilledAtStop(s) == IF Passed(s) THEN AtStop(s) ELSE s

Integrated(s, v0) ==
  [s EXCEPT !.pos = @ + (IF s.accel # 0 THEN v0 + s.vel ELSE 2 * s.vel)]

Limited(s, m) ==
  LET undone == IF IsFinite(s.position) \/ s.velocity # 0 THEN [s EXCEPT !.done = FALSE] ELSE s
      e      == EnsureControlState(undone, m)
  IN  {Integrated(KilledAtStop(p), e.vel) : p \in Planned(e)}

UpdateTrajectory(s, m) ==
  IF IsFinite(s.velocity_limit) \/ IsFinite(s.accel_limit) THEN Limited(s, m)
  ELSE {Unlimited(s, m)}

(* FinishTrajectoryGuards: the target moves, the slip is bounded, the stop   *)
(* is tested on what came out.                                               *)
MovedTarget(s) ==
  IF IsFinite(s.position) THEN [s EXCEPT !.position = @ + 2 * s.velocity] ELSE s

Slipped(s, error) ==
  IF Slip > 0 /\ Abs(error) > Slip
  THEN [s EXCEPT !.pos = @ + error - (IF error > 0 THEN Slip ELSE -Slip)]
  ELSE s

(* Mutant: the sample before is tested, and one pokes past the stop. *)
Reached_Late(s) ==
  /\ IsFinite(s.stop)
  /\ \/ s.vel > 0 /\ s.pos - 2 * s.vel >= s.stop
     \/ s.vel < 0 /\ s.pos - 2 * s.vel <= s.stop

Reached(s) ==
  \/ Passed(s)
  \/ /\ IsFinite(s.stop) /\ s.vel = 0 /\ s.velocity # 0
     /\ Abs(s.pos - s.stop) <= 2 * Abs(s.velocity)

StoppedAt(s) == IF Reached(s) THEN [AtStop(s) EXCEPT !.position = NaN] ELSE s

FinishTrajectoryGuards(s, error) == StoppedAt(Slipped(MovedTarget(s), error))

(* One control interrupt of a servo session. *)
Tick ==
  /\ active
  /\ position \in -Range .. Range \cup {NaN}
  /\ \E m \in (IF IsFinite(position) THEN {NaN} ELSE Measured) :
       LET s == [position |-> command.position, velocity |-> command.velocity,
                 stop |-> command.stop, velocity_limit |-> command.velocity_limit,
                 accel_limit |-> command.accel_limit,
                 pos |-> position, vel |-> velocity, accel |-> 0, done |-> trajectory_done]
       IN  \E p \in UpdateTrajectory(s, m), error \in (IF pushes > 0 THEN Pushes ELSE {}) \cup {0} :
             LET t == FinishTrajectoryGuards(p, error)
             IN  /\ pushes' = IF error = 0 THEN pushes ELSE pushes - 1
                 /\ position' = t.pos /\ velocity' = t.vel /\ trajectory_done' = t.done
                 /\ command' = [command EXCEPT !.position = t.position, !.velocity = t.velocity]
                 /\ move' = IF Slipped(p, error) # p \/ ~normalized THEN NaN
                            ELSE IF IsFinite(position) THEN move
                            ELSE MoveOf(command, m.pos, m.vel)
  /\ UNCHANGED <<active, normalized, sent>>

Next ==
  \/ \E c \in Commands : Start(c) \/ CopyCommand(c)
  \/ FinishCommand \/ Stop \/ Tick

Spec == Init /\ [][Next]_vars

(* The timer of the interrupt runs as long as the session, and the main loop *)
(* gets to the end of SetCommand.                                            *)
FairSpec == Spec /\ WF_vars(Tick) /\ WF_vars(FinishCommand)

-----------------------------------------------------------------------------
(* Properties.                                                              *)

(* The step of a tick with its limits in place and the motor where the       *)
(* trajectory has it.                                                        *)
PlannedTick ==
  /\ active /\ active' /\ normalized /\ sent' = sent /\ pushes' = pushes
  /\ IsFinite(position)

Farther(a, b) == IF a > b THEN a ELSE b

WithinLimits ==
  LET fastest == Farther(Abs(velocity), command.velocity_limit)
      atStop  == velocity' = 0 /\ position' = command.stop
  IN  /\ Abs(velocity') <= fastest /\ fastest <= Farther(Abs(velocity), MaxVelocity)
      /\ (IsFinite(command.accel_limit) /\ ~atStop) =>
           2 * Abs(velocity' - velocity) <= 3 * command.accel_limit
      /\ ~atStop => Abs(position' - position) <= 2 * fastest

(* Whatever command follows on whatever motion, a tick never speeds the      *)
(* trajectory up beyond the velocity limit, never changes the velocity by    *)
(* more than half again of the acceleration limit, a stop apart, and moves   *)
(* the setpoint no further than these velocities carry it.                   *)
LimitsHold == [][PlannedTick /\ IsFinite(command.velocity_limit) => WithinLimits]_vars

(* A velocity command towards a stop, streamed again or not, brings the      *)
(* setpoint to the stop and never a sample past it: the comment before       *)
(* reached in FinishTrajectoryGuards.  A command of velocity zero may: the   *)
(* tick in which it comes to rest is integrated, and a setpoint at rest is   *)
(* not looked at.                                                            *)
StopHolds ==
  [][PlannedTick /\ IsFinite(command.stop) /\ ~IsFinite(command.position)
       /\ command.velocity # 0
       /\ velocity * command.velocity >= 0
       /\ command.velocity * (command.stop - position) >= 0
       => Between(position', position, command.stop)]_vars

(* How far from its target a move may end: within a tick at full speed, with *)
(* an acceleration limit within ten ticks at the last velocity, and nowhere  *)
(* else without limits, when the setpoint jumps.                             *)
Tolerance(m) ==
  IF IsFinite(m.accel) THEN 20 * m.accel
  ELSE IF IsFinite(m.limit) THEN 2 * m.limit ELSE 0

(* A move from rest to rest that nothing disturbs stays between its ends and *)
(* is only called done close to its target.                                  *)
NoOvershoot ==
  IsFinite(move) =>
    /\ \/ Between(position, move.from, move.to)
       \/ Abs(position - move.to) <= Tolerance(move)
    /\ trajectory_done /\ normalized => Abs(position - move.to) <= Tolerance(move)

(* The trajectory is at its end: done, out of the bound of this model, held  *)
(* by a limit of zero, or at rest so close to the target that one tick of    *)
(* acceleration would pass it: then Required is zero, and it stays there.    *)
AtEnd ==
  \/ trajectory_done \/ ~active
  \/ position \notin -Range .. Range \cup {NaN}
  \/ command.velocity_limit = 0
  \/ /\ velocity = 0 /\ IsFinite(command.position) /\ IsFinite(command.accel_limit)
     /\ Abs(command.position - position) < 2 * command.accel_limit

(* Once no more commands come, every trajectory ends: moves arrive, velocity *)
(* commands reach their velocity, whatever they interrupted.                 *)
Arrives == (active /\ normalized /\ sent = MaxCommands) ~> AtEnd

(* Position moves still get a velocity limit, says board_config.h: a tick    *)
(* moves the setpoint no further than the ceiling allows.                    *)
MovesAreLimited ==
  [][active /\ active' /\ IsFinite(position) /\ pushes' = pushes
       => Abs(position' - position) <= 2 * MaxVelocity]_vars

TypeOK ==
  /\ active \in BOOLEAN /\ normalized \in BOOLEAN /\ trajectory_done \in BOOLEAN
  /\ command \in CommandRecords
  /\ position \in Number /\ velocity \in Number
  /\ IsFinite(position) <=> IsFinite(velocity)
  /\ sent \in 0 .. MaxCommands /\ pushes \in 0 .. MaxPushes
=============================================================================
