------------------------------ MODULE MCServoMode ------------------------------
(* Eight units of acceleration, full speed after four ticks, and moves of    *)
(* some ten ticks; a push is a slip of half the tolerance.                   *)
EXTENDS ServoMode

To(p, v, vl, al) == [position |-> p, velocity |-> v, stop |-> NaN, velocity_limit |-> vl, accel_limit |-> al]
Until(v, s, vl, al) == [position |-> NaN, velocity |-> v, stop |-> s, velocity_limit |-> vl, accel_limit |-> al]

SomeCommands ==
  { To(300, 0, NaN, NaN), To(300, 0, 24, 8), To(-150, 0, NaN, 8),
    To(40, 8, 24, 8), To(0, 0, 100, 4),
    Until(0, NaN, NaN, 8),
    Until(20, 210, NaN, 8), Until(20, 210, -1, NaN), Until(50, 250, NaN, NaN),
    Until(-20, -130, 16, 8) }

NoLimits == {To(300, 0, NaN, NaN)}

Rest == {[pos |-> 0, vel |-> 0]}
RestOrMotion == Rest \cup {[pos |-> 10, vel |-> 12]}
Off == {60}
NoPush == {}

(* What LimitsKept and MovesStay of ServoProofs ask of the commands. *)
ASSUME CommandsAreGentle == GentleCommands
ASSUME CommandsAreFine == FineCommands
=============================================================================
