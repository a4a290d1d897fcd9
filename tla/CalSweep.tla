--------------------------------- MODULE CalSweep ---------------------------------
(***************************************************************************)
(* RIdentCal and BemfIdentCal: a sweep over a few set points.  At each the *)
(* session settles, averages the samples that are on target, and drops the *)
(* point when there are too few; the fit needs three points.               *)
(***************************************************************************)
EXTENDS Naturals, FiniteSets

CONSTANTS
  Settle, Sample,   \* settle_s and sample_s in control ticks
  MinSamples,       \* kMinSamplesPerPoint
  MaxPoints,        \* kMaxPoints
  PointRequests     \* the numbers of points a host may ask for

ASSUME SweepAssumption ==
  /\ Settle \in Nat \ {0} /\ Sample \in Nat \ {0}
  /\ MinSamples \in Nat \ {0} /\ MaxPoints \in Nat /\ MaxPoints >= 3
  /\ PointRequests \subseteq Nat

VARIABLES
  sw_state, n_points, point_idx,
  point_elapsed,    \* point_elapsed_s_
  pt_n,             \* the samples of this point that count
  points_used,
  on_target         \* ghost: the ticks <<point, tick>> on target

sweepVars == <<sw_state, n_points, point_idx, point_elapsed, pt_n, points_used, on_target>>

States == {"Idle", "Running", "Done", "Failed"}
PointTicks == Settle + Sample

SweepTypeOK ==
  /\ sw_state \in States
  /\ n_points \in 3..MaxPoints
  /\ point_idx \in 0..n_points /\ (sw_state = "Running" => point_idx < n_points)
  /\ point_elapsed \in 0..PointTicks - 1
  /\ pt_n \in 0..Sample + 1
  /\ points_used \in 0..point_idx
  /\ on_target \subseteq (0..n_points - 1) \X (1..PointTicks)

SweepInit ==
  /\ sw_state = "Idle"
  /\ n_points = 3 /\ point_idx = 0 /\ point_elapsed = 0
  /\ pt_n = 0 /\ points_used = 0 /\ on_target = {}

SweepStart(n) ==
  /\ sw_state # "Running"
  /\ sw_state' = "Running"
  /\ n_points' = IF n < 3 THEN 3 ELSE IF n > MaxPoints THEN MaxPoints ELSE n
  /\ point_idx' = 0 /\ point_elapsed' = 0
  /\ pt_n' = 0 /\ points_used' = 0 /\ on_target' = {}

SweepStop ==
  /\ sw_state = "Running" /\ sw_state' = "Failed"
  /\ UNCHANGED <<n_points, point_idx, point_elapsed, pt_n, points_used, on_target>>

(* Mutant: the sum of the last point is carried into the next.              *)
FinishPoint_KeepsSum(samples) ==
  /\ points_used' = points_used + (IF samples >= MinSamples THEN 1 ELSE 0)
  /\ point_idx' = point_idx + 1
  /\ point_elapsed' = 0 /\ pt_n' = IF samples > Sample THEN Sample ELSE samples

(* A point with too few samples on target is dropped. *)
FinishPoint(samples) ==
  /\ points_used' = points_used + (IF samples >= MinSamples THEN 1 ELSE 0)
  /\ point_idx' = point_idx + 1
  /\ point_elapsed' = 0 /\ pt_n' = 0

(* Fewer than three points are not fitted; three may be degenerate.         *)
FinishSweep ==
  IF point_idx' < n_points THEN UNCHANGED sw_state
  ELSE sw_state' \in (IF points_used' < 3 THEN {"Failed"} ELSE {"Done", "Failed"})

(* One control tick, with the current or the speed on target or not.        *)
SweepStep(tracks) ==
  LET t == point_elapsed + 1
      samples == IF t >= Settle /\ tracks THEN pt_n + 1 ELSE pt_n
  IN /\ sw_state = "Running"
     /\ on_target' = IF tracks THEN on_target \cup {<<point_idx, t>>} ELSE on_target
     /\ UNCHANGED n_points
     /\ IF t < PointTicks
        THEN /\ point_elapsed' = t /\ pt_n' = samples
             /\ UNCHANGED <<sw_state, point_idx, points_used>>
        ELSE FinishPoint(samples) /\ FinishSweep

-----------------------------------------------------------------------------
(* A result stands on three points at least, each with enough samples on    *)
(* target after it had settled.                                             *)
SweepIsFitted ==
  sw_state = "Done" =>
    Cardinality({p \in 0..n_points - 1 :
      Cardinality({t \in Settle..PointTicks : <<p, t>> \in on_target}) >= MinSamples}) >= 3
=============================================================================
