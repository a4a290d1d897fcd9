------------------------------- MODULE Protection -------------------------------
(***************************************************************************)
(* math::protection::SafetyMonitor under MotorControlService: which tick   *)
(* of a session trips, over starts, stops and changes of configuration.    *)
(* Currents are the largest of the three phases; a sample lasts one tick,  *)
(* so that a window of i2t_tau_s is a number of ticks.                     *)
(***************************************************************************)
EXTENDS Integers, Sequences

CONSTANTS
  Currents,           \* what a sample may read, the largest phase
  Ratings,            \* max_phase_current_A the host may configure
  OvercurrentCount,   \* 5 in ProtectionConfig
  Window,             \* i2t_tau_s in ticks
  MaxSamples          \* bound: samples of one session

ASSUME CurrentsAssumption == Currents \subseteq Nat
ASSUME RatingsAssumption == Ratings \subseteq Nat
ASSUME CountAssumption == OvercurrentCount \in Nat \ {0}
ASSUME WindowAssumption == Window \in Nat
ASSUME SamplesAssumption == MaxSamples \in Nat

VARIABLES
  active,             \* a control session runs, so ticks are evaluated
  overcurrent,        \* config_.overcurrent_A
  rated,              \* config_.i2t_rated_A
  incoming,           \* the rating set_config is half way through copying
  overcurrent_count,
  i2t_energy,
  last_trip,
  over,               \* history: was sample k of the session over the limit
  charge              \* history: the heat above the rating after k samples

monitorVars == <<overcurrent_count, i2t_energy, last_trip>>
configVars  == <<overcurrent, rated, incoming>>
history     == <<over, charge>>
vars        == <<active, configVars, monitorVars, history>>

None == "none"

Trips == {None, "CurrentSenseInvalid", "PeakOvercurrent", "I2t",
          "BusUndervoltage", "BusOvervoltage", "FetOvertemperature"}

(* Apply: the trip level is 1.2 times the rating. *)
OvercurrentOf(r) == (6 * r) \div 5

NothingIncoming == -1

TypeOK ==
  /\ active \in BOOLEAN
  /\ overcurrent \in Nat
  /\ rated \in Nat
  /\ incoming \in Ratings \cup {NothingIncoming}
  /\ overcurrent_count \in 0 .. OvercurrentCount
  /\ i2t_energy \in Nat
  /\ last_trip \in Trips
  /\ over \in Seq(BOOLEAN)
  /\ charge \in Seq(Int)

-----------------------------------------------------------------------------
Reset ==
  /\ overcurrent_count' = 0
  /\ i2t_energy' = 0
  /\ last_trip' = None
  /\ over' = <<>>
  /\ charge' = <<0>>

Init ==
  /\ active = FALSE
  /\ \E r \in Ratings : overcurrent = OvercurrentOf(r) /\ rated = r
  /\ incoming = NothingIncoming
  /\ overcurrent_count = 0
  /\ i2t_energy = 0
  /\ last_trip = None
  /\ over = <<>>
  /\ charge = <<0>>

(* A start in another mode, or from rest: StartIsr resets the monitor. The   *)
(* refresh of a running mode does not come here.                             *)
Start ==
  /\ active' = TRUE
  /\ Reset
  /\ UNCHANGED configVars

(* The host, the deadline or the end of the session: last_trip_ stays. *)
Stop ==
  /\ active
  /\ active' = FALSE
  /\ UNCHANGED <<configVars, monitorVars, history>>

(* SetProtectionConfig copies field by field, with the interrupt open. *)
BeginConfig ==
  /\ incoming = NothingIncoming
  /\ \E r \in Ratings : incoming' = r /\ overcurrent' = OvercurrentOf(r)
  /\ UNCHANGED <<active, rated, monitorVars, history>>

FinishConfig ==
  /\ incoming # NothingIncoming
  /\ rated' = incoming
  /\ incoming' = NothingIncoming
  /\ UNCHANGED <<active, overcurrent, monitorVars, history>>

-----------------------------------------------------------------------------
(* Evaluate, called by ApplyProtection in every tick of a session.          *)

Over(i) == overcurrent > 0 /\ i > overcurrent

(* Mutant: only a new session clears the count. *)
Counted_Cumulative(i) == IF Over(i) THEN overcurrent_count + 1 ELSE overcurrent_count

Counted(i) == IF Over(i) THEN overcurrent_count + 1 ELSE 0

Excess(i) == IF rated > 0 THEN i * i - rated * rated ELSE 0

(* Mutant: cool stretches are saved up. *)
Heated_Signed(i) == i2t_energy + Excess(i)

Heated(i) == IF i2t_energy + Excess(i) < 0 THEN 0 ELSE i2t_energy + Excess(i)

Limit == rated * rated * Window

Overheated(i) == rated > 0 /\ Window > 0 /\ Heated(i) > Limit

(* current_ok is FALSE: the rest of the monitor is left as it is. *)
SenseInvalid ==
  /\ last_trip' = "CurrentSenseInvalid"
  /\ UNCHANGED <<overcurrent_count, i2t_energy, history>>

Peak(i) ==
  /\ Over(i) /\ Counted(i) >= OvercurrentCount
  /\ overcurrent_count' = Counted(i)
  /\ last_trip' = "PeakOvercurrent"
  /\ over' = Append(over, TRUE)
  /\ UNCHANGED <<i2t_energy, charge>>

(* A bus or FET reading that is not ok is not looked at ("none"). *)
Slow(i, bus, fet) ==
  CASE Overheated(i)                          -> "I2t"
    [] ~Overheated(i) /\ bus = "low"          -> "BusUndervoltage"
    [] ~Overheated(i) /\ bus = "high"         -> "BusOvervoltage"
    [] OTHER -> IF fet = "hot" THEN "FetOvertemperature" ELSE None

Integrate(i, bus, fet) ==
  /\ ~(Over(i) /\ Counted(i) >= OvercurrentCount)
  /\ overcurrent_count' = Counted(i)
  /\ i2t_energy' = Heated(i)
  /\ last_trip' = Slow(i, bus, fet)
  /\ over' = Append(over, Over(i))
  /\ charge' = Append(charge, charge[Len(charge)] + Excess(i))

Evaluate ==
  \/ SenseInvalid
  \/ \E i \in Currents : Peak(i)
  \/ \E i \in Currents, bus \in {"none", "low", "high"}, fet \in {"none", "hot"} :
       Integrate(i, bus, fet)

(* ApplyProtection: any trip stops the session within the tick. *)
Tick ==
  /\ active
  /\ Len(over) < MaxSamples
  /\ Evaluate
  /\ active' = (last_trip' = None)
  /\ UNCHANGED configVars

Next == Start \/ Stop \/ BeginConfig \/ FinishConfig \/ Tick

Spec == Init /\ [][Next]_vars

-----------------------------------------------------------------------------
(* Properties.                                                              *)

LastAreOver(n) ==
  n <= Len(over) /\ \A j \in 1 .. Len(over) : j > Len(over) - n => over[j]

(* A peak trip is exactly OvercurrentCount samples over the limit in a row,  *)
(* within one session: single spikes never add up to a trip, the count does  *)
(* not leak from one session into the next, and no session goes on behind    *)
(* such a run, whichever limits were configured on the way.                  *)
PeakIsConsecutive ==
  /\ last_trip = "PeakOvercurrent" => LastAreOver(OvercurrentCount)
  /\ active => ~LastAreOver(OvercurrentCount)

(* The hottest stretch of samples that ends now. *)
WindowOver(c, bound) == \E k \in 1 .. Len(c) : c[Len(c)] - c[k] > bound

(* The integrator, clamped at zero and never looked back on, trips exactly   *)
(* when some stretch of consecutive samples ending now has heated the motor  *)
(* by more than the rating allows in one window.                             *)
TripsOnWorstWindow ==
  [][Len(charge') > Len(charge) /\ rated > 0 /\ Window > 0
       => (last_trip' = "I2t" <=> WindowOver(charge', Limit))]_vars

-----------------------------------------------------------------------------
(* What makes the properties above inductive.                               *)

(* The largest sum over the samples of a stretch ending now, the empty one   *)
(* among them.                                                               *)
Worst(c, energy) ==
  /\ Len(c) > 0
  /\ \A k \in 1 .. Len(c) : c[Len(c)] - c[k] <= energy
  /\ \E k \in 1 .. Len(c) : c[Len(c)] - c[k] = energy

EnergyIsWorst == Worst(charge, i2t_energy)

(* The count is the length of the run of samples over the limit. *)
CountIsRun ==
  /\ overcurrent_count <= Len(over)
  /\ \A j \in 1 .. Len(over) : j > Len(over) - overcurrent_count => over[j]
  /\ Len(over) > overcurrent_count => ~over[Len(over) - overcurrent_count]

TripInv ==
  /\ active => overcurrent_count < OvercurrentCount
  /\ last_trip = "PeakOvercurrent" => overcurrent_count = OvercurrentCount

IndInv == TypeOK /\ EnergyIsWorst /\ CountIsRun /\ TripInv
=============================================================================
