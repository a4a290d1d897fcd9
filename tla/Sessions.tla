--------------------------------- MODULE Sessions ---------------------------------
(***************************************************************************)
(* The identification sessions of the calibration manager, one at a time:  *)
(* the objects share nothing, and CalibrationManager starts one only when  *)
(* no other is active.  A behaviour is one kind of session, started,       *)
(* stepped by the control interrupt and stopped by the superloop.          *)
(***************************************************************************)
EXTENDS CalSweep, CalInductance, CalCogging, CalEncoderPhase, GapFill

VARIABLES
  kind,
  beat   \* external: the timer; it makes every tick a step, so that fairness
         \* to the ticks does not oblige the motor to move

Kinds == {"Sweep", "Inductance", "Cogging", "Spin", "Lock", "Fill"}

vars == <<kind, beat, sweepVars, inductanceVars, coggingVars, encoderPhaseVars, gapFillVars>>

TypeOK ==
  /\ kind \in Kinds /\ beat \in BOOLEAN
  /\ SweepTypeOK /\ InductanceTypeOK /\ CoggingTypeOK
  /\ EncoderPhaseTypeOK /\ GapFillTypeOK

Init ==
  /\ kind \in Kinds /\ beat = FALSE
  /\ SweepInit /\ InductanceInit /\ CoggingInit /\ EncoderPhaseInit
  /\ IF kind = "Fill" THEN GapFillInit
     ELSE f_state = "Done" /\ pass = 0 /\ bin = 0 /\ value = [b \in FillRange |-> b]

(* StartX of the calibration manager, from the superloop.                   *)
Start ==
  /\ \/ kind = "Sweep" /\ (\E n \in PointRequests : SweepStart(n))
        /\ UNCHANGED <<inductanceVars, coggingVars, encoderPhaseVars>>
     \/ kind = "Inductance" /\ (\E n \in TrialRequests : InductanceStart(n))
        /\ UNCHANGED <<sweepVars, coggingVars, encoderPhaseVars>>
     \/ kind = "Cogging" /\ CoggingStart
        /\ UNCHANGED <<sweepVars, inductanceVars, encoderPhaseVars>>
     \/ kind \in {"Spin", "Lock"} /\ EncoderPhaseStart(kind)
        /\ UNCHANGED <<sweepVars, inductanceVars, coggingVars>>
  /\ UNCHANGED <<kind, beat, gapFillVars>>

(* StopAll of the calibration manager, from the superloop or from a tick.   *)
StopAll ==
  /\ \/ SweepStop /\ UNCHANGED <<inductanceVars, coggingVars, encoderPhaseVars>>
     \/ InductanceStop /\ UNCHANGED <<sweepVars, coggingVars, encoderPhaseVars>>
     \/ CoggingStop /\ UNCHANGED <<sweepVars, inductanceVars, encoderPhaseVars>>
     \/ EncoderPhaseStop /\ UNCHANGED <<sweepVars, inductanceVars, coggingVars>>
  /\ UNCHANGED <<kind, beat, gapFillVars>>

(* The control interrupt steps the one that is active.                      *)
Tick ==
  /\ \/ (\E tracks \in BOOLEAN : SweepStep(tracks))
        /\ UNCHANGED <<inductanceVars, coggingVars, encoderPhaseVars, gapFillVars>>
     \/ (\E there \in BOOLEAN : InductanceStep(there))
        /\ UNCHANGED <<sweepVars, coggingVars, encoderPhaseVars, gapFillVars>>
     \/ (\E d \in {-1, 0, 1} : CoggingStep(d))
        /\ UNCHANGED <<sweepVars, inductanceVars, encoderPhaseVars, gapFillVars>>
     \/ (\E d \in -PhaseBins..PhaseBins : EncoderPhaseStep(d))
        /\ UNCHANGED <<sweepVars, inductanceVars, coggingVars, gapFillVars>>
     \/ FillStep
        /\ UNCHANGED <<sweepVars, inductanceVars, coggingVars, encoderPhaseVars>>
  /\ beat' = ~beat /\ UNCHANGED kind

Next == Start \/ StopAll \/ Tick

Spec == Init /\ [][Next]_vars

(* The timer of the control interrupt does not stop while a session runs.   *)
FairSpec == Spec /\ WF_vars(Tick)

-----------------------------------------------------------------------------
Active ==
  \/ sw_state = "Running" \/ l_state = "Running" \/ c_state = "Running"
  \/ EncoderPhaseActive \/ f_state = "Filling"

(* Whatever the motor does, and with no help from the host, a session ends: *)
(* every wait has a timeout.  The sweeps of a spin have none, so a stalled  *)
(* rotor keeps a spin for ever, which is why it is left out here.           *)
SessionEnds == (Active /\ kind # "Spin") ~> ~Active
=============================================================================
