--------------------------- MODULE MotorControlProofs ---------------------------
(***************************************************************************)
(* What every call of the main loop and every tick of the interrupt        *)
(* preserves, for any sets of modes and kinds and any capture length.      *)
(***************************************************************************)
EXTENDS MotorControl, TLAPS

(* The motor rests: what Stop() leaves and what a flash write needs.        *)
Resting == session = "none" /\ ~tim5_irq

(* A piece of the main loop that leaves the motor alone. *)
LEMMA MotorUnchanged ==
  ASSUME MotorInd, UNCHANGED motorVars
  PROVE  MotorInd'
BY DEF motorVars, MotorInd, MotorTypeOK, SessionInv, BackupInv, FlagInv, SampleInv

(* Stop(), from wherever it is called, restores the invariant and rests.    *)
LEMMA StopPreserves ==
  ASSUME MotorInd, Stop, trip' \in BOOLEAN, UNCHANGED call
  PROVE  MotorInd' /\ Resting' /\ dirty' = dirty
<1> USE DEF MotorInd, Stop, DisableControlIsr, AbortSnapshot, RestoreCalibration,
      BridgeOff
<1>1. MotorTypeOK'
  <2>1. samples_left' \in 0 .. SnapTarget /\ snapshot' \in SnapStates
    BY SnapTargetAssumption DEF SnapStates
  <2>2. encoder_cal' \in {"usable", "raw"} /\ backup' \in {"none", "usable", "raw"}
    BY DEF MotorTypeOK
  <2>3. /\ mode' \in Modes /\ session' \in Sessions
        /\ power_on' \in BOOLEAN /\ output_enabled' \in BOOLEAN
        /\ duty' \in {"zero", "min", "live"}
        /\ tim5_irq' \in BOOLEAN /\ control_isr_on' \in BOOLEAN
    BY DEF Modes, Sessions
  <2>4. dirty' = dirty /\ call' = call
    OBVIOUS
  <2> HIDE DEF Stop
  <2> QED BY <2>1, <2>2, <2>3, <2>4 DEF MotorTypeOK
<1>2. SessionInv'
  BY DEF SessionInv, AllKinds
<1>3. SampleInv' /\ FlagInv'
  BY DEF SampleInv, FlagInv
<1>4. BackupInv'
  BY DEF BackupInv, EncoderKinds, MotorTypeOK
<1> QED BY <1>1, <1>2, <1>3, <1>4 DEF Resting

(* A start leaves a session that the interrupt supervises. *)
LEMMA LaunchPreserves ==
  ASSUME MotorInd, NEW m \in Modes, NEW s \in RunModes \cup AllKinds, Launch(m, s),
         m = IF s \in AllKinds THEN "Calibration" ELSE s,
         IF s \in EncoderKinds
         THEN /\ backup' = IF backup = "none" THEN encoder_cal ELSE backup
              /\ encoder_cal' = "raw"
         ELSE RestoreCalibration
  PROVE  MotorInd' /\ dirty' = dirty
<1> USE DEF MotorInd, Launch, AbortSnapshot, BridgeLive
<1>1. MotorTypeOK'
  <2>1. samples_left' \in 0 .. SnapTarget /\ snapshot' \in SnapStates
    BY SnapTargetAssumption DEF SnapStates
  <2>2. encoder_cal' \in {"usable", "raw"} /\ backup' \in {"none", "usable", "raw"}
    BY DEF MotorTypeOK, RestoreCalibration
  <2>3. /\ mode' \in Modes /\ session' \in Sessions
        /\ power_on' \in BOOLEAN /\ output_enabled' \in BOOLEAN
        /\ duty' \in {"zero", "min", "live"}
        /\ tim5_irq' \in BOOLEAN /\ control_isr_on' \in BOOLEAN
        /\ trip' \in BOOLEAN
    BY DEF Sessions
  <2>4. dirty' = dirty /\ call' = "flag"
    OBVIOUS
  <2> HIDE DEF Launch
  <2> QED BY <2>1, <2>2, <2>3, <2>4 DEF MotorTypeOK
<1>2. SessionInv'
  BY DEF SessionInv, AllKinds, RunModes
<1>3. SampleInv' /\ FlagInv'
  BY DEF SampleInv, FlagInv
<1>4. BackupInv'
  BY DEF BackupInv, EncoderKinds, MotorTypeOK, RestoreCalibration
<1> QED BY <1>1, <1>2, <1>3, <1>4

LEMMA PushPreserves ==
  ASSUME MotorTypeOK, SampleInv, PushSample
  PROVE  /\ snapshot' \in SnapStates
         /\ samples_left' \in 0 .. SnapTarget
         /\ SampleInv'
  BY SnapTargetAssumption DEF MotorTypeOK, SampleInv, PushSample, snapVars, SnapStates

(* One tick: it never opens a session nor the interrupt, touches no call of *)
(* the main loop, and makes a block dirty only as it ends the session.      *)
LEMMA TickPreserves ==
  ASSUME MotorInd, IsrTick
  PROVE  /\ MotorInd'
         /\ tim5_irq
         /\ session' \in {session, "none"}
         /\ dirty' # dirty => session' = "none"
         /\ call' = call
<1> DEFINE Goal == /\ MotorInd'
                   /\ tim5_irq
                   /\ session' \in {session, "none"}
                   /\ dirty' # dirty => session' = "none"
                   /\ call' = call
<1>1. CASE IsrIdle
  <2>1. snapshot' \in SnapStates /\ samples_left' \in 0 .. SnapTarget /\ SampleInv'
    BY <1>1, PushPreserves DEF IsrIdle, MotorInd, MotorTypeOK, SampleInv, snapVars
  <2>2. UNCHANGED <<ctlVars, bridgeVars, calVars, trip, call>>
    BY <1>1 DEF IsrIdle
  <2>3. /\ tim5_irq' \in BOOLEAN /\ control_isr_on' \in BOOLEAN
        /\ FlagInv'
        /\ tim5_irq' \/ session = "none"
    BY <1>1, <2>2 DEF IsrIdle, MotorInd, MotorTypeOK, FlagInv, SessionInv, ControlActive,
       DisableControlIsr, isrVars, Sessions, AllKinds, RunModes, PushSample
  <2> QED BY <1>1, <2>1, <2>2, <2>3 DEF IsrIdle, MotorInd, MotorTypeOK, SessionInv,
       BackupInv, ctlVars, bridgeVars, calVars
<1>2. CASE IsrTrip
  BY <1>2, StopPreserves DEF IsrTrip, Resting
<1>3. CASE IsrEncoderLost
  BY <1>3, StopPreserves DEF IsrEncoderLost, Resting
<1>4. CASE IsrModulatorRefuses
  BY <1>4 DEF IsrModulatorRefuses, MotorInd, MotorTypeOK, SessionInv, BackupInv,
     FlagInv, SampleInv, ctlVars, bridgeVars, isrVars, snapVars, calVars
<1>5. CASE IsrStep
  <2>1. snapshot' \in SnapStates /\ samples_left' \in 0 .. SnapTarget /\ SampleInv'
    BY <1>5, PushPreserves DEF IsrStep, MotorInd
  <2>2. session # "none"
    BY <1>5 DEF IsrStep, ControlActive, RunModes, AllKinds
  <2> QED BY <1>5, <2>1, <2>2 DEF IsrStep, BridgeLive, MotorInd, MotorTypeOK, SessionInv,
       BackupInv, FlagInv, ctlVars, isrVars, calVars
<1>6. CASE \E outcome \in {"applied", "refused", "failed"} : IsrFinish(outcome)
  <2> PICK outcome \in {"applied", "refused", "failed"} : IsrFinish(outcome)
    BY <1>6
  <2>1. snapshot' \in SnapStates /\ samples_left' \in 0 .. SnapTarget /\ SampleInv'
    BY PushPreserves DEF IsrFinish, MotorInd
  <2>2. session \in AllKinds /\ tim5_irq
    BY DEF IsrFinish, RefusableKinds, AllKinds
  <2>3. mode' = "Stopped" /\ session' = "none" /\ call' = call /\ trip' = FALSE
        /\ ~power_on' /\ ~output_enabled' /\ power_on' \in BOOLEAN
        /\ output_enabled' \in BOOLEAN /\ duty' = "min"
        /\ tim5_irq' = tim5_irq /\ control_isr_on' = control_isr_on
    BY DEF IsrFinish, BridgeOff, isrVars
  <2>4. dirty' \subseteq Blocks
    BY <2>2 DEF IsrFinish, MotorInd, MotorTypeOK, Blocks, BlockOf, AllKinds, EncoderKinds
  <2>5. backup' = "none" /\ encoder_cal' = "usable"
    <3>1. CASE session \in EncoderKinds
      BY <3>1 DEF IsrFinish, MotorInd, MotorTypeOK, BackupInv, RestoreCalibration
    <3>2. CASE session \notin EncoderKinds
      BY <3>2 DEF IsrFinish, MotorInd, MotorTypeOK, BackupInv
    <3> QED BY <3>1, <3>2
  <2> QED BY <2>1, <2>2, <2>3, <2>4, <2>5 DEF MotorInd, MotorTypeOK, SessionInv, BackupInv,
       FlagInv, Modes, Sessions, AllKinds, EncoderKinds
<1> QED BY <1>1, <1>2, <1>3, <1>4, <1>5, <1>6 DEF IsrTick

(* A request that may command torque: whatever it starts is supervised. *)
LEMMA ControlPreserves ==
  ASSUME MotorInd, ControlRequest
  PROVE  MotorInd' /\ call' \in {"idle", "refresh", "flag"}
<1>1. CASE StartFails
  BY <1>1, StopPreserves DEF StartFails, MotorInd, MotorTypeOK
<1>2. CASE \E m \in Runs : StartSeesRunning(m)
  BY <1>2 DEF StartSeesRunning, ctlVars, bridgeVars, isrVars, snapVars, calVars,
     MotorInd, MotorTypeOK, SessionInv, BackupInv, FlagInv, SampleInv
<1>3. CASE \E m \in Runs : StartRun(m)
  <2> PICK m \in Runs : StartRun(m)
    BY <1>3
  <2>1. m \in RunModes /\ m \in Modes /\ m \notin AllKinds /\ m \notin EncoderKinds
    BY RunsAssumption DEF RunModes, Modes, AllKinds, EncoderKinds
  <2>2. Launch(m, m) /\ RestoreCalibration
    BY DEF StartRun
  <2>3. MotorInd'
    BY <2>1, <2>2, LaunchPreserves
  <2> QED BY <2>2, <2>3 DEF Launch
<1>4. CASE \E k \in Kinds : StartCalibration(k)
  <2> PICK k \in Kinds : StartCalibration(k)
    BY <1>4
  <2>1. k \in AllKinds /\ "Calibration" \in Modes
    BY KindsAssumption DEF Modes
  <2>2. /\ Launch("Calibration", k)
        /\ IF k \in EncoderKinds
           THEN /\ backup' = IF backup = "none" THEN encoder_cal ELSE backup
                /\ encoder_cal' = "raw"
           ELSE RestoreCalibration
    BY DEF StartCalibration
  <2>3. MotorInd'
    BY <2>1, <2>2, LaunchPreserves
  <2> QED BY <2>2, <2>3 DEF Launch
<1>5. CASE CompensationEdit
  BY <1>5 DEF CompensationEdit, Blocks, ctlVars, bridgeVars, isrVars, snapVars,
     MotorInd, MotorTypeOK, SessionInv, BackupInv, FlagInv, SampleInv
<1> QED BY <1>1, <1>2, <1>3, <1>4, <1>5 DEF ControlRequest

(* The other requests open neither a session nor the interrupt. *)
LEMMA PassivePreserves ==
  ASSUME MotorInd, PassiveRequest
  PROVE  /\ MotorInd'
         /\ session' \in {session, "none"}
         /\ tim5_irq' => tim5_irq
         /\ call' \in {"idle", "arm"}
<1>1. CASE CallStop
  BY <1>1, StopPreserves DEF CallStop, MotorInd, MotorTypeOK, Resting
<1>2. CASE SnapshotCheck
  BY <1>2 DEF SnapshotCheck, ctlVars, bridgeVars, isrVars, snapVars, calVars,
     MotorInd, MotorTypeOK, SessionInv, BackupInv, FlagInv, SampleInv
<1>3. CASE ReloadCalibration
  BY <1>3 DEF ReloadCalibration, ctlVars, bridgeVars, isrVars, snapVars,
     MotorInd, MotorTypeOK, SessionInv, BackupInv, FlagInv, SampleInv
<1>4. CASE NoEffect
  BY <1>4, MotorUnchanged DEF NoEffect, motorVars
<1> QED BY <1>1, <1>2, <1>3, <1>4 DEF PassiveRequest

LEMMA FinishPreserves ==
  ASSUME MotorInd, FinishCall
  PROVE  /\ MotorInd'
         /\ session' = session /\ tim5_irq' = tim5_irq
         /\ call' = "idle"
<1>1. CASE RefreshCommand
  BY <1>1 DEF RefreshCommand, ctlVars, bridgeVars, isrVars, snapVars, calVars,
     MotorInd, MotorTypeOK, SessionInv, BackupInv, FlagInv, SampleInv
<1>2. CASE SetIsrFlag
  BY <1>2 DEF SetIsrFlag, ctlVars, bridgeVars, snapVars, calVars,
     MotorInd, MotorTypeOK, SessionInv, BackupInv, FlagInv, SampleInv
<1>3. CASE SnapshotArm
  <2>1. snapshot' \in SnapStates /\ samples_left' \in 0 .. SnapTarget /\ SampleInv'
    BY <1>3, SnapTargetAssumption
    DEF SnapshotArm, snapVars, MotorInd, MotorTypeOK, SampleInv, SnapStates
  <2> QED BY <1>3, <2>1 DEF SnapshotArm, ctlVars, bridgeVars, isrVars, calVars,
       MotorInd, MotorTypeOK, SessionInv, BackupInv, FlagInv
<1> QED BY <1>1, <1>2, <1>3 DEF FinishCall

(* The named properties of the sessions follow. *)
LEMMA MotorIndSafe ==
  ASSUME MotorInd
  PROVE  SupervisedPower /\ SpiExclusive /\ TrustedCommutation
<1>1. SupervisedPower
  BY DEF SupervisedPower, ControlActive, MotorInd, SessionInv, MotorTypeOK, Sessions
<1>2. SpiExclusive
  BY DEF SpiExclusive, MotorInd, FlagInv
<1>3. TrustedCommutation
  BY DEF TrustedCommutation, MotorInd, BackupInv, MotorTypeOK, EncoderSessions,
     EncoderKinds, SpeedKinds, RunModes
<1> QED BY <1>1, <1>2, <1>3
=============================================================================
