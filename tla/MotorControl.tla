------------------------------ MODULE MotorControl ------------------------------
(***************************************************************************)
(* The control sessions of middleware::control::MotorControlService: the   *)
(* calls the main loop makes (Start*, StartCalibration, Stop, the snapshot *)
(* request) and the 15 kHz TIM5 interrupt that steps the running session.  *)
(* There is one core and no RTOS: a tick of the interrupt is atomic for    *)
(* the main loop, and may come between any two actions of the main loop    *)
(* while the interrupt is enabled in the NVIC.  A call of the main loop is *)
(* therefore one action, split in two wherever a tick inside it matters.   *)
(*                                                                         *)
(* Currents, angles and voltages are left out: whether a sample trips the  *)
(* protection, whether the encoder is lost, whether the modulator refuses  *)
(* the bus voltage and how a calibration ends are nondeterministic.        *)
(***************************************************************************)
EXTENDS Naturals

AllKinds == {"EncoderPhase", "EncoderLock", "Bemf", "Resistance",
             "Inductance", "Cogging"}

CONSTANTS
  Runs,        \* the run modes the host asks for (Servo, Current, Mit)
  Kinds,       \* the calibration kinds the host asks for
  SnapTarget   \* the largest capture, in samples (kSnapMaxSamples is 512)

RunModes == {"Servo", "Current", "Mit"}

ASSUME RunsAssumption == Runs \subseteq RunModes
ASSUME KindsAssumption == Kinds \subseteq AllKinds
ASSUME SnapTargetAssumption == SnapTarget \in Nat \ {0}

VARIABLES
  mode,            \* mode_
  session,         \* the algorithm whose active() flag is set, or "none"
  power_on,        \* Drv8353s::power_on_, the HIZ pin
  output_enabled,  \* output_enabled_
  duty,            \* what the PWM compare registers hold
  tim5_irq,        \* TIM5 interrupt enabled in the NVIC
  control_isr_on,  \* PhasePwm::control_isr_on_, what isr_enabled() returns
  snapshot,        \* SnapshotService::state_
  samples_left,    \* target_ - count_ of the capture
  dirty,           \* the calibration blocks with a *_dirty_ flag
  encoder_cal,     \* EncoderService::calibration_: usable, or the raw identity
  backup,          \* calibration_backup_, "none" when it is not valid
  trip,            \* safety_.last_trip() is not Trip::None
  call             \* where the main loop is inside a service call

ctlVars    == <<mode, session>>
bridgeVars == <<power_on, output_enabled, duty>>
isrVars    == <<tim5_irq, control_isr_on>>
snapVars   == <<snapshot, samples_left>>
calVars    == <<dirty, encoder_cal, backup>>
motorVars  == <<mode, session, power_on, output_enabled, duty, tim5_irq,
                control_isr_on, snapshot, samples_left, dirty, encoder_cal,
                backup, trip, call>>

Modes    == {"Stopped", "Calibration"} \cup RunModes
Sessions == {"none"} \cup RunModes \cup AllKinds
Blocks   == {"Encoder", "Bemf", "Resistance", "Inductance", "Cogging",
             "Compensation"}
SnapStates == {"Idle", "Capturing", "Ready", "Sending"}

EncoderKinds == {"EncoderPhase", "EncoderLock"}
SpeedKinds   == {"Bemf", "Cogging"}
RefusableKinds == {"Bemf", "Resistance", "Inductance"}

(* The flash block a finished calibration of kind k makes dirty. *)
BlockOf(k) == IF k \in EncoderKinds THEN "Encoder" ELSE k

(* The sessions that commutate on the calibrated encoder angle. *)
EncoderSessions == RunModes \cup SpeedKinds

MotorTypeOK ==
  /\ mode \in Modes
  /\ session \in Sessions
  /\ power_on \in BOOLEAN
  /\ output_enabled \in BOOLEAN
  /\ duty \in {"zero", "min", "live"}
  /\ tim5_irq \in BOOLEAN
  /\ control_isr_on \in BOOLEAN
  /\ snapshot \in SnapStates
  /\ samples_left \in 0 .. SnapTarget
  /\ dirty \subseteq Blocks
  /\ encoder_cal \in {"usable", "raw"}
  /\ backup \in {"none", "usable", "raw"}
  /\ trip \in BOOLEAN
  /\ call \in {"idle", "refresh", "flag", "arm"}

MotorInit ==
  /\ mode = "Stopped"
  /\ session = "none"
  /\ power_on = FALSE
  /\ output_enabled = FALSE
  /\ duty = "zero"
  /\ tim5_irq = FALSE
  /\ control_isr_on = FALSE
  /\ snapshot = "Idle"
  /\ samples_left = 0
  /\ dirty = {}
  /\ encoder_cal = "usable"
  /\ backup = "none"
  /\ trip = FALSE
  /\ call = "idle"

-----------------------------------------------------------------------------
(* Pieces that both the main loop and the interrupt run.                   *)

(* Mutant: the flag is cleared, the NVIC enable forgotten. *)
DisableControlIsr_FlagOnly == control_isr_on' = FALSE /\ UNCHANGED tim5_irq

DisableControlIsr == tim5_irq' = FALSE /\ control_isr_on' = FALSE

(* Mutant: the backup is dropped, not put back. *)
RestoreCalibration_Dropped == backup' = "none" /\ UNCHANGED encoder_cal

RestoreCalibration ==
  /\ encoder_cal' = IF backup = "none" THEN encoder_cal ELSE backup
  /\ backup' = "none"

AbortSnapshot == snapshot' = "Idle" /\ samples_left' = 0

BridgeOff(d) ==
  /\ power_on' = FALSE
  /\ output_enabled' = FALSE
  /\ duty' = d

BridgeLive ==
  /\ power_on' = TRUE
  /\ output_enabled' = TRUE
  /\ duty' = "live"

(* MotorControlService::Stop, which also ends a failed start. *)
Stop ==
  /\ DisableControlIsr
  /\ AbortSnapshot
  /\ RestoreCalibration
  /\ BridgeOff("zero")
  /\ mode' = "Stopped"
  /\ session' = "none"
  /\ UNCHANGED dirty

(* Mutant: a full capture keeps counting. *)
PushSample_Unguarded ==
  IF snapshot # "Idle"
  THEN /\ samples_left' = samples_left - 1
       /\ snapshot' = IF samples_left = 1 THEN "Ready" ELSE snapshot
  ELSE UNCHANGED snapVars

(* SnapshotService::PushIsr: the producer side, with the decimation left out. *)
PushSample ==
  IF snapshot = "Capturing"
  THEN /\ samples_left' = samples_left - 1
       /\ snapshot' = IF samples_left = 1 THEN "Ready" ELSE "Capturing"
  ELSE UNCHANGED snapVars

(* What StepIsr reads at its top. *)
ControlActive == session \in AllKinds \/ (session \in RunModes /\ mode = session)

-----------------------------------------------------------------------------
(* Calls of the main loop.                                                 *)

(* Query, Info, Conf Get, and every request turned down at its head (length, *)
(* state, PWM not initialised, encoder invalid).                             *)
NoEffect == call = "idle" /\ UNCHANGED motorVars

CallStop ==
  /\ call = "idle"
  /\ Stop
  /\ UNCHANGED <<trip, call>>

(* The session already runs: the command will be replaced in place. *)
StartSeesRunning(m) ==
  /\ call = "idle"
  /\ mode = m /\ session = m
  /\ call' = "refresh"
  /\ UNCHANGED <<ctlVars, bridgeVars, isrVars, snapVars, calVars, trip>>

(* SetCommand, SetRefs, SetOmega: the session may have ended since the check. *)
RefreshCommand ==
  /\ call = "refresh"
  /\ call' = "idle"
  /\ UNCHANGED <<ctlVars, bridgeVars, isrVars, snapVars, calVars, trip>>

(* Stop() followed by a PrimeFoc (or a modulator step) that fails. *)
StartFails ==
  /\ call = "idle"
  /\ Stop
  /\ UNCHANGED <<trip, call>>

(* Stop, prime the modulator, PowerOn, StartIsr up to NVIC_EnableIRQ.  The  *)
(* flag control_isr_on_ is written only after the interrupt can already fire. *)
Launch(m, s) ==
  /\ AbortSnapshot
  /\ BridgeLive
  /\ mode' = m
  /\ session' = s
  /\ trip' = FALSE
  /\ tim5_irq' = TRUE
  /\ control_isr_on' = FALSE
  /\ call' = "flag"
  /\ UNCHANGED dirty

StartRun(m) ==
  /\ call = "idle"
  /\ ~ (mode = m /\ session = m)
  /\ Launch(m, m)
  /\ RestoreCalibration

(* BeginCalibration saves the calibration Stop() has just restored. *)
StartCalibration(k) ==
  /\ call = "idle"
  /\ Launch("Calibration", k)
  /\ IF k \in EncoderKinds
     THEN /\ backup' = IF backup = "none" THEN encoder_cal ELSE backup
          /\ encoder_cal' = "raw"
     ELSE RestoreCalibration

(* Mutant: EnableControlIsr never raises the flag. *)
SetIsrFlag_Never ==
  /\ call = "flag"
  /\ call' = "idle"
  /\ UNCHANGED <<ctlVars, bridgeVars, isrVars, snapVars, calVars, trip>>

(* The last statement of EnableControlIsr. *)
SetIsrFlag ==
  /\ call = "flag"
  /\ control_isr_on' = TRUE
  /\ call' = "idle"
  /\ UNCHANGED <<ctlVars, bridgeVars, tim5_irq, snapVars, calVars, trip>>

(* HandleSnapshot up to its two checks, then SnapshotService::Arm. *)
SnapshotCheck ==
  /\ call = "idle"
  /\ control_isr_on
  /\ snapshot = "Idle"
  /\ call' = "arm"
  /\ UNCHANGED <<ctlVars, bridgeVars, isrVars, snapVars, calVars, trip>>

SnapshotArm ==
  /\ call = "arm"
  /\ call' = "idle"
  /\ IF snapshot = "Idle"
     THEN /\ snapshot' = "Capturing"
          /\ samples_left' \in 1 .. SnapTarget
     ELSE UNCHANGED snapVars
  /\ UNCHANGED <<ctlVars, bridgeVars, isrVars, calVars, trip>>

(* EncComp Clear and a successful Commit. *)
CompensationEdit ==
  /\ call = "idle"
  /\ dirty' = dirty \cup {"Compensation"}
  /\ UNCHANGED <<ctlVars, bridgeVars, isrVars, snapVars, encoder_cal, backup,
                 trip, call>>

(* Conf Set, Load and Defaults end in LoadPersistentConfig, which overwrites *)
(* the calibration in use when the flash holds a record.                     *)
ReloadCalibration ==
  /\ call = "idle"
  /\ encoder_cal' \in {encoder_cal, "usable"}
  /\ UNCHANGED <<ctlVars, bridgeVars, isrVars, snapVars, dirty, backup, trip,
                 call>>

-----------------------------------------------------------------------------
(* One tick of the interrupt: MotorControlService::StepIsr.                *)

(* No session: feed a capture that still wants samples, else switch off. *)
IsrIdle ==
  /\ tim5_irq
  /\ ~ ControlActive
  /\ IF snapshot = "Capturing"
     THEN PushSample /\ UNCHANGED isrVars
     ELSE /\ UNCHANGED snapVars
          /\ IF control_isr_on THEN DisableControlIsr ELSE UNCHANGED isrVars
  /\ UNCHANGED <<ctlVars, bridgeVars, calVars, trip, call>>

(* Mutant: a trip cuts the bridge but leaves the session active. *)
IsrTrip_SessionLives ==
  /\ tim5_irq
  /\ ControlActive
  /\ BridgeOff("zero")
  /\ trip' = TRUE
  /\ UNCHANGED <<ctlVars, isrVars, snapVars, calVars, call>>

(* ApplyProtection trips. *)
IsrTrip ==
  /\ tim5_irq
  /\ ControlActive
  /\ Stop
  /\ trip' = TRUE
  /\ UNCHANGED call

(* A session that needs the encoder finds it, or its PLL, invalid, or the   *)
(* servo loop reports a fault (position slip, velocity error).              *)
IsrEncoderLost ==
  /\ tim5_irq
  /\ ControlActive
  /\ session \in EncoderSessions
  /\ Stop
  /\ trip' = FALSE
  /\ UNCHANGED call

(* FocController::Step or DqModulator::Step refuses: the tick returns early. *)
IsrModulatorRefuses ==
  /\ tim5_irq
  /\ ControlActive
  /\ trip' = FALSE
  /\ UNCHANGED <<ctlVars, bridgeVars, isrVars, snapVars, calVars, call>>

(* The session goes on: drive the bridge, record a sample. *)
IsrStep ==
  /\ tim5_irq
  /\ ControlActive
  /\ BridgeLive
  /\ PushSample
  /\ trip' = FALSE
  /\ UNCHANGED <<ctlVars, isrVars, calVars, call>>

(* Mutant: StopFinishedSession without PowerOff. *)
IsrFinish_StaysPowered(outcome) ==
  /\ tim5_irq
  /\ session \in AllKinds
  /\ duty' = "min" /\ UNCHANGED <<power_on, output_enabled>>
  /\ mode' = "Stopped"
  /\ session' = "none"
  /\ RestoreCalibration
  /\ PushSample
  /\ trip' = FALSE
  /\ UNCHANGED <<isrVars, dirty, call>>

(* The calibration ends.  A Done of R, L or Ke may still be refused by the  *)
(* thresholds of Apply*Result.                                              *)
IsrFinish(outcome) ==
  /\ tim5_irq
  /\ session \in IF outcome = "refused" THEN RefusableKinds ELSE AllKinds
  /\ BridgeOff("min")
  /\ mode' = "Stopped"
  /\ session' = "none"
  /\ dirty' = IF outcome = "applied" THEN dirty \cup {BlockOf(session)} ELSE dirty
  /\ IF session \notin EncoderKinds THEN UNCHANGED <<encoder_cal, backup>>
     ELSE IF outcome = "applied"
          THEN encoder_cal' = "usable" /\ backup' = "none"
          ELSE RestoreCalibration
  /\ PushSample
  /\ trip' = FALSE
  /\ UNCHANGED <<isrVars, call>>

IsrTick ==
  \/ IsrIdle
  \/ IsrTrip
  \/ IsrEncoderLost
  \/ IsrModulatorRefuses
  \/ IsrStep
  \/ \E outcome \in {"applied", "refused", "failed"} : IsrFinish(outcome)

-----------------------------------------------------------------------------
(* A request of the host that may command torque (control_allowed_). *)
ControlRequest ==
  \/ StartFails
  \/ \E m \in Runs : StartSeesRunning(m) \/ StartRun(m)
  \/ \E k \in Kinds : StartCalibration(k)
  \/ CompensationEdit

(* A request the adapter serves in every lifecycle state. *)
PassiveRequest == NoEffect \/ CallStop \/ SnapshotCheck \/ ReloadCalibration

(* The rest of a call a request has begun. *)
FinishCall == RefreshCommand \/ SetIsrFlag \/ SnapshotArm

-----------------------------------------------------------------------------
(* Properties of the sessions, stated for every main loop that uses them.   *)

(* The bridge is powered only while the control interrupt, and with it the  *)
(* protection, is running a session: whatever a tick interrupts, no path    *)
(* leaves the last duty on the phases with nobody watching the current.     *)
SupervisedPower ==
  power_on => tim5_irq /\ ControlActive /\ output_enabled

(* A reply samples the encoder only when the interrupt is closed: outside a  *)
(* call, a main loop that reads isr_enabled() = false (ReplyControl) has the *)
(* SPI bus to itself, because no tick can then come.  The one user of the    *)
(* bus that does not ask, the Conf group, is in SpiBus.                      *)
SpiExclusive == call = "idle" /\ ~control_isr_on => ~tim5_irq

(* No session commutates on the identity calibration that an encoder        *)
(* calibration installs while it measures: every way out of one, a Stop, a  *)
(* trip, a failure or a reload from flash, puts a usable calibration back.  *)
TrustedCommutation ==
  session \in EncoderSessions => encoder_cal = "usable"

-----------------------------------------------------------------------------
(* What makes the properties above inductive, as far as the sessions go.    *)

(* mode_, the session's own active flag, the HIZ pin and output_enabled_ are *)
(* four records of one fact, written in different places.                    *)
SessionInv ==
  /\ mode = IF session \in AllKinds THEN "Calibration"
            ELSE IF session = "none" THEN "Stopped" ELSE session
  /\ (power_on <=> session # "none")
  /\ (output_enabled <=> power_on)
  /\ session # "none" => tim5_irq

(* The backup lives exactly as long as the encoder calibration it serves. *)
BackupInv ==
  /\ backup \in {"none", "usable"}
  /\ session \in EncoderKinds <=> backup # "none"
  /\ encoder_cal = "raw" => backup = "usable"

FlagInv == ~control_isr_on /\ call # "flag" => ~tim5_irq

SampleInv == snapshot = "Capturing" => samples_left \in 1 .. SnapTarget

MotorInd == MotorTypeOK /\ SessionInv /\ BackupInv /\ FlagInv /\ SampleInv
=============================================================================
