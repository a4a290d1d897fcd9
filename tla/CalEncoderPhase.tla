----------------------------- MODULE CalEncoderPhase -----------------------------
(***************************************************************************)
(* EncoderPhaseCal.  Spin: the field is turned open loop one way and then  *)
(* the other; the first movement tells the sign of the encoder, and only   *)
(* ticks in which the rotor follows the field at full speed are samples.   *)
(* Lock: the field stands still and the encoder is averaged.               *)
(*                                                                         *)
(* The unit of angle is a bin of the commutation table.  At full speed the *)
(* rotor moves a bin a tick, during a ramp a bin a tick at most.           *)
(***************************************************************************)
EXTENDS Integers, Functions

CONSTANTS
  PhaseBins,                \* kCommutationTableSize
  FullSpeed,                \* omega_elec_rad_s, in steps of the ramp
  RevsEachWay,              \* mech_revs_each_way
  SenseTravel,              \* the 0.5 rad of SenseSign
  AlignSettle, SenseTimeout,
  LockSettle, LockTotal, LockMin,
  MinPerBin,                \* kMinSamplesPerDirectionBin
  AlignSwing                \* how far the rotor may jump or swing while it is
                            \* drawn to the d axis (external: the motor)

ASSUME EncoderPhaseAssumption ==
  /\ PhaseBins \in Nat \ {0} /\ FullSpeed \in Nat \ {0} /\ RevsEachWay \in Nat \ {0}
  /\ SenseTravel \in Nat /\ AlignSwing \in Nat
  /\ AlignSettle \in Nat /\ SenseTimeout \in Nat /\ AlignSettle < SenseTimeout
  /\ LockSettle \in Nat /\ LockTotal \in Nat /\ LockSettle < LockTotal
  /\ LockMin \in Nat /\ MinPerBin \in Nat \ {0}

(* A hypothesis of the theorems about the sign, and a property of the motor: *)
(* the code has nothing that makes sure of it.                               *)
SwingIsSmall == AlignSwing <= SenseTravel

VARIABLES
  e_state, method,
  e_elapsed,        \* elapsed_s_, up to the last tick that is looked at
  omega_cmd, omega_target,
  sign,
  enc_unwrapped,    \* since the start; looked at in SenseSign only
  phase_travel,
  e_have_prev,
  position,         \* the bin of the encoder
  bin_samples,      \* per direction, up to MinPerBin: only that is looked at
  lock_n,
  wiring,           \* external: which way the encoder turns with the field
  swept             \* ghost: how often, up to MinPerBin, a bin was passed in
                    \* step with the field at full speed, per direction of it

encoderPhaseVars ==
  <<e_state, method, e_elapsed, omega_cmd, omega_target, sign, enc_unwrapped,
    phase_travel, e_have_prev, position, bin_samples, lock_n, wiring, swept>>

Directions == {1, -1}
AngleBins == 0..PhaseBins - 1
Travel == RevsEachWay * PhaseBins
SpinActive == {"SenseSign", "Fwd", "Rev"}
SgnOf(x) == IF x > 0 THEN 1 ELSE IF x < 0 THEN -1 ELSE 0
NoSamples == [way \in Directions |-> [b \in AngleBins |-> 0]]
LastTick == IF SenseTimeout + 1 > LockTotal THEN SenseTimeout + 1 ELSE LockTotal
CountAt(counts, way, b) ==
  [counts EXCEPT ![way][b] = IF @ < MinPerBin THEN @ + 1 ELSE @]

EncoderPhaseTypeOK ==
  /\ e_state \in SpinActive \cup {"Idle", "Locking", "Done", "Failed"}
  /\ method \in {"Spin", "Lock"}
  /\ e_elapsed \in 0..LastTick
  /\ omega_cmd \in -FullSpeed..FullSpeed
  /\ omega_target \in {0, FullSpeed, -FullSpeed}
  /\ sign \in Directions /\ wiring \in Directions
  /\ enc_unwrapped \in Int /\ phase_travel \in Int
  /\ e_have_prev \in BOOLEAN /\ position \in AngleBins
  /\ bin_samples \in [Directions -> [AngleBins -> 0..MinPerBin]]
  /\ swept \in [Directions -> [AngleBins -> 0..MinPerBin]]
  /\ lock_n \in 0..LockTotal

EncoderPhaseInit ==
  /\ e_state = "Idle" /\ method = "Lock" /\ e_elapsed = 0
  /\ omega_cmd = 0 /\ omega_target = 0
  /\ sign = 1 /\ wiring \in Directions
  /\ enc_unwrapped = 0 /\ phase_travel = 0 /\ e_have_prev = FALSE
  /\ position = 0 /\ lock_n = 0
  /\ bin_samples = NoSamples /\ swept = NoSamples

EncoderPhaseActive == e_state \in SpinActive \cup {"Locking"}

EncoderPhaseStart(m) ==
  /\ ~EncoderPhaseActive
  /\ e_state' = IF m = "Lock" THEN "Locking" ELSE "SenseSign"
  /\ method' = m
  /\ e_elapsed' = 0 /\ omega_cmd' = 0 /\ omega_target' = 0 /\ sign' = 1
  /\ enc_unwrapped' = 0 /\ phase_travel' = 0 /\ e_have_prev' = FALSE /\ lock_n' = 0
  /\ bin_samples' = NoSamples /\ swept' = NoSamples
  /\ UNCHANGED <<position, wiring>>

EncoderPhaseStop ==
  /\ EncoderPhaseActive
  /\ e_state' = "Failed" /\ omega_cmd' = 0 /\ omega_target' = 0
  /\ UNCHANGED <<method, e_elapsed, sign, enc_unwrapped, phase_travel, e_have_prev,
                 position, bin_samples, lock_n, wiring, swept>>

-----------------------------------------------------------------------------
(* The tick: the command follows its target, the rotor moves by d bins.     *)
Elapsed == IF e_elapsed < LastTick THEN e_elapsed + 1 ELSE e_elapsed
TargetNow ==
  IF e_state = "SenseSign" /\ Elapsed >= AlignSettle THEN FullSpeed ELSE omega_target
RampedTo(target) == omega_cmd + SgnOf(target - omega_cmd)

(* External: before the field turns the rotor may swing about the d axis,   *)
(* then it follows the field or slips.                                      *)
MayMove(d) ==
  \/ d = 0
  \/ /\ omega_cmd # 0 /\ d = wiring * SgnOf(omega_cmd)
  \/ /\ e_state \in {"SenseSign", "Locking"} /\ omega_cmd = 0
     /\ enc_unwrapped + d \in -AlignSwing..AlignSwing

RotorTurns(d) ==
  /\ position' = (position + d) % PhaseBins
  /\ e_have_prev' = TRUE
  /\ swept' = IF e_have_prev /\ RampedTo(TargetNow) \in {FullSpeed, -FullSpeed}
                   /\ d = wiring * SgnOf(RampedTo(TargetNow))
              THEN CountAt(swept, SgnOf(RampedTo(TargetNow)), position')
              ELSE swept

Commanded == omega_target' = TargetNow /\ omega_cmd' = RampedTo(TargetNow)
AtRest == omega_target' = 0 /\ omega_cmd' = 0

FirstReading ==
  /\ ~e_have_prev /\ Commanded
  /\ UNCHANGED <<e_state, sign, enc_unwrapped, phase_travel, bin_samples, lock_n>>

(* Mutant: whichever movement comes first tells the sign. *)
SenseSign_AnyMove(d) ==
  /\ e_have_prev /\ e_state = "SenseSign"
  /\ enc_unwrapped' = enc_unwrapped + d
  /\ IF enc_unwrapped' # 0
     THEN /\ sign' = SgnOf(enc_unwrapped') /\ e_state' = "Fwd" /\ phase_travel' = 0 /\ Commanded
     ELSE /\ phase_travel' = phase_travel + d /\ UNCHANGED sign
          /\ IF Elapsed > SenseTimeout THEN e_state' = "Failed" /\ AtRest
             ELSE UNCHANGED e_state /\ Commanded
  /\ UNCHANGED <<bin_samples, lock_n>>

SenseSign(d) ==
  /\ e_have_prev /\ e_state = "SenseSign"
  /\ enc_unwrapped' = enc_unwrapped + d
  /\ IF enc_unwrapped' \notin -SenseTravel..SenseTravel
     THEN /\ sign' = SgnOf(enc_unwrapped') /\ e_state' = "Fwd" /\ phase_travel' = 0 /\ Commanded
     ELSE /\ phase_travel' = phase_travel + d /\ UNCHANGED sign
          /\ IF Elapsed > SenseTimeout THEN e_state' = "Failed" /\ AtRest
             ELSE UNCHANGED e_state /\ Commanded
  /\ UNCHANGED <<bin_samples, lock_n>>

(* A result needs every bin in both directions; too few samples in all, too *)
(* few of them in step, or too much scatter may refuse it as well.          *)
FinishSpin ==
  /\ e_state' \in
       IF \E way \in Directions, b \in AngleBins : bin_samples'[way][b] < MinPerBin
       THEN {"Failed"} ELSE {"Done", "Failed"}
  /\ AtRest

(* Mutant: the reversal is sampled too, at whatever speed it has. *)
Tracking_AnySpeed(d) == sign * d = SgnOf(RampedTo(TargetNow))

(* The command is at its target and the encoder shows the same speed.       *)
Tracking(d) ==
  /\ RampedTo(TargetNow) = TargetNow
  /\ sign * d = SgnOf(RampedTo(TargetNow))

(* A movement of the two sweeps.  The first ends after RevsEachWay turns,   *)
(* the second after as many from where the reversal began.                  *)
Sweep(d) ==
  /\ e_have_prev /\ e_state \in {"Fwd", "Rev"}
  /\ phase_travel' =
       IF e_state = "Fwd" /\ sign * (phase_travel + d) >= Travel THEN 0 ELSE phase_travel + d
  /\ bin_samples' =
       IF Tracking(d) THEN CountAt(bin_samples, IF e_state = "Fwd" THEN 1 ELSE -1, position')
       ELSE bin_samples
  /\ \/ /\ e_state = "Fwd" /\ sign * (phase_travel + d) >= Travel
        /\ e_state' = "Rev" /\ omega_target' = -FullSpeed /\ omega_cmd' = RampedTo(TargetNow)
     \/ /\ e_state = "Rev" /\ sign * (phase_travel + d) <= -Travel
        /\ FinishSpin
     \/ /\ e_state = "Fwd" => sign * (phase_travel + d) < Travel
        /\ e_state = "Rev" => sign * (phase_travel + d) > -Travel
        /\ UNCHANGED e_state /\ Commanded
  /\ UNCHANGED <<sign, enc_unwrapped, lock_n>>

(* Averaging starts after the settling; scatter may refuse the result.      *)
StepLock(d) ==
  /\ e_have_prev /\ e_state = "Locking"
  /\ enc_unwrapped' = enc_unwrapped + d
  /\ lock_n' = IF Elapsed >= LockSettle THEN lock_n + 1 ELSE lock_n
  /\ IF Elapsed < LockTotal THEN UNCHANGED e_state /\ Commanded
     ELSE /\ e_state' \in (IF lock_n' < LockMin THEN {"Failed"} ELSE {"Done", "Failed"})
          /\ AtRest
  /\ UNCHANGED <<sign, phase_travel, bin_samples>>

EncoderPhaseStep(d) ==
  /\ EncoderPhaseActive
  /\ MayMove(d)
  /\ e_elapsed' = Elapsed
  /\ RotorTurns(d)
  /\ FirstReading \/ SenseSign(d) \/ Sweep(d) \/ StepLock(d)
  /\ UNCHANGED <<method, wiring>>

-----------------------------------------------------------------------------
(* The sign a spin reports is the way the encoder is wired, not the way the *)
(* rotor happened to jump when it was aligned.                              *)
SignIsWiring ==
  method = "Spin" /\ e_state \in {"Fwd", "Rev", "Done"} => sign = wiring

(* A result of a spin has MinPerBin samples of every bin with the field at  *)
(* full speed one way, and as many the other way: the lag of the two ways   *)
(* cancels only then.                                                       *)
SpinIsSampled ==
  method = "Spin" /\ e_state = "Done" =>
    \A way \in Directions, b \in AngleBins : swept[way][b] = MinPerBin
=============================================================================
