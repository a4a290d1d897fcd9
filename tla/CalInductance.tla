------------------------------- MODULE CalInductance -------------------------------
(***************************************************************************)
(* LIdentCal: voltage steps on a rotor that is held on the d axis, a few   *)
(* trials on the d axis and as many on the q axis.  A trial measures the   *)
(* time to 63 % of the final current, or runs into its timeout.            *)
(***************************************************************************)
EXTENDS Naturals

CONSTANTS
  Hold, StepTimeout, Cooldown,  \* hold_s, step_timeout_s, cooldown_s in ticks
  MaxTrials,                    \* kMaxTrials
  TrialRequests                 \* the numbers of trials a host may ask for

ASSUME InductanceAssumption ==
  /\ Hold \in Nat \ {0} /\ StepTimeout \in Nat \ {0} /\ Cooldown \in Nat \ {0}
  /\ MaxTrials \in Nat /\ MaxTrials >= 3 /\ TrialRequests \subseteq Nat

VARIABLES
  l_state, axis, l_phase,
  l_elapsed,     \* phase_elapsed_s_
  n_trials, trial_idx,
  valid_trials,
  rest           \* ghost: the ticks since a step was last applied

inductanceVars ==
  <<l_state, axis, l_phase, l_elapsed, n_trials, trial_idx, valid_trials, rest>>

Axes == {"D", "Q"}
LongestRest == IF Hold > Cooldown THEN Hold ELSE Cooldown

InductanceTypeOK ==
  /\ l_state \in {"Idle", "Running", "Done", "Failed"}
  /\ axis \in Axes
  /\ l_phase \in {"InitialHold", "Step", "Cooldown"}
  /\ l_elapsed \in 0..(Hold + StepTimeout + Cooldown)
  /\ n_trials \in 3..MaxTrials /\ trial_idx \in 0..n_trials
  /\ valid_trials \in [Axes -> 0..n_trials]
  /\ rest \in 0..LongestRest

InductanceInit ==
  /\ l_state = "Idle" /\ axis = "D" /\ l_phase = "InitialHold" /\ l_elapsed = 0
  /\ n_trials = 3 /\ trial_idx = 0
  /\ valid_trials = [a \in Axes |-> 0]
  /\ rest = 0

InductanceStart(n) ==
  /\ l_state # "Running"
  /\ l_state' = "Running" /\ axis' = "D" /\ l_phase' = "InitialHold" /\ l_elapsed' = 0
  /\ n_trials' = IF n < 3 THEN 3 ELSE IF n > MaxTrials THEN MaxTrials ELSE n
  /\ trial_idx' = 0
  /\ valid_trials' = [a \in Axes |-> 0]
  /\ rest' = 0

InductanceStop ==
  /\ l_state = "Running" /\ l_state' = "Failed"
  /\ UNCHANGED <<axis, l_phase, l_elapsed, n_trials, trial_idx, valid_trials, rest>>

BeginStep == l_phase' = "Step" /\ l_elapsed' = 0

(* Two trials on each axis are the least. *)
FinishInductance ==
  l_state' = IF \E a \in Axes : valid_trials[a] < 2 THEN "Failed" ELSE "Done"

(* Between steps: the time since one was applied grows. *)
Resting == rest' = IF rest < LongestRest THEN rest + 1 ELSE rest

InitialHold ==
  /\ l_phase = "InitialHold" /\ Resting
  /\ IF l_elapsed + 1 >= Hold THEN BeginStep ELSE l_elapsed' = l_elapsed + 1 /\ UNCHANGED l_phase
  /\ UNCHANGED <<l_state, axis, trial_idx, valid_trials>>

(* Mutant: the clock of the phase runs on into the cooldown. *)
VoltageStep_KeepsClock(there) ==
  /\ l_phase = "Step" /\ rest' = 0
  /\ IF there \/ l_elapsed + 1 >= StepTimeout
     THEN /\ l_phase' = "Cooldown" /\ l_elapsed' = l_elapsed + 1
          /\ valid_trials' = [valid_trials EXCEPT ![axis] = IF there THEN @ + 1 ELSE @]
     ELSE l_elapsed' = l_elapsed + 1 /\ UNCHANGED <<l_phase, valid_trials>>
  /\ UNCHANGED <<l_state, axis, trial_idx>>

(* The current may get there in the very tick of the timeout. *)
VoltageStep(there) ==
  /\ l_phase = "Step" /\ rest' = 0
  /\ IF there \/ l_elapsed + 1 >= StepTimeout
     THEN /\ l_phase' = "Cooldown" /\ l_elapsed' = 0
          /\ valid_trials' = [valid_trials EXCEPT ![axis] = IF there THEN @ + 1 ELSE @]
     ELSE l_elapsed' = l_elapsed + 1 /\ UNCHANGED <<l_phase, valid_trials>>
  /\ UNCHANGED <<l_state, axis, trial_idx>>

CoolingDown ==
  /\ l_phase = "Cooldown" /\ Resting
  /\ IF l_elapsed + 1 < Cooldown
     THEN l_elapsed' = l_elapsed + 1 /\ UNCHANGED <<l_state, axis, l_phase, trial_idx>>
     ELSE IF trial_idx + 1 < n_trials
     THEN trial_idx' = trial_idx + 1 /\ BeginStep /\ UNCHANGED <<l_state, axis>>
     ELSE IF axis = "D"
     THEN /\ axis' = "Q" /\ trial_idx' = 0 /\ l_phase' = "InitialHold" /\ l_elapsed' = 0
          /\ UNCHANGED l_state
     ELSE trial_idx' = trial_idx + 1 /\ FinishInductance /\ UNCHANGED <<axis, l_phase, l_elapsed>>
  /\ UNCHANGED valid_trials

InductanceStep(there) ==
  /\ l_state = "Running"
  /\ InitialHold \/ VoltageStep(there) \/ CoolingDown
  /\ UNCHANGED n_trials

-----------------------------------------------------------------------------
(* No step is applied before the current of the one before has decayed, on  *)
(* whichever axis that was.                                                 *)
StepsAreApart ==
  [][l_phase' = "Step" /\ l_phase # "Step"
       => rest' >= (IF Hold < Cooldown THEN Hold ELSE Cooldown)]_inductanceVars
=============================================================================
