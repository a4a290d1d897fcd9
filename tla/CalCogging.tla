-------------------------------- MODULE CalCogging --------------------------------
(***************************************************************************)
(* CoggingCal: the rotor turns at constant speed one way and then the      *)
(* other, and the torque current is averaged per position.  The unit of    *)
(* angle is a bin of the table; the rotor moves a bin a tick at most.      *)
(***************************************************************************)
EXTENDS Integers, FiniteSets

CONSTANTS
  CogBins,          \* kCoggingTableSize
  RecordRevs,       \* record_revs
  MinCountPerBin,   \* min_count_per_bin
  SettleTimeout, RecordTimeout  \* in ticks

ASSUME CoggingAssumption ==
  /\ CogBins \in Nat \ {0} /\ RecordRevs \in Nat \ {0}
  /\ MinCountPerBin \in Nat \ {0}
  /\ SettleTimeout \in Nat \ {0} /\ RecordTimeout \in Nat \ {0}

VARIABLES
  c_state, c_phase,
  c_elapsed,        \* phase_elapsed_s_
  travel,           \* |dtheta| summed up in the record
  have_prev,
  enc,              \* the bin of the rotor, with its turns
  bin_count,        \* per direction, up to MinCountPerBin: only that is looked at
  low, high         \* ghost: how far the rotor went in each record

coggingVars ==
  <<c_state, c_phase, c_elapsed, travel, have_prev, enc, bin_count, low, high>>

Way == {"Fwd", "Rev"}
BinOf(angle) == angle % CogBins
RecordTravel == RecordRevs * CogBins

CoggingTypeOK ==
  /\ c_state \in {"Idle", "Running", "Done", "Failed"}
  /\ c_phase \in Way \X {"Settle", "Record"}
  /\ c_elapsed \in 0..(SettleTimeout + RecordTimeout)
  /\ travel \in 0..RecordTravel
  /\ have_prev \in BOOLEAN
  /\ enc \in Int
  /\ bin_count \in [Way -> [0..CogBins - 1 -> 0..MinCountPerBin]]
  /\ low \in [Way -> Int] /\ high \in [Way -> Int]

NoCounts == [w \in Way |-> [b \in 0..CogBins - 1 |-> 0]]

CoggingInit ==
  /\ c_state = "Idle" /\ c_phase = <<"Fwd", "Settle">> /\ c_elapsed = 0
  /\ travel = 0 /\ have_prev = FALSE /\ enc = 0
  /\ bin_count = NoCounts
  /\ low = [w \in Way |-> 0] /\ high = [w \in Way |-> 0]

CoggingStart ==
  /\ c_state # "Running" /\ c_state' = "Running"
  /\ c_phase' = <<"Fwd", "Settle">> /\ c_elapsed' = 0
  /\ travel' = 0 /\ have_prev' = FALSE
  /\ enc' = BinOf(enc)
  /\ bin_count' = NoCounts
  /\ low' = [w \in Way |-> 0] /\ high' = [w \in Way |-> 0]

CoggingStop ==
  /\ c_state = "Running" /\ c_state' = "Failed"
  /\ UNCHANGED <<c_phase, c_elapsed, travel, have_prev, enc, bin_count, low, high>>

EnterPhase(phase) == c_phase' = phase /\ c_elapsed' = 0 /\ UNCHANGED c_state
StayInPhase == c_elapsed' = c_elapsed + 1 /\ UNCHANGED <<c_phase, c_state>>
CoggingFail == c_state' = "Failed" /\ UNCHANGED <<c_phase, c_elapsed>>

(* The rotor moves by d bins; the first reading has none to compare with.   *)
RotorMoves(d) == enc' = enc + d /\ have_prev' = TRUE
Measured(d) == IF have_prev THEN d ELSE 0

(* Mutant: the travel of the first record counts for the second. *)
SettleAt_KeepsTravel(way, d) ==
  /\ c_phase = <<way, "Settle">>
  /\ IF Measured(d) = (IF way = "Fwd" THEN 1 ELSE -1)
     THEN /\ EnterPhase(<<way, "Record">>) /\ UNCHANGED travel
          /\ low' = [low EXCEPT ![way] = enc'] /\ high' = [high EXCEPT ![way] = enc']
     ELSE /\ IF c_elapsed + 1 >= SettleTimeout THEN CoggingFail ELSE StayInPhase
          /\ UNCHANGED <<travel, low, high>>
  /\ UNCHANGED bin_count

(* Wait for the commanded speed, a bin a tick. *)
SettleAt(way, d) ==
  /\ c_phase = <<way, "Settle">>
  /\ IF Measured(d) = (IF way = "Fwd" THEN 1 ELSE -1)
     THEN /\ EnterPhase(<<way, "Record">>) /\ travel' = 0
          /\ low' = [low EXCEPT ![way] = enc'] /\ high' = [high EXCEPT ![way] = enc']
     ELSE /\ IF c_elapsed + 1 >= SettleTimeout THEN CoggingFail ELSE StayInPhase
          /\ UNCHANGED <<travel, low, high>>
  /\ UNCHANGED bin_count

(* Both directions have to cover a bin, and three quarters of the bins have *)
(* to be covered; GapFill shows that the others are then always filled.     *)
Covered(counts) ==
  {b \in 0..CogBins - 1 : \A w \in Way : counts[w][b] >= MinCountPerBin}

(* Mutant: the table is filled from however few bins there are. *)
CoggingFinish_Unchecked == c_state' = "Done" /\ UNCHANGED <<c_phase, c_elapsed>>

CoggingFinish ==
  /\ c_state' = IF 4 * Cardinality(Covered(bin_count')) < 3 * CogBins THEN "Failed" ELSE "Done"
  /\ UNCHANGED <<c_phase, c_elapsed>>

Accumulate(way) ==
  LET b == BinOf(enc') IN
  bin_count' = [bin_count EXCEPT ![way][b] = IF @ < MinCountPerBin THEN @ + 1 ELSE @]

(* Mutant: a record that does not get anywhere goes on. *)
RecordAt_Forever(way, d) ==
  /\ c_phase = <<way, "Record">>
  /\ Accumulate(way)
  /\ low' = [low EXCEPT ![way] = IF enc' < @ THEN enc' ELSE @]
  /\ high' = [high EXCEPT ![way] = IF enc' > @ THEN enc' ELSE @]
  /\ travel' = travel + (IF Measured(d) = 0 THEN 0 ELSE 1)
  /\ IF travel' >= RecordTravel
     THEN IF way = "Fwd" THEN EnterPhase(<<"Rev", "Settle">>) ELSE CoggingFinish
     ELSE UNCHANGED <<c_elapsed, c_phase, c_state>>

(* Any movement counts as travel, whichever way it goes. *)
RecordAt(way, d) ==
  /\ c_phase = <<way, "Record">>
  /\ Accumulate(way)
  /\ low' = [low EXCEPT ![way] = IF enc' < @ THEN enc' ELSE @]
  /\ high' = [high EXCEPT ![way] = IF enc' > @ THEN enc' ELSE @]
  /\ travel' = travel + (IF Measured(d) = 0 THEN 0 ELSE 1)
  /\ IF travel' >= RecordTravel
     THEN IF way = "Fwd" THEN EnterPhase(<<"Rev", "Settle">>) ELSE CoggingFinish
     ELSE IF c_elapsed + 1 >= RecordTimeout THEN CoggingFail ELSE StayInPhase

CoggingStep(d) ==
  /\ c_state = "Running"
  /\ RotorMoves(d)
  /\ \E w \in Way : SettleAt(w, d) \/ RecordAt(w, d)

-----------------------------------------------------------------------------
(* A rotor that only trembles makes no table: although its trembling counts *)
(* as travel, both records of a result went over three quarters of a turn.  *)
CoggingWentRound ==
  c_state = "Done" =>
    \A w \in Way : 4 * (high[w] - low[w] + 1) >= 3 * CogBins
=============================================================================
