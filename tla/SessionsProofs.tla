------------------------------ MODULE SessionsProofs ------------------------------
(***************************************************************************)
(* Proofs about the identification sessions: what a result stands on, for  *)
(* every number of points, trials, bins and ticks, and whatever the motor  *)
(* does.  The objects share nothing, so each has an invariant of its own.  *)
(***************************************************************************)
EXTENDS Sessions, FiniteSetTheorems, TLAPS

(* CalSweep: the ticks of a point that may count, and the points that had   *)
(* enough of them.                                                          *)
Counted(p) == {t \in Settle..PointTicks : <<p, t>> \in on_target}
Fitted == {p \in 0..point_idx - 1 : Cardinality(Counted(p)) >= MinSamples}

SweepInv ==
  /\ SweepTypeOK
  /\ sw_state = "Running" =>
       /\ pt_n <= (IF point_elapsed < Settle THEN 0 ELSE point_elapsed - Settle + 1)
       /\ pt_n <= Cardinality(Counted(point_idx))
       /\ \A p \in 0..n_points - 1, t \in 1..PointTicks :
            <<p, t>> \in on_target => p < point_idx \/ (p = point_idx /\ t <= point_elapsed)
  /\ points_used <= Cardinality(Fitted)
  /\ sw_state = "Done" => points_used >= 3

(* CalInductance: a trial counts once, and the rest is as long as the phase *)
(* between two steps.                                                       *)
InductanceInv ==
  /\ InductanceTypeOK
  /\ l_state = "Running" =>
       /\ trial_idx < n_trials
       /\ valid_trials[axis] <= (IF l_phase = "Cooldown" THEN trial_idx + 1 ELSE trial_idx)
       /\ axis = "D" => valid_trials["Q"] = 0
       /\ l_phase = "InitialHold" => l_elapsed < Hold /\ l_elapsed <= rest
       /\ l_phase = "Cooldown" => l_elapsed < Cooldown /\ l_elapsed <= rest

(* CalCogging: every bin with a count is one the record went over.          *)
Visited(way) == {BinOf(x) : x \in low[way]..high[way]}
CountedBins(way) == {b \in 0..CogBins - 1 : bin_count[way][b] > 0}
NotYet(way) == CountedBins(way) = {}

CoggingInv ==
  /\ CoggingTypeOK
  /\ \A w \in Way : low[w] <= high[w] /\ CountedBins(w) \subseteq Visited(w)
  /\ c_state = "Running" =>
       /\ c_phase = <<"Fwd", "Settle">> => NotYet("Fwd") /\ NotYet("Rev")
       /\ c_phase = <<"Fwd", "Record">> => NotYet("Rev")
       /\ c_phase = <<"Rev", "Settle">> => NotYet("Rev")
       /\ \A w \in Way : c_phase = <<w, "Record">> => travel < RecordTravel
  /\ c_state = "Done" => 4 * Cardinality(Covered(bin_count)) >= 3 * CogBins

(* CalEncoderPhase: the samples of a lock are ticks of it.                  *)
LockInv ==
  /\ EncoderPhaseTypeOK
  /\ e_state = "Locking" =>
       /\ e_elapsed <= LockTotal
       /\ lock_n <= e_elapsed
       /\ IF e_have_prev THEN lock_n < e_elapsed ELSE e_elapsed = 0

(* A rotor that is drawn into line stays within what SenseSign lets pass;   *)
(* beyond it the field has turned it.                                       *)
SignInv ==
  /\ e_state = "SenseSign" =>
       /\ method = "Spin"
       /\ omega_cmd >= 0 /\ omega_target \in {0, FullSpeed}
       /\ omega_cmd # 0 => omega_target = FullSpeed
       /\ enc_unwrapped \in -SenseTravel..SenseTravel
  /\ e_state \in {"Fwd", "Rev"} => method = "Spin" /\ sign = wiring
  /\ method = "Spin" /\ e_state = "Done" => sign = wiring
  /\ e_state = "Fwd" => omega_target = FullSpeed
  /\ e_state = "Rev" => omega_target = -FullSpeed
  /\ e_state = "Locking" => method = "Lock"
  /\ method = "Spin" => \A way \in Directions, b \in AngleBins : bin_samples[way][b] <= swept[way][b]
  /\ method = "Spin" /\ e_state = "Done" =>
       \A way \in Directions, b \in AngleBins : bin_samples[way][b] >= MinPerBin

(* GapFill: what a pass has done.  After the first the last bin is filled,  *)
(* and the second starts from there.                                        *)
FillInv ==
  /\ GapFillTypeOK
  /\ \E b \in FillRange : value[b] # Empty
  /\ f_state = "Filling" =>
       /\ pass \in {0, 1}
       /\ pass = 0 /\ bin > 0 /\ (\E b \in 0..bin - 1 : value[b] # Empty) => value[bin - 1] # Empty
       /\ pass = 1 => value[FillBins - 1] # Empty /\ \A b \in 0..bin - 1 : value[b] # Empty
  /\ f_state # "Failed" /\ pass <= 2

-----------------------------------------------------------------------------
(* CalSweep.                                                                *)

LEMMA SweepSizes ==
  /\ Settle \in Nat \ {0} /\ Sample \in Nat \ {0} /\ MinSamples \in Nat \ {0}
  /\ MaxPoints \in Nat /\ MaxPoints >= 3 /\ PointRequests \subseteq Nat
  /\ PointTicks \in Nat /\ PointTicks = Settle + Sample
  BY SweepAssumption DEF PointTicks

(* The ticks of a point that are in a set of pairs.                         *)
TicksOf(S, p) == {t \in Settle..PointTicks : <<p, t>> \in S}

LEMMA TicksFinite ==
  ASSUME NEW S, NEW p
  PROVE  IsFiniteSet(TicksOf(S, p)) /\ Cardinality(TicksOf(S, p)) \in Nat
  <1>1. IsFiniteSet(Settle..PointTicks)
    BY SweepSizes, FS_Interval
  <1>2. TicksOf(S, p) \in SUBSET (Settle..PointTicks)
    BY DEF TicksOf
  <1>3. IsFiniteSet(TicksOf(S, p))
    BY <1>1, <1>2, FS_Subset
  <1> QED BY <1>3, FS_CardinalityType

LEMMA TicksGrow ==
  ASSUME NEW S, NEW p, NEW t \in Settle..PointTicks, <<p, t>> \notin S
  PROVE  Cardinality(TicksOf(S \cup {<<p, t>>}, p)) = Cardinality(TicksOf(S, p)) + 1
  <1>1. TicksOf(S \cup {<<p, t>>}, p) = TicksOf(S, p) \cup {t} /\ t \notin TicksOf(S, p)
    BY DEF TicksOf
  <1> QED BY <1>1, TicksFinite, FS_AddElement

LEMMA TicksOfOthers ==
  ASSUME NEW S, NEW p, NEW q, NEW t, p # q \/ t \notin Settle..PointTicks
  PROVE  TicksOf(S \cup {<<p, t>>}, q) = TicksOf(S, q)
  BY DEF TicksOf

(* The points below n that had enough ticks in a set of pairs.              *)
PointsOf(S, n) == {p \in 0..n - 1 : Cardinality(TicksOf(S, p)) >= MinSamples}

LEMMA PointsFinite ==
  ASSUME NEW S, NEW n \in Nat
  PROVE  IsFiniteSet(PointsOf(S, n)) /\ Cardinality(PointsOf(S, n)) \in Nat
  <1>1. IsFiniteSet(0..n - 1)
    BY FS_Interval
  <1>2. PointsOf(S, n) \in SUBSET (0..n - 1)
    BY DEF PointsOf
  <1>3. IsFiniteSet(PointsOf(S, n))
    BY <1>1, <1>2, FS_Subset
  <1> QED BY <1>3, FS_CardinalityType

LEMMA PointsGrow ==
  ASSUME NEW S, NEW n \in Nat, NEW k \in {0, 1},
         k = 1 => Cardinality(TicksOf(S, n)) >= MinSamples
  PROVE  Cardinality(PointsOf(S, n)) + k <= Cardinality(PointsOf(S, n + 1))
  <1>1. PointsOf(S, n) \subseteq PointsOf(S, n + 1)
    BY DEF PointsOf
  <1>2. CASE k = 0
    BY <1>1, <1>2, PointsFinite, FS_Subset
  <1>3. CASE k = 1
    <2>1. n \in PointsOf(S, n + 1) /\ n \notin PointsOf(S, n)
      BY <1>3 DEF PointsOf
    <2>2. PointsOf(S, n) \cup {n} \in SUBSET PointsOf(S, n + 1)
      BY <1>1, <2>1
    <2>3. Cardinality(PointsOf(S, n) \cup {n}) = Cardinality(PointsOf(S, n)) + 1
      BY <2>1, PointsFinite, FS_AddElement
    <2>4. Cardinality(PointsOf(S, n) \cup {n}) <= Cardinality(PointsOf(S, n + 1))
      BY <2>2, PointsFinite, FS_Subset
    <2> QED BY <1>3, <2>3, <2>4
  <1> QED BY <1>2, <1>3

LEMMA SweepTerms ==
  /\ \A p : Counted(p) = TicksOf(on_target, p)
  /\ Fitted = PointsOf(on_target, point_idx)
  BY DEF Counted, TicksOf, Fitted, PointsOf

LEMMA SweepInitInv == SweepInit => SweepInv
  <1> SUFFICES ASSUME SweepInit PROVE SweepInv
    OBVIOUS
  <1>1. SweepTypeOK
    BY SweepSizes DEF SweepInit, SweepTypeOK, States
  <1>2. points_used <= Cardinality(Fitted)
    BY SweepTerms, PointsFinite DEF SweepInit
  <1> QED BY <1>1, <1>2 DEF SweepInit, SweepInv

LEMMA SweepNextInv ==
  ASSUME SweepInv,
         \/ UNCHANGED sweepVars
         \/ \E n \in PointRequests : SweepStart(n)
         \/ SweepStop
         \/ \E tracks \in BOOLEAN : SweepStep(tracks)
  PROVE  SweepInv'
  <1>1. CASE UNCHANGED sweepVars
    BY <1>1 DEF sweepVars, SweepInv, SweepTypeOK, Counted, Fitted
  <1>2. CASE \E n \in PointRequests : SweepStart(n)
    <2>1. /\ sw_state' = "Running" /\ n_points' \in 3..MaxPoints
          /\ point_idx' = 0 /\ point_elapsed' = 0 /\ pt_n' = 0 /\ points_used' = 0 /\ on_target' = {}
      BY <1>2, SweepSizes DEF SweepStart
    <2>2. SweepTypeOK'
      BY <2>1, SweepSizes DEF SweepTypeOK, States
    <2>3. \A p : Cardinality(Counted(p)') \in Nat
      BY TicksFinite DEF Counted, TicksOf
    <2>4. Cardinality(Fitted') \in Nat
      BY <2>1, PointsFinite DEF Fitted, Counted, PointsOf, TicksOf
    <2>5. pt_n' <= Cardinality(Counted(point_idx)')
      BY <2>1, <2>3
    <2> QED BY <2>1, <2>2, <2>4, <2>5, SweepSizes DEF SweepInv
  <1>3. CASE SweepStop
    BY <1>3 DEF SweepStop, SweepInv, SweepTypeOK, States, Counted, Fitted
  <1>4. ASSUME NEW tracks \in BOOLEAN, SweepStep(tracks)
        PROVE  SweepInv'
    <2> DEFINE t == point_elapsed + 1
               samples == IF t >= Settle /\ tracks THEN pt_n + 1 ELSE pt_n
    <2>1. /\ sw_state = "Running" /\ n_points \in 3..MaxPoints /\ n_points' = n_points
          /\ point_idx \in 0..n_points - 1
          /\ point_elapsed \in 0..PointTicks - 1 /\ pt_n \in Nat /\ points_used \in 0..point_idx
          /\ on_target \subseteq (0..n_points - 1) \X (1..PointTicks)
      BY <1>4, SweepSizes DEF SweepStep, SweepInv, SweepTypeOK
    <2>2. /\ pt_n <= (IF point_elapsed < Settle THEN 0 ELSE point_elapsed - Settle + 1)
          /\ pt_n <= Cardinality(TicksOf(on_target, point_idx))
          /\ \A p \in 0..n_points - 1, u \in 1..PointTicks :
               <<p, u>> \in on_target => p < point_idx \/ (p = point_idx /\ u <= point_elapsed)
          /\ points_used <= Cardinality(PointsOf(on_target, point_idx))
      BY <2>1, SweepTerms DEF SweepInv
    <2>3. t \in 1..PointTicks /\ <<point_idx, t>> \notin on_target
      BY <2>1, <2>2, SweepSizes
    <2>4. /\ on_target' \subseteq (0..n_points - 1) \X (1..PointTicks)
          /\ \A p \in 0..n_points - 1, u \in 1..PointTicks :
               <<p, u>> \in on_target' => p < point_idx \/ (p = point_idx /\ u <= t)
      <3>1. on_target' = IF tracks THEN on_target \cup {<<point_idx, t>>} ELSE on_target
        BY <1>4 DEF SweepStep
      <3>2. \A p \in 0..n_points - 1, u \in 1..PointTicks :
               <<p, u>> \in on_target' => <<p, u>> \in on_target \/ (p = point_idx /\ u = t)
        BY <3>1
      <3>3. \A u \in 1..PointTicks : u <= point_elapsed => u <= t
        BY <2>1
      <3> QED BY <2>1, <2>2, <2>3, <3>1, <3>2, <3>3
    <2>5. samples <= Cardinality(TicksOf(on_target', point_idx)) /\ samples \in Nat
      <3>1. CASE t >= Settle /\ tracks
        <4>1. t \in Settle..PointTicks /\ on_target' = on_target \cup {<<point_idx, t>>}
          BY <1>4, <2>3, <3>1, SweepSizes DEF SweepStep
        <4>2. Cardinality(TicksOf(on_target', point_idx)) = Cardinality(TicksOf(on_target, point_idx)) + 1
          BY <2>3, <4>1, TicksGrow
        <4>3. Cardinality(TicksOf(on_target, point_idx)) \in Nat
          BY TicksFinite
        <4> QED BY <2>1, <2>2, <3>1, <4>2, <4>3
      <3>2. CASE ~tracks
        BY <1>4, <2>1, <2>2, <3>2 DEF SweepStep
      <3>3. CASE tracks /\ ~(t >= Settle)
        <4>1. on_target' = on_target \cup {<<point_idx, t>>}
          BY <1>4, <3>3 DEF SweepStep
        <4>2. t \notin Settle..PointTicks
          BY <2>3, <3>3, SweepSizes
        <4>3. TicksOf(on_target \cup {<<point_idx, t>>}, point_idx) = TicksOf(on_target, point_idx)
          BY <4>2, TicksOfOthers
        <4>4. TicksOf(on_target', point_idx) = TicksOf(on_target, point_idx)
          BY <4>1, <4>3
        <4> QED BY <2>1, <2>2, <3>3, <4>4
      <3> QED BY <3>1, <3>2, <3>3
    <2>6. samples <= (IF t < Settle THEN 0 ELSE t - Settle + 1)
      BY <2>1, <2>2, SweepSizes
    <2>7. PointsOf(on_target', point_idx) = PointsOf(on_target, point_idx)
      <3>1. \A p \in 0..point_idx - 1 : TicksOf(on_target', p) = TicksOf(on_target, p)
        <4>1. \A p \in 0..point_idx - 1 : p # point_idx
          BY <2>1
        <4>2. CASE tracks
          <5>1. on_target' = on_target \cup {<<point_idx, t>>}
            BY <1>4, <4>2 DEF SweepStep
          <5>2. \A p : p # point_idx =>
                  TicksOf(on_target \cup {<<point_idx, t>>}, p) = TicksOf(on_target, p)
            <6>1. TAKE p
            <6>2. HAVE p # point_idx
            <6> QED BY <6>2 DEF TicksOf
          <5> QED BY <4>1, <5>1, <5>2
        <4>3. CASE ~tracks
          BY <1>4, <4>3 DEF SweepStep
        <4> QED BY <4>2, <4>3
      <3> QED BY <3>1 DEF PointsOf
    <2>8. CASE t < PointTicks
      <3>1. /\ point_elapsed' = t /\ pt_n' = samples
            /\ sw_state' = sw_state /\ point_idx' = point_idx /\ points_used' = points_used
        BY <1>4, <2>8 DEF SweepStep
      <3>2. SweepTypeOK'
        <4>1. samples \in 0..Sample + 1
          BY <2>3, <2>5, <2>6, <2>8, SweepSizes
        <4>2. t \in 0..PointTicks - 1
          BY <2>3, <2>8, SweepSizes
        <4> QED BY <2>1, <2>4, <3>1, <4>1, <4>2 DEF SweepTypeOK, States
      <3>3. pt_n' <= Cardinality(Counted(point_idx)')
        BY <2>5, <3>1 DEF Counted, TicksOf
      <3>4. points_used' <= Cardinality(Fitted')
        BY <2>2, <2>7, <3>1 DEF Fitted, Counted, PointsOf, TicksOf
      <3> HIDE DEF t, samples
      <3> QED BY <2>1, <2>4, <2>6, <3>1, <3>2, <3>3, <3>4 DEF SweepInv
    <2>9. CASE ~(t < PointTicks)
      <3> DEFINE k == IF samples >= MinSamples THEN 1 ELSE 0
      <3>1. /\ FinishPoint(samples) /\ FinishSweep
        BY <1>4, <2>9 DEF SweepStep
      <3>2. /\ points_used' = points_used + k /\ point_idx' = point_idx + 1
            /\ point_elapsed' = 0 /\ pt_n' = 0
        BY <3>1 DEF FinishPoint
      <3>3. Cardinality(PointsOf(on_target, point_idx)) + k <= Cardinality(PointsOf(on_target', point_idx + 1))
        <4>1. k = 1 => Cardinality(TicksOf(on_target', point_idx)) >= MinSamples
          <5>1. Cardinality(TicksOf(on_target', point_idx)) \in Nat
            BY TicksFinite
          <5> HIDE DEF samples
          <5> QED BY <2>5, <5>1, SweepSizes
        <4>2. k \in {0, 1}
          OBVIOUS
        <4> HIDE DEF k
        <4> QED BY <2>1, <2>7, <4>1, <4>2, PointsGrow
      <3>4. points_used' <= Cardinality(Fitted')
        <4>1. Fitted' = PointsOf(on_target', point_idx + 1)
          BY <3>2 DEF Fitted, Counted, PointsOf, TicksOf
        <4>2. /\ Cardinality(PointsOf(on_target, point_idx)) \in Nat
              /\ Cardinality(PointsOf(on_target', point_idx + 1)) \in Nat
          BY <2>1, PointsFinite
        <4>3. k \in Nat
          OBVIOUS
        <4> HIDE DEF k
        <4> QED BY <2>1, <2>2, <3>2, <3>3, <4>1, <4>2, <4>3
      <3>5. /\ points_used' \in 0..point_idx'
            /\ point_idx' \in 0..n_points
        BY <2>1, <3>2
      <3>6. /\ sw_state' \in States
            /\ sw_state' = "Running" => point_idx' < n_points
            /\ sw_state' = "Done" => points_used' >= 3
        BY <2>1, <3>1, <3>5 DEF FinishSweep, States
      <3>7. SweepTypeOK'
        <4>1. 0 \in 0..PointTicks - 1 /\ 0 \in 0..Sample + 1
          BY SweepSizes
        <4> QED BY <2>1, <2>4, <3>2, <3>5, <3>6, <4>1 DEF SweepTypeOK
      <3>8. pt_n' <= Cardinality(Counted(point_idx)')
        <4>1. \A p : Cardinality(Counted(p)') \in Nat
          BY TicksFinite DEF Counted, TicksOf
        <4> QED BY <3>2, <4>1
      <3>9. \A p \in 0..n_points - 1, u \in 1..PointTicks : <<p, u>> \in on_target' => p < point_idx'
        BY <2>1, <2>4, <3>2
      <3> QED BY <2>1, <3>2, <3>4, <3>6, <3>7, <3>8, <3>9, SweepSizes DEF SweepInv
    <2> QED BY <2>8, <2>9
  <1> QED BY <1>1, <1>2, <1>3, <1>4

LEMMA SweepResult == SweepInv => SweepIsFitted
  <1> SUFFICES ASSUME SweepInv, sw_state = "Done"
               PROVE  Cardinality(PointsOf(on_target, n_points)) >= 3
    BY DEF SweepIsFitted, PointsOf, TicksOf
  <1>1. /\ n_points \in Nat /\ point_idx \in Nat /\ point_idx <= n_points
        /\ points_used \in Nat /\ points_used >= 3
        /\ points_used <= Cardinality(PointsOf(on_target, point_idx))
    BY SweepTerms, SweepSizes DEF SweepInv, SweepTypeOK
  <1>2. PointsOf(on_target, point_idx) \in SUBSET PointsOf(on_target, n_points)
    <2>1. \A p \in 0..point_idx - 1 : p \in 0..n_points - 1
      BY <1>1
    <2> QED BY <2>1 DEF PointsOf
  <1>3. Cardinality(PointsOf(on_target, point_idx)) <= Cardinality(PointsOf(on_target, n_points))
    BY <1>1, <1>2, PointsFinite, FS_Subset
  <1>4. /\ Cardinality(PointsOf(on_target, point_idx)) \in Nat
        /\ Cardinality(PointsOf(on_target, n_points)) \in Nat
    BY <1>1, PointsFinite
  <1> QED BY <1>1, <1>3, <1>4

-----------------------------------------------------------------------------
(* CalInductance.                                                           *)

LEMMA InductanceSizes ==
  /\ Hold \in Nat \ {0} /\ StepTimeout \in Nat \ {0} /\ Cooldown \in Nat \ {0}
  /\ MaxTrials \in Nat /\ MaxTrials >= 3 /\ TrialRequests \subseteq Nat
  /\ LongestRest \in Nat /\ Hold <= LongestRest /\ Cooldown <= LongestRest
  BY InductanceAssumption DEF LongestRest

LEMMA InductanceInitInv == InductanceInit => InductanceInv
  BY InductanceSizes DEF InductanceInit, InductanceInv, InductanceTypeOK, Axes

LEMMA InductanceNextInv ==
  ASSUME InductanceInv,
         \/ UNCHANGED inductanceVars
         \/ \E n \in TrialRequests : InductanceStart(n)
         \/ InductanceStop
         \/ \E there \in BOOLEAN : InductanceStep(there)
  PROVE  InductanceInv'
  <1>1. CASE UNCHANGED inductanceVars
    BY <1>1 DEF inductanceVars, InductanceInv, InductanceTypeOK
  <1>2. CASE \E n \in TrialRequests : InductanceStart(n)
    <2>1. /\ l_state' = "Running" /\ axis' = "D" /\ l_phase' = "InitialHold" /\ l_elapsed' = 0
          /\ n_trials' \in 3..MaxTrials /\ trial_idx' = 0 /\ rest' = 0
          /\ valid_trials' = [a \in Axes |-> 0]
      BY <1>2, InductanceSizes DEF InductanceStart
    <2> QED BY <2>1, InductanceSizes DEF InductanceInv, InductanceTypeOK, Axes
  <1>3. CASE InductanceStop
    BY <1>3 DEF InductanceStop, InductanceInv, InductanceTypeOK
  <1>4. ASSUME NEW there \in BOOLEAN, InductanceStep(there)
        PROVE  InductanceInv'
    <2>1. /\ l_state = "Running" /\ n_trials' = n_trials
          /\ InitialHold \/ VoltageStep(there) \/ CoolingDown
      BY <1>4 DEF InductanceStep
    <2>2. /\ axis \in Axes /\ l_elapsed \in 0..(Hold + StepTimeout + Cooldown)
          /\ n_trials \in 3..MaxTrials /\ trial_idx \in 0..n_trials
          /\ valid_trials \in [Axes -> 0..n_trials] /\ rest \in 0..LongestRest
      BY DEF InductanceInv, InductanceTypeOK
    <2>3. /\ trial_idx < n_trials
          /\ valid_trials[axis] <= (IF l_phase = "Cooldown" THEN trial_idx + 1 ELSE trial_idx)
          /\ axis = "D" => valid_trials["Q"] = 0
          /\ l_phase = "InitialHold" => l_elapsed < Hold /\ l_elapsed <= rest
          /\ l_phase = "Cooldown" => l_elapsed < Cooldown /\ l_elapsed <= rest
      BY <2>1 DEF InductanceInv
    <2>4. rest + 1 \in Nat /\ (Resting => rest' \in 0..LongestRest /\ (rest' = rest + 1 \/ rest' = LongestRest))
      BY <2>2, InductanceSizes DEF Resting
    <2>5. CASE InitialHold
      <3>1. /\ l_phase = "InitialHold" /\ Resting
            /\ l_state' = l_state /\ axis' = axis
            /\ trial_idx' = trial_idx /\ valid_trials' = valid_trials
            /\ \/ l_elapsed' = 0 /\ l_phase' = "Step"
               \/ l_elapsed' = l_elapsed + 1 /\ l_phase' = l_phase /\ l_elapsed + 1 < Hold
        BY <2>2, <2>5, InductanceSizes DEF InitialHold, BeginStep
      <3>2. l_elapsed' \in 0..(Hold + StepTimeout + Cooldown)
        BY <2>2, <3>1, InductanceSizes
      <3>3. l_phase' = "InitialHold" => l_elapsed' < Hold /\ l_elapsed' <= rest'
        BY <2>2, <2>3, <2>4, <3>1, InductanceSizes
      <3>4. InductanceTypeOK'
        BY <2>1, <2>2, <2>4, <3>1, <3>2 DEF InductanceTypeOK
      <3> QED BY <2>1, <2>3, <3>1, <3>3, <3>4 DEF InductanceInv
    <2>6. CASE VoltageStep(there)
      <3>1. /\ l_phase = "Step" /\ rest' = 0
            /\ l_state' = l_state /\ axis' = axis /\ trial_idx' = trial_idx
            /\ \/ /\ l_phase' = "Cooldown" /\ l_elapsed' = 0
                  /\ valid_trials' = [valid_trials EXCEPT ![axis] = IF there THEN @ + 1 ELSE @]
               \/ /\ l_phase' = l_phase /\ l_elapsed' = l_elapsed + 1
                  /\ valid_trials' = valid_trials /\ l_elapsed + 1 < StepTimeout
        BY <2>2, <2>6, InductanceSizes DEF VoltageStep
      <3>2. l_elapsed' \in 0..(Hold + StepTimeout + Cooldown)
        BY <2>2, <3>1, InductanceSizes
      <3>3. valid_trials' \in [Axes -> 0..n_trials]
        BY <2>2, <2>3, <3>1
      <3>4. /\ valid_trials'[axis] <= (IF l_phase' = "Cooldown" THEN trial_idx + 1 ELSE trial_idx)
            /\ axis = "D" => valid_trials'["Q"] = 0
        BY <2>2, <2>3, <3>1 DEF Axes
      <3>5. InductanceTypeOK'
        BY <2>1, <2>2, <3>1, <3>2, <3>3, InductanceSizes DEF InductanceTypeOK
      <3> QED BY <2>1, <2>3, <3>1, <3>4, <3>5, InductanceSizes DEF InductanceInv
    <2>7. CASE CoolingDown
      <3>1. l_phase = "Cooldown" /\ Resting /\ valid_trials' = valid_trials
        BY <2>7 DEF CoolingDown
      <3>2. CASE l_elapsed + 1 < Cooldown
        <4>1. /\ l_elapsed' = l_elapsed + 1
              /\ l_state' = l_state /\ axis' = axis /\ l_phase' = l_phase /\ trial_idx' = trial_idx
          BY <2>7, <3>2 DEF CoolingDown
        <4>2. l_elapsed' \in 0..(Hold + StepTimeout + Cooldown)
          BY <2>2, <3>2, <4>1, InductanceSizes
        <4>3. l_elapsed' < Cooldown /\ l_elapsed' <= rest'
          BY <2>2, <2>3, <2>4, <3>1, <3>2, <4>1, InductanceSizes
        <4>4. InductanceTypeOK'
          BY <2>1, <2>2, <2>4, <3>1, <4>1, <4>2 DEF InductanceTypeOK
        <4> QED BY <2>1, <2>3, <3>1, <4>1, <4>3, <4>4 DEF InductanceInv
      <3>3. CASE ~(l_elapsed + 1 < Cooldown) /\ trial_idx + 1 < n_trials
        <4>1. /\ l_elapsed' = 0 /\ l_phase' = "Step" /\ trial_idx' = trial_idx + 1
              /\ l_state' = l_state /\ axis' = axis
          BY <2>7, <3>3 DEF CoolingDown, BeginStep
        <4>2. l_elapsed' \in 0..(Hold + StepTimeout + Cooldown) /\ trial_idx' \in 0..n_trials
          BY <2>2, <3>3, <4>1, InductanceSizes
        <4>3. InductanceTypeOK'
          BY <2>1, <2>2, <2>4, <3>1, <4>1, <4>2 DEF InductanceTypeOK
        <4> QED BY <2>1, <2>3, <3>1, <3>3, <4>1, <4>3 DEF InductanceInv
      <3>4. CASE ~(l_elapsed + 1 < Cooldown) /\ ~(trial_idx + 1 < n_trials) /\ axis = "D"
        <4>1. /\ l_elapsed' = 0 /\ l_phase' = "InitialHold" /\ trial_idx' = 0
              /\ l_state' = l_state /\ axis' = "Q"
          BY <2>7, <3>4 DEF CoolingDown
        <4>2. l_elapsed' \in 0..(Hold + StepTimeout + Cooldown) /\ trial_idx' \in 0..n_trials
          BY <2>2, <4>1, InductanceSizes
        <4>3. InductanceTypeOK'
          BY <2>1, <2>2, <2>4, <3>1, <4>1, <4>2 DEF InductanceTypeOK, Axes
        <4>4. rest' \in Nat
          BY <2>4, <3>1, InductanceSizes
        <4> QED BY <2>1, <2>2, <2>3, <3>1, <3>4, <4>1, <4>3, <4>4, InductanceSizes DEF InductanceInv
      <3>5. CASE ~(l_elapsed + 1 < Cooldown) /\ ~(trial_idx + 1 < n_trials) /\ axis # "D"
        <4>1. /\ l_elapsed' = l_elapsed /\ l_phase' = l_phase /\ trial_idx' = trial_idx + 1
              /\ l_state' \in {"Failed", "Done"} /\ axis' = axis
          BY <2>7, <3>5 DEF CoolingDown, FinishInductance
        <4>2. trial_idx' \in 0..n_trials
          BY <2>2, <2>3, <4>1
        <4>3. InductanceTypeOK'
          BY <2>1, <2>2, <2>4, <3>1, <4>1, <4>2 DEF InductanceTypeOK
        <4> QED BY <4>1, <4>3 DEF InductanceInv
      <3> QED BY <3>2, <3>3, <3>4, <3>5
    <2> QED BY <2>1, <2>5, <2>6, <2>7
  <1> QED BY <1>1, <1>2, <1>3, <1>4

(* A phase that gives way to a step has lasted its time.                    *)
LEMMA InductanceApart ==
  ASSUME InductanceInv,
         \/ UNCHANGED inductanceVars
         \/ \E n \in TrialRequests : InductanceStart(n)
         \/ InductanceStop
         \/ \E there \in BOOLEAN : InductanceStep(there),
         l_phase' = "Step", l_phase # "Step"
  PROVE  rest' >= (IF Hold < Cooldown THEN Hold ELSE Cooldown)
  <1>1. PICK there \in BOOLEAN : InductanceStep(there)
    BY DEF inductanceVars, InductanceStart, InductanceStop
  <1>2. l_state = "Running" /\ (InitialHold \/ CoolingDown)
    BY <1>1 DEF InductanceStep, VoltageStep
  <1>3. /\ l_elapsed \in Nat /\ rest \in 0..LongestRest
        /\ l_phase = "InitialHold" => l_elapsed < Hold /\ l_elapsed <= rest
        /\ l_phase = "Cooldown" => l_elapsed < Cooldown /\ l_elapsed <= rest
    BY <1>2, InductanceSizes DEF InductanceInv, InductanceTypeOK
  <1>4. Resting => rest' = (IF rest < LongestRest THEN rest + 1 ELSE rest)
    BY DEF Resting
  <1>5. CASE InitialHold
    <2>1. l_phase = "InitialHold" /\ Resting /\ l_elapsed + 1 >= Hold
      BY <1>5 DEF InitialHold
    <2> QED BY <1>3, <1>4, <2>1, InductanceSizes
  <1>6. CASE CoolingDown
    <2>1. l_phase = "Cooldown" /\ Resting /\ ~(l_elapsed + 1 < Cooldown)
      BY <1>6 DEF CoolingDown
    <2> QED BY <1>3, <1>4, <2>1, InductanceSizes
  <1> QED BY <1>2, <1>5, <1>6

-----------------------------------------------------------------------------
(* CalCogging.                                                              *)

LEMMA CoggingSizes ==
  /\ CogBins \in Nat \ {0} /\ RecordRevs \in Nat \ {0}
  /\ MinCountPerBin \in Nat \ {0}
  /\ SettleTimeout \in Nat \ {0} /\ RecordTimeout \in Nat \ {0}
  /\ RecordTravel \in Nat \ {0}
  <1>1. /\ CogBins \in Nat \ {0} /\ RecordRevs \in Nat \ {0}
        /\ MinCountPerBin \in Nat \ {0}
        /\ SettleTimeout \in Nat \ {0} /\ RecordTimeout \in Nat \ {0}
    BY CoggingAssumption
  <1>2. \A m, n \in Nat \ {0} : m * n \in Nat
    BY SMT
  <1>3. \A m, n \in Nat \ {0} : m * n # 0
    BY SMT
  <1> QED BY <1>1, <1>2, <1>3 DEF RecordTravel

LEMMA BinIsInTable == ASSUME NEW x \in Int PROVE BinOf(x) \in 0..CogBins - 1
  BY CoggingSizes DEF BinOf

LEMMA CoveredFinite ==
  ASSUME NEW counts
  PROVE  IsFiniteSet(Covered(counts)) /\ Cardinality(Covered(counts)) \in Nat
  <1>1. IsFiniteSet(0..CogBins - 1)
    BY CoggingSizes, FS_Interval
  <1>2. Covered(counts) \in SUBSET (0..CogBins - 1)
    BY DEF Covered
  <1>3. IsFiniteSet(Covered(counts))
    BY <1>1, <1>2, FS_Subset
  <1> QED BY <1>3, FS_CardinalityType

LEMMA CoggingInitInv == CoggingInit => CoggingInv
  <1> SUFFICES ASSUME CoggingInit PROVE CoggingInv
    OBVIOUS
  <1>1. /\ c_state = "Idle" /\ low = [w \in Way |-> 0] /\ high = [w \in Way |-> 0]
        /\ bin_count = NoCounts
    BY DEF CoggingInit
  <1>2. CoggingTypeOK
    <2>1. NoCounts \in [Way -> [0..CogBins - 1 -> 0..MinCountPerBin]]
      BY CoggingSizes DEF NoCounts
    <2>2. /\ c_state = "Idle" /\ c_phase = <<"Fwd", "Settle">> /\ c_elapsed = 0
          /\ travel = 0 /\ have_prev = FALSE /\ enc = 0
      BY DEF CoggingInit
    <2>3. low \in [Way -> Int] /\ high \in [Way -> Int]
      BY <1>1
    <2>4. c_phase \in Way \X {"Settle", "Record"}
      BY <2>2 DEF Way
    <2>5. c_elapsed \in 0..(SettleTimeout + RecordTimeout) /\ travel \in 0..RecordTravel
      BY <2>2, CoggingSizes
    <2> QED BY <1>1, <2>1, <2>2, <2>3, <2>4, <2>5 DEF CoggingTypeOK
  <1>3. \A w \in Way : CountedBins(w) = {} /\ low[w] <= high[w]
    BY <1>1 DEF CountedBins, NoCounts
  <1> QED BY <1>1, <1>2, <1>3 DEF CoggingInv

(* What a record does to the counts of its way.                             *)
LEMMA RecordCounts ==
  ASSUME NEW way \in Way, CoggingTypeOK, NEW x \in Int, enc' = x, Accumulate(way)
  PROVE  /\ bin_count' \in [Way -> [0..CogBins - 1 -> 0..MinCountPerBin]]
         /\ \A w \in Way : w # way => bin_count'[w] = bin_count[w]
         /\ \A b \in 0..CogBins - 1 :
              bin_count'[way][b] > 0 => bin_count[way][b] > 0 \/ b = BinOf(x)
  <1> DEFINE B == 0..CogBins - 1
             one == BinOf(x)
             f == bin_count
  <1>1. f \in [Way -> [B -> 0..MinCountPerBin]] /\ one \in B
    BY BinIsInTable DEF CoggingTypeOK
  <1>2. bin_count' = [f EXCEPT ![way][one] = IF @ < MinCountPerBin THEN @ + 1 ELSE @]
    BY DEF Accumulate
  <1>3. (IF f[way][one] < MinCountPerBin THEN f[way][one] + 1 ELSE f[way][one]) \in 0..MinCountPerBin
    BY <1>1, CoggingSizes
  <1> HIDE DEF B, one
  <1>4. \A b \in B : bin_count'[way][b] > 0 => f[way][b] > 0 \/ b = one
    BY <1>1, <1>2
  <1>5. bin_count' \in [Way -> [B -> 0..MinCountPerBin]]
    BY <1>1, <1>2, <1>3
  <1>6. \A w \in Way : w # way => bin_count'[w] = f[w]
    BY <1>1, <1>2
  <1> QED BY <1>4, <1>5, <1>6 DEF B, one

LEMMA CoggingNextInv ==
  ASSUME CoggingInv,
         \/ UNCHANGED coggingVars
         \/ CoggingStart
         \/ CoggingStop
         \/ \E d \in {-1, 0, 1} : CoggingStep(d)
  PROVE  CoggingInv'
  <1>1. CASE UNCHANGED coggingVars
    BY <1>1 DEF coggingVars, CoggingInv, CoggingTypeOK, CountedBins, Visited, NotYet
  <1>2. CASE CoggingStart
    <2>1. /\ c_state' = "Running" /\ c_phase' = <<"Fwd", "Settle">> /\ c_elapsed' = 0
          /\ travel' = 0 /\ have_prev' = FALSE /\ enc' = BinOf(enc)
          /\ bin_count' = NoCounts
          /\ low' = [w \in Way |-> 0] /\ high' = [w \in Way |-> 0]
      BY <1>2 DEF CoggingStart
    <2>2. CoggingTypeOK'
      <3>1. NoCounts \in [Way -> [0..CogBins - 1 -> 0..MinCountPerBin]]
        BY CoggingSizes DEF NoCounts
      <3>2. low' \in [Way -> Int] /\ high' \in [Way -> Int]
        BY <2>1
      <3>3. c_phase' \in Way \X {"Settle", "Record"}
        BY <2>1 DEF Way
      <3>4. c_elapsed' \in 0..(SettleTimeout + RecordTimeout) /\ travel' \in 0..RecordTravel
        BY <2>1, CoggingSizes
      <3>5. enc' \in Int
        BY <2>1, BinIsInTable DEF CoggingInv, CoggingTypeOK
      <3> QED BY <2>1, <3>1, <3>2, <3>3, <3>4, <3>5 DEF CoggingTypeOK
    <2>3. \A w \in Way : CountedBins(w)' = {} /\ low'[w] <= high'[w]
      BY <2>1 DEF CountedBins, NoCounts
    <2>4. NotYet("Fwd")' /\ NotYet("Rev")'
      BY <2>3 DEF NotYet, Way
    <2>5. \A w \in Way : c_phase' # <<w, "Record">>
      BY <2>1
    <2> QED BY <2>1, <2>2, <2>3, <2>4, <2>5 DEF CoggingInv
  <1>3. CASE CoggingStop
    BY <1>3 DEF CoggingStop, CoggingInv, CoggingTypeOK, CountedBins, Visited, NotYet
  <1>4. ASSUME NEW d \in {-1, 0, 1}, CoggingStep(d), NEW way \in Way,
               SettleAt(way, d) \/ RecordAt(way, d)
        PROVE  CoggingInv'
    <2>1. /\ c_state = "Running" /\ enc' = enc + d /\ have_prev' = TRUE
          /\ enc \in Int /\ enc' \in Int
          /\ Measured(d) \in Int
      BY <1>4 DEF CoggingStep, RotorMoves, CoggingInv, CoggingTypeOK, Measured
    <2>2. /\ c_phase \in Way \X {"Settle", "Record"}
          /\ c_elapsed \in 0..(SettleTimeout + RecordTimeout)
          /\ travel \in 0..RecordTravel
          /\ bin_count \in [Way -> [0..CogBins - 1 -> 0..MinCountPerBin]]
          /\ low \in [Way -> Int] /\ high \in [Way -> Int]
      BY DEF CoggingInv, CoggingTypeOK
    <2>3. /\ \A w \in Way : low[w] <= high[w] /\ CountedBins(w) \subseteq Visited(w)
          /\ c_phase = <<"Fwd", "Settle">> => NotYet("Fwd") /\ NotYet("Rev")
          /\ c_phase = <<"Fwd", "Record">> => NotYet("Rev")
          /\ c_phase = <<"Rev", "Settle">> => NotYet("Rev")
          /\ \A w \in Way : c_phase = <<w, "Record">> => travel < RecordTravel
      BY <2>1 DEF CoggingInv
    <2>4. CASE SettleAt(way, d)
      <3>1. c_phase = <<way, "Settle">> /\ bin_count' = bin_count
        BY <2>4 DEF SettleAt
      <3>2. \A w : CountedBins(w)' = CountedBins(w) /\ NotYet(w)' = NotYet(w)
        BY <3>1 DEF CountedBins, NotYet
      <3>3. NotYet(way) /\ NotYet("Rev")
        BY <2>3, <3>1 DEF Way
      <3>4. CASE Measured(d) = (IF way = "Fwd" THEN 1 ELSE -1)
        <4>1. /\ c_phase' = <<way, "Record">> /\ c_elapsed' = 0 /\ c_state' = c_state
              /\ travel' = 0
              /\ low' = [low EXCEPT ![way] = enc'] /\ high' = [high EXCEPT ![way] = enc']
          BY <2>4, <3>4 DEF SettleAt, EnterPhase
        <4>2. \A w \in Way : low'[w] <= high'[w] /\ CountedBins(w)' \subseteq Visited(w)'
          <5>1. low'[way] <= high'[way] /\ CountedBins(way)' = {}
            BY <2>1, <2>2, <3>2, <3>3, <4>1 DEF NotYet
          <5>2. \A w \in Way : w # way => low'[w] = low[w] /\ high'[w] = high[w]
            BY <2>2, <4>1
          <5>3. \A w \in Way : w # way => Visited(w)' = Visited(w)
            BY <5>2 DEF Visited
          <5> QED BY <2>3, <3>2, <5>1, <5>2, <5>3
        <4>3. CoggingTypeOK'
          <5>1. low' \in [Way -> Int] /\ high' \in [Way -> Int]
            BY <2>1, <2>2, <4>1
          <5>2. c_phase' \in Way \X {"Settle", "Record"}
            BY <4>1
          <5>3. c_elapsed' \in 0..(SettleTimeout + RecordTimeout) /\ travel' \in 0..RecordTravel
            BY <4>1, CoggingSizes
          <5> QED BY <2>1, <2>2, <3>1, <4>1, <5>1, <5>2, <5>3 DEF CoggingTypeOK
        <4>4. /\ c_phase' = <<"Fwd", "Record">> => NotYet("Rev")'
              /\ c_phase' # <<"Fwd", "Settle">> /\ c_phase' # <<"Rev", "Settle">>
          BY <3>2, <3>3, <4>1
        <4>5. travel' < RecordTravel
          BY <4>1, CoggingSizes
        <4> QED BY <2>1, <4>1, <4>2, <4>3, <4>4, <4>5 DEF CoggingInv
      <3>5. CASE Measured(d) # (IF way = "Fwd" THEN 1 ELSE -1)
        <4>1. /\ travel' = travel /\ low' = low /\ high' = high /\ c_phase' = c_phase
              /\ \/ c_state' = "Failed" /\ c_elapsed' = c_elapsed
                 \/ c_state' = c_state /\ c_elapsed' = c_elapsed + 1 /\ c_elapsed + 1 < SettleTimeout
          BY <2>2, <2>4, <3>5, CoggingSizes DEF SettleAt, CoggingFail, StayInPhase
        <4>2. \A w \in Way : low'[w] <= high'[w] /\ CountedBins(w)' \subseteq Visited(w)'
          BY <2>3, <3>2, <4>1 DEF Visited
        <4>3. c_elapsed' \in 0..(SettleTimeout + RecordTimeout)
          BY <2>2, <4>1, CoggingSizes
        <4>4. CoggingTypeOK'
          BY <2>1, <2>2, <3>1, <4>1, <4>3 DEF CoggingTypeOK
        <4>5. \A w \in Way : c_phase' # <<w, "Record">>
          BY <3>1, <4>1
        <4> QED BY <2>1, <2>3, <3>2, <4>1, <4>2, <4>4, <4>5 DEF CoggingInv
      <3> QED BY <3>4, <3>5
    <2>5. CASE RecordAt(way, d)
      <3>1. /\ c_phase = <<way, "Record">> /\ Accumulate(way)
            /\ low' = [low EXCEPT ![way] = IF enc' < @ THEN enc' ELSE @]
            /\ high' = [high EXCEPT ![way] = IF enc' > @ THEN enc' ELSE @]
            /\ travel' = travel + (IF Measured(d) = 0 THEN 0 ELSE 1)
        BY <2>5 DEF RecordAt
      <3>2. /\ bin_count' \in [Way -> [0..CogBins - 1 -> 0..MinCountPerBin]]
            /\ \A w \in Way : w # way => bin_count'[w] = bin_count[w]
            /\ \A b \in 0..CogBins - 1 :
                 bin_count'[way][b] > 0 => bin_count[way][b] > 0 \/ b = BinOf(enc')
        <4>1. CoggingTypeOK
          BY DEF CoggingInv
        <4> QED BY <2>1, <3>1, <4>1, RecordCounts
      <3>3. \A w \in Way : w # way => CountedBins(w)' = CountedBins(w) /\ NotYet(w)' = NotYet(w)
        BY <3>2 DEF CountedBins, NotYet
      <3>4. /\ \A w \in Way : w # way => low'[w] = low[w] /\ high'[w] = high[w]
            /\ low'[way] = (IF enc' < low[way] THEN enc' ELSE low[way])
            /\ high'[way] = (IF enc' > high[way] THEN enc' ELSE high[way])
            /\ low' \in [Way -> Int] /\ high' \in [Way -> Int]
        BY <2>1, <2>2, <3>1
      <3>5. /\ low'[way] <= high'[way]
            /\ enc' \in low'[way]..high'[way]
            /\ \A x \in low[way]..high[way] : x \in low'[way]..high'[way]
        BY <2>1, <2>2, <2>3, <3>4
      <3>6. CountedBins(way)' \subseteq Visited(way)'
        <4>1. Visited(way) \subseteq Visited(way)' /\ BinOf(enc') \in Visited(way)'
          BY <3>5 DEF Visited, BinOf
        <4>2. CountedBins(way)' \subseteq CountedBins(way) \cup {BinOf(enc')}
          BY <3>2 DEF CountedBins
        <4> QED BY <2>3, <4>1, <4>2
      <3>7. \A w \in Way : w # way => Visited(w)' = Visited(w)
        BY <3>4 DEF Visited
      <3>8. \A w \in Way : low'[w] <= high'[w] /\ CountedBins(w)' \subseteq Visited(w)'
        BY <2>3, <3>3, <3>4, <3>5, <3>6, <3>7
      <3>9. travel < RecordTravel /\ travel' \in 0..RecordTravel
        BY <2>2, <2>3, <3>1, CoggingSizes
      <3>10. way = "Fwd" => NotYet("Rev")'
        BY <2>3, <3>1, <3>3 DEF Way
      <3>11. CASE travel' >= RecordTravel /\ way = "Fwd"
        <4>1. c_phase' = <<"Rev", "Settle">> /\ c_elapsed' = 0 /\ c_state' = c_state
          BY <2>5, <3>11 DEF RecordAt, EnterPhase
        <4>2. CoggingTypeOK'
          <5>1. c_phase' \in Way \X {"Settle", "Record"} /\ c_elapsed' \in 0..(SettleTimeout + RecordTimeout)
            BY <4>1, CoggingSizes DEF Way
          <5> QED BY <2>1, <3>2, <3>4, <3>9, <4>1, <5>1 DEF CoggingTypeOK
        <4>3. \A w \in Way : c_phase' # <<w, "Record">>
          BY <4>1
        <4> QED BY <2>1, <3>8, <3>10, <3>11, <4>1, <4>2, <4>3 DEF CoggingInv
      <3>12. CASE travel' >= RecordTravel /\ way # "Fwd"
        <4>1. /\ c_phase' = c_phase /\ c_elapsed' = c_elapsed
              /\ c_state' = IF 4 * Cardinality(Covered(bin_count')) < 3 * CogBins THEN "Failed" ELSE "Done"
          BY <2>5, <3>12 DEF RecordAt, CoggingFinish
        <4>2. c_state' = "Done" => 4 * Cardinality(Covered(bin_count')) >= 3 * CogBins
          <5>1. Cardinality(Covered(bin_count')) \in Nat
            BY CoveredFinite
          <5> QED BY <4>1, <5>1, CoggingSizes
        <4>3. CoggingTypeOK'
          BY <2>1, <2>2, <3>2, <3>4, <3>9, <4>1 DEF CoggingTypeOK
        <4>4. c_state' \in {"Done", "Failed"}
          BY <4>1
        <4> QED BY <3>8, <4>2, <4>3, <4>4 DEF CoggingInv
      <3>13. CASE ~(travel' >= RecordTravel)
        <4>1. /\ c_phase' = c_phase
              /\ \/ c_state' = "Failed" /\ c_elapsed' = c_elapsed
                 \/ c_state' = c_state /\ c_elapsed' = c_elapsed + 1 /\ c_elapsed + 1 < RecordTimeout
          BY <2>2, <2>5, <3>13, CoggingSizes DEF RecordAt, CoggingFail, StayInPhase
        <4>2. c_elapsed' \in 0..(SettleTimeout + RecordTimeout)
          BY <2>2, <4>1, CoggingSizes
        <4>3. CoggingTypeOK'
          BY <2>1, <2>2, <3>2, <3>4, <3>9, <4>1, <4>2 DEF CoggingTypeOK
        <4>4. /\ c_phase' # <<"Fwd", "Settle">> /\ c_phase' # <<"Rev", "Settle">>
              /\ c_phase' = <<"Fwd", "Record">> => NotYet("Rev")'
              /\ travel' < RecordTravel
          BY <3>1, <3>9, <3>10, <3>13, <4>1, CoggingSizes
        <4> QED BY <2>1, <3>8, <4>1, <4>3, <4>4 DEF CoggingInv
      <3> QED BY <3>11, <3>12, <3>13
    <2> QED BY <1>4, <2>4, <2>5
  <1>5. CASE \E d \in {-1, 0, 1} : CoggingStep(d)
    BY <1>4, <1>5 DEF CoggingStep
  <1> QED BY <1>1, <1>2, <1>3, <1>5

LEMMA VisitedSize ==
  ASSUME NEW way \in Way, CoggingInv
  PROVE  /\ IsFiniteSet(Visited(way)) /\ Cardinality(Visited(way)) \in Nat
         /\ Cardinality(Visited(way)) <= high[way] - low[way] + 1
  <1> DEFINE Went == low[way]..high[way]
             f == [x \in Went |-> BinOf(x)]
  <1>1. low[way] \in Int /\ high[way] \in Int /\ low[way] <= high[way]
    BY DEF CoggingInv, CoggingTypeOK
  <1>2. IsFiniteSet(Went) /\ Cardinality(Went) = high[way] - low[way] + 1
    BY <1>1, FS_Interval
  <1>3. f \in Surjection(Went, Visited(way))
    BY DEF Surjection, Visited
  <1>4. IsFiniteSet(Visited(way)) /\ Cardinality(Visited(way)) <= Cardinality(Went)
    BY <1>2, <1>3, FS_Surjection
  <1> QED BY <1>2, <1>4, FS_CardinalityType

LEMMA CoggingResult == CoggingInv => CoggingWentRound
  <1> SUFFICES ASSUME CoggingInv, c_state = "Done", NEW way \in Way
               PROVE  4 * (high[way] - low[way] + 1) >= 3 * CogBins
    BY DEF CoggingWentRound
  <1>1. 4 * Cardinality(Covered(bin_count)) >= 3 * CogBins
    BY DEF CoggingInv
  <1>2. Covered(bin_count) \in SUBSET Visited(way)
    <2>1. Covered(bin_count) \subseteq CountedBins(way)
      <3>1. bin_count[way] \in [0..CogBins - 1 -> 0..MinCountPerBin]
        BY DEF CoggingInv, CoggingTypeOK
      <3> QED BY <3>1, CoggingSizes DEF Covered, CountedBins
    <2> QED BY <2>1 DEF CoggingInv
  <1>3. Cardinality(Covered(bin_count)) <= Cardinality(Visited(way))
    BY <1>2, VisitedSize, FS_Subset
  <1>4. /\ Cardinality(Covered(bin_count)) \in Nat /\ CogBins \in Nat
        /\ Cardinality(Visited(way)) \in Nat
        /\ Cardinality(Visited(way)) <= high[way] - low[way] + 1
        /\ low[way] \in Int /\ high[way] \in Int
    BY CoveredFinite, VisitedSize, CoggingSizes DEF CoggingInv, CoggingTypeOK
  <1> HIDE DEF CoggingInv
  <1> QED BY <1>1, <1>3, <1>4

-----------------------------------------------------------------------------
(* CalEncoderPhase.                                                         *)

Counts == [Directions -> [AngleBins -> 0..MinPerBin]]

LEMMA PhaseSizes ==
  /\ PhaseBins \in Nat \ {0} /\ FullSpeed \in Nat \ {0} /\ RevsEachWay \in Nat \ {0}
  /\ SenseTravel \in Nat /\ AlignSwing \in Nat
  /\ AlignSettle \in Nat /\ SenseTimeout \in Nat
  /\ LockSettle \in Nat /\ LockTotal \in Nat /\ LockSettle < LockTotal
  /\ LockMin \in Nat /\ MinPerBin \in Nat \ {0}
  /\ LastTick \in Nat /\ LockTotal <= LastTick
  BY EncoderPhaseAssumption DEF LastTick

LEMMA AngleIsInTable == ASSUME NEW x \in Int PROVE x % PhaseBins \in AngleBins
  BY PhaseSizes DEF AngleBins

LEMMA NoSamplesCount == NoSamples \in Counts /\ \A w \in Directions, b \in AngleBins : NoSamples[w][b] = 0
  BY PhaseSizes DEF NoSamples, Counts

(* One more at a bin, and no more than MinPerBin.                           *)
LEMMA CountAtCounts ==
  ASSUME NEW c \in Counts, NEW way \in Directions, NEW b \in AngleBins
  PROVE  /\ CountAt(c, way, b) \in Counts
         /\ \A w \in Directions, x \in AngleBins :
              CountAt(c, way, b)[w][x] =
                IF w = way /\ x = b /\ c[w][x] < MinPerBin THEN c[w][x] + 1 ELSE c[w][x]
  <1> DEFINE new == IF c[way][b] < MinPerBin THEN c[way][b] + 1 ELSE c[way][b]
  <1>1. c \in [Directions -> [AngleBins -> 0..MinPerBin]]
    BY DEF Counts
  <1>2. new \in 0..MinPerBin
    BY <1>1, PhaseSizes
  <1>3. CountAt(c, way, b) = [c EXCEPT ![way][b] = new]
    BY <1>1 DEF CountAt
  <1> HIDE DEF new
  <1>4. [c EXCEPT ![way][b] = new] \in [Directions -> [AngleBins -> 0..MinPerBin]]
    BY <1>1, <1>2
  <1>5. \A w \in Directions, x \in AngleBins :
          [c EXCEPT ![way][b] = new][w][x] = IF w = way /\ x = b THEN new ELSE c[w][x]
    BY <1>1
  <1> QED BY <1>3, <1>4, <1>5 DEF Counts, new

(* The command goes a step towards its target.                              *)
LEMMA RampStays ==
  ASSUME EncoderPhaseTypeOK
  PROVE  /\ TargetNow \in {0, FullSpeed, -FullSpeed}
         /\ RampedTo(TargetNow) \in -FullSpeed..FullSpeed
         /\ Elapsed \in 0..LastTick
         /\ SgnOf(RampedTo(TargetNow)) \in {-1, 0, 1}
         /\ RampedTo(TargetNow) # 0 => SgnOf(RampedTo(TargetNow)) \in Directions
  <1>1. /\ omega_cmd \in -FullSpeed..FullSpeed /\ omega_target \in {0, FullSpeed, -FullSpeed}
        /\ e_elapsed \in 0..LastTick
    BY DEF EncoderPhaseTypeOK
  <1>2. TargetNow \in {0, FullSpeed, -FullSpeed}
    BY <1>1 DEF TargetNow
  <1>3. RampedTo(TargetNow) \in -FullSpeed..FullSpeed
    BY <1>1, <1>2, PhaseSizes DEF RampedTo, SgnOf
  <1>4. Elapsed \in 0..LastTick
    BY <1>1, PhaseSizes DEF Elapsed
  <1>5. SgnOf(RampedTo(TargetNow)) \in {-1, 0, 1}
    BY DEF SgnOf
  <1>6. RampedTo(TargetNow) # 0 => SgnOf(RampedTo(TargetNow)) \in Directions
    BY <1>3, PhaseSizes DEF SgnOf, Directions
  <1> QED BY <1>2, <1>3, <1>4, <1>5, <1>6

LEMMA SignOfMove == \A x \in Int : x # 0 => SgnOf(x) \in Directions
  BY DEF SgnOf, Directions

LEMMA RotorStays ==
  ASSUME EncoderPhaseTypeOK, NEW d \in -PhaseBins..PhaseBins, RotorTurns(d)
  PROVE  position' \in AngleBins /\ e_have_prev' = TRUE /\ swept' \in Counts
  <1>1. position \in AngleBins /\ swept \in Counts
    BY DEF EncoderPhaseTypeOK, Counts
  <1>2. position + d \in Int
    BY <1>1, PhaseSizes DEF AngleBins
  <1>3. position' \in AngleBins /\ e_have_prev' = TRUE
    BY <1>2, AngleIsInTable DEF RotorTurns
  <1>4. CASE swept' = swept
    BY <1>1, <1>3, <1>4
  <1>5. CASE /\ swept' = CountAt(swept, SgnOf(RampedTo(TargetNow)), position')
             /\ RampedTo(TargetNow) \in {FullSpeed, -FullSpeed}
    <2>1. SgnOf(RampedTo(TargetNow)) \in Directions
      BY <1>5, RampStays, PhaseSizes
    <2> QED BY <1>1, <1>3, <1>5, <2>1, CountAtCounts
  <1> QED BY <1>4, <1>5 DEF RotorTurns

(* What was passed stays passed.                                            *)
LEMMA SweptGrows ==
  ASSUME EncoderPhaseTypeOK, NEW d \in -PhaseBins..PhaseBins, RotorTurns(d)
  PROVE  \A w \in Directions, x \in AngleBins :
           swept[w][x] \in Nat /\ swept'[w][x] \in Nat /\ swept[w][x] <= swept'[w][x]
  <1>1. swept \in Counts /\ position' \in AngleBins
    BY RotorStays DEF EncoderPhaseTypeOK, Counts
  <1>2. \A w \in Directions, x \in AngleBins : swept[w][x] \in Nat
    <2>1. \A w \in Directions, x \in AngleBins : swept[w][x] \in 0..MinPerBin
      BY <1>1 DEF Counts
    <2> QED BY <2>1, PhaseSizes
  <1>3. CASE swept' = swept
    BY <1>2, <1>3
  <1>4. CASE /\ swept' = CountAt(swept, SgnOf(RampedTo(TargetNow)), position')
             /\ RampedTo(TargetNow) \in {FullSpeed, -FullSpeed}
    <2>1. SgnOf(RampedTo(TargetNow)) \in Directions
      BY <1>4, RampStays, PhaseSizes
    <2>2. \A w \in Directions, x \in AngleBins :
            swept'[w][x] \in {swept[w][x], swept[w][x] + 1}
      BY <1>1, <1>4, <2>1, CountAtCounts
    <2> QED BY <1>2, <2>2
  <1> QED BY <1>3, <1>4 DEF RotorTurns

LEMMA LockInitInv == EncoderPhaseInit => LockInv
  <1> SUFFICES ASSUME EncoderPhaseInit PROVE LockInv
    OBVIOUS
  <1>1. AngleBins = 0..PhaseBins - 1 /\ 0 \in AngleBins
    BY PhaseSizes DEF AngleBins
  <1>2. bin_samples \in Counts /\ swept \in Counts
    BY NoSamplesCount DEF EncoderPhaseInit
  <1>3. EncoderPhaseTypeOK
    <2>1. /\ e_state = "Idle" /\ method = "Lock" /\ e_elapsed = 0
          /\ omega_cmd = 0 /\ omega_target = 0
          /\ sign = 1 /\ wiring \in Directions
          /\ enc_unwrapped = 0 /\ phase_travel = 0 /\ e_have_prev = FALSE
          /\ position = 0 /\ lock_n = 0
      BY DEF EncoderPhaseInit
    <2>2. 0 \in 0..LastTick /\ 0 \in 0..LockTotal /\ 0 \in -FullSpeed..FullSpeed /\ 1 \in Directions
      BY PhaseSizes DEF Directions
    <2>3. e_have_prev \in BOOLEAN
      BY <2>1
    <2>4. /\ e_state \in SpinActive \cup {"Idle", "Locking", "Done", "Failed"}
          /\ method \in {"Spin", "Lock"}
          /\ e_elapsed \in 0..LastTick
          /\ omega_cmd \in -FullSpeed..FullSpeed
          /\ omega_target \in {0, FullSpeed, -FullSpeed}
          /\ sign \in Directions /\ wiring \in Directions
          /\ enc_unwrapped \in Int /\ phase_travel \in Int
          /\ position \in AngleBins /\ lock_n \in 0..LockTotal
      BY <1>1, <2>1, <2>2
    <2> QED BY <1>2, <2>3, <2>4 DEF EncoderPhaseTypeOK, Counts
  <1> QED BY <1>3 DEF LockInv, EncoderPhaseInit

LEMMA LockNextInv ==
  ASSUME LockInv,
         \/ UNCHANGED encoderPhaseVars
         \/ \E m \in {"Spin", "Lock"} : EncoderPhaseStart(m)
         \/ EncoderPhaseStop
         \/ \E d \in -PhaseBins..PhaseBins : EncoderPhaseStep(d)
  PROVE  LockInv'
  <1>0. EncoderPhaseTypeOK
    BY DEF LockInv
  <1>. /\ e_state \in SpinActive \cup {"Idle", "Locking", "Done", "Failed"}
       /\ method \in {"Spin", "Lock"}
       /\ e_elapsed \in 0..LastTick
       /\ omega_cmd \in -FullSpeed..FullSpeed
       /\ omega_target \in {0, FullSpeed, -FullSpeed}
       /\ sign \in Directions /\ wiring \in Directions
       /\ enc_unwrapped \in Int /\ phase_travel \in Int
       /\ e_have_prev \in BOOLEAN /\ position \in AngleBins
       /\ bin_samples \in Counts /\ swept \in Counts
       /\ lock_n \in 0..LockTotal
    BY <1>0 DEF EncoderPhaseTypeOK, Counts
  <1>1. CASE UNCHANGED encoderPhaseVars
    BY <1>1 DEF encoderPhaseVars, LockInv, EncoderPhaseTypeOK
  <1>2. CASE \E m \in {"Spin", "Lock"} : EncoderPhaseStart(m)
    <2>1. PICK m \in {"Spin", "Lock"} : EncoderPhaseStart(m)
      BY <1>2
    <2>2. /\ e_state' \in {"Locking", "SenseSign"} /\ method' \in {"Spin", "Lock"}
          /\ e_elapsed' = 0 /\ omega_cmd' = 0 /\ omega_target' = 0 /\ sign' = 1
          /\ enc_unwrapped' = 0 /\ phase_travel' = 0 /\ e_have_prev' = FALSE /\ lock_n' = 0
          /\ bin_samples' = NoSamples /\ swept' = NoSamples
          /\ position' = position /\ wiring' = wiring
      BY <2>1 DEF EncoderPhaseStart
    <2>3. 0 \in 0..LastTick /\ 0 \in 0..LockTotal /\ 0 \in -FullSpeed..FullSpeed /\ 1 \in Directions
      BY PhaseSizes DEF Directions
    <2>4. bin_samples' \in Counts /\ swept' \in Counts
      BY <2>2, NoSamplesCount
    <2>5. e_have_prev' \in BOOLEAN
      BY <2>2
    <2>6. EncoderPhaseTypeOK'
      <3>1. e_state' \in SpinActive \cup {"Idle", "Locking", "Done", "Failed"}
        BY <2>2 DEF SpinActive
      <3> QED BY <2>2, <2>3, <2>4, <2>5, <3>1 DEF EncoderPhaseTypeOK, Counts
    <2> QED BY <2>2, <2>6, PhaseSizes DEF LockInv
  <1>3. CASE EncoderPhaseStop
    <2>1. /\ e_state' = "Failed" /\ omega_cmd' = 0 /\ omega_target' = 0
          /\ method' = method /\ e_elapsed' = e_elapsed /\ sign' = sign
          /\ enc_unwrapped' = enc_unwrapped /\ phase_travel' = phase_travel
          /\ e_have_prev' = e_have_prev /\ position' = position
          /\ bin_samples' = bin_samples /\ lock_n' = lock_n /\ wiring' = wiring /\ swept' = swept
      BY <1>3 DEF EncoderPhaseStop
    <2>2. 0 \in -FullSpeed..FullSpeed
      BY PhaseSizes
    <2>3. EncoderPhaseTypeOK'
      BY <2>1, <2>2 DEF EncoderPhaseTypeOK, Counts
    <2> QED BY <2>1, <2>3 DEF LockInv
  <1>4. ASSUME NEW d \in -PhaseBins..PhaseBins, EncoderPhaseStep(d)
        PROVE  LockInv'
    <2>1. /\ e_elapsed' = Elapsed /\ RotorTurns(d) /\ method' = method /\ wiring' = wiring
          /\ FirstReading \/ SenseSign(d) \/ Sweep(d) \/ StepLock(d)
          /\ d \in Int
      BY <1>4, PhaseSizes DEF EncoderPhaseStep
    <2>2. position' \in AngleBins /\ e_have_prev' = TRUE /\ swept' \in Counts
      BY <1>0, <2>1, RotorStays
    <2>3. /\ TargetNow \in {0, FullSpeed, -FullSpeed}
          /\ RampedTo(TargetNow) \in -FullSpeed..FullSpeed
          /\ Elapsed \in 0..LastTick
          /\ 0 \in -FullSpeed..FullSpeed
      BY <1>0, RampStays, PhaseSizes
    <2>4. /\ Commanded => omega_target' = TargetNow /\ omega_cmd' = RampedTo(TargetNow)
          /\ AtRest => omega_target' = 0 /\ omega_cmd' = 0
      BY DEF Commanded, AtRest
    <2>5. /\ Elapsed = IF e_elapsed < LastTick THEN e_elapsed + 1 ELSE e_elapsed
          /\ e_state = "Locking" =>
               /\ e_elapsed <= LockTotal /\ lock_n <= e_elapsed
               /\ IF e_have_prev THEN lock_n < e_elapsed ELSE e_elapsed = 0
      BY DEF Elapsed, LockInv
    <2>6. CASE FirstReading
      <3>1. /\ omega_target' = TargetNow /\ omega_cmd' = RampedTo(TargetNow)
            /\ e_state' = e_state /\ sign' = sign /\ enc_unwrapped' = enc_unwrapped
            /\ phase_travel' = phase_travel /\ bin_samples' = bin_samples /\ lock_n' = lock_n
            /\ ~e_have_prev
        BY <2>4, <2>6 DEF FirstReading
      <3>2. EncoderPhaseTypeOK'
        BY <2>1, <2>2, <2>3, <3>1 DEF EncoderPhaseTypeOK, Counts
      <3>3. e_state = "Locking" => lock_n < Elapsed /\ Elapsed <= LockTotal
        BY <2>5, <3>1, PhaseSizes
      <3>4. Elapsed \in Int /\ lock_n' \in Int
        BY <2>3, <3>1, PhaseSizes
      <3>5. e_state' = "Locking" => e_elapsed' <= LockTotal /\ lock_n' <= e_elapsed' /\ lock_n' < e_elapsed'
        BY <2>1, <3>1, <3>3, <3>4
      <3> QED BY <2>2, <3>2, <3>5 DEF LockInv
    <2>7. CASE SenseSign(d)
      <3>1. /\ e_state = "SenseSign" /\ enc_unwrapped' = enc_unwrapped + d
            /\ bin_samples' = bin_samples /\ lock_n' = lock_n
            /\ e_state' \in {"SenseSign", "Fwd", "Failed"}
            /\ phase_travel' \in Int
        BY <2>1, <2>7 DEF SenseSign
      <3>2. omega_target' \in {0, FullSpeed, -FullSpeed} /\ omega_cmd' \in -FullSpeed..FullSpeed
        BY <2>3, <2>4, <2>7 DEF SenseSign
      <3>3. sign' \in Directions
        <4>1. CASE enc_unwrapped' \in -SenseTravel..SenseTravel
          BY <2>7, <4>1 DEF SenseSign
        <4>2. CASE enc_unwrapped' \notin -SenseTravel..SenseTravel
          <5>1. sign' = SgnOf(enc_unwrapped')
            BY <2>7, <4>2 DEF SenseSign
          <5>2. enc_unwrapped' \in Int /\ enc_unwrapped' # 0
            BY <2>1, <3>1, <4>2, PhaseSizes
          <5> QED BY <5>1, <5>2, SignOfMove
        <4> QED BY <4>1, <4>2
      <3>4. e_state' \in SpinActive \cup {"Idle", "Locking", "Done", "Failed"} /\ e_state' # "Locking"
        BY <3>1 DEF SpinActive
      <3>5. enc_unwrapped' \in Int
        BY <2>1, <3>1
      <3>6. EncoderPhaseTypeOK'
        BY <2>1, <2>2, <2>3, <3>1, <3>2, <3>3, <3>4, <3>5 DEF EncoderPhaseTypeOK, Counts
      <3> QED BY <3>4, <3>6 DEF LockInv
    <2>8. CASE Sweep(d)
      <3>1. /\ e_state \in {"Fwd", "Rev"}
            /\ sign' = sign /\ enc_unwrapped' = enc_unwrapped /\ lock_n' = lock_n
            /\ phase_travel' \in Int
        BY <2>1, <2>8 DEF Sweep
      <3>2. /\ omega_target' \in {0, FullSpeed, -FullSpeed} /\ omega_cmd' \in -FullSpeed..FullSpeed
            /\ e_state' \in {"Fwd", "Rev", "Done", "Failed"}
        <4>1. CASE e_state' = "Rev" /\ omega_target' = -FullSpeed /\ omega_cmd' = RampedTo(TargetNow)
          BY <2>3, <4>1
        <4>2. CASE FinishSpin
          BY <2>3, <2>4, <4>2 DEF FinishSpin
        <4>3. CASE e_state' = e_state /\ Commanded
          BY <2>3, <2>4, <3>1, <4>3
        <4> QED BY <2>8, <4>1, <4>2, <4>3 DEF Sweep
      <3>3. bin_samples' \in Counts
        <4>1. (IF e_state = "Fwd" THEN 1 ELSE -1) \in Directions
          BY DEF Directions
        <4>2. \A w \in Directions : CountAt(bin_samples, w, position') \in Counts
          BY <2>2, CountAtCounts
        <4> QED BY <2>8, <4>1, <4>2 DEF Sweep
      <3>4. e_state' \in SpinActive \cup {"Idle", "Locking", "Done", "Failed"} /\ e_state' # "Locking"
        BY <3>2 DEF SpinActive
      <3>5. EncoderPhaseTypeOK'
        BY <2>1, <2>2, <2>3, <3>1, <3>2, <3>3, <3>4 DEF EncoderPhaseTypeOK, Counts
      <3> QED BY <3>4, <3>5 DEF LockInv
    <2>9. CASE StepLock(d)
      <3>1. /\ e_have_prev /\ e_state = "Locking" /\ enc_unwrapped' = enc_unwrapped + d
            /\ lock_n' \in {lock_n, lock_n + 1}
            /\ sign' = sign /\ phase_travel' = phase_travel /\ bin_samples' = bin_samples
        BY <2>9 DEF StepLock
      <3>2. /\ omega_target' \in {0, FullSpeed, -FullSpeed} /\ omega_cmd' \in -FullSpeed..FullSpeed
            /\ \/ e_state' = e_state /\ Elapsed < LockTotal
               \/ e_state' \in {"Done", "Failed"}
        BY <2>3, <2>4, <2>9 DEF StepLock
      <3>3. lock_n < e_elapsed /\ e_elapsed <= LockTotal
        BY <2>5, <3>1
      <3>4. lock_n' \in 0..LockTotal
        BY <3>1, <3>3, PhaseSizes
      <3>5. Elapsed < LockTotal => lock_n' < Elapsed
        BY <2>5, <3>1, <3>3, PhaseSizes
      <3>6. e_state' \in SpinActive \cup {"Idle", "Locking", "Done", "Failed"}
        BY <3>1, <3>2
      <3>7. enc_unwrapped' \in Int
        BY <2>1, <3>1
      <3>8. EncoderPhaseTypeOK'
        BY <2>1, <2>2, <2>3, <3>1, <3>2, <3>4, <3>6, <3>7 DEF EncoderPhaseTypeOK, Counts
      <3>9. e_state' = "Locking" => Elapsed < LockTotal /\ lock_n' < Elapsed
        BY <3>2, <3>5
      <3>10. Elapsed \in Int /\ lock_n' \in Int
        BY <2>3, <3>4, PhaseSizes
      <3> QED BY <2>1, <2>2, <3>8, <3>9, <3>10, PhaseSizes DEF LockInv
    <2> QED BY <2>1, <2>6, <2>7, <2>8, <2>9
  <1> QED BY <1>1, <1>2, <1>3, <1>4

(* What SignInv says of a spin, apart from the state it is in.              *)
SampledInStep ==
  \A way \in Directions, b \in AngleBins : bin_samples[way][b] <= swept[way][b]

LEMMA SignInitInv == EncoderPhaseInit => SignInv
  BY DEF EncoderPhaseInit, SignInv

(* A sample is a movement in step with the field at full speed.             *)
LEMMA SweepIsInStep ==
  ASSUME EncoderPhaseTypeOK, SampledInStep, NEW d \in -PhaseBins..PhaseBins,
         RotorTurns(d), Sweep(d), sign = wiring,
         e_state = "Fwd" => omega_target = FullSpeed,
         e_state = "Rev" => omega_target = -FullSpeed
  PROVE  SampledInStep'
  <1> DEFINE to == SgnOf(RampedTo(TargetNow))
             way == IF e_state = "Fwd" THEN 1 ELSE -1
  <1>1. /\ e_have_prev /\ e_state \in {"Fwd", "Rev"}
        /\ bin_samples' = IF Tracking(d) THEN CountAt(bin_samples, way, position') ELSE bin_samples
    BY DEF Sweep
  <1>2. bin_samples \in Counts /\ swept \in Counts /\ sign \in Directions /\ position' \in AngleBins
    BY RotorStays DEF EncoderPhaseTypeOK, Counts
  <1>3. TargetNow = omega_target /\ omega_target = (IF e_state = "Fwd" THEN FullSpeed ELSE -FullSpeed)
    BY <1>1 DEF TargetNow
  <1>4. way \in Directions
    BY DEF Directions
  <1>5. \A w \in Directions, x \in AngleBins :
          bin_samples[w][x] \in Nat /\ swept[w][x] \in 0..MinPerBin /\ bin_samples[w][x] <= swept[w][x]
    <2>1. \A w \in Directions, x \in AngleBins :
            bin_samples[w][x] \in 0..MinPerBin /\ swept[w][x] \in 0..MinPerBin
      BY <1>2 DEF Counts
    <2>2. \A w \in Directions, x \in AngleBins : bin_samples[w][x] <= swept[w][x]
      BY DEF SampledInStep
    <2> QED BY <2>1, <2>2, PhaseSizes
  <1>6. CASE Tracking(d)
    <2>1. RampedTo(TargetNow) = (IF e_state = "Fwd" THEN FullSpeed ELSE -FullSpeed) /\ sign * d = to
      BY <1>3, <1>6 DEF Tracking
    <2>2. to = way
      BY <1>1, <2>1, PhaseSizes DEF SgnOf
    <2>3. d = wiring * to
      <3>1. d \in Int /\ to \in Int
        BY <1>4, <2>2, PhaseSizes DEF Directions
      <3>2. sign = 1 \/ sign = -1
        BY <1>2 DEF Directions
      <3> HIDE DEF to, way
      <3> QED BY <2>1, <3>1, <3>2
    <2>4. swept' = CountAt(swept, way, position')
      <3>1. RampedTo(TargetNow) \in {FullSpeed, -FullSpeed}
        BY <2>1
      <3> QED BY <1>1, <2>2, <2>3, <3>1 DEF RotorTurns
    <2>5. bin_samples' = CountAt(bin_samples, way, position')
      BY <1>1, <1>6
    <2> HIDE DEF way
    <2>6. \A w \in Directions, x \in AngleBins :
            /\ bin_samples'[w][x] = IF w = way /\ x = position' /\ bin_samples[w][x] < MinPerBin
                                    THEN bin_samples[w][x] + 1 ELSE bin_samples[w][x]
            /\ swept'[w][x] = IF w = way /\ x = position' /\ swept[w][x] < MinPerBin
                              THEN swept[w][x] + 1 ELSE swept[w][x]
      BY <1>2, <1>4, <2>4, <2>5, CountAtCounts
    <2> QED BY <1>5, <2>6, PhaseSizes DEF SampledInStep
  <1>7. CASE ~Tracking(d)
    <2>1. bin_samples' = bin_samples
      BY <1>1, <1>7
    <2> QED BY <1>5, <2>1, SweptGrows DEF SampledInStep
  <1> QED BY <1>6, <1>7

(* A rotor that leaves what a swing can reach was turned by the field.      *)
LEMMA SenseIsWiring ==
  ASSUME AlignSwing <= SenseTravel,
         EncoderPhaseTypeOK, NEW d \in -PhaseBins..PhaseBins, MayMove(d),
         e_state = "SenseSign", omega_cmd >= 0,
         enc_unwrapped \in -SenseTravel..SenseTravel,
         enc_unwrapped + d \notin -SenseTravel..SenseTravel
  PROVE  SgnOf(enc_unwrapped + d) = wiring /\ omega_cmd # 0
  <1>1. /\ d \in Int /\ enc_unwrapped \in Int /\ wiring \in {1, -1} /\ omega_cmd \in Int
        /\ SenseTravel \in Nat /\ AlignSwing \in Nat
    BY PhaseSizes DEF EncoderPhaseTypeOK, Directions
  <1>2. d # 0
    BY <1>1
  <1>3. ~(enc_unwrapped + d \in -AlignSwing..AlignSwing)
    BY <1>1
  <1>4. omega_cmd # 0 /\ d = wiring * SgnOf(omega_cmd)
    BY <1>2, <1>3 DEF MayMove
  <1>5. SgnOf(omega_cmd) = 1
    BY <1>1, <1>4 DEF SgnOf
  <1>6. d = wiring
    BY <1>1, <1>4, <1>5
  <1>7. wiring = 1 => enc_unwrapped + d > 0
    BY <1>1, <1>6
  <1>8. wiring = -1 => enc_unwrapped + d < 0
    BY <1>1, <1>6
  <1>9. wiring = -1 => ~(enc_unwrapped + d > 0)
    BY <1>1, <1>8
  <1> QED BY <1>1, <1>4, <1>7, <1>8, <1>9 DEF SgnOf

LEMMA SignNextInv ==
  ASSUME AlignSwing <= SenseTravel, LockInv, SignInv,
         \/ UNCHANGED encoderPhaseVars
         \/ \E m \in {"Spin", "Lock"} : EncoderPhaseStart(m)
         \/ EncoderPhaseStop
         \/ \E d \in -PhaseBins..PhaseBins : EncoderPhaseStep(d)
  PROVE  SignInv'
  <1>0. EncoderPhaseTypeOK
    BY DEF LockInv
  <1>1. CASE UNCHANGED encoderPhaseVars
    BY <1>1 DEF encoderPhaseVars, SignInv
  <1>2. CASE \E m \in {"Spin", "Lock"} : EncoderPhaseStart(m)
    <2>1. PICK m \in {"Spin", "Lock"} : EncoderPhaseStart(m)
      BY <1>2
    <2>2. /\ e_state' = (IF m = "Lock" THEN "Locking" ELSE "SenseSign") /\ method' = m
          /\ omega_cmd' = 0 /\ omega_target' = 0 /\ enc_unwrapped' = 0
          /\ bin_samples' = NoSamples /\ swept' = NoSamples
      BY <2>1 DEF EncoderPhaseStart
    <2>3. \A w \in Directions, b \in AngleBins : bin_samples'[w][b] <= swept'[w][b]
      BY <2>2, NoSamplesCount
    <2>4. enc_unwrapped' \in -SenseTravel..SenseTravel
      BY <2>2, PhaseSizes
    <2>5. e_state' = "SenseSign" => method' = "Spin"
      BY <2>2
    <2>6. e_state' = "Locking" => method' = "Lock"
      BY <2>2
    <2> QED BY <2>2, <2>3, <2>4, <2>5, <2>6 DEF SignInv
  <1>3. CASE EncoderPhaseStop
    BY <1>3 DEF EncoderPhaseStop, SignInv
  <1>4. ASSUME NEW d \in -PhaseBins..PhaseBins, EncoderPhaseStep(d)
        PROVE  SignInv'
    <2>1. /\ RotorTurns(d) /\ method' = method /\ wiring' = wiring /\ MayMove(d)
          /\ FirstReading \/ SenseSign(d) \/ Sweep(d) \/ StepLock(d)
          /\ EncoderPhaseActive
      BY <1>4 DEF EncoderPhaseStep
    <2>2. e_state \in {"SenseSign", "Fwd", "Rev", "Locking"}
      BY <2>1 DEF EncoderPhaseActive, SpinActive
    <2>3. /\ omega_cmd \in Int /\ omega_target \in Int /\ FullSpeed \in Nat \ {0}
          /\ enc_unwrapped \in Int /\ d \in Int /\ SenseTravel \in Nat
      BY <1>0, PhaseSizes DEF EncoderPhaseTypeOK
    <2>4. Commanded => omega_target' = TargetNow /\ omega_cmd' = RampedTo(TargetNow)
      BY DEF Commanded
    <2>5. e_state \in {"Fwd", "Rev"} => method = "Spin" /\ sign = wiring /\ TargetNow = omega_target
      BY DEF SignInv, TargetNow
    <2>6. e_state = "SenseSign" =>
            /\ TargetNow \in {0, FullSpeed} /\ RampedTo(TargetNow) >= 0
            /\ RampedTo(TargetNow) # 0 => TargetNow = FullSpeed
            /\ omega_cmd # 0 => TargetNow = FullSpeed
      <3> SUFFICES ASSUME e_state = "SenseSign"
                   PROVE  /\ TargetNow \in {0, FullSpeed} /\ RampedTo(TargetNow) >= 0
                          /\ RampedTo(TargetNow) # 0 => TargetNow = FullSpeed
                          /\ omega_cmd # 0 => TargetNow = FullSpeed
        OBVIOUS
      <3>1. /\ omega_cmd >= 0 /\ omega_target \in {0, FullSpeed}
            /\ omega_cmd # 0 => omega_target = FullSpeed
        BY DEF SignInv
      <3>2. TargetNow \in {omega_target, FullSpeed}
        BY DEF TargetNow
      <3>3. RampedTo(TargetNow) = omega_cmd + SgnOf(TargetNow - omega_cmd)
        BY DEF RampedTo
      <3>4. CASE TargetNow = FullSpeed
        BY <2>3, <3>1, <3>3, <3>4 DEF SgnOf
      <3>5. CASE TargetNow # FullSpeed
        <4>1. TargetNow = 0 /\ omega_target = 0 /\ omega_cmd = 0
          BY <3>1, <3>2, <3>5
        <4>2. SgnOf(TargetNow - omega_cmd) = 0
          BY <4>1 DEF SgnOf
        <4> QED BY <3>3, <4>1, <4>2
      <3> QED BY <3>4, <3>5
    <2>7. method = "Spin" => SampledInStep
      BY DEF SignInv, SampledInStep
    <2>8. bin_samples' = bin_samples => (method = "Spin" => SampledInStep')
      <3> SUFFICES ASSUME bin_samples' = bin_samples, SampledInStep PROVE SampledInStep'
        BY <2>7
      <3>1. \A w \in Directions, x \in AngleBins : bin_samples[w][x] \in Nat
        <4>1. \A w \in Directions, x \in AngleBins : bin_samples[w][x] \in 0..MinPerBin
          BY <1>0 DEF EncoderPhaseTypeOK
        <4> QED BY <4>1, PhaseSizes
      <3> QED BY <1>0, <2>1, <3>1, SweptGrows DEF SampledInStep
    <2>9. CASE FirstReading
      <3>1. /\ omega_target' = TargetNow /\ omega_cmd' = RampedTo(TargetNow)
            /\ e_state' = e_state /\ sign' = sign /\ enc_unwrapped' = enc_unwrapped
            /\ bin_samples' = bin_samples
        BY <2>4, <2>9 DEF FirstReading
      <3> QED BY <2>1, <2>2, <2>5, <2>6, <2>8, <3>1 DEF SignInv, SampledInStep
    <2>10. CASE SenseSign(d)
      <3>1. /\ e_state = "SenseSign" /\ enc_unwrapped' = enc_unwrapped + d /\ bin_samples' = bin_samples
            /\ method = "Spin" /\ omega_cmd >= 0 /\ enc_unwrapped \in -SenseTravel..SenseTravel
        BY <2>10 DEF SenseSign, SignInv
      <3>2. CASE enc_unwrapped' \notin -SenseTravel..SenseTravel
        <4>1. /\ sign' = SgnOf(enc_unwrapped + d) /\ e_state' = "Fwd"
              /\ omega_target' = TargetNow
          BY <2>4, <2>10, <3>1, <3>2 DEF SenseSign
        <4>2. SgnOf(enc_unwrapped + d) = wiring /\ omega_cmd # 0
          BY <1>0, <2>1, <3>1, <3>2, SenseIsWiring
        <4> QED BY <2>1, <2>6, <2>8, <3>1, <4>1, <4>2 DEF SignInv, SampledInStep
      <3>3. CASE enc_unwrapped' \in -SenseTravel..SenseTravel
        <4>1. \/ e_state' = "Failed"
              \/ e_state' = e_state /\ omega_target' = TargetNow /\ omega_cmd' = RampedTo(TargetNow)
          BY <2>4, <2>10, <3>3 DEF SenseSign
        <4>2. CASE e_state' = "Failed"
          BY <2>1, <2>8, <3>1, <4>2 DEF SignInv, SampledInStep
        <4>3. CASE e_state' = e_state /\ omega_target' = TargetNow /\ omega_cmd' = RampedTo(TargetNow)
          BY <2>1, <2>6, <2>8, <3>1, <3>3, <4>3 DEF SignInv, SampledInStep
        <4> QED BY <4>1, <4>2, <4>3
      <3> QED BY <3>2, <3>3
    <2>11. CASE Sweep(d)
      <3>1. e_state \in {"Fwd", "Rev"} /\ sign' = sign /\ method = "Spin" /\ sign = wiring
        BY <2>5, <2>11 DEF Sweep
      <3>2. /\ e_state = "Fwd" => omega_target = FullSpeed
            /\ e_state = "Rev" => omega_target = -FullSpeed
        BY DEF SignInv
      <3>3. SampledInStep'
        BY <1>0, <2>1, <2>7, <2>11, <3>1, <3>2, SweepIsInStep
      <3>4. CASE e_state' = "Rev" /\ omega_target' = -FullSpeed
        BY <2>1, <3>1, <3>3, <3>4 DEF SignInv, SampledInStep
      <3>5. CASE FinishSpin
        <4>1. e_state' = "Failed" \/ (e_state' = "Done" /\
                ~(\E w \in Directions, b \in AngleBins : bin_samples'[w][b] < MinPerBin))
          BY <3>5 DEF FinishSpin
        <4>2. bin_samples' \in Counts
          <5>1. LockInv'
            BY <1>4, LockNextInv
          <5> QED BY <5>1 DEF LockInv, EncoderPhaseTypeOK, Counts
        <4>3. \A w \in Directions, b \in AngleBins : bin_samples'[w][b] \in Int
          <5>1. \A w \in Directions, b \in AngleBins : bin_samples'[w][b] \in 0..MinPerBin
            BY <4>2 DEF Counts
          <5> QED BY <5>1, PhaseSizes
        <4>4. e_state' = "Done" =>
                \A w \in Directions, b \in AngleBins : bin_samples'[w][b] >= MinPerBin
          BY <4>1, <4>3, PhaseSizes
        <4>5. e_state' \in {"Failed", "Done"}
          BY <4>1
        <4> QED BY <2>1, <3>1, <3>3, <4>4, <4>5 DEF SignInv, SampledInStep
      <3>6. CASE e_state' = e_state /\ Commanded
        BY <2>1, <2>4, <2>5, <3>1, <3>2, <3>3, <3>6 DEF SignInv, SampledInStep
      <3> QED BY <2>11, <3>4, <3>5, <3>6 DEF Sweep
    <2>12. CASE StepLock(d)
      <3>1. e_state = "Locking" /\ e_state' \in {"Locking", "Done", "Failed"} /\ bin_samples' = bin_samples
        BY <2>12 DEF StepLock
      <3>2. method = "Lock"
        BY <3>1 DEF SignInv
      <3> QED BY <2>1, <3>1, <3>2 DEF SignInv
    <2> QED BY <2>1, <2>9, <2>10, <2>11, <2>12
  <1> QED BY <1>1, <1>2, <1>3, <1>4

LEMMA SpinResult == LockInv /\ SignInv => SignIsWiring /\ SpinIsSampled
  <1> SUFFICES ASSUME LockInv, SignInv PROVE SignIsWiring /\ SpinIsSampled
    OBVIOUS
  <1>1. \A w \in Directions, b \in AngleBins :
          bin_samples[w][b] \in 0..MinPerBin /\ swept[w][b] \in 0..MinPerBin
    BY DEF LockInv, EncoderPhaseTypeOK
  <1>2. SpinIsSampled
    BY <1>1, PhaseSizes DEF SignInv, SpinIsSampled
  <1> QED BY <1>2 DEF SignInv, SignIsWiring

-----------------------------------------------------------------------------
(* GapFill.                                                                 *)

FillTypeInv == GapFillTypeOK /\ (f_state = "Filling" => pass < FillPasses)

LEMMA FillSizes ==
  /\ FillBins \in Nat \ {0} /\ FillPasses \in Nat \ {0}
  /\ FillRange = 0..FillBins - 1 /\ 0 \in FillRange /\ FillBins - 1 \in FillRange
  /\ Empty = FillBins /\ Empty \notin FillRange
  BY GapFillAssumption DEF FillRange, Empty

(* The neighbours, around the end of the array.                             *)
LEMMA Neighbours ==
  ASSUME NEW b \in FillRange
  PROVE  /\ LeftOf(b) = IF b = 0 THEN FillBins - 1 ELSE b - 1
         /\ LeftOf(b) \in FillRange /\ RightOf(b) \in FillRange
  <1>1. \A a, n \in Int : n > 0 => (a % n) \in 0..n - 1
    BY SMT
  <1>2. \A a, n \in Int : n > 0 /\ a >= 0 /\ a < n => (a + n) % n = a
    BY SMT
  <1>3. \A a, n \in Int : n > 0 /\ a >= 0 /\ a < n => a % n = a
    BY SMT
  <1>4. CASE b = 0
    <2>1. b + FillBins - 1 = FillBins - 1
      BY <1>4, FillSizes
    <2>2. (FillBins - 1) % FillBins = FillBins - 1
      BY <1>3, FillSizes
    <2> QED BY <1>1, <1>4, <2>1, <2>2, FillSizes DEF LeftOf, RightOf
  <1>5. CASE b # 0
    <2>1. b + FillBins - 1 = (b - 1) + FillBins /\ b - 1 \in 0..FillBins - 1 /\ b + 1 \in Int
      BY <1>5, FillSizes
    <2>2. ((b - 1) + FillBins) % FillBins = b - 1
      BY <1>2, <2>1, FillSizes
    <2>3. LeftOf(b) = b - 1
      BY <2>1, <2>2 DEF LeftOf
    <2>4. RightOf(b) \in FillRange
      BY <1>1, <2>1, FillSizes DEF RightOf
    <2> QED BY <1>5, <2>1, <2>3, <2>4, FillSizes
  <1> QED BY <1>4, <1>5

(* A bin with a value keeps it; an empty one takes that of its left         *)
(* neighbour if it has one.                                                 *)
LEMMA FillBinFills ==
  ASSUME GapFillTypeOK, FillBin
  PROVE  /\ value' \in [FillRange -> FillRange \cup {Empty}]
         /\ \A b \in FillRange : value[b] # Empty => value'[b] # Empty
         /\ \A b \in FillRange : b # bin => value'[b] = value[b]
         /\ value[LeftOf(bin)] # Empty => value'[bin] # Empty
  <1> DEFINE new == IF value[bin] # Empty THEN value[bin]
                    ELSE IF value[LeftOf(bin)] # Empty THEN value[LeftOf(bin)] ELSE value[RightOf(bin)]
  <1>1. /\ value \in [FillRange -> FillRange \cup {Empty}] /\ bin \in FillRange
        /\ LeftOf(bin) \in FillRange /\ RightOf(bin) \in FillRange
    BY Neighbours DEF GapFillTypeOK
  <1>2. value' = [value EXCEPT ![bin] = new]
    BY <1>1 DEF FillBin
  <1>3. new \in FillRange \cup {Empty}
    BY <1>1
  <1>4. (value[bin] # Empty \/ value[LeftOf(bin)] # Empty) => new # Empty
    OBVIOUS
  <1> HIDE DEF new
  <1> QED BY <1>1, <1>2, <1>3, <1>4

LEMMA FillInitInv ==
  ASSUME IF kind = "Fill" THEN GapFillInit
         ELSE f_state = "Done" /\ pass = 0 /\ bin = 0 /\ value = [b \in FillRange |-> b]
  PROVE  FillTypeInv /\ FillInv
  <1>1. f_state \in {"Filling", "Done"} /\ pass = 0 /\ bin = 0
    BY DEF GapFillInit
  <1>2. value \in [FillRange -> FillRange \cup {Empty}] /\ \E b \in FillRange : value[b] # Empty
    <2>1. CASE kind = "Fill"
      <3>1. PICK covered \in SUBSET FillRange :
              /\ 4 * Cardinality(covered) >= 3 * FillBins
              /\ value = [b \in FillRange |-> IF b \in covered THEN b ELSE Empty]
        BY <2>1 DEF GapFillInit
      <3>2. covered # {}
        <4>1. Cardinality({}) = 0
          BY FS_EmptySet
        <4>2. ~(4 * 0 >= 3 * FillBins)
          BY FillSizes
        <4> QED BY <3>1, <4>1, <4>2
      <3> QED BY <3>1, <3>2, FillSizes
    <2>2. CASE kind # "Fill"
      BY <2>2, FillSizes
    <2> QED BY <2>1, <2>2
  <1>3. FillTypeInv
    BY <1>1, <1>2, FillSizes DEF FillTypeInv, GapFillTypeOK
  <1> QED BY <1>1, <1>2, <1>3 DEF FillTypeInv, FillInv

LEMMA FillTypeNext ==
  ASSUME FillTypeInv, UNCHANGED gapFillVars \/ FillStep
  PROVE  FillTypeInv'
  <1>1. CASE UNCHANGED gapFillVars
    BY <1>1 DEF gapFillVars, FillTypeInv, GapFillTypeOK
  <1>2. CASE FillStep
    <2>1. value' \in [FillRange -> FillRange \cup {Empty}]
      BY <1>2, FillBinFills DEF FillStep, FillTypeInv
    <2>2. pass \in Nat /\ pass < FillPasses /\ bin \in FillRange /\ f_state = "Filling"
      BY <1>2, FillSizes DEF FillStep, FillTypeInv, GapFillTypeOK
    <2>3. /\ f_state' \in {"Filling", "Done", "Failed"}
          /\ pass' \in {pass, pass + 1} /\ bin' \in {0, bin + 1}
          /\ bin' = bin + 1 => bin + 1 < FillBins \/ bin' = 0
          /\ f_state' = "Filling" => pass' < FillPasses
      BY <1>2, <2>2 DEF FillStep, NextBin
    <2>4. pass' \in 0..FillPasses /\ bin' \in FillRange
      BY <2>2, <2>3, FillSizes
    <2> QED BY <2>1, <2>3, <2>4 DEF FillTypeInv, GapFillTypeOK
  <1> QED BY <1>1, <1>2

LEMMA FillNextInv ==
  ASSUME FillPasses >= 2, FillInv, UNCHANGED gapFillVars \/ FillStep, GapFillTypeOK'
  PROVE  FillInv'
  <1>1. CASE UNCHANGED gapFillVars
    BY <1>1 DEF gapFillVars, FillInv, GapFillTypeOK
  <1>2. CASE FillStep
    <2>1. /\ f_state = "Filling" /\ FillBin /\ NextBin
          /\ GapFillTypeOK /\ pass \in {0, 1} /\ bin \in FillRange
      BY <1>2 DEF FillStep, FillInv, GapFillTypeOK
    <2>2. /\ \A b \in FillRange : value[b] # Empty => value'[b] # Empty
          /\ \A b \in FillRange : b # bin => value'[b] = value[b]
          /\ value[LeftOf(bin)] # Empty => value'[bin] # Empty
      BY <2>1, FillBinFills
    <2>3. LeftOf(bin) = IF bin = 0 THEN FillBins - 1 ELSE bin - 1
      BY <2>1, Neighbours
    <2>4. \E b \in FillRange : value'[b] # Empty
      BY <2>2 DEF FillInv
    <2>5. \A b \in 0..bin - 1 : b \in FillRange /\ b # bin
      BY <2>1, FillSizes
    <2>6. CASE pass = 0
      <3>1. (\E b \in 0..bin : value'[b] # Empty) => value'[bin] # Empty
        <4> SUFFICES ASSUME NEW b \in 0..bin, value'[b] # Empty PROVE value'[bin] # Empty
          OBVIOUS
        <4>1. CASE b = bin
          BY <4>1
        <4>2. CASE b # bin
          <5>1. b \in 0..bin - 1 /\ bin > 0 /\ bin # 0
            BY <2>1, <4>2, FillSizes
          <5>2. value[b] # Empty
            BY <2>2, <2>5, <5>1
          <5>3. value[bin - 1] # Empty
            BY <2>1, <2>6, <5>1, <5>2 DEF FillInv
          <5> QED BY <2>2, <2>3, <5>1, <5>3
        <4> QED BY <4>1, <4>2
      <3>2. CASE bin + 1 < FillBins
        <4>1. bin' = bin + 1 /\ pass' = 0 /\ f_state' = "Filling"
          BY <2>1, <2>6, <3>2 DEF NextBin
        <4>2. bin' - 1 = bin /\ 0..bin' - 1 = 0..bin
          BY <2>1, <4>1, FillSizes
        <4> QED BY <2>4, <3>1, <4>1, <4>2 DEF FillInv
      <3>3. CASE ~(bin + 1 < FillBins)
        <4>1. /\ bin = FillBins - 1 /\ bin' = 0 /\ pass' = 1
              /\ f_state' \in {"Filling", "Done"}
          BY <2>1, <2>6, <3>3, FillSizes DEF NextBin
        <4>2. FillRange = 0..bin
          BY <4>1, FillSizes
        <4>3. value'[FillBins - 1] # Empty
          BY <2>4, <3>1, <4>1, <4>2
        <4>4. 0..bin' - 1 = {}
          BY <4>1
        <4> QED BY <2>4, <4>1, <4>3, <4>4 DEF FillInv
      <3> QED BY <3>2, <3>3
    <2>7. CASE pass = 1
      <3>1. value[FillBins - 1] # Empty /\ \A b \in 0..bin - 1 : value[b] # Empty
        BY <2>1, <2>7 DEF FillInv
      <3>2. value[LeftOf(bin)] # Empty
        <4>1. bin # 0 => bin - 1 \in 0..bin - 1
          BY <2>1, FillSizes
        <4> QED BY <2>3, <3>1, <4>1
      <3>3. \A b \in 0..bin : value'[b] # Empty
        <4>1. \A b \in 0..bin : b = bin \/ b \in 0..bin - 1
          BY <2>1, FillSizes
        <4> QED BY <2>2, <2>5, <3>1, <3>2, <4>1
      <3>4. CASE bin + 1 < FillBins
        <4>1. bin' = bin + 1 /\ pass' = 1 /\ f_state' = "Filling"
          BY <2>1, <2>7, <3>4 DEF NextBin
        <4>2. bin' - 1 = bin /\ 0..bin' - 1 = 0..bin
          BY <2>1, <4>1, FillSizes
        <4>3. value'[FillBins - 1] # Empty
          BY <2>2, <3>1, FillSizes
        <4>4. \A b \in 0..bin' - 1 : value'[b] # Empty
          BY <3>3, <4>2
        <4> QED BY <2>4, <4>1, <4>3, <4>4 DEF FillInv
      <3>5. CASE ~(bin + 1 < FillBins)
        <4>1. bin = FillBins - 1
          BY <2>1, <3>5, FillSizes
        <4>2. \A b \in FillRange : value'[b] # Empty
          BY <3>3, <4>1, FillSizes
        <4>3. pass' = 2 /\ f_state' = "Done"
          BY <2>1, <2>7, <3>5, <4>2 DEF NextBin
        <4> QED BY <2>4, <4>3 DEF FillInv
      <3> QED BY <3>4, <3>5
    <2> QED BY <2>1, <2>6, <2>7
  <1> QED BY <1>1, <1>2

-----------------------------------------------------------------------------
(* A step of the whole is a step of one session, and leaves the others.     *)
LEMMA OneSessionSteps ==
  ASSUME [Next]_vars
  PROVE  /\ \/ UNCHANGED sweepVars
            \/ \E n \in PointRequests : SweepStart(n)
            \/ SweepStop
            \/ \E tracks \in BOOLEAN : SweepStep(tracks)
         /\ \/ UNCHANGED inductanceVars
            \/ \E n \in TrialRequests : InductanceStart(n)
            \/ InductanceStop
            \/ \E there \in BOOLEAN : InductanceStep(there)
         /\ \/ UNCHANGED coggingVars
            \/ CoggingStart
            \/ CoggingStop
            \/ \E d \in {-1, 0, 1} : CoggingStep(d)
         /\ \/ UNCHANGED encoderPhaseVars
            \/ \E m \in {"Spin", "Lock"} : EncoderPhaseStart(m)
            \/ EncoderPhaseStop
            \/ \E d \in -PhaseBins..PhaseBins : EncoderPhaseStep(d)
         /\ UNCHANGED gapFillVars \/ FillStep
         /\ kind' = kind /\ (beat \in BOOLEAN => beat' \in BOOLEAN)
  <1>1. CASE UNCHANGED vars
    BY <1>1 DEF vars
  <1>2. CASE Start
    BY <1>2 DEF Start
  <1>3. CASE StopAll
    BY <1>3 DEF StopAll
  <1>4. CASE Tick
    BY <1>4 DEF Tick
  <1> QED BY <1>1, <1>2, <1>3, <1>4 DEF Next

(* What holds of the sessions whatever the motor does.                      *)
SessionsInv ==
  /\ kind \in Kinds /\ beat \in BOOLEAN
  /\ SweepInv /\ InductanceInv /\ CoggingInv /\ LockInv /\ FillTypeInv

(* The invariants of the five objects are kept by every start, stop and     *)
(* tick of the calibration manager.                                         *)
THEOREM SessionsInductive == Spec => []SessionsInv
  <1>1. Init => SessionsInv
    <2> SUFFICES ASSUME Init PROVE SessionsInv
      OBVIOUS
    <2>1. kind \in Kinds /\ beat \in BOOLEAN
      BY DEF Init
    <2>2. SweepInv /\ InductanceInv /\ CoggingInv /\ LockInv
      BY SweepInitInv, InductanceInitInv, CoggingInitInv, LockInitInv DEF Init
    <2>3. FillTypeInv
      BY FillInitInv DEF Init
    <2> QED BY <2>1, <2>2, <2>3 DEF SessionsInv
  <1>2. SessionsInv /\ [Next]_vars => SessionsInv'
    <2> SUFFICES ASSUME SessionsInv, [Next]_vars PROVE SessionsInv'
      OBVIOUS
    <2>1. kind' \in Kinds /\ beat' \in BOOLEAN
      BY OneSessionSteps DEF SessionsInv
    <2>2. SweepInv'
      BY OneSessionSteps, SweepNextInv DEF SessionsInv
    <2>3. InductanceInv'
      BY OneSessionSteps, InductanceNextInv DEF SessionsInv
    <2>4. CoggingInv'
      BY OneSessionSteps, CoggingNextInv DEF SessionsInv
    <2>5. LockInv'
      BY OneSessionSteps, LockNextInv DEF SessionsInv
    <2>6. FillTypeInv'
      BY OneSessionSteps, FillTypeNext DEF SessionsInv
    <2> QED BY <2>1, <2>2, <2>3, <2>4, <2>5, <2>6 DEF SessionsInv
  <1> QED BY <1>1, <1>2, PTL DEF Spec

(* The state of every session keeps its types: no counter runs over, no bin *)
(* or trial is indexed beyond its table.                                    *)
THEOREM TypeCorrect == Spec => []TypeOK
  <1>1. SessionsInv => TypeOK
    BY DEF SessionsInv, TypeOK, SweepInv, InductanceInv, CoggingInv, LockInv, FillTypeInv
  <1> QED BY <1>1, SessionsInductive, PTL

(* RIdentCal and BemfIdentCal: a result stands on three points at least,    *)
(* each with enough samples on target after it had settled.                 *)
THEOREM SweepStandsOnPoints == Spec => []SweepIsFitted
  <1>1. SessionsInv => SweepIsFitted
    BY SweepResult DEF SessionsInv
  <1> QED BY <1>1, SessionsInductive, PTL

(* LIdentCal: the current has had the hold or the cooldown to decay when    *)
(* the next step is applied, on either axis.                                *)
THEOREM StepsComeApart == Spec => StepsAreApart
  <1>1. SessionsInv /\ [Next]_vars =>
          [l_phase' = "Step" /\ l_phase # "Step"
             => rest' >= (IF Hold < Cooldown THEN Hold ELSE Cooldown)]_inductanceVars
    <2> SUFFICES ASSUME SessionsInv, [Next]_vars, l_phase' = "Step", l_phase # "Step"
                 PROVE  rest' >= (IF Hold < Cooldown THEN Hold ELSE Cooldown)
      OBVIOUS
    <2> QED BY OneSessionSteps, InductanceApart DEF SessionsInv
  <1> QED BY <1>1, SessionsInductive, PTL DEF Spec, StepsAreApart

(* CoggingCal: although trembling counts as travel, a table is made only of *)
(* records that each went over three quarters of a turn.                    *)
THEOREM CoggingGoesRound == Spec => []CoggingWentRound
  <1>1. SessionsInv => CoggingWentRound
    BY CoggingResult DEF SessionsInv
  <1> QED BY <1>1, SessionsInductive, PTL

(* EncoderPhaseCal: as long as the swing of an aligned rotor stays below    *)
(* the travel SenseSign waits for, what it waits for is the field.          *)
LEMMA SpinInductive == ASSUME SwingIsSmall PROVE Spec => []SignInv
  <1>1. Init => SignInv
    BY SignInitInv DEF Init
  <1>2. SessionsInv /\ SignInv /\ [Next]_vars => SignInv'
    BY OneSessionSteps, SignNextInv DEF SessionsInv, SwingIsSmall
  <1> QED BY <1>1, <1>2, SessionsInductive, PTL DEF Spec

(* The sign that a spin reports is the way the encoder is wired.            *)
THEOREM SignIsRight == ASSUME SwingIsSmall PROVE Spec => []SignIsWiring
  <1>1. SessionsInv /\ SignInv => SignIsWiring
    BY SpinResult DEF SessionsInv
  <1> QED BY <1>1, SpinInductive, SessionsInductive, PTL

(* A result of a spin has its samples of every bin in step with the field   *)
(* at full speed, in both directions.                                       *)
THEOREM SpinCoversBins == ASSUME SwingIsSmall PROVE Spec => []SpinIsSampled
  <1>1. SessionsInv /\ SignInv => SpinIsSampled
    BY SpinResult DEF SessionsInv
  <1> QED BY <1>1, SpinInductive, SessionsInductive, PTL

(* The end of CoggingCal::Finish: two passes fill every gap, for a table of *)
(* any size.  Of the coverage that was tested before, the proof only uses   *)
(* that some bin is covered.                                                *)
THEOREM GapsGetFilled == ASSUME FillPasses >= 2 PROVE Spec => []GapsAreFilled
  <1>1. Init => FillInv
    BY FillInitInv DEF Init
  <1>2. SessionsInv' /\ FillInv /\ [Next]_vars => FillInv'
    BY OneSessionSteps, FillNextInv DEF SessionsInv, FillTypeInv
  <1>3. FillInv => GapsAreFilled
    BY DEF FillInv, GapsAreFilled
  <1> QED BY <1>1, <1>2, <1>3, SessionsInductive, PTL DEF Spec
=============================================================================
