---------------------------- MODULE ProtectionProofs ----------------------------
(***************************************************************************)
(* Proofs about Protection: the count and the energy of the monitor are    *)
(* the run of samples over the limit and the hottest stretch that ends     *)
(* now, for all readings, ratings, counts and windows.                     *)
(***************************************************************************)
EXTENDS Protection, TLAPS

LEMMA ExcessIsInt ==
  ASSUME TypeOK, NEW i \in Currents
  PROVE  Excess(i) \in Int
  <1>1. i \in Int /\ rated \in Int
    BY CurrentsAssumption DEF TypeOK
  <1>2. i * i \in Int /\ rated * rated \in Int
    BY <1>1
  <1> QED BY <1>2 DEF Excess

LEMMA LevelIsNat == \A r \in Ratings : r \in Nat /\ OvercurrentOf(r) \in Nat
  BY RatingsAssumption DEF OvercurrentOf

(* The first state, and the first tick of every session. *)
LEMMA ResetInd ==
  ASSUME Reset
  PROVE  EnergyIsWorst' /\ CountIsRun' /\ overcurrent_count' = 0 /\ last_trip' = None
         /\ i2t_energy' \in Nat /\ over' \in Seq(BOOLEAN) /\ charge' \in Seq(Int)
  <1>1. EnergyIsWorst'
    BY DEF Reset, EnergyIsWorst, Worst
  <1>2. over' \in Seq(BOOLEAN) /\ charge' \in Seq(Int)
    BY DEF Reset
  <1> QED BY <1>1, <1>2 DEF Reset, CountIsRun

LEMMA InitInd == Init => IndInv
  <1> SUFFICES ASSUME Init PROVE IndInv
    OBVIOUS
  <1>1. TypeOK
    <2>1. over \in Seq(BOOLEAN) /\ charge \in Seq(Int)
      BY DEF Init
    <2>2. overcurrent \in Nat /\ rated \in Nat
      BY LevelIsNat DEF Init
    <2>3. overcurrent_count \in 0 .. OvercurrentCount /\ incoming \in Ratings \cup {NothingIncoming}
      BY CountAssumption DEF Init
    <2> QED BY <2>1, <2>2, <2>3 DEF Init, TypeOK, None, Trips
  <1>2. EnergyIsWorst /\ CountIsRun /\ TripInv
    BY CountAssumption DEF Init, EnergyIsWorst, Worst, CountIsRun, TripInv, None
  <1> QED BY <1>1, <1>2 DEF IndInv

LEMMA StartInd == IndInv /\ Start => IndInv'
  <1> SUFFICES ASSUME IndInv, Start PROVE IndInv'
    OBVIOUS
  <1>1. TypeOK'
    BY ResetInd, CountAssumption DEF IndInv, TypeOK, Start, configVars, None, Trips
  <1>2. TripInv'
    BY ResetInd, CountAssumption DEF Start, TripInv, None
  <1> QED BY <1>1, <1>2, ResetInd DEF IndInv, Start

(* What leaves the monitor alone. *)
LEMMA ConfigInd ==
  ASSUME IndInv, Stop \/ BeginConfig \/ FinishConfig \/ UNCHANGED vars
  PROVE  IndInv'
  <1> USE DEF IndInv
  <1>1. UNCHANGED <<monitorVars, history>> /\ (active' => active)
    BY DEF Stop, BeginConfig, FinishConfig, vars
  <1>2. TypeOK'
    <2>1. CASE Stop
      BY <2>1 DEF Stop, TypeOK, configVars, monitorVars, history
    <2>2. CASE BeginConfig
      BY <2>2, LevelIsNat DEF BeginConfig, TypeOK, monitorVars, history
    <2>3. CASE FinishConfig
      <3>1. incoming \in Nat
        BY <2>3, LevelIsNat DEF FinishConfig, TypeOK
      <3> QED BY <2>3, <3>1 DEF FinishConfig, TypeOK, monitorVars, history
    <2>4. CASE UNCHANGED vars
      BY <2>4 DEF vars, configVars, monitorVars, history, TypeOK
    <2> QED BY <2>1, <2>2, <2>3, <2>4
  <1>3. EnergyIsWorst' /\ CountIsRun' /\ TripInv'
    BY <1>1 DEF monitorVars, history, EnergyIsWorst, Worst, CountIsRun, TripInv
  <1> QED BY <1>2, <1>3

(* A sample that is counted adds one to the run, any other ends it. *)
LEMMA RunGrows ==
  ASSUME TypeOK, CountIsRun, NEW i \in Currents,
         over' = Append(over, Over(i)), overcurrent_count' = Counted(i)
  PROVE  CountIsRun'
  <1> DEFINE n == Len(over)
  <1>1. n \in Nat /\ Over(i) \in BOOLEAN /\ overcurrent_count \in Nat
    BY CountAssumption DEF TypeOK, Over
  <1>2. Len(over') = n + 1 /\ over'[n + 1] = Over(i) /\ \A j \in 1 .. n : over'[j] = over[j]
    BY <1>1 DEF TypeOK
  <1>3. CASE Over(i)
    <2>1. overcurrent_count' = overcurrent_count + 1
      BY <1>3 DEF Counted
    <2> QED BY <1>1, <1>2, <1>3, <2>1 DEF CountIsRun
  <1>4. CASE ~Over(i)
    <2>1. overcurrent_count' = 0
      BY <1>4 DEF Counted
    <2> QED BY <1>1, <1>2, <1>4, <2>1 DEF CountIsRun
  <1> QED BY <1>3, <1>4

(* The clamp drops exactly the stretches that are worse than none. *)
LEMMA WorstGrows ==
  ASSUME NEW c \in Seq(Int), NEW w \in Nat, NEW e \in Int, Worst(c, w)
  PROVE  Worst(Append(c, c[Len(c)] + e), IF w + e < 0 THEN 0 ELSE w + e)
  <1> DEFINE n == Len(c)
             d == Append(c, c[n] + e)
             v == IF w + e < 0 THEN 0 ELSE w + e
  <1>1. n \in Nat /\ n > 0 /\ \A k \in 1 .. n : c[k] \in Int
    BY DEF Worst
  <1>2. Len(d) = n + 1 /\ d[n + 1] = c[n] + e /\ \A k \in 1 .. n : d[k] = c[k]
    BY <1>1
  <1>3. v \in Nat /\ w + e <= v /\ (w + e < 0 => v = 0) /\ (~(w + e < 0) => v = w + e)
    OBVIOUS
  <1>4. c[n] \in Int
    BY <1>1
  <1>5. \A k \in 1 .. n : c[n] - c[k] <= w
    BY DEF Worst
  <1>6. PICK h \in 1 .. n : c[n] - c[h] = w
    BY DEF Worst
  <1> HIDE DEF d, v
  <1>7. \A k \in 1 .. n + 1 : d[n + 1] - d[k] <= v
    <2> SUFFICES ASSUME NEW k \in 1 .. n + 1 PROVE d[n + 1] - d[k] <= v
      OBVIOUS
    <2>1. CASE k = n + 1
      BY <2>1, <1>2, <1>3, <1>4
    <2>2. CASE k \in 1 .. n
      <3>1. d[n + 1] = c[n] + e /\ d[k] = c[k] /\ c[k] \in Int /\ c[n] - c[k] <= w
        BY <2>2, <1>1, <1>2, <1>5
      <3> QED BY <3>1, <1>3, <1>4
    <2> QED BY <2>1, <2>2, <1>1
  <1>8. \E k \in 1 .. n + 1 : d[n + 1] - d[k] = v
    <2>1. CASE w + e < 0
      BY <2>1, <1>1, <1>2, <1>3, <1>4
    <2>2. CASE ~(w + e < 0)
      <3>1. d[n + 1] - d[h] = v /\ h \in 1 .. n + 1
        BY <2>2, <1>1, <1>2, <1>3, <1>4, <1>6
      <3> QED BY <3>1
    <2> QED BY <2>1, <2>2
  <1>9. Worst(d, v)
    BY <1>1, <1>2, <1>7, <1>8 DEF Worst
  <1> QED BY <1>9 DEF d, v

LEMMA EnergyGrows ==
  ASSUME TypeOK, EnergyIsWorst, NEW i \in Currents,
         charge' = Append(charge, charge[Len(charge)] + Excess(i)), i2t_energy' = Heated(i)
  PROVE  EnergyIsWorst' /\ charge' \in Seq(Int) /\ i2t_energy' \in Nat
  <1>1. /\ charge \in Seq(Int) /\ i2t_energy \in Nat /\ Excess(i) \in Int
        /\ Worst(charge, i2t_energy)
    BY ExcessIsInt DEF TypeOK, EnergyIsWorst
  <1>2. charge[Len(charge)] \in Int
    BY <1>1 DEF Worst
  <1>3. charge' \in Seq(Int) /\ i2t_energy' \in Nat
    BY <1>1, <1>2 DEF Heated
  <1>4. Worst(charge', i2t_energy')
    BY <1>1, WorstGrows DEF Heated
  <1> QED BY <1>3, <1>4 DEF EnergyIsWorst

LEMMA IntegrateTrips ==
  ASSUME NEW i \in Currents, NEW bus, NEW fet
  PROVE  /\ Slow(i, bus, fet) \in Trips \ {"PeakOvercurrent"}
         /\ Slow(i, bus, fet) = "I2t" <=> Overheated(i)
  <1>1. CASE Overheated(i)
    BY <1>1 DEF Slow, Trips
  <1>2. CASE ~Overheated(i)
    BY <1>2 DEF Slow, Trips, None
  <1> QED BY <1>1, <1>2

LEMMA TickInd == IndInv /\ Tick => IndInv'
  <1> SUFFICES ASSUME IndInv, Tick PROVE IndInv'
    OBVIOUS
  <1> USE DEF IndInv
  <1>1. active /\ active' = (last_trip' = None) /\ UNCHANGED configVars
    BY DEF Tick
  <1>2. overcurrent_count \in Nat /\ overcurrent_count < OvercurrentCount
    BY <1>1, CountAssumption DEF TypeOK, TripInv
  <1>3. CASE SenseInvalid
    <2>1. TypeOK'
      BY <1>1, <1>3 DEF SenseInvalid, TypeOK, configVars, history, Trips
    <2>2. EnergyIsWorst' /\ CountIsRun' /\ TripInv'
      BY <1>1, <1>3 DEF SenseInvalid, EnergyIsWorst, Worst, CountIsRun, TripInv, history, None
    <2> QED BY <2>1, <2>2
  <1>4. ASSUME NEW i \in Currents, Peak(i)
        PROVE  IndInv'
    <2>1. overcurrent_count' = OvercurrentCount
      BY <1>2, <1>4, CountAssumption DEF Peak, Counted
    <2>2. over' = Append(over, Over(i)) /\ overcurrent_count' = Counted(i)
      <3>1. Over(i) = TRUE
        BY <1>4 DEF Peak, Over
      <3> QED BY <1>4, <3>1 DEF Peak
    <2>3. CountIsRun'
      BY <2>2, RunGrows
    <2>4. TypeOK'
      <3>1. over' \in Seq(BOOLEAN)
        BY <1>4 DEF Peak, TypeOK
      <3> QED BY <1>1, <1>4, <2>1, <3>1, CountAssumption
              DEF Peak, TypeOK, configVars, Trips
    <2>5. EnergyIsWorst' /\ TripInv'
      BY <1>1, <1>4, <2>1 DEF Peak, EnergyIsWorst, Worst, TripInv, None
    <2> QED BY <2>3, <2>4, <2>5
  <1>5. ASSUME NEW i \in Currents, NEW bus, NEW fet, Integrate(i, bus, fet)
        PROVE  IndInv'
    <2>1. overcurrent_count' \in Nat /\ overcurrent_count' < OvercurrentCount
      BY <1>2, <1>5, CountAssumption DEF Integrate, Counted
    <2>2. CountIsRun'
      BY <1>5, RunGrows DEF Integrate
    <2>3. EnergyIsWorst' /\ charge' \in Seq(Int) /\ i2t_energy' \in Nat
      BY <1>5, EnergyGrows DEF Integrate
    <2>4. last_trip' \in Trips /\ last_trip' # "PeakOvercurrent"
      BY <1>5, IntegrateTrips DEF Integrate
    <2>5. over' \in Seq(BOOLEAN)
      BY <1>5 DEF Integrate, TypeOK, Over
    <2>6. TypeOK'
      BY <1>1, <2>1, <2>3, <2>4, <2>5, CountAssumption DEF TypeOK, configVars
    <2>7. TripInv'
      BY <2>1, <2>4 DEF TripInv
    <2> QED BY <2>2, <2>3, <2>6, <2>7
  <1> QED BY <1>3, <1>4, <1>5 DEF Tick, Evaluate

LEMMA NextInd == IndInv /\ [Next]_vars => IndInv'
  BY StartInd, ConfigInd, TickInd DEF Next

-----------------------------------------------------------------------------
(* The counter and the integrator of SafetyMonitor are what their names say  *)
(* of the samples of the session, in every reachable state.                  *)
THEOREM Inductive == Spec => []IndInv
  BY InitInd, NextInd, PTL DEF Spec

(* SafetyMonitor::Evaluate reports a peak after exactly OvercurrentCount     *)
(* consecutive samples over the limit, and no session outlives such a run.   *)
THEOREM PeakTrips == Spec => []PeakIsConsecutive
  <1>1. ASSUME IndInv PROVE PeakIsConsecutive
    <2> USE <1>1 DEF IndInv
    <2>1. overcurrent_count \in Nat /\ Len(over) \in Nat /\ OvercurrentCount \in Nat
      BY CountAssumption DEF TypeOK
    <2>2. last_trip = "PeakOvercurrent" => LastAreOver(OvercurrentCount)
      BY <2>1 DEF TripInv, CountIsRun, LastAreOver
    <2>3. ASSUME active, LastAreOver(OvercurrentCount) PROVE FALSE
      <3>1. /\ overcurrent_count < OvercurrentCount
            /\ OvercurrentCount <= Len(over)
        BY <2>3 DEF TripInv, LastAreOver
      <3>2. /\ Len(over) - overcurrent_count \in 1 .. Len(over)
            /\ Len(over) - overcurrent_count > Len(over) - OvercurrentCount
        BY <2>1, <3>1
      <3> QED BY <2>1, <2>3, <3>1, <3>2 DEF CountIsRun, LastAreOver
    <2> QED BY <2>2, <2>3 DEF PeakIsConsecutive
  <1> QED BY <1>1, Inductive, PTL

(* The clamped integrator trips on the hottest stretch that ends now, and on *)
(* nothing else, whenever the host changed the rating.                       *)
THEOREM WindowTrips == Spec => TripsOnWorstWindow
  <1> DEFINE Step == Len(charge') > Len(charge) /\ rated > 0 /\ Window > 0
                       => (last_trip' = "I2t" <=> WindowOver(charge', Limit))
  <1>1. ASSUME IndInv, [Next]_vars PROVE [Step]_vars
    <2> SUFFICES ASSUME Len(charge') > Len(charge), rated > 0, Window > 0
                 PROVE  last_trip' = "I2t" <=> WindowOver(charge', Limit)
      OBVIOUS
    <2>1. IndInv'
      BY <1>1, NextInd
    <2>2. PICK i \in Currents : \E bus \in {"none", "low", "high"}, fet \in {"none", "hot"} :
                                  Integrate(i, bus, fet)
      <3>1. Len(charge) > 0 /\ Len(charge) \in Nat
        BY <1>1 DEF IndInv, EnergyIsWorst, Worst, TypeOK
      <3>2. ~Start
        BY <3>1 DEF Start, Reset
      <3>3. ~(charge' = charge)
        BY <3>1
      <3> QED BY <1>1, <3>2, <3>3 DEF Next, vars, history, Stop, BeginConfig, FinishConfig,
                                      Tick, Evaluate, SenseInvalid, Peak
    <2>3. i2t_energy' = Heated(i) /\ (last_trip' = "I2t" <=> Overheated(i))
      BY <2>2, IntegrateTrips DEF Integrate
    <2>4. Overheated(i) <=> i2t_energy' > Limit
      BY <2>3 DEF Overheated
    <2>5. Limit \in Int
      BY <1>1, WindowAssumption DEF IndInv, TypeOK, Limit
    <2>6. WindowOver(charge', Limit) <=> i2t_energy' > Limit
      <3>1. i2t_energy' \in Int /\ Len(charge') \in Nat
            /\ \A k \in 1 .. Len(charge') : charge'[k] \in Int
        BY <2>1 DEF IndInv, TypeOK
      <3>2. Len(charge') \in 1 .. Len(charge')
        BY <2>1, <3>1 DEF IndInv, EnergyIsWorst, Worst
      <3>3. /\ \A k \in 1 .. Len(charge') : charge'[Len(charge')] - charge'[k] <= i2t_energy'
            /\ \E k \in 1 .. Len(charge') : charge'[Len(charge')] - charge'[k] = i2t_energy'
        BY <2>1 DEF IndInv, EnergyIsWorst, Worst
      <3> HIDE DEF Limit
      <3> QED BY <2>5, <3>1, <3>2, <3>3 DEF WindowOver
    <2> QED BY <2>3, <2>4, <2>6
  <1>2. IndInv /\ [Next]_vars => [Step]_vars
    BY <1>1
  <1> QED BY <1>2, Inductive, PTL DEF Spec, TripsOnWorstWindow
=============================================================================
