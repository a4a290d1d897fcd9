--------------------------- MODULE ApplicationProofs ---------------------------
(***************************************************************************)
(* The safety of the superloop, for every set of commands the host uses,   *)
(* every capture length and every number of frames per Poll.  IndInv is    *)
(* inductive: MotorControlProofs shows what each call and each tick does    *)
(* to MotorInd, and here each piece of the loop preserves LoopInd.         *)
(***************************************************************************)
EXTENDS Application, MotorControlProofs

LEMMA Budget == 0 \in 0 .. FramesPerPoll /\ FramesPerPoll \in 0 .. FramesPerPoll
  BY FramesPerPollAssumption

LEMMA Spend ==
  ASSUME LoopTypeOK, frames > 0, frames' = frames - 1
  PROVE  frames' \in 0 .. FramesPerPoll
  BY FramesPerPollAssumption DEF LoopTypeOK

LEMMA InitInd == Init => IndInv
<1> SUFFICES ASSUME Init PROVE IndInv
  OBVIOUS
<1>1. MotorInd
  <2>1. 0 \in 0 .. SnapTarget
    BY SnapTargetAssumption
  <2> QED BY <2>1 DEF Init, MotorInit, MotorInd, MotorTypeOK, SessionInv, BackupInv, FlagInv, SampleInv,
        Modes, Sessions, AllKinds, SnapStates, EncoderKinds
<1>2. LoopInd
  BY Budget
  DEF Init, MotorInit, LoopInd, LoopTypeOK, PlaceInv, OpenInv, WriteInv, Lifecycles,
      Places, Polling
<1> QED BY <1>1, <1>2 DEF IndInv

(* A piece of the loop that leaves the motor alone, or stops it, moves pc   *)
(* and the lifecycle only.                                                   *)
LEMMA InitializeInd ==
  ASSUME IndInv, Initialize
  PROVE  IndInv'
<1>1. UNCHANGED motorVars
  BY DEF Initialize, InitializeOk, InitializeFails
<1>2. MotorInd'
  BY <1>1, MotorUnchanged DEF IndInv
<1>3. LoopInd'
  BY <1>1 DEF Initialize, InitializeOk, InitializeFails, At, pollVars, envVars, motorVars,
     IndInv, LoopInd, LoopTypeOK, PlaceInv, OpenInv, WriteInv, Lifecycles, Places
<1> QED BY <1>2, <1>3 DEF IndInv

LEMMA OperationalInd ==
  ASSUME IndInv, RunOperational
  PROVE  IndInv'
<1> USE DEF IndInv
<1> DEFINE Quiet == SeesDriverFault \/ SeesHealthyDriver \/ NothingPending
                      \/ ComposeRecord \/ TelemetryIdle \/ SendMeta
<1>1. CASE Quiet
  <2>1. UNCHANGED motorVars
    BY <1>1 DEF SeesDriverFault, SeesHealthyDriver, NothingPending, ComposeRecord,
       TelemetryIdle, SendMeta
  <2>2. MotorInd'
    BY <2>1, MotorUnchanged
  <2>3. LoopInd'
    <3> USE <2>1 DEF At, BeginPoll, pollVars, envVars, motorVars, LoopInd, LoopTypeOK,
          PlaceInv, OpenInv, WriteInv, Lifecycles, Places, Polling
    <3>1. CASE SeesDriverFault
      BY <3>1 DEF SeesDriverFault
    <3>2. CASE SeesHealthyDriver
      BY <3>2 DEF SeesHealthyDriver
    <3>3. CASE NothingPending
      BY <3>3, Budget DEF NothingPending
    <3>4. CASE ComposeRecord
      BY <3>4 DEF ComposeRecord
    <3>5. CASE TelemetryIdle \/ SendMeta
      BY <3>5 DEF TelemetryIdle, SendMeta
    <3> QED BY <1>1, <3>1, <3>2, <3>3, <3>4, <3>5
  <2> QED BY <2>2, <2>3
<1>2. CASE StopOnDriverFault
  <2>1. MotorInd' /\ Resting' /\ dirty' = dirty /\ call' = call
    BY <1>2, StopPreserves DEF StopOnDriverFault, StopMotor, MotorInd, MotorTypeOK
  <2>2. LoopInd'
    BY <1>2, <2>1 DEF StopOnDriverFault, Resting, At, pollVars, envVars, LoopInd,
       LoopTypeOK, PlaceInv, OpenInv, WriteInv, Lifecycles, Places, Polling
  <2> QED BY <2>1, <2>2
<1>3. CASE StopForPending
  <2>1. MotorInd' /\ (dirty # {} => Resting') /\ dirty' = dirty /\ call' = call
        /\ session' \in {session, "none"}
    <3>1. CASE dirty # {}
      BY <1>3, <3>1, StopPreserves DEF StopForPending, StopMotor, MotorInd, MotorTypeOK,
         Resting
    <3>2. CASE dirty = {}
      BY <1>3, <3>2, MotorUnchanged DEF StopForPending, motorVars
    <3> QED BY <3>1, <3>2
  <2>2. LoopInd'
    BY <1>3, <2>1 DEF StopForPending, Resting, At, pollVars, envVars, LoopInd,
       LoopTypeOK, PlaceInv, OpenInv, WriteInv, Lifecycles, Places, Polling
  <2> QED BY <2>1, <2>2
<1>4. CASE CloseIsrForWrite
  <2>1. session = "none" /\ call = "idle"
    BY <1>4 DEF CloseIsrForWrite, At, LoopInd, WriteInv, PlaceInv, Polling, MotorInd,
       MotorTypeOK
  <2>2. MotorInd'
    BY <1>4, <2>1 DEF CloseIsrForWrite, DisableControlIsr, ctlVars, bridgeVars, snapVars,
       calVars, MotorInd, MotorTypeOK, SessionInv, BackupInv, FlagInv, SampleInv
  <2>3. LoopInd'
    BY <1>4, <2>1 DEF CloseIsrForWrite, DisableControlIsr, ctlVars, calVars, At, pollVars,
       envVars, LoopInd, LoopTypeOK, PlaceInv, OpenInv, WriteInv, Lifecycles, Places
  <2> QED BY <2>2, <2>3
<1>5. CASE RecordWritten
  <2>1. MotorInd'
    BY <1>5 DEF RecordWritten, ctlVars, bridgeVars, isrVars, snapVars,
       MotorInd, MotorTypeOK, SessionInv, BackupInv, FlagInv, SampleInv
  <2>2. LoopInd'
    BY <1>5, Budget DEF RecordWritten, ctlVars, isrVars, BeginPoll, At,
       envVars, LoopInd, LoopTypeOK, PlaceInv, OpenInv, WriteInv, Lifecycles, Places,
       Polling
  <2> QED BY <2>1, <2>2
<1>6. CASE EnforceCommandTimeout
  <2>1. MotorInd' /\ call' = call /\ session' \in {session, "none"}
    <3>1. CASE mode # "Stopped" /\ stale
      BY <1>6, <3>1, StopPreserves DEF EnforceCommandTimeout, StopMotor, MotorInd,
         MotorTypeOK, Resting
    <3>2. CASE ~ (mode # "Stopped" /\ stale)
      BY <1>6, <3>2, MotorUnchanged DEF EnforceCommandTimeout, motorVars
    <3> QED BY <3>1, <3>2
  <2>2. LoopInd'
    BY <1>6, <2>1 DEF EnforceCommandTimeout, At, pollVars, envVars, LoopInd, LoopTypeOK,
       PlaceInv, OpenInv, WriteInv, Lifecycles, Places, Polling
  <2> QED BY <2>1, <2>2
<1>7. CASE SendBurst
  <2>1. snapshot' \in SnapStates /\ SampleInv'
    BY <1>7 DEF SendBurst, SnapStates, SampleInv
  <2>2. UNCHANGED <<ctlVars, bridgeVars, isrVars, samples_left, calVars, trip, call>>
    BY <1>7 DEF SendBurst
  <2>3. MotorInd'
    BY <2>1, <2>2 DEF ctlVars, bridgeVars, isrVars, calVars, MotorInd, MotorTypeOK,
       SessionInv, BackupInv, FlagInv
  <2>4. LoopInd'
    BY <1>7, <2>2 DEF SendBurst, ctlVars, isrVars, calVars, At, pollVars, envVars, LoopInd,
       LoopTypeOK, PlaceInv, OpenInv, WriteInv, Lifecycles, Places, Polling
  <2> QED BY <2>3, <2>4
<1> QED BY <1>1, <1>2, <1>3, <1>4, <1>5, <1>6, <1>7 DEF RunOperational

LEMMA IngressInd ==
  ASSUME IndInv, PollCommandIngress
  PROVE  IndInv'
<1> USE DEF IndInv
<1>1. CASE ForeignFrame \/ ConfWritten \/ BootFrame \/ PollDone
  <2>1. UNCHANGED motorVars
    BY <1>1 DEF ForeignFrame, ConfWritten, BootFrame, PollDone
  <2>2. MotorInd'
    BY <2>1, MotorUnchanged
  <2>3. LoopInd'
    <3> USE <2>1 DEF At, pollVars, envVars, motorVars, LoopInd, LoopTypeOK, PlaceInv,
          OpenInv, WriteInv, Lifecycles, Places, Polling
    <3>1. CASE ForeignFrame
      BY <3>1, Spend DEF ForeignFrame
    <3>2. CASE ConfWritten
      BY <3>2 DEF ConfWritten
    <3>3. CASE BootFrame
      BY <3>3, Budget DEF BootFrame
    <3>4. CASE PollDone
      <4>1. stale' \in BOOLEAN /\ received' \in BOOLEAN /\ frames' \in 0 .. FramesPerPoll
        BY <3>4, Budget DEF PollDone
      <4>2. /\ UNCHANGED <<lifecycle, enabled, driver_fault, link>>
            /\ call = "idle"
            /\ \/ pc = "poll" /\ pc' = "timeout"
               \/ lifecycle = "DRIVER_FAULT" /\ pc = "pollFault" /\ pc' = "recover"
               \/ lifecycle = "INIT_FAILED" /\ pc = "pollFault" /\ pc' = "top"
        BY <3>4 DEF PollDone
      <4> QED BY <4>1, <4>2
    <3> QED BY <1>1, <3>1, <3>2, <3>3, <3>4
  <2> QED BY <2>2, <2>3
<1>2. CASE ControlFrame
  <2>1. MotorInd' /\ call' \in {"idle", "refresh", "flag"}
    BY <1>2, ControlPreserves DEF ControlFrame
  <2>2. LoopInd'
    BY <1>2, <2>1, Spend DEF ControlFrame, TakeFrame, envVars, LoopInd, LoopTypeOK, PlaceInv,
       OpenInv, WriteInv, Places, Polling
  <2> QED BY <2>1, <2>2
<1>3. CASE PassiveFrame
  <2>1. /\ MotorInd'
        /\ session' \in {session, "none"}
        /\ tim5_irq' => tim5_irq
        /\ call' \in {"idle", "arm"}
    BY <1>3, PassivePreserves DEF PassiveFrame
  <2>2. LoopInd'
    BY <1>3, <2>1, Spend DEF PassiveFrame, TakeFrame, envVars, LoopInd, LoopTypeOK, PlaceInv,
       OpenInv, WriteInv, Places, Polling
  <2> QED BY <2>1, <2>2
<1>4. CASE ConfSaveFrame
  <2>1. MotorInd' /\ Resting' /\ call' = call
    BY <1>4, StopPreserves DEF ConfSaveFrame, StopMotor, MotorInd, MotorTypeOK
  <2>2. LoopInd'
    BY <1>4, <2>1, Spend DEF ConfSaveFrame, Resting, TakeFrame, envVars, LoopInd, LoopTypeOK,
       PlaceInv, OpenInv, WriteInv, Places, Polling
  <2> QED BY <2>1, <2>2
<1>5. CASE FinishServiceCall
  <2>1. MotorInd' /\ session' = session /\ tim5_irq' = tim5_irq /\ call' = "idle"
    BY <1>5, FinishPreserves DEF FinishServiceCall
  <2>2. pc \in Polling
    BY <1>5 DEF FinishServiceCall, FinishCall, RefreshCommand, SetIsrFlag, SnapshotArm,
       LoopInd, PlaceInv
  <2>3. LoopInd'
    BY <1>5, <2>1, <2>2 DEF FinishServiceCall, loopVars, pollVars, envVars, LoopInd,
       LoopTypeOK, PlaceInv, OpenInv, WriteInv, Polling
  <2> QED BY <2>1, <2>3
<1> QED BY <1>1, <1>2, <1>3, <1>4, <1>5 DEF PollCommandIngress

LEMMA DegradedInd ==
  ASSUME IndInv, RunDegraded \/ RunBootloaderTransition
  PROVE  IndInv'
<1> USE DEF IndInv
<1>1. CASE HoldSafe \/ StopForBootloader \/ EnterBootloader
  <2>1. MotorInd' /\ Resting' /\ call' = call
    BY <1>1, StopPreserves DEF HoldSafe, StopForBootloader, EnterBootloader, StopMotor,
       MotorInd, MotorTypeOK
  <2>2. LoopInd'
    BY <1>1, <2>1, Budget DEF HoldSafe, StopForBootloader, EnterBootloader, Resting,
       BeginPoll, At, pollVars, envVars, LoopInd, LoopTypeOK, PlaceInv, OpenInv, WriteInv,
       Lifecycles, Places, Polling
  <2> QED BY <2>1, <2>2
<1>2. CASE RecoverDriver
  <2>1. UNCHANGED motorVars
    BY <1>2 DEF RecoverDriver
  <2>2. MotorInd'
    BY <2>1, MotorUnchanged
  <2>3. LoopInd'
    BY <1>2, <2>1 DEF RecoverDriver, At, pollVars, envVars, motorVars, LoopInd, LoopTypeOK,
       PlaceInv, OpenInv, WriteInv, Lifecycles, Places, Polling
  <2> QED BY <2>2, <2>3
<1>3. CASE DriverStillFaulted
  <2>1. session = "none"
    BY <1>3 DEF DriverStillFaulted, At, LoopInd, WriteInv, MotorInd, SessionInv
  <2>2. /\ power_on' = FALSE
        /\ UNCHANGED <<ctlVars, output_enabled, duty, isrVars, snapVars, calVars, trip, call>>
    BY <1>3 DEF DriverStillFaulted
  <2>3. MotorInd'
    BY <2>1, <2>2 DEF ctlVars, isrVars, snapVars, calVars, MotorInd, MotorTypeOK,
       SessionInv, BackupInv, FlagInv, SampleInv
  <2>4. LoopInd'
    BY <1>3, <2>1, <2>2 DEF DriverStillFaulted, ctlVars, isrVars, calVars, At, pollVars,
       envVars, LoopInd, LoopTypeOK, PlaceInv, OpenInv, WriteInv, Lifecycles, Places,
       Polling
  <2> QED BY <2>3, <2>4
<1> QED BY <1>1, <1>2, <1>3 DEF RunDegraded, RunBootloaderTransition

(* A tick may end the session at any place of the loop; where the loop is    *)
(* about to write, it cannot come or finds nothing to end.                   *)
LEMMA TickInd ==
  ASSUME IndInv, Tick
  PROVE  IndInv'
<1>1. /\ MotorInd'
      /\ tim5_irq
      /\ session' \in {session, "none"}
      /\ dirty' # dirty => session' = "none"
      /\ call' = call
  BY TickPreserves DEF IndInv, Tick
<1>2. LoopInd'
  BY <1>1 DEF Tick, loopVars, pollVars, envVars, IndInv, LoopInd, LoopTypeOK, PlaceInv,
     OpenInv, WriteInv
<1> QED BY <1>1, <1>2 DEF IndInv

(* What the loop knows of itself survives every step that leaves its place,  *)
(* the pins and the session alone.                                           *)
LEMMA LoopFrame ==
  ASSUME LoopInd,
         UNCHANGED <<motorVars, lifecycle, pc, enabled, frames, received>>,
         stale' \in BOOLEAN, driver_fault' \in BOOLEAN, link' \in {"up", "down"}
  PROVE  LoopInd'
<1>1. UNCHANGED <<session, tim5_irq, dirty, call>>
  BY DEF motorVars, ctlVars, isrVars, calVars
<1>2. LoopTypeOK'
  BY DEF LoopInd, LoopTypeOK
<1>3. PlaceInv'
  BY <1>1 DEF LoopInd, PlaceInv
<1>4. OpenInv'
  BY <1>1 DEF LoopInd, OpenInv
<1>5. WriteInv'
  BY <1>1 DEF LoopInd, WriteInv
<1> QED BY <1>2, <1>3, <1>4, <1>5 DEF LoopInd

LEMMA EnvironmentInd ==
  ASSUME IndInv, Environment
  PROVE  IndInv'
<1> USE DEF IndInv
<1>1. CASE DeadlinePasses \/ FaultChanges \/ LinkLost
  <2>1. UNCHANGED <<motorVars, lifecycle, pc, enabled, frames, received>>
    BY <1>1 DEF DeadlinePasses, FaultChanges, LinkLost, loopVars, pollVars
  <2>2. MotorInd'
    BY <2>1, MotorUnchanged
  <2>3. stale' \in BOOLEAN /\ driver_fault' \in BOOLEAN /\ link' \in {"up", "down"}
    <3>1. CASE DeadlinePasses
      BY <3>1 DEF DeadlinePasses, envVars, LoopInd, LoopTypeOK
    <3>2. CASE FaultChanges
      BY <3>2 DEF FaultChanges, pollVars, LoopInd, LoopTypeOK
    <3>3. CASE LinkLost
      BY <3>3 DEF LinkLost, pollVars, LoopInd, LoopTypeOK
    <3> QED BY <1>1, <3>1, <3>2, <3>3
  <2>4. LoopInd'
    BY <2>1, <2>3, LoopFrame
  <2> QED BY <2>2, <2>4
<1>2. CASE Reset
  <2>1. 0 \in 0 .. SnapTarget
    BY SnapTargetAssumption
  <2>2. MotorInd'
    BY <1>2, <2>1 DEF Reset, BridgeOff, DisableControlIsr, AbortSnapshot, MotorInd,
       MotorTypeOK, SessionInv, BackupInv, FlagInv, SampleInv, Modes, Sessions, AllKinds,
       SnapStates, EncoderKinds
  <2>3. LoopInd'
    BY <1>2, Budget DEF Reset, BridgeOff, DisableControlIsr, envVars, LoopInd, LoopTypeOK,
       PlaceInv, OpenInv, WriteInv, Lifecycles, Places, Polling
  <2> QED BY <2>2, <2>3
<1> QED BY <1>1, <1>2 DEF Environment

LEMMA NextInd == IndInv /\ [Next]_vars => IndInv'
<1> SUFFICES ASSUME IndInv, [Next]_vars PROVE IndInv'
  OBVIOUS
<1>1. CASE MainLoop
  BY <1>1, InitializeInd, OperationalInd, IngressInd, DegradedInd DEF MainLoop
<1>2. CASE Tick
  BY <1>2, TickInd
<1>3. CASE Environment
  BY <1>3, EnvironmentInd
<1>4. CASE UNCHANGED vars
  <2>1. MotorInd'
    BY <1>4, MotorUnchanged DEF vars, IndInv
  <2>2. LoopInd'
    BY <1>4 DEF vars, motorVars, loopVars, pollVars, envVars, IndInv, LoopInd, LoopTypeOK,
       PlaceInv, OpenInv, WriteInv
  <2> QED BY <2>1, <2>2 DEF IndInv
<1> QED BY <1>1, <1>2, <1>3, <1>4 DEF Next

-----------------------------------------------------------------------------
(* IndInv holds in every reachable state: mode_, the active flag of the     *)
(* session, the HIZ pin, the interrupt and the place of the loop agree.     *)
THEOREM Inductive == Spec => []IndInv
  BY InitInd, NextInd, PTL DEF Spec

(* Every variable of the loop, the sessions and the snapshot keeps its type *)
(* (in particular the capture never counts below zero).                     *)
THEOREM TypeCorrect == Spec => []TypeOK
<1>1. IndInv => TypeOK
  BY DEF IndInv, MotorInd, LoopInd, TypeOK
<1> QED BY <1>1, Inductive, PTL

(* The bridge is never powered without the protection running. *)
THEOREM PowerSupervised == Spec => []SupervisedPower
<1>1. IndInv => SupervisedPower
  BY MotorIndSafe DEF IndInv
<1> QED BY <1>1, Inductive, PTL

(* No reply reads the encoder over the bus of a tick that may come. *)
THEOREM BusSafe == Spec => []SpiExclusive
<1>1. IndInv => SpiExclusive
  BY MotorIndSafe DEF IndInv
<1> QED BY <1>1, Inductive, PTL

(* The identity calibration of an encoder session is never commutated on. *)
THEOREM CommutationSafe == Spec => []TrustedCommutation
<1>1. IndInv => TrustedCommutation
  BY MotorIndSafe DEF IndInv
<1> QED BY <1>1, Inductive, PTL

(* No lifecycle state other than RUN keeps the bridge powered past the pass *)
(* of the loop in which it was entered.                                     *)
THEOREM PowerSafe == Spec => []PowerOnlyInRun
<1>1. IndInv => PowerOnlyInRun
  BY DEF IndInv, MotorInd, SessionInv, LoopInd, OpenInv, PowerOnlyInRun
<1> QED BY <1>1, Inductive, PTL

(* Flash writes happen with the bridge off, the interrupt closed and no     *)
(* session open.                                                            *)
THEOREM WriteSafe == Spec => []FlashWriteIsolated
<1>1. IndInv => FlashWriteIsolated
  <2>1. ASSUME IndInv, pc \in {"erase", "confWrite"}
        PROVE  session = "none" /\ ~tim5_irq
    BY <2>1 DEF IndInv, LoopInd, WriteInv
  <2>2. ASSUME IndInv, session = "none"
        PROVE  mode = "Stopped" /\ ~power_on /\ ~output_enabled
    BY <2>2 DEF IndInv, MotorInd, SessionInv, AllKinds
  <2> QED BY <2>1, <2>2 DEF FlashWriteIsolated
<1> QED BY <1>1, Inductive, PTL

(* What a calibration write composes its record from is no session's        *)
(* working value.                                                           *)
THEOREM RecordSafe == Spec => []RecordFromRest
<1>1. IndInv => RecordFromRest
  BY DEF IndInv, MotorInd, MotorTypeOK, BackupInv, LoopInd, WriteInv, RecordFromRest,
     EncoderKinds
<1> QED BY <1>1, Inductive, PTL

-----------------------------------------------------------------------------
(* What a single step may never do.                                          *)

(* Outside initialisation and recovery no step enters RUN. *)
LEMMA OnlyTwoEnterRun ==
  ASSUME IndInv, [Next]_vars, lifecycle # "RUN", lifecycle' = "RUN"
  PROVE  InitializeOk \/ RecoverDriver
<1>1. ~InitializeFails /\ ~RunOperational
  BY DEF InitializeFails, RunOperational, SeesDriverFault, StopOnDriverFault,
     SeesHealthyDriver, StopForPending, NothingPending, ComposeRecord, CloseIsrForWrite,
     RecordWritten, EnforceCommandTimeout, TelemetryIdle, SendMeta, SendBurst
<1>2. ~PollCommandIngress
  BY DEF PollCommandIngress, ForeignFrame, ControlFrame, PassiveFrame, TakeFrame,
     ConfSaveFrame, ConfWritten, BootFrame, FinishServiceCall, loopVars, PollDone
<1>3. ~HoldSafe /\ ~DriverStillFaulted /\ ~RunBootloaderTransition
  BY DEF HoldSafe, DriverStillFaulted, RunBootloaderTransition, StopForBootloader,
     EnterBootloader
<1>4. ~Tick /\ ~Environment /\ ~UNCHANGED vars
  BY DEF Tick, Environment, DeadlinePasses, FaultChanges, LinkLost, Reset, vars, loopVars
<1> QED BY <1>1, <1>2, <1>3, <1>4 DEF Next, MainLoop, Initialize, RunDegraded

(* RUN is entered from INIT or DRIVER_FAULT, with the bridge off and no      *)
(* session: a recovered driver finds nothing commanded.                      *)
THEOREM RunEntered == Spec => RunEntry
<1> DEFINE Step == lifecycle # "RUN" /\ lifecycle' = "RUN"
                     => lifecycle \in {"INIT", "DRIVER_FAULT"} /\ ~power_on' /\ session' = "none"
<1>1. IndInv /\ [Next]_vars => [Step]_vars
  <2> SUFFICES ASSUME IndInv, [Next]_vars, lifecycle # "RUN", lifecycle' = "RUN"
               PROVE  lifecycle \in {"INIT", "DRIVER_FAULT"} /\ ~power_on' /\ session' = "none"
    OBVIOUS
  <2>1. InitializeOk \/ RecoverDriver
    BY OnlyTwoEnterRun
  <2>2. lifecycle \in {"INIT", "DRIVER_FAULT"} /\ session = "none"
    BY <2>1 DEF InitializeOk, RecoverDriver, At, IndInv, LoopInd, PlaceInv, OpenInv, WriteInv,
       MotorInd, SessionInv
  <2>3. ~power_on
    BY <2>2 DEF IndInv, MotorInd, SessionInv
  <2>4. power_on' = power_on /\ session' = session
    BY <2>1 DEF InitializeOk, RecoverDriver, motorVars
  <2> QED BY <2>2, <2>3, <2>4
<1> QED BY <1>1, Inductive, PTL DEF Spec, RunEntry

(* Only a control frame opens a session; everything else keeps the one that  *)
(* runs, or ends it.                                                         *)
LEMMA OnlyControlOpens ==
  ASSUME IndInv, [Next]_vars, session = "none", session' # "none"
  PROVE  ControlFrame
<1>1. ~Initialize /\ ~RunOperational
  BY DEF Initialize, InitializeOk, InitializeFails, RunOperational, SeesDriverFault,
     StopOnDriverFault, SeesHealthyDriver, StopForPending, NothingPending, ComposeRecord,
     CloseIsrForWrite, RecordWritten, EnforceCommandTimeout, TelemetryIdle, SendMeta,
     SendBurst, StopMotor, Stop, motorVars, ctlVars
<1>2. ~PassiveFrame
  BY PassivePreserves DEF PassiveFrame, IndInv
<1>3. ~FinishServiceCall
  BY FinishPreserves DEF FinishServiceCall, IndInv
<1>4. ~ForeignFrame /\ ~ConfSaveFrame /\ ~ConfWritten /\ ~BootFrame /\ ~PollDone
  BY DEF ForeignFrame, ConfSaveFrame, ConfWritten, BootFrame, PollDone, StopMotor, Stop,
     motorVars
<1>5. ~RunDegraded /\ ~RunBootloaderTransition
  BY DEF RunDegraded, HoldSafe, RecoverDriver, DriverStillFaulted, RunBootloaderTransition,
     StopForBootloader, EnterBootloader, StopMotor, Stop, motorVars, ctlVars
<1>6. ~Tick
  BY TickPreserves DEF Tick, IndInv
<1>7. ~Environment /\ ~UNCHANGED vars
  BY DEF Environment, DeadlinePasses, FaultChanges, LinkLost, Reset, vars, motorVars
<1> QED BY <1>1, <1>2, <1>3, <1>4, <1>5, <1>6, <1>7 DEF Next, MainLoop, PollCommandIngress

(* The bridge is powered up by a frame of the host, taken in RUN, and by     *)
(* nothing else.                                                             *)
THEOREM PowerUpIsStart == Spec => PowerUpIsHostStart
<1> DEFINE Step == ~power_on /\ power_on' => pc = "poll" /\ link = "up" /\ frames' < frames
<1>1. IndInv /\ IndInv' /\ [Next]_vars => [Step]_vars
  <2> SUFFICES ASSUME IndInv, IndInv', [Next]_vars, ~power_on, power_on'
               PROVE  pc = "poll" /\ link = "up" /\ frames' < frames
    OBVIOUS
  <2>1. session = "none" /\ session' # "none"
    BY DEF IndInv, MotorInd, SessionInv
  <2>2. ControlFrame
    BY <2>1, OnlyControlOpens
  <2>3. frames \in Nat /\ frames' = frames - 1
    BY <2>2, FramesPerPollAssumption DEF ControlFrame, TakeFrame, IndInv, LoopInd, LoopTypeOK
  <2> QED BY <2>2, <2>3 DEF ControlFrame, TakeFrame
<1> QED BY <1>1, Inductive, PTL DEF Spec, PowerUpIsHostStart

(* A running session has not tripped: a start wipes the reason of the last   *)
(* trip, and a new one ends the session.                                     *)
TripInv == session # "none" => ~trip

(* The reason of a trip changes with a start, a tick of a session, a reset.  *)
LEMMA TripKept ==
  ASSUME [Next]_vars, trip' # trip
  PROVE  ControlFrame \/ Tick \/ Reset
<1>1. ~Initialize /\ ~RunOperational
  BY DEF Initialize, InitializeOk, InitializeFails, RunOperational, SeesDriverFault,
     StopOnDriverFault, SeesHealthyDriver, StopForPending, NothingPending, ComposeRecord,
     CloseIsrForWrite, RecordWritten, EnforceCommandTimeout, TelemetryIdle, SendMeta,
     SendBurst, StopMotor, motorVars
<1>2. ~PassiveFrame
  BY DEF PassiveFrame, PassiveRequest, NoEffect, CallStop, SnapshotCheck, ReloadCalibration,
     motorVars
<1>3. ~FinishServiceCall
  BY DEF FinishServiceCall, FinishCall, RefreshCommand, SetIsrFlag, SnapshotArm
<1>4. ~ForeignFrame /\ ~ConfSaveFrame /\ ~ConfWritten /\ ~BootFrame /\ ~PollDone
  BY DEF ForeignFrame, ConfSaveFrame, ConfWritten, BootFrame, PollDone, StopMotor, motorVars
<1>5. ~RunDegraded /\ ~RunBootloaderTransition
  BY DEF RunDegraded, HoldSafe, RecoverDriver, DriverStillFaulted, RunBootloaderTransition,
     StopForBootloader, EnterBootloader, StopMotor, motorVars
<1>6. ~DeadlinePasses /\ ~FaultChanges /\ ~LinkLost /\ ~UNCHANGED vars
  BY DEF DeadlinePasses, FaultChanges, LinkLost, vars, motorVars
<1> QED BY <1>1, <1>2, <1>3, <1>4, <1>5, <1>6 DEF Next, MainLoop, PollCommandIngress,
     Environment

(* What the three of them do to it. *)
LEMMA TripAtControl ==
  ASSUME ControlFrame
  PROVE  \/ trip' = FALSE /\ call' = "flag"
         \/ trip' = trip /\ session' \in {session, "none"}
<1>1. ControlRequest
  BY DEF ControlFrame
<1>2. CASE StartFails \/ CompensationEdit
  BY <1>2 DEF StartFails, Stop, CompensationEdit, ctlVars
<1>3. CASE \E m \in Runs : StartSeesRunning(m) \/ StartRun(m)
  BY <1>3 DEF StartSeesRunning, StartRun, Launch, ctlVars
<1>4. CASE \E k \in Kinds : StartCalibration(k)
  BY <1>4 DEF StartCalibration, Launch
<1> QED BY <1>1, <1>2, <1>3, <1>4 DEF ControlRequest

LEMMA TripAtTick ==
  ASSUME Tick
  PROVE  \/ session # "none" /\ (trip' = FALSE \/ session' = "none")
         \/ trip' = trip /\ session' = session
<1>1. ControlActive \/ session \in AllKinds => session # "none"
  BY DEF ControlActive, AllKinds, RunModes
<1>2. CASE IsrIdle
  BY <1>2 DEF IsrIdle, ctlVars
<1>3. CASE IsrTrip \/ IsrEncoderLost \/ IsrModulatorRefuses \/ IsrStep
  BY <1>1, <1>3 DEF IsrTrip, IsrEncoderLost, IsrModulatorRefuses, IsrStep, Stop
<1>4. CASE \E outcome \in {"applied", "refused", "failed"} : IsrFinish(outcome)
  BY <1>1, <1>4 DEF IsrFinish, RefusableKinds, AllKinds
<1> QED BY <1>2, <1>3, <1>4 DEF Tick, IsrTick

LEMMA TripInductive == IndInv /\ TripInv /\ [Next]_vars => TripInv'
<1> SUFFICES ASSUME IndInv, TripInv, [Next]_vars, session' # "none" PROVE ~trip'
  BY DEF TripInv
<1>1. CASE ControlFrame
  BY <1>1, TripAtControl DEF TripInv
<1>2. CASE Tick
  BY <1>2, TripAtTick DEF TripInv
<1>3. CASE Reset
  BY <1>3 DEF Reset
<1>4. CASE ~ControlFrame /\ ~Tick /\ ~Reset
  BY <1>4, TripKept, OnlyControlOpens DEF TripInv
<1> QED BY <1>1, <1>2, <1>3, <1>4

(* No stop, idle tick, capture, write or recovery wipes the reason of a trip *)
(* before the host starts again.                                             *)
THEOREM TripStays == Spec => TripStaysVisible
<1> DEFINE Step == trip /\ ~trip' => call' = "flag" \/ lifecycle' = "INIT"
<1>1. Init => TripInv
  BY DEF Init, MotorInit, TripInv
<1>2. Spec => []TripInv
  BY <1>1, TripInductive, Inductive, PTL DEF Spec
<1>3. TripInv /\ [Next]_vars => [Step]_vars
  <2> SUFFICES ASSUME TripInv, [Next]_vars, trip, ~trip'
               PROVE  call' = "flag" \/ lifecycle' = "INIT"
    OBVIOUS
  <2>1. CASE ControlFrame
    BY <2>1, TripAtControl
  <2>2. CASE Tick
    BY <2>2, TripAtTick DEF TripInv
  <2>3. CASE Reset
    BY <2>3 DEF Reset
  <2> QED BY <2>1, <2>2, <2>3, TripKept
<1> QED BY <1>2, <1>3, PTL DEF Spec, TripStaysVisible

-----------------------------------------------------------------------------
(* The refinement.  Writing is where the mapping puts the flash writes.     *)
Writing == pc \in {"erase", "confWrite"}

LEMMA InterlockInit == Init => Interlock!Init
  BY DEF Init, MotorInit, Interlock!Init

(* The three shapes of a step that lets the lifecycle be: the bridge stays   *)
(* or goes off, the host powers it up by leave, a write begins or ends.      *)
LEMMA HoldOrDown ==
  ASSUME power_on \in BOOLEAN, power_on' \in BOOLEAN, power_on' => power_on,
         (lifecycle = "RUN") <=> (lifecycle = "RUN")',
         Writing <=> Writing'
  PROVE  [Interlock!Next]_(Interlock!vars)
  BY DEF Writing, Interlock!Next, Interlock!vars, Interlock!PowerDown

LEMMA UpByLeave ==
  ASSUME power_on' \in BOOLEAN, lifecycle = "RUN", lifecycle' = "RUN",
         ~Writing, ~Writing'
  PROVE  [Interlock!Next]_(Interlock!vars)
  BY DEF Writing, Interlock!Next, Interlock!vars, Interlock!PowerDown, Interlock!PowerUp

LEMMA WriteBegins ==
  ASSUME power_on' = FALSE, (lifecycle = "RUN") <=> (lifecycle = "RUN")', Writing'
  PROVE  [Interlock!Next]_(Interlock!vars)
  BY DEF Writing, Interlock!Next, Interlock!vars, Interlock!BeginWrite

LEMMA WriteEnds ==
  ASSUME power_on' = power_on, (lifecycle = "RUN") <=> (lifecycle = "RUN")', ~Writing'
  PROVE  [Interlock!Next]_(Interlock!vars)
  BY DEF Writing, Interlock!Next, Interlock!vars, Interlock!EndWrite

LEMMA LeaveGranted ==
  ASSUME power_on = FALSE, power_on' = FALSE, lifecycle' = "RUN", ~Writing, ~Writing'
  PROVE  [Interlock!Next]_(Interlock!vars)
<1>1. ~power_on /\ power_on' = power_on
  OBVIOUS
<1>2. (lifecycle' = "RUN") = TRUE
  OBVIOUS
<1>3. ~Writing /\ (Writing <=> Writing')
  OBVIOUS
<1> QED BY <1>1, <1>2, <1>3 DEF Writing, Interlock!Next, Interlock!Grant

LEMMA LeaveWithdrawn ==
  ASSUME power_on' \in {power_on, FALSE}, lifecycle' # "RUN", ~Writing'
  PROVE  [Interlock!Next]_(Interlock!vars)
<1>1. /\ (lifecycle' = "RUN") = FALSE
      /\ (pc' \in {"erase", "confWrite"}) = FALSE
  BY DEF Writing
<1> QED BY <1>1 DEF Interlock!Next, Interlock!Withdraw

LEMMA InterlockStep ==
  ASSUME IndInv, IndInv', [Next]_vars
  PROVE  [Interlock!Next]_(Interlock!vars)
<1>1. power_on \in BOOLEAN /\ power_on' \in BOOLEAN
  BY DEF IndInv, MotorInd, MotorTypeOK
<1>2. power_on <=> session # "none"
  BY DEF IndInv, MotorInd, SessionInv
<1>3. power_on' <=> session' # "none"
  BY DEF IndInv, MotorInd, SessionInv
<1> DEFINE Goal == [Interlock!Next]_(Interlock!vars)
<1>4. CASE Initialize
  <2>1. CASE InitializeOk
    <3>1. session = "none"
      BY <2>1 DEF InitializeOk, At, IndInv, LoopInd, OpenInv
    <3> QED BY <1>1, <1>2, <2>1, <3>1, LeaveGranted DEF InitializeOk, At, motorVars, Writing
  <2>2. CASE InitializeFails
    BY <1>1, <2>2, HoldOrDown DEF InitializeFails, At, motorVars, Writing
  <2> QED BY <1>4, <2>1, <2>2 DEF Initialize
<1>5. CASE RunOperational
  <2>1. CASE SeesDriverFault
    BY <2>1, LeaveWithdrawn DEF SeesDriverFault, At, motorVars, Writing
  <2>2. CASE StopOnDriverFault
    BY <1>1, <2>2, HoldOrDown DEF StopOnDriverFault, StopMotor, Stop, BridgeOff, At, Writing
  <2>3. CASE SeesHealthyDriver \/ NothingPending \/ ComposeRecord \/ TelemetryIdle
             \/ SendMeta
    BY <1>1, <2>3, HoldOrDown DEF SeesHealthyDriver, NothingPending, ComposeRecord,
       TelemetryIdle, SendMeta, At, motorVars, Writing
  <2>4. CASE StopForPending
    BY <1>1, <2>4, HoldOrDown DEF StopForPending, StopMotor, Stop, BridgeOff, At, motorVars,
       Writing
  <2>5. CASE CloseIsrForWrite
    <3>1. session = "none" /\ session' = session
      BY <2>5 DEF CloseIsrForWrite, At, ctlVars, IndInv, LoopInd, WriteInv
    <3> QED BY <1>1, <1>3, <2>5, <3>1, WriteBegins DEF CloseIsrForWrite, At, Writing
  <2>6. CASE RecordWritten
    BY <2>6, WriteEnds DEF RecordWritten, bridgeVars, At, Writing
  <2>7. CASE EnforceCommandTimeout
    BY <1>1, <2>7, HoldOrDown DEF EnforceCommandTimeout, StopMotor, Stop, BridgeOff, At,
       motorVars, Writing
  <2>8. CASE SendBurst
    BY <1>1, <2>8, HoldOrDown DEF SendBurst, bridgeVars, At, Writing
  <2> QED BY <1>5, <2>1, <2>2, <2>3, <2>4, <2>5, <2>6, <2>7, <2>8 DEF RunOperational
<1>6. CASE PollCommandIngress
  <2>1. CASE ForeignFrame \/ PollDone
    BY <1>1, <2>1, HoldOrDown DEF ForeignFrame, PollDone, At, Polling, motorVars, Writing
  <2>2. CASE ControlFrame
    <3>1. lifecycle = "RUN"
      BY <2>2 DEF ControlFrame, IndInv, LoopInd, PlaceInv
    <3> QED BY <1>1, <2>2, <3>1, UpByLeave DEF ControlFrame, TakeFrame, Writing
  <2>3. CASE PassiveFrame
    <3>1. session' \in {session, "none"}
      BY <2>3, PassivePreserves DEF PassiveFrame, IndInv
    <3> QED BY <1>1, <1>2, <1>3, <2>3, <3>1, HoldOrDown DEF PassiveFrame, TakeFrame, Polling,
         Writing
  <2>4. CASE ConfSaveFrame
    BY <2>4, WriteBegins DEF ConfSaveFrame, TakeFrame, StopMotor, Stop, BridgeOff, Writing
  <2>5. CASE ConfWritten
    BY <2>5, WriteEnds DEF ConfWritten, At, motorVars, Writing
  <2>6. CASE BootFrame
    BY <2>6, LeaveWithdrawn DEF BootFrame, motorVars, Writing
  <2>7. CASE FinishServiceCall
    <3>1. session' = session
      BY <2>7, FinishPreserves DEF FinishServiceCall, IndInv
    <3> QED BY <1>1, <1>2, <1>3, <2>7, <3>1, HoldOrDown DEF FinishServiceCall, loopVars, Writing
  <2> QED BY <1>6, <2>1, <2>2, <2>3, <2>4, <2>5, <2>6, <2>7 DEF PollCommandIngress
<1>7. CASE RunDegraded
  <2>1. CASE HoldSafe
    BY <1>1, <2>1, HoldOrDown DEF HoldSafe, StopMotor, Stop, BridgeOff, At, Writing
  <2>2. CASE RecoverDriver
    <3>1. session = "none"
      BY <2>2 DEF RecoverDriver, At, IndInv, LoopInd, WriteInv, MotorInd, SessionInv
    <3> QED BY <1>1, <1>2, <2>2, <3>1, LeaveGranted DEF RecoverDriver, At, motorVars, Writing
  <2>3. CASE DriverStillFaulted
    BY <1>1, <2>3, HoldOrDown DEF DriverStillFaulted, At, Writing
  <2> QED BY <1>7, <2>1, <2>2, <2>3 DEF RunDegraded
<1>8. CASE RunBootloaderTransition
  BY <1>1, <1>8, HoldOrDown DEF RunBootloaderTransition, StopForBootloader, EnterBootloader,
     StopMotor, Stop, BridgeOff, At, Writing
<1>9. CASE Tick
  <2>1. session' \in {session, "none"}
    BY <1>9, TickPreserves DEF Tick, IndInv
  <2> QED BY <1>1, <1>2, <1>3, <1>9, <2>1, HoldOrDown DEF Tick, loopVars, Writing
<1>10. CASE Environment
  <2>1. CASE DeadlinePasses \/ FaultChanges \/ LinkLost
    BY <1>1, <2>1, HoldOrDown DEF DeadlinePasses, FaultChanges, LinkLost, motorVars, loopVars,
       Writing
  <2>2. CASE Reset
    BY <2>2, LeaveWithdrawn DEF Reset, BridgeOff, Writing
  <2> QED BY <1>10, <2>1, <2>2 DEF Environment
<1>11. CASE UNCHANGED vars
  BY <1>1, <1>11, HoldOrDown DEF vars, motorVars, loopVars, Writing
<1> QED BY <1>4, <1>5, <1>6, <1>7, <1>8, <1>9, <1>10, <1>11 DEF Next, MainLoop

(* The superloop, with all its interleavings, implements the power           *)
(* interlock: torque only by leave of the lifecycle, flash writes only with  *)
(* the bridge off, leave granted only with the bridge off.                   *)
THEOREM Refinement == Spec => ImplementsInterlock
<1>1. IndInv /\ IndInv' /\ [Next]_vars => [Interlock!Next]_(Interlock!vars)
  BY InterlockStep
<1> QED BY <1>1, InterlockInit, Inductive, PTL DEF Spec, ImplementsInterlock, Interlock!Spec
=============================================================================
