------------------------------- MODULE Application -------------------------------
(***************************************************************************)
(* The superloop of app::Application, composed with the control sessions   *)
(* and the control interrupt of MotorControl.  Each action of the main     *)
(* loop is a piece of it no tick of the interrupt can be seen inside; pc   *)
(* says which piece is next.  The environment is the host (what frames     *)
(* arrive), the gate driver (when it faults), the clock (when the command  *)
(* deadline passes) and the reset line.                                    *)
(***************************************************************************)
EXTENDS MotorControl

CONSTANT
  FramesPerPoll  \* the frames one Poll takes off the receive FIFO, 8 in the code

ASSUME FramesPerPollAssumption == FramesPerPoll \in Nat \ {0}

VARIABLES
  lifecycle,     \* LifecycleStateMachine::state_
  pc,            \* where the main loop is
  enabled,       \* the ENABLE pin of the gate driver
  frames,        \* frames this Poll may still take
  received,      \* result.received_frame of this Poll
  stale,         \* kCommandTimeoutUs have passed since last_receive_us_
  driver_fault,  \* the gate driver reports a fault (environment)
  link           \* the host still reaches this node (environment)

loopVars == <<lifecycle, pc, enabled>>
pollVars == <<frames, received, stale>>
envVars  == <<driver_fault, link>>
vars     == <<motorVars, loopVars, pollVars, envVars>>

Lifecycles == {"INIT", "INIT_FAILED", "RUN", "DRIVER_FAULT", "ENTER_BOOTLOADER"}

(* Run: the dispatch; RunOperational: pending .. telemetry, sendMeta;       *)
(* RunDriverFault and RunInitializationFailure: pollFault, recover; boot is *)
(* where EnterBootloader ends.                                              *)
Places == {"top", "faultStop", "pending", "persist", "disable", "erase", "poll",
           "confWrite", "bootStop", "timeout", "telemetry", "sendMeta",
           "pollFault", "recover", "boot"}

Polling == {"poll", "pollFault"}

LoopTypeOK ==
  /\ lifecycle \in Lifecycles
  /\ pc \in Places
  /\ enabled \in BOOLEAN
  /\ frames \in 0 .. FramesPerPoll
  /\ received \in BOOLEAN
  /\ stale \in BOOLEAN
  /\ driver_fault \in BOOLEAN
  /\ link \in {"up", "down"}

TypeOK == MotorTypeOK /\ LoopTypeOK

Init ==
  /\ MotorInit
  /\ lifecycle = "INIT"
  /\ pc = "top"
  /\ enabled = FALSE
  /\ frames = 0
  /\ received = FALSE
  /\ stale = FALSE
  /\ driver_fault \in BOOLEAN
  /\ link = "up"

-----------------------------------------------------------------------------
At(p, q) == pc = p /\ pc' = q

(* Mutant: every stop resets the protection monitor too. *)
StopMotor_ResetsTrip == Stop /\ trip' = FALSE /\ UNCHANGED call

StopMotor == Stop /\ UNCHANGED <<trip, call>>

BeginPoll == frames' = FramesPerPoll /\ received' = FALSE /\ UNCHANGED stale

(* Initialize: a failure after the gate driver came up leaves it enabled.   *)
InitializeOk ==
  /\ lifecycle = "INIT" /\ At("top", "top")
  /\ lifecycle' = "RUN"
  /\ enabled' = TRUE
  /\ stale' = FALSE
  /\ UNCHANGED <<motorVars, frames, received, envVars>>

InitializeFails ==
  /\ lifecycle = "INIT" /\ At("top", "top")
  /\ lifecycle' = "INIT_FAILED"
  /\ enabled' \in BOOLEAN
  /\ UNCHANGED <<motorVars, pollVars, envVars>>

(* RunOperational, in order. *)
SeesDriverFault ==
  /\ lifecycle = "RUN" /\ At("top", "faultStop")
  /\ driver_fault
  /\ lifecycle' = "DRIVER_FAULT"
  /\ UNCHANGED <<motorVars, enabled, pollVars, envVars>>

StopOnDriverFault ==
  /\ At("faultStop", "top")
  /\ StopMotor
  /\ enabled' = FALSE
  /\ UNCHANGED <<lifecycle, pollVars, envVars>>

(* Mutant: the loop runs on without looking at the driver. *)
SeesHealthyDriver_Blind ==
  /\ lifecycle = "RUN" /\ At("top", "pending")
  /\ UNCHANGED <<motorVars, lifecycle, enabled, pollVars, envVars>>

SeesHealthyDriver ==
  /\ lifecycle = "RUN" /\ At("top", "pending")
  /\ ~driver_fault
  /\ UNCHANGED <<motorVars, lifecycle, enabled, pollVars, envVars>>

(* Mutant: no stop ahead of a write. *)
StopForPending_NoStop ==
  /\ At("pending", "persist")
  /\ UNCHANGED <<motorVars, lifecycle, enabled, pollVars, envVars>>

StopForPending ==
  /\ At("pending", "persist")
  /\ IF dirty # {} THEN StopMotor ELSE UNCHANGED motorVars
  /\ UNCHANGED <<lifecycle, enabled, pollVars, envVars>>

(* Mutant: the test of PersistPending forgets one flag. *)
NothingPending_ForgetsFlag ==
  /\ At("persist", "poll")
  /\ dirty \subseteq {"Compensation"}
  /\ BeginPoll
  /\ UNCHANGED <<motorVars, lifecycle, enabled, envVars>>

(* PersistPending tests the dirty flags again. *)
NothingPending ==
  /\ At("persist", "poll")
  /\ dirty = {}
  /\ BeginPoll
  /\ UNCHANGED <<motorVars, lifecycle, enabled, envVars>>

ComposeRecord ==
  /\ At("persist", "disable")
  /\ dirty # {}
  /\ UNCHANGED <<motorVars, lifecycle, enabled, pollVars, envVars>>

(* Mutant: the erase starts with the interrupt open. *)
CloseIsrForWrite_LeftOpen ==
  /\ At("disable", "erase")
  /\ UNCHANGED <<motorVars, lifecycle, enabled, pollVars, envVars>>

CloseIsrForWrite ==
  /\ At("disable", "erase")
  /\ DisableControlIsr
  /\ UNCHANGED <<ctlVars, bridgeVars, snapVars, calVars, trip, call, lifecycle,
                 enabled, pollVars, envVars>>

(* Save returns; whether it succeeded, the flags are cleared. *)
RecordWritten ==
  /\ At("erase", "poll")
  /\ dirty' = {}
  /\ BeginPoll
  /\ UNCHANGED <<ctlVars, bridgeVars, isrVars, snapVars, encoder_cal, backup,
                 trip, call, lifecycle, enabled, envVars>>

-----------------------------------------------------------------------------
(* CanCommandAdapter::Poll, one frame at a time.                            *)

(* Mutant: any traffic on the bus renews the deadline. *)
ForeignFrame_Renews ==
  /\ pc \in Polling /\ pc' = pc
  /\ call = "idle"
  /\ frames > 0 /\ frames' = frames - 1
  /\ received' = TRUE
  /\ UNCHANGED <<motorVars, lifecycle, enabled, stale, envVars>>

(* A frame not addressed to this node, or no command: it only costs budget. *)
ForeignFrame ==
  /\ pc \in Polling /\ pc' = pc
  /\ call = "idle"
  /\ frames > 0 /\ frames' = frames - 1
  /\ UNCHANGED <<motorVars, lifecycle, enabled, received, stale, envVars>>

TakeFrame ==
  /\ link = "up"
  /\ frames > 0 /\ frames' = frames - 1
  /\ received' = TRUE
  /\ UNCHANGED <<lifecycle, enabled, stale, envVars>>

(* Mutant: control_allowed is not looked at. *)
ControlFrame_Always ==
  /\ pc \in Polling /\ pc' = pc
  /\ TakeFrame
  /\ ControlRequest

(* control_allowed is true only in RunOperational. *)
ControlFrame ==
  /\ pc = "poll" /\ pc' = pc
  /\ TakeFrame
  /\ ControlRequest

PassiveFrame ==
  /\ pc \in Polling /\ pc' = pc
  /\ TakeFrame
  /\ PassiveRequest

(* Mutant: Save writes without the stop. *)
ConfSaveFrame_NoStop ==
  /\ pc \in Polling /\ pc' = "confWrite"
  /\ call = "idle"
  /\ TakeFrame
  /\ UNCHANGED motorVars

(* Conf Save: RuntimeConfigService::Save stops the motor, then writes. *)
ConfSaveFrame ==
  /\ pc \in Polling /\ pc' = "confWrite"
  /\ call = "idle"
  /\ TakeFrame
  /\ StopMotor

ConfWritten ==
  /\ At("confWrite", IF lifecycle = "RUN" THEN "poll" ELSE "pollFault")
  /\ UNCHANGED <<motorVars, lifecycle, enabled, pollVars, envVars>>

(* The boot request ends the Poll at once. *)
BootFrame ==
  /\ pc \in Polling /\ pc' = "bootStop"
  /\ call = "idle"
  /\ link = "up" /\ frames > 0
  /\ lifecycle' = "ENTER_BOOTLOADER"
  /\ frames' = 0
  /\ received' = FALSE
  /\ stale' = FALSE
  /\ UNCHANGED <<motorVars, enabled, envVars>>

FinishServiceCall ==
  /\ FinishCall
  /\ UNCHANGED <<loopVars, pollVars, envVars>>

(* Mutant: a failed initialisation tries the recovery of a driver fault. *)
PollDone_RecoversInit ==
  /\ At("poll", "timeout") \/ At("pollFault", "recover")
  /\ call = "idle"
  /\ stale' = IF received THEN FALSE ELSE stale
  /\ frames' = 0
  /\ received' = FALSE
  /\ UNCHANGED <<motorVars, lifecycle, enabled, envVars>>

(* The FIFO is empty, the budget is spent, or the controller is bus-off. *)
PollDone ==
  /\ \/ At("poll", "timeout")
     \/ lifecycle = "DRIVER_FAULT" /\ At("pollFault", "recover")
     \/ lifecycle = "INIT_FAILED" /\ At("pollFault", "top")
  /\ call = "idle"
  /\ stale' = IF received THEN FALSE ELSE stale
  /\ frames' = 0
  /\ received' = FALSE
  /\ UNCHANGED <<motorVars, lifecycle, enabled, envVars>>

-----------------------------------------------------------------------------
EnforceCommandTimeout ==
  /\ At("timeout", "telemetry")
  /\ IF mode # "Stopped" /\ stale THEN StopMotor ELSE UNCHANGED motorVars
  /\ UNCHANGED <<lifecycle, enabled, pollVars, envVars>>

(* PollTelemetryEgress: PollSend finds nothing to send, or a full TX FIFO.  *)
TelemetryIdle ==
  /\ At("telemetry", "top")
  /\ UNCHANGED <<motorVars, lifecycle, enabled, pollVars, envVars>>

(* The meta frame goes out; the write of Sending comes a step later. *)
SendMeta ==
  /\ At("telemetry", "sendMeta")
  /\ snapshot = "Ready"
  /\ UNCHANGED <<motorVars, lifecycle, enabled, pollVars, envVars>>

(* Mutant: the state never becomes Sending. *)
SendBurst_MetaForever ==
  /\ At("sendMeta", "top")
  /\ UNCHANGED <<motorVars, lifecycle, enabled, pollVars, envVars>>

(* Frames go out until the FIFO fills or the burst is done. *)
SendBurst ==
  /\ \/ At("sendMeta", "top")
     \/ At("telemetry", "top") /\ snapshot = "Sending"
  /\ snapshot' \in {"Sending", "Idle"}
  /\ UNCHANGED <<ctlVars, bridgeVars, isrVars, samples_left, calVars, trip, call,
                 lifecycle, enabled, pollVars, envVars>>

-----------------------------------------------------------------------------
(* RunInitializationFailure and RunDriverFault. *)
HoldSafe ==
  /\ lifecycle \in {"INIT_FAILED", "DRIVER_FAULT"}
  /\ At("top", "pollFault")
  /\ StopMotor
  /\ enabled' = FALSE
  /\ BeginPoll
  /\ UNCHANGED <<lifecycle, envVars>>

RecoverDriver ==
  /\ At("recover", "top")
  /\ ~driver_fault
  /\ enabled' = TRUE
  /\ lifecycle' = "RUN"
  /\ UNCHANGED <<motorVars, pollVars, envVars>>

DriverStillFaulted ==
  /\ At("recover", "top")
  /\ driver_fault
  /\ enabled' = FALSE
  /\ power_on' = FALSE
  /\ UNCHANGED <<ctlVars, output_enabled, duty, isrVars, snapVars, calVars, trip,
                 call, lifecycle, pollVars, envVars>>

StopForBootloader ==
  /\ At("bootStop", "top")
  /\ StopMotor
  /\ enabled' = FALSE
  /\ UNCHANGED <<lifecycle, pollVars, envVars>>

EnterBootloader ==
  /\ lifecycle = "ENTER_BOOTLOADER" /\ At("top", "boot")
  /\ StopMotor
  /\ enabled' = FALSE
  /\ UNCHANGED <<lifecycle, pollVars, envVars>>

-----------------------------------------------------------------------------
(* The interrupt, and the environment.                                      *)

Tick == IsrTick /\ UNCHANGED <<loopVars, pollVars, envVars>>

DeadlinePasses ==
  /\ ~stale
  /\ stale' = TRUE
  /\ UNCHANGED <<motorVars, loopVars, frames, received, envVars>>

FaultChanges ==
  /\ driver_fault' = ~driver_fault
  /\ UNCHANGED <<motorVars, loopVars, pollVars, link>>

LinkLost ==
  /\ link = "up"
  /\ link' = "down"
  /\ UNCHANGED <<motorVars, loopVars, pollVars, driver_fault>>

(* The watchdog, a brown-out, or the bootloader starting the program again. *)
Reset ==
  /\ mode' = "Stopped" /\ session' = "none"
  /\ BridgeOff("zero")
  /\ DisableControlIsr
  /\ AbortSnapshot
  /\ dirty' = {} /\ encoder_cal' = "usable" /\ backup' = "none"
  /\ trip' = FALSE /\ call' = "idle"
  /\ lifecycle' = "INIT" /\ pc' = "top" /\ enabled' = FALSE
  /\ frames' = 0 /\ received' = FALSE /\ stale' = FALSE
  /\ UNCHANGED envVars

Initialize == InitializeOk \/ InitializeFails

RunOperational ==
  \/ SeesDriverFault \/ StopOnDriverFault \/ SeesHealthyDriver
  \/ StopForPending \/ NothingPending \/ ComposeRecord
  \/ CloseIsrForWrite \/ RecordWritten
  \/ EnforceCommandTimeout
  \/ TelemetryIdle \/ SendMeta \/ SendBurst

PollCommandIngress ==
  \/ ForeignFrame \/ ControlFrame \/ PassiveFrame
  \/ ConfSaveFrame \/ ConfWritten \/ BootFrame
  \/ FinishServiceCall \/ PollDone

RunDegraded == HoldSafe \/ RecoverDriver \/ DriverStillFaulted

RunBootloaderTransition == StopForBootloader \/ EnterBootloader

MainLoop ==
  Initialize \/ RunOperational \/ PollCommandIngress \/ RunDegraded
    \/ RunBootloaderTransition

Environment == DeadlinePasses \/ FaultChanges \/ LinkLost \/ Reset

Next == MainLoop \/ Tick \/ Environment

Spec == Init /\ [][Next]_vars

(* The superloop never blocks; nothing is assumed of the host or the driver. *)
(* The deadline is only sure to pass once no addressed frame can renew it,   *)
(* the interrupt feeds a capture while it is enabled, and the transmit FIFO  *)
(* drains, so that a burst offered again and again goes out.                 *)
Fairness ==
  /\ WF_vars(MainLoop)
  /\ WF_vars(link = "down" /\ DeadlinePasses)
  /\ WF_vars(IsrIdle /\ Tick)
  /\ WF_vars(IsrStep /\ Tick)
  /\ SF_vars(SendMeta)
  /\ SF_vars(SendBurst /\ snapshot' = "Idle")

FairSpec == Spec /\ Fairness

-----------------------------------------------------------------------------
(* Properties.                                                              *)

(* The bridge is powered only with the gate driver enabled and the lifecycle *)
(* in RUN, or in the pass of the loop that is about to stop it: no request   *)
(* served while initialisation failed, while the driver is faulted or after  *)
(* a boot request can leave torque on the motor.                             *)
PowerOnlyInRun ==
  power_on => enabled /\ (lifecycle = "RUN" \/ pc \in {"faultStop", "bootStop"})

(* While a flash page is erased or programmed the core stalls and no tick    *)
(* runs: the bridge is off, the control interrupt closed and no session open,*)
(* whichever way the main loop reached the write.                            *)
FlashWriteIsolated ==
  pc \in {"erase", "confWrite"} =>
    /\ ~power_on /\ ~output_enabled
    /\ ~tim5_irq
    /\ mode = "Stopped" /\ session = "none"

(* The calibration record is composed from values no session still changes: *)
(* the identity calibration of a running encoder calibration never reaches   *)
(* the flash, even when a session finishes between the stop of               *)
(* RunOperational and PersistPending.                                        *)
RecordFromRest ==
  (pc = "persist" /\ dirty # {}) \/ pc \in {"disable", "erase"} =>
    session = "none" /\ encoder_cal = "usable" /\ backup = "none"

(* A recovered gate driver never finds a bridge already commanded: RUN is    *)
(* entered only with power off and no session, and never from a failed       *)
(* initialisation, which only a reset or the bootloader leaves.              *)
RunEntry ==
  [][lifecycle # "RUN" /\ lifecycle' = "RUN"
       => lifecycle \in {"INIT", "DRIVER_FAULT"} /\ ~power_on' /\ session' = "none"]_vars

(* The bridge is powered up by a start frame of the host and by nothing      *)
(* else: the PowerOn every tick repeats only confirms it, no tick and no     *)
(* recovery ever re-energises a motor that a stop, a trip or a fault turned  *)
(* off.                                                                      *)
PowerUpIsHostStart ==
  [][~power_on /\ power_on' => pc = "poll" /\ link = "up" /\ frames' < frames]_vars

(* A protection trip stays visible to the host until the host starts again: *)
(* stops, idle ticks, captures and writes do not wipe it.                    *)
TripStaysVisible ==
  [][trip /\ ~trip' => call' = "flag" \/ lifecycle' = "INIT"]_vars

(* A gate-driver fault that stays ends with the power stage off for good.   *)
FaultEndsPower == <>[]driver_fault => <>[](~power_on /\ ~tim5_irq)

(* Once the host is gone the motor stops and stays stopped: no queued frame, *)
(* snapshot burst or foreign traffic on the bus holds the deadline off.      *)
LostHostStopsMotor == link = "down" ~> [](mode = "Stopped" /\ ~power_on)

(* A calibration result is written out while the driver stays healthy.      *)
DirtyIsPersisted == dirty # {} ~> dirty = {} \/ lifecycle # "RUN"

(* A captured snapshot is sent or dropped: the state machine cannot stay    *)
(* busy with a complete capture, also when a trip aborts it mid-send.       *)
BurstEnds == snapshot \in {"Ready", "Sending"} ~> snapshot = "Idle"

(* With no session and no snapshot the interrupt closes itself and gives the *)
(* encoder bus back, even when the session ended before the start that       *)
(* opened it had returned.                                                   *)
IdleInterruptCloses ==
  session = "none" /\ tim5_irq ~> ~tim5_irq \/ session # "none" \/ snapshot # "Idle"

(* What telemetry_publisher.cc counts on when it withholds replies: a burst, *)
(* once armed, finishes.                                                     *)
SnapshotFinishes == snapshot # "Idle" ~> snapshot = "Idle"

-----------------------------------------------------------------------------
(* What makes the properties above inductive.                               *)

(* The lifecycle each place of the loop runs under. *)
PlaceInv ==
  /\ pc \in {"pending", "persist", "disable", "erase", "poll", "timeout",
             "telemetry", "sendMeta"} => lifecycle = "RUN"
  /\ pc = "pollFault" => lifecycle \in {"INIT_FAILED", "DRIVER_FAULT"}
  /\ pc \in {"faultStop", "recover"} => lifecycle = "DRIVER_FAULT"
  /\ pc \in {"bootStop", "boot"} => lifecycle = "ENTER_BOOTLOADER"
  /\ pc = "confWrite" => lifecycle \in {"RUN", "INIT_FAILED", "DRIVER_FAULT"}
  /\ call # "idle" => pc \in Polling
  /\ call \in {"refresh", "flag"} => pc = "poll"

(* Where a session may be open, and the pins it needs. *)
OpenInv ==
  /\ session # "none" => lifecycle = "RUN" \/ pc \in {"faultStop", "bootStop"}
  /\ lifecycle = "RUN" \/ session # "none" => enabled

(* On the way to a flash write no session is open, and the last piece has    *)
(* the interrupt closed.                                                     *)
WriteInv ==
  /\ pc \in {"disable", "erase", "confWrite"} => session = "none"
  /\ pc = "persist" /\ dirty # {} => session = "none"
  /\ pc \in {"erase", "confWrite", "pollFault", "recover"} => ~tim5_irq

LoopInd == LoopTypeOK /\ PlaceInv /\ OpenInv /\ WriteInv

IndInv == MotorInd /\ LoopInd

-----------------------------------------------------------------------------
(* The interlock that the lifecycle, the stops and the closed interrupt     *)
(* together implement.                                                      *)
Interlock == INSTANCE PowerInterlock WITH
  permitted <- lifecycle = "RUN",
  powered   <- power_on,
  writing   <- pc \in {"erase", "confWrite"}

ImplementsInterlock == Interlock!Spec
=============================================================================
