# A TLA+ model of the SPCD actuator firmware

The firmware of the SPCD actuator drives one brushless motor from an STM32G474. There is one core and no RTOS:
a superloop (`app::Application::Run`) serves the CAN link, the flash and telemetry, and a 15 kHz timer interrupt
(`MotorControlService::StepIsr`) runs the motor. A tick is atomic for the superloop and may come between any two of
its statements. Almost everything that is hard about this program comes from there: state that the superloop reads,
a tick changes, and the superloop then acts on; and from the flash, which stalls the core while it is written and
may fail or lose power half way.

Contents: [inventory](#inventory), [modules](#modules-and-the-code-they-stand-for), [runs](#runs),
[fairness](#fairness), [proofs](#proofs), [disagreements](#where-the-code-and-its-documents-disagree),
[what is left out](#what-is-not-modelled), [plan](#plan).

## Inventory

Paths are relative to `src/fw` unless they start with `tools`.

| component | state it keeps | operations | hard behaviour | what makes it correct |
| --- | --- | --- | --- | --- |
| superloop (`app/`) | lifecycle, last command time | initialise, run, hold safe, recover, enter bootloader | a fault or a frame at any point of a pass; reset at any point | power only in RUN; a lost host or a lasting fault ends torque |
| control sessions (`middleware/.../motor_control_service`) | mode, active flags, output flag, trip | `Start*`, `StartCalibration`, `Stop`, `StepIsr` | the interrupt ends a session while the superloop starts, refreshes or stops it | no power without a supervised session; no power-up but by a start of the host |
| control interrupt (`HAL/.../phase_pwm`) | NVIC enable, `control_isr_on_`, duty | enable, disable | the flag and the enable are two writes | who believes the interrupt closed owns the encoder's SPI |
| command adapter, link, telemetry (`middleware/.../communication`) | link activity, pending reply | one handler per frame kind, `Poll`, `ReplyControl` | foreign traffic, queued frames; replies withheld during a burst | only commands renew the deadline; bursts end |
| snapshot (`middleware/.../snapshot_service.h`) | Idle, Capturing, Ready, Sending; counts | `Arm`, `PushIsr`, `PollSend`, `Abort` | filled by ticks, drained by the superloop, aborted by trips | a capture is sent or dropped |
| calibration results (`calibration_manager.h`, `motor_calibration_store.h`) | tables in use, backup, results, dirty and persisted flags, the page | `StartX`, `ApplyXResult`, `Abort`, `LoadPersistentConfig`, `PersistPending` | six blocks on one page, rewritten together, with results arriving from the interrupt | blocks not asked for survive; nothing unmeasured reaches the controller |
| runtime configuration (`runtime_config_service.cc`, `runtime_config_store.h`) | the Motor table, the page, flash-valid | Set, Load, Save, Defaults, `Apply`, `Accept*` | `Apply` runs under the interrupt that stores results in the same table | one truth for R, L and Ke |
| identification sessions (`math/.../calibration/*.h`) | phase, clocks, counts per point, bin and direction | `Start`, `Stop`, `Step` | the motor may follow, stall, jump or tremble | results stand on enough samples of the right kind; sessions end |
| bootloader (`bootloader/`) | RAM magic, shadow word, erased pages, lock | jump decision, `unlock`, `w`, `lock`, `reset` | bytes in any order, failing erases, power cuts | an OK to `lock` means all is in flash |
| update tool (`tools/bootload_test.py`) | page, block, attempts | enter, unlock, write, lock, verify, reset | lost commands and answers, a banner taken for an OK | success means the image |
| encoder service, sensor | calibration in use and backup, compensation table and its chunk mask, `spi_pending_` | update, restore, upload in chunks, configure the sensor | SPI shared with the tick; a table live before its Commit | commutation on a usable calibration; an angle is the sensor's answer to the tick's own transfer |
| servo mode (`math/.../servo_mode.h`) | command, setpoint position and velocity, done | `Start`, `SetCommand`, `Stop`, `Step` | commands rewritten under the interrupt; discrete braking; stop positions | limits hold, moves arrive, a stop is never passed |
| safety monitor (`math/.../safety_monitor.h`) | over-current count, I²t energy, last trip | reset, evaluate, configure | reset by every start; limits changed field by field under the interrupt | no trip before the count, none missed |
| MIT, PID, FOC, modulator | integrators | step | clamps | real-valued; the modulator's refusal is an outcome of a tick |
| gate driver DRV8353S | power, fault, registers | on, off, configure, recover | recovery without registers | power off means HIZ |
| FDCAN | transmit FIFO of three, bus-off | send, receive, recover | a full FIFO drops replies; recovery drops what waits | no exchange is taken for complete that is not |
| host server (`tools/host/gui/web_server.py`) | queues of answers, upload and capture | upload, capture | any Ack is an answer; other clients of the same node | a reported upload is in use, a series is one capture |
| ADC, clocks, wire format, vendored code | registers | | | pure input and output |

Interaction: the link hands frames to the command adapter, which calls the motor control service, the calibration
manager, the configuration service and the snapshot service. The motor control service owns the gate driver, the
PWM and the interrupt. A finished session calls the calibration manager and the configuration service from inside a
tick. The superloop polls a dirty flag and writes the page. A boot frame leaves a magic in RAM and resets into the
bootloader, which the update tool talks to over the same bus.

## Modules and the code they stand for

| module | stands for | composes |
| --- | --- | --- |
| `MotorControl` | sessions, calls from the superloop, the tick, NVIC and flag, snapshot producer | |
| `Application` | the superloop, piece by piece, with the environment: host, link, faults, deadline, reset | `MotorControl` |
| `PowerInterlock` | abstract: torque by leave of the lifecycle, flash writes with the bridge off | implemented by `Application` |
| `Calibration` | results, tables, flags, both flash pages | |
| `DurableRecord` | abstract: a record whose other blocks survive a write | implemented by `Calibration` |
| `CalSweep` | `RIdentCal` and `BemfIdentCal` (the same state machine) | |
| `CalInductance` | `LIdentCal` | |
| `CalCogging`, `GapFill` | `CoggingCal` and the array algorithm that ends it | |
| `CalEncoderPhase` | `EncoderPhaseCal`, both methods | |
| `Sessions` | the calibration manager with one session at a time | the five above |
| `Bootloader` | jump decision, command server, flash writer | |
| `Update` | `bootload_test.py` against the bootloader over a lossy bus | `Bootloader` |
| `Link` | the web server's upload and capture against `BinaryLink`, `SnapshotService::PollSend`, the compensation table and the transmit FIFO | |
| `SpiBus` | the sensor's SPI, transfer by transfer, between superloop and tick | |
| `Protection` | `SafetyMonitor` under starts, stops and changes of limits | |
| `ServoMode` | `ServoMode::UpdateTrajectory` and the commands it follows | |
| `MC*` | values for TLC | |
| `*Proofs` | theorems | |

### Application and MotorControl

`pc` is where the superloop is: `top` of a pass, `pending`, `persist`, `disable`, `erase` (the calibration write),
`poll` (frames are served), `timeout`, `telemetry`, `sendMeta`, and the places of a faulted or booting pass. A call
is split in two where a tick between its statements matters; `call` says which half is due:

- `refresh`: a start that found its mode running has only to set the new command (`StartCurrent`, `StartMit`);
- `flag`: `EnableControlIsr` opened the NVIC (phase_pwm.cc:181) but has not yet set `control_isr_on_` (182);
- `arm`: `HandleSnapshot` has checked the interrupt and the state, and has not yet called `Arm`.

The interior of `StartX` and `StartCalibration` before the interrupt opens is one action, because no tick can
see it. `IsrTick` is one of: idle, trip, encoder lost, modulator refuses the voltage, a normal step, the end of a
session with any outcome. Currents, angles and voltages are replaced by that choice. `Reset` (watchdog, or a fault
that hangs the core) may come at any place. `DeadlinePasses` may come at any time, which is an over-approximation:
the 500 ms are not counted.

### Calibration

Blocks hold a measured value, a default, a value typed by the host or `Empty`, the zero of a session that has not
measured. Erase and program are separate steps that may fail or be cut by a reset; a record that does not pass its
magic, version and CRC is `page_valid = FALSE`. The call of `PersistPending` that closes the interrupt and composes
the record is one action: `Application` models the steps inside. Tables take two measured values, an old one and a new one; electrical sessions measure one. `Apply` reads all of R, L and Ke (into `operand`)
and hands them on in a second action; the code interleaves the reads and writes, but each parameter has the same
window.

### Sessions

A behaviour is one `kind` of session, started, ticked and stopped; the objects share nothing, so their state spaces
add instead of multiplying. Time is counted in ticks and angle in bins of the table. The fits and quantised tables
are left out: where a fit may refuse a result the outcome is open. The rotor is the environment. It may stand, slip or
tremble, but it moves a bin a tick at most, and before the field turns it may be drawn `AlignSwing` away.

### Bootloader and Update

A double word is a function from cells to values. `taken` is the history of the bytes a host was told had been
accepted. `locked` stands for both `locked_` and the hardware lock. A power cut clears the RAM magic. A cut or an
error leaves a word programmed or not, and a page erased or not: a half-programmed word and a half-erased page are left
out, as is the exception by which the hardware lets an all-zero word be written again. `Junk` is a byte that is not hex.

The response is a sequence of bytes, because what a poll brings depends on them: at most 61 (`Frame`), wherever the lines
end. A byte is a line and a place in it (`Text`); `Size` is the length of each line, the banner of 54 bytes, "ERR flash is
locked" of 21, any other error (28, as that of a program; the code has some of other lengths), "OK" of 4, a read of
75. A line that does not fit the buffer (`Capacity`) is dropped as a whole; the code writes some in pieces and would keep those
that fit, but an update never fills the buffer.

`Update` gives up a wait only when no answer can come any more. `DrainBanner` and `Connect` empty the response
and get the echo back; from then on each poll adds to `heard` (`PartHeard`) until a line end is in it, and all of `heard` is
the answer (`Answered`), taken for an error only if it begins as one once line ends in front are stripped. What the
last poll did not reach stays in front of the next answer. So a restart that nobody notices hides two blocks:
the banner and "ERR fla" are the answer to the first, "sh is locked" with the next error behind it that to the second, and the
third is refused. The same shift makes a read fail that follows a banner; the tool reads again, or gives up.

### Link and SpiBus

In `Link` a chunk of the table and a sample are the number of the job they belong to, so that a mixture is visible as
two numbers. The superloop is `persist`, `poll` and `send`; within `send` each frame is an action, because a tick may
abort the capture between two (`Tick`). A frame may be refused for a state of the lifecycle that is not modelled here.
The server empties its queues, sends, and takes the next Ack of any command. `strayed`, `abandoned` and `undone` record
the circumstances under which it is wrong, and the properties are asked where none of them occurred.

In `SpiBus` a word is its owner: the superloop or the tick. The two FIFOs, the pieces of `Transfer16` in the superloop
(wait and load, read, wait for the end) and the atomic tick, which leaves a transfer on the way, are kept.

### Protection and ServoMode

`Protection` counts heat in squares of integers and a window in ticks; `charge` keeps the heat after each sample, and is
what the clamped running sum is compared with. A change of the limits is two actions with the interrupt open. The table
of the thermistor is left out.

`ServoMode` takes a tick as the unit of time and half a distance per tick as that of position. The planner then is
integer arithmetic but for one division, `Required`, which is rounded either way. `SetCommand` on a running session is
two actions, the copy and the limits; `Start` closes the interrupt and is one. The PID behind the trajectory does not
feed back into it except through the slip guard, which `Pushes` triggers.

## Runs

| run | question | bounds and why they are enough |
| --- | --- | --- |
| `safety` | Do power, flash writes, encoder bus, calibration and lifecycle agree in every interleaving? | two run modes (a change of mode needs two), one encoder and one speed calibration (with and without a backup), captures of up to two samples (a first and a last), two frames a pass (one that arms and one that disturbs) |
| `liveness` | Do lost hosts, lasting faults, results, bursts and the idle interrupt come to an end? | one mode and one kind, one sample, one frame: liveness depends on the places, not on the variety |
| `calibration_flash` | What survives a write of the page that fails or is cut, and does "persisted" mean "in use"? | the encoder table, which has a backup, a table that has none, and one parameter: one block to write, one to keep, one of each sort; two values, or a stale table would look like the new one |
| `sessions` | Do results stand on measurements, and does every session but a spin end? | 3 to 4 points and trials with requests outside both clamps; tables of 4 and 5 bins; a gap fill of 12 bins, where every set of gaps of up to a quarter is an initial state |
| `bootloader_writes` | Does an OK to `lock` mean it is written? | a bootloader page and an application page with two words of two cells: another word, another cell, another page; a response of two bytes (empty, full, overrun), as the flash does not depend on it |
| `update_lossy` | Does success of the tool mean the image? | a first page of five double words in five blocks, a second of three words in blocks of two and one, cells in twos; three attempts, three cuts, any number of lost commands and answers, lines and frames of the lengths in the code. One cut hides two blocks and must not hide five, two cuts four; three do hide all five, so that the bound in `EarlierPagesAreWhole` is met from both sides |
| `protection` | Does the monitor trip exactly when it should? | three over-current samples of five, a window of four ticks, two ratings, currents under, between and over the levels |
| `servo` | Does every trajectory hold its limits and arrive, whatever it interrupted? | ten commands (moves, velocities, stops on both sides, limits missing, zero-length and above the ceiling), each followed by any other at any tick, from rest and from motion, one slip |
| `link` | Does success of the server mean what it says? | tables of two chunks, bursts of two data frames, a FIFO of two: a first and a last of each, and a full FIFO in between; two jobs, one reload, restart or failed write |
| `snapshot_stuck`, `torn_command`, `spi_race` | violations, below | the smallest instance that shows them |

What the properties say is in the comment above each. In short, and by their nature:

- *of several actors:* `SupervisedPower`, `SpiExclusive`, `TrustedCommutation`, `PowerOnlyInRun`,
  `FlashWriteIsolated`, `RecordFromRest`, `RunEntry`, `PowerUpIsHostStart`, `TripStaysVisible`: superloop and tick;
  `SuccessIsImage`, `EarlierPagesAreWhole`: tool, bus, bootloader and supply; `UploadIsInUse`, `TableInUseIsWhole`,
  `SeriesIsOneCapture`: server, bus, superloop and tick.
- *over failures:* `ImplementsDurableRecord`, `NoEmptyInUse`, `PersistedIsInUse`, `LockedIsWritten`,
  `OnlyWrittenPagesChange`.
- *of what a result rests on:* `SweepIsFitted`, `CoggingWentRound`, `SignIsWiring`, `SpinIsSampled`, `StepsAreApart`,
  `GapsAreFilled`. They compare what the session counted with a history of what the motor did.
- *of an algorithm, against what it stands for:* `TripsOnWorstWindow` (a clamped sum against every window), `PeakIsConsecutive`
  (a counter against the last samples), `NoOvershoot`, `LimitsHold`, `StopHolds` (a discrete planner against the move).
- *of progress:* the properties of `liveness`, `SessionEnds` and `Arrives`.

Properties that hold under a condition that is not obvious:

- `SignIsWiring` and `SpinIsSampled` hold with `AlignSwing <= SenseTravel`; without it a sweep may stand still (below).
- `PersistedIsInUse` leaves the encoder table out while its session runs, and from a failed write that kept the old
  table (`left_behind`) until one succeeds (below). The chunks of an upload, in use before its Commit, are in `Link`.
- `UploadIsInUse` and `TableInUseIsWhole` are asked while every Ack taken answered the command sent (`strayed`) and no
  reload, restart or failed write came ahead of the write (`undone`); `SeriesIsOneCapture` while no job was given up with
  its frames to come (`abandoned`).
- `NoOvershoot` allows the tolerance the planner has: with an acceleration limit ten ticks at the last velocity,
  without one a tick at full speed, and none without any limit. `Arrives` counts a setpoint at rest within a tick's acceleration as there.
- `LimitsHold` and `StopHolds` speak of ticks with the limits in place; `torn_command` is the tick without. `LimitsHold`
  takes a tick's acceleration to be no more than the velocity limit, `StopHolds` a command with a velocity (see [proofs](#proofs)).
- `EarlierPagesAreWhole` is asked while the first page has more than two blocks for every power cut, because a cut hides
  two (above). It is not enough that there are fewer cuts than blocks: with three cuts TLC finds five blocks
  passed (two, two and one) and the page skipped. `SuccessIsImage` needs no such condition, because the tool reads the image back.
- `SessionEnds` leaves the spin out: its two sweeps have no timeout, and a rotor that stalls in one keeps the session
  running until the host stops it.

Deadlock is not checked in `update_lossy`, where the tool ends and the device waits for a host that has gone, in
`sessions`, where a gap fill that is done has nothing left to do, and in the runs of `ServoMode`, where the commands
are used up and the session is stopped.

## Fairness

`Application!Fairness` is what a single core gives:

- `WF(MainLoop)`: no statement of the superloop blocks, and the watchdog resets it if one should.
- `WF(link = "down" /\ DeadlinePasses)`: the clock runs. With the link up the deadline may pass or not.
- `WF` of the idle tick and of the stepping tick: an open timer interrupt comes. Trips, lost encoders and finished
  sessions are never promised.
- `SF(SendMeta)`, `SF(SendBurst /\ snapshot' = "Idle")`: the transmit FIFO drains again and again, not all the time.

`Sessions!FairSpec` asks for `WF(Tick)` only. `beat` flips with each tick, so that a tick in which nothing happens is a
step, and fairness cannot push the rotor on. `ServoMode!FairSpec` asks for `WF(Tick)`, the timer that runs as long as the
session, and `WF(FinishCommand)`, the superloop that gets to the end of `SetCommand`. The other runs have safety
properties only.

## Proofs

TLAPS proves, for every set of modes and kinds, every capture length and poll budget, every set of blocks and
values, every flash layout, set of lines and image, every size of upload, burst and queue, every time and table of the
sessions and every servo command (under the named assumptions on the constants):

| module | theorem | says |
| --- | --- | --- |
| `ApplicationProofs` | `TypeCorrect`, `Inductive` | types; the inductive invariant |
| | `PowerSupervised`, `BusSafe`, `CommutationSafe` | `SupervisedPower`; `SpiExclusive`; `TrustedCommutation` |
| | `PowerSafe`, `WriteSafe`, `RecordSafe` | `PowerOnlyInRun`; `FlashWriteIsolated`; `RecordFromRest` |
| | `RunEntered`, `PowerUpIsStart`, `TripStays` | `RunEntry`; `PowerUpIsHostStart`; `TripStaysVisible` |
| | `Refinement` | `Application` implements `PowerInterlock` |
| `CalibrationProofs` | `Inductive`, `NeverEmpty`, `PersistedInUse` | `NoEmptyInUse`; `PersistedIsInUse` |
| | `Refinement` | `Calibration` implements `DurableRecord` |
| `BootloaderProofs` | `Inductive`, `LockIsWritten`, `PagesChange` | `LockedIsWritten`, `OnlyWrittenPagesChange` |
| | `UpdateInductive`, `ImageIsWritten` | `SuccessIsImage` |
| | `PagesInductive`, `PagesAreWhole` | `EarlierPagesAreWhole`, if `ImageIsTidy` |
| | `UpdateIsBootloader` | an update is a behaviour of `Bootloader` |
| `SessionsProofs` | `TypeCorrect`, `SessionsInductive` | types; the inductive invariant of the five sessions |
| | `SweepStandsOnPoints`, `StepsComeApart` | `SweepIsFitted`; `StepsAreApart` |
| | `CoggingGoesRound`, `GapsGetFilled` | `CoggingWentRound`; `GapsAreFilled`, if `FillPasses >= 2` |
| | `SignIsRight`, `SpinCoversBins` | `SignIsWiring`; `SpinIsSampled`, if `SwingIsSmall` |
| `LinkProofs` | `LinkInductive`, `TableIsWhole` | `TableInUseIsWhole` |
| | `UploadEnds`, `SeriesEnded` | `UploadIsInUse`; `SeriesIsOneCapture` |
| `ProtectionProofs` | `Inductive`, `PeakTrips`, `WindowTrips` | `PeakIsConsecutive`; `TripsOnWorstWindow` |
| `ServoProofs` | `ServoInductive`, `StopIsHeld` | `StopHolds` |
| | `LimitsKept` | `LimitsHold`, if `GentleCommands` |
| | `MoveInductive`, `MovesStay` | `NoOvershoot`, if `GentleCommands` and `FineCommands` |

Some of them have a hypothesis beyond the assumptions on the constants, and `MCSessions`, `MCUpdate` and `MCServoMode`
assume the same of the values TLC runs with:

- `FillPasses >= 2`: the code makes four.
- `SwingIsSmall`: see [disagreements](#where-the-code-and-its-documents-disagree).
- `ImageIsTidy`: the tool cuts the image into whole double words, page after page, and the first block holds the vectors
  of an application that `DecideStart` would start.
- `GentleCommands`: the acceleration of a tick is no more than the velocity limit. `NormalizeCommandLimits` does not tie
  one to the other, so this is a condition on what the host asks for.
- `FrameAssumption`, named in `Update`: a frame holds the banner with an "OK" behind it (58 of 61 bytes: a longer banner would be
  cut), every error, and two of "ERR flash is locked" (42). It is what makes it two blocks that a cut hides, and not more.
- `FineCommands`: full speed is at most nine times the square of that acceleration, or there is no acceleration. This
  is a condition on the unit in which the model counts, as it rounds the deceleration of a tick to a whole number of
  units. Any positive acceleration meets it when the unit is small enough.

`MotorControlProofs` holds the lemmas of the sessions and the tick that `ApplicationProofs` builds on.

Argument of `ApplicationProofs`: `IndInv` is `MotorInd /\ LoopInd`. None of the safety properties is inductive alone:
`PowerOnlyInRun` needs to know in which lifecycle each place of the loop is reached (`PlaceInv`), where a session may be
open (`OpenInv`), and that a powered bridge has one (`SessionInv`); `FlashWriteIsolated` needs `WriteInv`, because
a session could otherwise start between the stop and the write; `SpiExclusive` needs `FlagInv`, which says that only
the half-done `EnableControlIsr` has the interrupt open behind a cleared flag; `TrustedCommutation` needs `BackupInv`,
which ties the identity calibration to a running encoder session with a backup. `MotorControlProofs` proves per group of
actions that `MotorInd` is kept, and `ApplicationProofs` adds the loop. The refinement maps `permitted` to
`lifecycle = "RUN"`, `powered` to the HIZ pin and `writing` to the two places at which a page is written. The action
properties are proved action by action from `IndInv`: `OnlyTwoEnterRun` and `OnlyControlOpens` find the few actions
that can take the step in question, and `TripStays` needs `TripInv` besides, which says that a trip on record belongs to
a session that is over.

Argument of `CalibrationProofs`: that no empty value gets into use is not inductive, as the page itself may hold one.
`QuietInv` says that no session can end while a record is composed and written, `TablesInv` and `TableInv` what the
pages may hold of each sort of block, and `PageInv` that a record that does not load is read as absent and that the
blocks not asked for are copied. The refinement shows blocks under replacement as absent from the erase on.

`PersistedInUse` rests on a second invariant, `InUseInv`. It speaks of `Kept`, the table that will be in use as soon as no
session hides it: the backup while an encoder session runs, the table in use otherwise. For the encoder that is on the
page whether or not it is reported, because the report comes back with a reload in the middle of a session (`Sure`);
for the record under composition it holds of the image. One lemma (`InUseFrame`) covers every step that neither loads
nor writes: it reports no more, and what it puts in use anew it marks as dirty.

Argument of `ProtectionProofs`: the energy, clamped at zero, is the largest heat of any stretch of samples that ends now
(`EnergyIsWorst`), and the counter is the length of the run of samples over the limit (`CountIsRun`), over changes of
the limits half done. Both need `TripInv` to say that a session that goes on is below the count.

Argument of `BootloaderProofs`: every byte taken is in the shadow word or, in a page erased since the unlock, in the
flash (`Kept`). To keep that through an erase the page of the shadow word must not have been erased before
(`StepInv`), and through a flush the marks of the shadow must be those of the word (`ShadowInv`).

Argument for `Update`, in the same module: every step of tool, bus and supply is a step of the bootloader or leaves it
alone, so what is proved of the bootloader holds in an update (`UpdateIsBootloader`). `AnswerInv` says what may wait in the response at each stage: one answer, or before an unlock the banner in front of it, so that
one poll takes it; `AcceptedPasses`, that an answer is accepted only if the first byte of it does not begin an error. An OK to `lock` may be a banner;
`LockInv` says that either way nothing is left to flush, `ReadInv` that from then on nothing is written,
and `CheckedInv` that what was compared is what the flash holds. That nothing writes between the comparison of the first
double word and the reset is all that success rests on: how the pages were written does not enter.

For the pages (`WholeInv`) it does. While the device is unlocked, a block that passes was taken, and with the last byte of it
the last double word is in the flash; in the middle of a block the shadow word holds what came of the double word at
hand (`Midway`, `Gathered`). After a cut it is locked. Once the first block of the first page is written, the vectors are good
(`VectorsInv`): the application starts and no banner comes. Before that blocks pass on account of cuts
only, two for each (`LostInv`): while the banner waits `Room` is left for two, while the rest of an error does (`Stale`) for one, and
with nothing in front of it for none, as an error on its own is refused (`ErrorRefuses`). There are too few cuts to get
through the page. A retry erases the page and starts it over.

Argument of `LinkProofs`: `UploadInv` says which commands and Acks of an upload may be on their way in which order while
none has strayed (`SentInv`, `OrderInv`, `AloneInv`), and from that, what the table in use holds, and what it would hold after a
reload (`TableInv`). `SeriesInv` says the same of a capture: either nothing of an earlier one is left (`Quiet`), or the
frames still to come are those the server has not taken, in order (`OwnSeries`, `InOrder`, `SendInv`, `RowsInv`).
`StepInv` and `BurstInv` are about the device alone.

Argument of `SessionsProofs`: each session has an invariant of its own (`SweepInv`, `InductanceInv`, `CoggingInv`, `LockInv`,
`SignInv`, `FillInv`), which ties its counters to the history of what the motor did, and the others keep it because
the sessions share nothing. For the gap fill the first pass, which goes forward from any covered bin, leaves nothing
ahead of it open up to the end of the table, and the second fills what is in front of it by going round. For the sign,
the rotor cannot have come as far as the travel waited for unless the field took it there.

Argument of `ServoProofs`: outside the window of a refresh the limits of the command are in place: never negative, the
velocity within its limit, no acceleration limit without a velocity limit (`LimitsInPlace`). The rest is about one tick.
Each stage of `UpdateTrajectory` is a lemma on what it leaves alone and how far it takes the velocity: above the limit it
only goes back, at the limit it is not left, and braking never takes more than the acceleration limit. `OriginInv`
says whose limits are in place, through the window in which the next command has none, so that what is asked of the
commands holds of them. `StopHolds` needs only that the sample before was short of the stop, and that what comes out is
tested.

`NoOvershoot` is not inductive: that a move has not passed its target says nothing of whether it can still stop.
`MoveInv` adds that it can (`Settles`): with a velocity `v`, `e` to go and an acceleration limit `a`, `v^2 - a*e`
would be at most zero if all were exact, and is at most `19*a^2`. Braking with the limit leaves it as it is
(`Slower`); braking with less may leave it at twice the velocity and one acceleration (`RoundedDown`), and that is
where `FineCommands` is needed; speeding up is allowed only where it comes out at zero, or at `a^2` when the velocity
limit cuts the tick short (`TowardsStays`); and a swing across zero ends within a tick's acceleration
(`BrakingStays`). A move that goes down is the mirror image (`BackStays`). Each of these is a lemma on integers;
`AccelerationAhead` ties them to `CalculateAcceleration` and `CoursePlanned` to a tick.

What the proofs found. An invariant that would not go through was, more than once, one that is false:

- `StopHolds` as it stood, for all velocity commands: one of velocity zero with a stop comes to rest in a tick that is still
  integrated, and a setpoint at rest is not looked at. From 8 at 8 a tick, told to stop at 12 with a large
  acceleration, the setpoint ends at 16. It is now asked of commands with a velocity.
- `LimitsHold`, when one tick's acceleration exceeds the velocity limit: a fast move that is told to go slowly swings
  across zero and comes out on the other side, above its new limit. Hence `GentleCommands`.
- `NoOvershoot`, in a unit that is too coarse: with an acceleration of one and a limit of a hundred, a move to 3033
  passes it by more than the tolerance, because a deceleration is rounded down at the wrong moment. The code computes
  it in floating point. Hence `FineCommands`. Nor did the property say where a move without any limit may end, and the
  history of moves let one begin in the middle of a refresh.
- The type of the attempts of an update, which a verification given up leaves above the attempts at a page.
- The bound of `EarlierPagesAreWhole`, when the response was counted in lines: with bytes a cut hides two blocks.
- An empty image and an empty page had not been excluded; the tool refuses the one and never makes the other.

Only model-checked:

- Liveness, which is out of the prover's reach as `ENABLED` is: `liveness`, `SessionEnds`, `Arrives`. Every other property
  of a run that passes is a theorem.

## Where the code and its documents disagree

With a run that shows it:

- `snapshot_stuck`: a capture armed on a stale `isr_enabled()` never gets a sample, and control replies are withheld
  until the next stop or start (phase_pwm.cc:181 against telemetry_publisher.cc:51).
- `torn_command`: the refresh of a servo session stores a command without limits and fills them in afterwards; a tick in
  between puts the setpoint on the target at once (servo_mode.h:109 against board_config.h:273).
- `spi_race`: Conf Set, Load and Defaults write three registers of the sensor over the bus that a running session samples
  on in each tick; a tick takes the answer to such a word for an angle (runtime_config_service.cc:223 against
  stm32_spi.h:1). `SpiExclusive` holds all the same: it speaks of replies, which do look at `isr_enabled()`.

Seen while modelling, without a run:

- A Conf Set, Load or Defaults that is served between the end of an encoder calibration and its write puts the old tables
  back in use, and these are then written (calibration_manager.h:44; README.md:232 has the result applied and stored).
- If the write of a new encoder table fails and leaves the old record behind, a reload during the next encoder session
  takes up the old table, and the abort of the session then gives back the new one, reported as persisted while the
  page holds the old one.
- A session that ends inside `Apply` (runtime_config_service.cc:255) leaves the controller with the old value and the Motor
  table with the new one, although README.md §9 calls the table the only truth.
- A rotor that jumps more than 0.5 rad when it is aligned ends the sensing of the sign before the field was told to turn;
  the forward sweep stands still and has no timeout (encoder_phase.h:227).
- A cut in the middle of an update boots an application that is neither the old nor the new one: the jump only looks at
  the stack pointer and the entry (bootloader.cc:143), and bootload_test.py:208 expects a retry to be possible.
- application.cc:90 has every calibration write preceded by an explicit stop; a session that finishes between the two
  tests of pending results is written without one. `FlashWriteIsolated` and `RecordFromRest` hold all the same.
- ARCHITECTURE.md:128 has INIT_FAILED accept the bootloader command only; Conf frames, a page erase among them, are served.
- A calibration restarted before its result is written leaves an empty value marked valid in the record. `NoEmptyInUse`
  shows that it is never used.
- A failed write of the page keeps the persisted flags of the blocks it was not asked for, and clears the dirty flags
  of the others: nothing is tried again. A failed Conf Save keeps `flash_valid_`, also when the page is already erased.
- Recovery from a driver fault re-enables the driver without writing its registers, and leaves `init_ok_` FALSE
  (platform_service.cc:90).
- A start may be answered Ok and then be stopped in the next pass, because a result waits to be written
  (motor_control_service.cc:120); a refresh may be answered Ok although a tick has tripped in between (146).
- `Link`: the server takes any Ack for the answer to what it sent, and requests of two pages may run at once. A reload, a
  restart or a failed write ahead of the write that follows Clear leaves a table mixed from two uploads that is reported Ok; a
  capture that is tried again may mix frames of two bursts, as only the command of the Ack is looked at, not its job.
- `ServoMode`: without an acceleration limit a move ends up to a tick at full speed short. From rest within a tick's
  acceleration of its target it is never done, and stays there; nobody reads `trajectory_done`. A stop position behind the
  direction of travel moves the setpoint back to it at once, as a test expects
  (StopPositionBehindTravelDirectionStopsImmediately).
- cogging.h says that a record always covers a full turn; travel is the sum of |Δθ|, and only the coverage test at
  the end (three quarters of the bins) makes sure of most of one. Gaps are filled from their leading edge and not
  from the nearest neighbour.
- ARCHITECTURE.md limits an application to 440 KB; the update tool allows 448 KiB.

## What is not modelled

- Real-valued control (FOC, PI, PID, MIT, modulator, PLL) and the fits of the sessions: no discrete state of their own.
  Their refusals are outcomes of a tick. The velocity error guard of the servo mode is off on this board.
- Registers of ADC, clocks, driver and FDCAN; byte layouts of frames and records; older record versions, which `Load`
  converts one by one.
- The groups of the configuration other than Motor and the encoder's sensor filter: limits, gains and filters are copied
  into the objects that use them, field by field, as the protection limits in `Protection`.
- The microsecond clock extends a 16-bit counter by differences. Only a page erase keeps the superloop from reading it
  for longer than a tick, and no erase of one page takes the 65 ms a turn lasts, so it is taken as a clock.
- The registers of the gate driver and their read-back; `init_ok_` is the lifecycle's `INIT_FAILED`.
- `hw/`, `third_party/`, the web page and the command-line clients of the host.

## Plan

Done, in this order: superloop and sessions; calibration flash; bootloader and update; identification sessions; safety
monitor; servo trajectory; link, upload and capture; the sensor's bus. What would come next:

1. The configuration groups beside Motor, field by field against the tick, with the store's older versions.
2. The gate driver: its registers, the read-back, and a recovery without them.
3. What the liveness runs show, without a bound on faults and hosts: ranking arguments by hand, as `ENABLED` is out of reach.
