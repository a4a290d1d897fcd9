------------------------------- MODULE Calibration -------------------------------
(***************************************************************************)
(* What becomes of a calibration result: CalibrationManager, the flash     *)
(* record of MotorCalibrationStore, the runtime configuration with its own *)
(* flash record, and what a reset makes of them.  The main loop is seen as *)
(* it sees the results: the test of the dirty flags, the write, a Poll     *)
(* that serves requests; the control interrupt may end a session between   *)
(* any two actions.  MotorControl and Application hold the rest of both.   *)
(*                                                                         *)
(* A value is what a calibration measured, or what the host typed; tables, *)
(* ohms and radians are not looked into.                                   *)
(***************************************************************************)
EXTENDS Naturals

CONSTANTS
  Geometry,     \* blocks owned by the calibration record: encoder tables
  Electrical,   \* blocks owned by the Motor table: R, Ld/Lq, Ke
  Measured,     \* what a session may measure
  Readings,     \* those of them that are an ohm, a henry or a volt second
  Typed,        \* what the host may type into the Motor table
  FlashFails    \* whether a page erase or a program may fail

AllGeometry   == {"Encoder", "Cogging", "Compensation"}
AllElectrical == {"Resistance", "Inductance", "Bemf"}

(* What a result holds between the start of its session and its end.        *)
Empty == "empty"
(* The board default of a parameter, the zero of an encoder table, and what *)
(* a record holds for a block that is not valid.                            *)
Default == "default"
NoBackup == "none"

ASSUME BlocksAssumption ==
  Geometry \subseteq AllGeometry /\ Electrical \subseteq AllElectrical
ASSUME ValuesAssumption ==
  {Empty, Default, NoBackup} \cap (Measured \cup Typed) = {}
ASSUME ReadingsAssumption == Readings \subseteq Measured
ASSUME FlashFailsAssumption == FlashFails \in BOOLEAN

VARIABLES
  pc,           \* where the main loop is
  session,      \* the block whose session runs in the interrupt, or "none"
  used,         \* what the control loop uses: EncoderService, FocController
  backup,       \* calibration_backup_ of the encoder
  result,       \* result() of each electrical session
  motor_table,  \* config_.motor: R, L, Ke
  operand,      \* what Apply has read of config_.motor and not yet handed on
  dirty,        \* the blocks whose *_dirty_ flag is set
  persisted,    \* the blocks whose *_persisted_ flag is set
  image,        \* the record PersistPending composes
  page,         \* the calibration record the flash holds
  page_valid,   \* its magic, version, CRC and sign are right
  left_behind,  \* (history) the page kept an encoder table whose
                \* replacement could not be written
  conf_page,    \* the Motor table of the runtime record in flash
  conf_valid,   \* its magic, version and CRC are right
  flash_valid   \* RuntimeConfigService::flash_valid_

ramVars  == <<used, backup, result, motor_table, dirty, persisted>>
pageVars == <<page, page_valid, left_behind>>
confVars == <<conf_page, conf_valid, flash_valid>>
vars == <<pc, session, ramVars, operand, image, pageVars, confVars>>

Blocks   == Geometry \cup Electrical
Sessions == Blocks \ {"Compensation"}   \* the compensation comes from the host

Stored   == {Default} \cup Measured
InTable  == Stored \cup Typed
Places   == {"init", "top", "persist", "erase", "program", "poll", "apply",
             "confErase", "confProgram"}

TypeOK ==
  /\ pc \in Places
  /\ session \in Sessions \cup {"none"}
  /\ used \in [Blocks -> InTable \cup {Empty}]
  /\ backup \in Stored \cup {NoBackup}
  /\ result \in [Electrical -> Measured \cup {Empty}]
  /\ motor_table \in [Electrical -> InTable \cup {Empty}]
  /\ operand \in [Electrical -> InTable \cup {Empty}]
  /\ dirty \subseteq Blocks
  /\ persisted \subseteq Blocks
  /\ image \in [Blocks -> Stored \cup {Empty}]
  /\ page \in [Blocks -> Stored \cup {Empty}]
  /\ page_valid \in BOOLEAN
  /\ left_behind \in BOOLEAN
  /\ conf_page \in [Electrical -> InTable \cup {Empty}]
  /\ conf_valid \in BOOLEAN
  /\ flash_valid \in BOOLEAN

AllDefault(S) == [b \in S |-> Default]

(* The power comes up on flash pages that were never written. *)
Init ==
  /\ pc = "init"
  /\ session = "none"
  /\ used = AllDefault(Blocks)
  /\ backup = NoBackup
  /\ result = [k \in Electrical |-> Empty]
  /\ motor_table = AllDefault(Electrical)
  /\ operand = AllDefault(Electrical)
  /\ dirty = {} /\ persisted = {}
  /\ image = AllDefault(Blocks)
  /\ page = AllDefault(Blocks) /\ page_valid = FALSE
  /\ left_behind = FALSE
  /\ conf_page = AllDefault(Electrical) /\ conf_valid = FALSE
  /\ flash_valid = FALSE

-----------------------------------------------------------------------------
(* Pieces.                                                                  *)

(* Mutant: the reload forgets the call of SetCogging. *)
LoadPersistentConfig_EncoderOnly(u) ==
  IF page_valid
  THEN /\ used' = [b \in Blocks |-> IF b = "Encoder" THEN page[b] ELSE u[b]]
       /\ persisted' = {b \in Blocks : b = "Encoder" \/ page[b] # Default}
  ELSE used' = u /\ UNCHANGED persisted

(* LoadPersistentConfig: the encoder tables of the record replace those in  *)
(* use; R, L and Ke stay with the Motor table.  u is what is in use so far. *)
LoadPersistentConfig(u) ==
  IF page_valid
  THEN /\ used' = [b \in Blocks |-> IF b \in Geometry THEN page[b] ELSE u[b]]
       /\ persisted' = {b \in Blocks : b = "Encoder" \/ page[b] # Default}
  ELSE used' = u /\ UNCHANGED persisted

(* Stop ends the session; an encoder session gives its backup back. *)
StopSession ==
  /\ session' = "none"
  /\ used' = IF backup = NoBackup THEN used
             ELSE [used EXCEPT !["Encoder"] = backup]
  /\ backup' = NoBackup

(* Mutant: the seed does not look whether the value makes sense. *)
Seeded_Unchecked(k) == IF page_valid THEN page[k] ELSE Default

(* The Motor table of a board without a runtime record is filled from the   *)
(* calibration record, where that holds something that makes sense.         *)
Seeded(k) == IF page_valid /\ page[k] # Empty THEN page[k] ELSE Default

(* Mutant: the record is composed from nothing, not from the one on flash.  *)
Composed_FromBlank(b) ==
  IF b \notin dirty THEN Default
  ELSE IF b \in Electrical THEN result[b] ELSE used[b]

(* PersistPending: the record on flash, with the dirty blocks replaced. *)
Composed(b) ==
  IF b \notin dirty THEN IF page_valid THEN page[b] ELSE Default
  ELSE IF b \in Electrical THEN result[b] ELSE used[b]

-----------------------------------------------------------------------------
(* The main loop.                                                           *)

(* RuntimeConfigService::Initialize. *)
Initialize ==
  /\ pc = "init" /\ pc' = "top"
  /\ flash_valid' = conf_valid
  /\ motor_table' = IF conf_valid THEN conf_page
                    ELSE [k \in Electrical |-> Seeded(k)]
  /\ LoadPersistentConfig([b \in Blocks |->
       IF b \in Electrical THEN motor_table'[b] ELSE used[b]])
  /\ UNCHANGED <<session, backup, result, operand, dirty, image, pageVars,
                 conf_page, conf_valid>>

(* Something to write: the motor is stopped first. *)
StopForPending ==
  /\ pc = "top" /\ pc' = "persist"
  /\ IF dirty # {} THEN StopSession ELSE UNCHANGED <<session, used, backup>>
  /\ UNCHANGED <<result, motor_table, operand, dirty, persisted, image, pageVars,
                 confVars>>

NothingPending ==
  /\ pc = "persist" /\ pc' = "poll"
  /\ dirty = {}
  /\ UNCHANGED <<session, ramVars, operand, image, pageVars, confVars>>

ComposeRecord ==
  /\ pc = "persist" /\ pc' = "erase"
  /\ dirty # {}
  /\ image' = [b \in Blocks |-> Composed(b)]
  /\ UNCHANGED <<session, ramVars, operand, pageVars, confVars>>

(* Whatever Save returns, the dirty flags are cleared. *)
Saved(ok) ==
  /\ persisted' = IF ok THEN persisted \cup dirty ELSE persisted \ dirty
  /\ dirty' = {}
  /\ image' = AllDefault(Blocks)

EraseRecord ==
  /\ pc = "erase" /\ pc' = "program"
  /\ page_valid' = FALSE
  /\ page' = AllDefault(Blocks)
  /\ UNCHANGED <<session, ramVars, operand, image, left_behind, confVars>>

(* HAL_FLASHEx_Erase reports an error: the old record may be there or gone. *)
EraseRecordFails ==
  /\ FlashFails
  /\ pc = "erase" /\ pc' = "poll"
  /\ \/ /\ left_behind' = (left_behind \/ "Encoder" \in dirty)
        /\ UNCHANGED <<page, page_valid>>
     \/ /\ page_valid' = FALSE /\ page' = AllDefault(Blocks)
        /\ UNCHANGED left_behind
  /\ Saved(FALSE)
  /\ UNCHANGED <<session, used, backup, result, motor_table, operand,
                 confVars>>

ProgramRecord ==
  /\ pc = "program" /\ pc' = "poll"
  /\ page_valid' = TRUE
  /\ page' = image
  /\ left_behind' = (left_behind /\ "Encoder" \notin dirty)
  /\ Saved(TRUE)
  /\ UNCHANGED <<session, used, backup, result, motor_table, operand,
                 confVars>>

(* A double word does not take, or the verification fails: a torn record is *)
(* not loaded again, its CRC is wrong.                                      *)
ProgramRecordFails ==
  /\ FlashFails
  /\ pc = "program" /\ pc' = "poll"
  /\ Saved(FALSE)
  /\ UNCHANGED <<session, used, backup, result, motor_table, operand,
                 pageVars, confVars>>

PollDone ==
  /\ pc = "poll" /\ pc' = "top"
  /\ UNCHANGED <<session, ramVars, operand, image, pageVars, confVars>>

-----------------------------------------------------------------------------
(* Requests, served inside a Poll.                                          *)

(* A Stop frame, a calibration abort, a start of another mode. *)
StopRequest ==
  /\ pc = "poll" /\ pc' = pc
  /\ StopSession
  /\ UNCHANGED <<result, motor_table, operand, dirty, persisted, image, pageVars,
                 confVars>>

(* StartCalibration stops what runs, resets the result and opens a session; *)
(* an encoder session measures on the zero table, with the one in use kept. *)
StartCalibration(s) ==
  /\ pc = "poll" /\ pc' = pc
  /\ session' = s
  /\ result' = [k \in Electrical |-> IF k = s THEN Empty ELSE result[k]]
  /\ IF s = "Encoder"
     THEN /\ backup' = IF backup = NoBackup THEN used[s] ELSE backup
          /\ used' = [used EXCEPT ![s] = Default]
          /\ persisted' = persisted \ {s}
     ELSE /\ backup' = NoBackup
          /\ used' = IF backup = NoBackup THEN used
                     ELSE [used EXCEPT !["Encoder"] = backup]
          /\ UNCHANGED persisted
  /\ UNCHANGED <<motor_table, operand, dirty, image, pageVars, confVars>>

(* The modulator refuses after the session was started: it is stopped again,*)
(* but its result, and the encoder's persisted flag, are gone.              *)
StartCalibrationFails(s) ==
  /\ pc = "poll" /\ pc' = pc
  /\ StopSession
  /\ result' = [k \in Electrical |-> IF k = s THEN Empty ELSE result[k]]
  /\ persisted' = IF s = "Encoder" THEN persisted \ {s} ELSE persisted
  /\ UNCHANGED <<motor_table, operand, dirty, image, pageVars, confVars>>

(* EncComp Clear and Commit; the upload of the chunks is in Compensation.   *)
EditCompensation(v) ==
  /\ pc = "poll" /\ pc' = pc
  /\ used' = [used EXCEPT !["Compensation"] = v]
  /\ dirty' = dirty \cup {"Compensation"}
  /\ persisted' = persisted \ {"Compensation"}
  /\ UNCHANGED <<session, backup, result, motor_table, operand, image, pageVars,
                 confVars>>

(* Conf Set: the group is copied into the table, then Apply reads it. *)
SetConfiguration ==
  /\ pc = "poll" /\ pc' = "apply"
  /\ motor_table' \in {motor_table}
       \cup {[motor_table EXCEPT ![k] = v] : k \in Electrical, v \in Typed}
  /\ operand' = motor_table'
  /\ UNCHANGED <<session, used, backup, result, dirty, persisted, image, pageVars,
                 confVars>>

RestoreDefaults ==
  /\ pc = "poll" /\ pc' = "apply"
  /\ motor_table' = AllDefault(Electrical)
  /\ operand' = motor_table'
  /\ UNCHANGED <<session, used, backup, result, dirty, persisted, image, pageVars,
                 confVars>>

LoadConfiguration ==
  /\ pc = "poll"
  /\ flash_valid' = conf_valid
  /\ IF conf_valid
     THEN pc' = "apply" /\ motor_table' = conf_page /\ operand' = conf_page
     ELSE UNCHANGED <<pc, motor_table, operand>>
  /\ UNCHANGED <<session, used, backup, result, dirty, persisted, image, pageVars,
                 conf_page, conf_valid>>

(* Apply hands on what it read, and the reload puts the encoder tables of   *)
(* the record back in use.                                                  *)
ApplyConfiguration ==
  /\ pc = "apply" /\ pc' = "poll"
  /\ LoadPersistentConfig([b \in Blocks |->
       IF b \in Electrical THEN operand[b] ELSE used[b]])
  /\ operand' = AllDefault(Electrical)
  /\ UNCHANGED <<session, backup, result, motor_table, dirty, image,
                 pageVars, confVars>>

(* Conf Save: stop, erase, program. *)
SaveConfiguration ==
  /\ pc = "poll" /\ pc' = "confErase"
  /\ StopSession
  /\ UNCHANGED <<result, motor_table, operand, dirty, persisted, image, pageVars,
                 confVars>>

EraseConfiguration ==
  /\ pc = "confErase" /\ pc' = "confProgram"
  /\ conf_valid' = FALSE
  /\ UNCHANGED <<session, ramVars, operand, image, pageVars, conf_page,
                 flash_valid>>

ProgramConfiguration ==
  /\ pc = "confProgram" /\ pc' = "poll"
  /\ conf_valid' = TRUE
  /\ conf_page' = motor_table
  /\ flash_valid' = TRUE
  /\ UNCHANGED <<session, ramVars, operand, image, pageVars>>

(* Save returns early: flash_valid_ keeps what it was. *)
SaveConfigurationFails ==
  /\ FlashFails
  /\ pc \in {"confErase", "confProgram"} /\ pc' = "poll"
  /\ UNCHANGED <<session, ramVars, operand, image, pageVars, confVars>>

-----------------------------------------------------------------------------
(* The control interrupt ends the session that runs.                        *)

(* Done, and Apply*Result takes it: in use at once, to be written later; an *)
(* electrical result also goes into the Motor table.                        *)
SessionDone(v) ==
  /\ session # "none"
  /\ session \in Electrical => v \in Readings
  /\ session' = "none"
  /\ result' = [k \in Electrical |-> IF k = session THEN v ELSE result[k]]
  /\ used' = [used EXCEPT ![session] = v]
  /\ motor_table' = IF session \in Electrical
                    THEN [motor_table EXCEPT ![session] = v] ELSE motor_table
  /\ backup' = NoBackup
  /\ dirty' = dirty \cup {session}
  /\ persisted' = persisted \ {session}
  /\ UNCHANGED <<pc, operand, image, pageVars, confVars>>

(* Failed, refused, tripped or lost: nothing is taken. *)
SessionFails ==
  /\ session # "none"
  /\ StopSession
  /\ UNCHANGED <<pc, result, motor_table, operand, dirty, persisted, image,
                 pageVars, confVars>>

(* A reset at any point: the RAM is gone, the flash is as it was left. *)
Reset ==
  /\ pc' = "init"
  /\ session' = "none"
  /\ used' = AllDefault(Blocks)
  /\ backup' = NoBackup
  /\ result' = [k \in Electrical |-> Empty]
  /\ motor_table' = AllDefault(Electrical)
  /\ operand' = AllDefault(Electrical)
  /\ dirty' = {} /\ persisted' = {}
  /\ image' = AllDefault(Blocks)
  /\ flash_valid' = FALSE
  /\ left_behind' = FALSE
  /\ UNCHANGED <<page, page_valid, conf_page, conf_valid>>

PersistPending ==
  \/ StopForPending \/ NothingPending \/ ComposeRecord
  \/ EraseRecord \/ EraseRecordFails
  \/ ProgramRecord \/ ProgramRecordFails

Requests ==
  \/ StopRequest
  \/ \E s \in Sessions : StartCalibration(s) \/ StartCalibrationFails(s)
  \/ "Compensation" \in Geometry /\ \E v \in Stored : EditCompensation(v)
  \/ SetConfiguration \/ RestoreDefaults \/ LoadConfiguration
  \/ ApplyConfiguration
  \/ SaveConfiguration \/ EraseConfiguration \/ ProgramConfiguration
  \/ SaveConfigurationFails

Interrupt == SessionFails \/ \E v \in Measured : SessionDone(v)

Next ==
  Initialize \/ PersistPending \/ PollDone \/ Requests \/ Interrupt \/ Reset

Spec == Init /\ [][Next]_vars

-----------------------------------------------------------------------------
(* Properties.                                                              *)

(* No parameter in use and no entry of the Motor table is ever the empty    *)
(* result of a session that has not measured: not by way of a record that   *)
(* holds one, not by the seed of a first boot, not by a saved Motor table.  *)
NoEmptyInUse ==
  /\ \A b \in Blocks : used[b] # Empty
  /\ \A k \in Electrical : motor_table[k] # Empty /\ operand[k] # Empty

(* A write of the calibration page brings every block it was not asked for  *)
(* back as it was; such a block is lost only with the whole record, by a    *)
(* failure or a reset in the middle of the write.                           *)
Record == INSTANCE DurableRecord WITH
  Values <- Stored \cup {Empty},
  Absent <- Default,
  record <- [b \in Blocks |->
               IF pc \in {"erase", "program"} /\ b \in dirty THEN Default
               ELSE IF pc = "program" THEN image[b] ELSE page[b]],
  open   <- IF pc \in {"erase", "program"} THEN dirty ELSE {}

ImplementsDurableRecord == Record!Spec

(* A table reported as persisted is the table in use, whatever reloads,     *)
(* aborted sessions and failed starts came in between; all that may happen  *)
(* to it is to be lost with the record, when a write of others fails.  The  *)
(* encoder table is left out while its session runs, and from a write of it *)
(* that failed and left the old one behind: a reload during the next        *)
(* session takes up the old one, and the abort gives the other one back.    *)
(* (The chunks of an upload are in use before its Commit: see Link.)        *)
PersistedIsInUse ==
  pc # "program" /\ page_valid =>
    \A b \in Geometry \cap (persisted \ dirty) :
      \/ b = "Encoder" /\ (session = "Encoder" \/ left_behind)
      \/ page[b] \in {Default, used[b]}

-----------------------------------------------------------------------------
(* What makes the first two inductive.                                      *)

(* No session can finish while a record is composed and written. *)
QuietInv ==
  /\ pc \in {"init", "erase", "program", "confErase", "confProgram"} => session = "none"
  /\ pc = "persist" /\ dirty # {} => session = "none"
  /\ pc \in {"erase", "program"} => dirty # {}
  /\ session = "none" => backup = NoBackup

(* The encoder tables hold measured values or zero, everywhere they are kept.*)
TablesInv ==
  \A b \in Geometry : {used[b], page[b], image[b]} \subseteq Stored

(* The record on flash and the one about to replace it. *)
PageInv ==
  /\ ~page_valid => page = AllDefault(Blocks)
  /\ pc = "program" => ~page_valid
  /\ pc = "erase" => \A b \in Blocks \ dirty : image[b] = page[b]

TableInv == \A k \in Electrical : conf_page[k] # Empty

IndInv == TypeOK /\ NoEmptyInUse /\ QuietInv /\ TablesInv /\ PageInv /\ TableInv

(* What is in use as soon as no session hides it, and the blocks for which  *)
(* that is known to be on the page: for the encoder table always, but       *)
(* between a result and its write.                                          *)
Kept(b) == IF b = "Encoder" /\ session = "Encoder" THEN backup ELSE used[b]
Sure(b) ==
  /\ b \notin dirty
  /\ IF b = "Encoder" THEN ~left_behind /\ pc # "init" ELSE b \in persisted

(* What makes PersistedIsInUse inductive, with IndInv. *)
InUseInv ==
  /\ session = "Encoder" <=> backup # NoBackup
  /\ pc = "init" => persisted = {}
  /\ \A b \in Geometry : Sure(b) => page[b] \in {Default, Kept(b)}
  /\ pc \in {"erase", "program"} =>
       \A b \in Geometry :
         /\ b \in dirty => image[b] = used[b]
         /\ Sure(b) => image[b] \in {Default, used[b]}
=============================================================================
