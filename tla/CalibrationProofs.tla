---------------------------- MODULE CalibrationProofs ----------------------------
(***************************************************************************)
(* Proofs about Calibration: its inductive invariant, and that the page of *)
(* the flash implements DurableRecord, for all blocks and all values.      *)
(***************************************************************************)
EXTENDS Calibration, TLAPS

(* The three marks are not values, and the two kinds of blocks are apart. *)
LEMMA Marks ==
  /\ Empty \notin InTable /\ Default \in Stored /\ Stored \subseteq InTable
  /\ NoBackup \notin Stored
  /\ Geometry \cap Electrical = {} /\ Electrical \subseteq Sessions
  /\ Sessions \subseteq Blocks
  /\ "none" \notin Blocks /\ "Encoder" \notin Electrical
  /\ Measured \subseteq Stored
  BY BlocksAssumption, ValuesAssumption
     DEF InTable, Stored, Empty, Default, NoBackup, AllGeometry, AllElectrical,
         Sessions, Blocks

LEMMA InitInd == Init => IndInv
  <1> SUFFICES ASSUME Init PROVE IndInv
    OBVIOUS
  <1> USE Marks DEF Init, AllDefault
  <1>1. TypeOK
    BY DEF TypeOK, Places, Blocks
  <1>2. NoEmptyInUse /\ TableInv
    BY DEF NoEmptyInUse, TableInv
  <1>3. QuietInv
    BY DEF QuietInv
  <1>4. TablesInv /\ PageInv
    BY DEF TablesInv, PageInv, Blocks
  <1> QED BY <1>1, <1>2, <1>3, <1>4 DEF IndInv

(* Stop keeps the tables typed: the backup is a table that was in use. *)
LEMMA StopKeeps ==
  ASSUME IndInv, StopSession
  PROVE  /\ session' = "none" /\ backup' = NoBackup
         /\ used' \in [Blocks -> InTable \cup {Empty}]
         /\ \A b \in Blocks : used'[b] # Empty
         /\ \A b \in Geometry : used'[b] \in Stored
         /\ \A b \in Blocks \ {"Encoder"} : used'[b] = used[b]
  <1>1. Stored \subseteq InTable /\ Empty \notin InTable
    BY Marks
  <1>2. CASE backup = NoBackup
    BY <1>2, <1>1 DEF IndInv, TypeOK, StopSession, NoEmptyInUse, TablesInv
  <1>3. CASE backup # NoBackup
    <2>1. backup \in Stored /\ used' = [used EXCEPT !["Encoder"] = backup]
      BY <1>3 DEF IndInv, TypeOK, StopSession
    <2> QED BY <2>1, <1>1 DEF IndInv, TypeOK, StopSession, NoEmptyInUse, TablesInv, Blocks
  <1> QED BY <1>2, <1>3

(* A reload puts tables of the record in use, which are never empty. *)
LEMMA LoadKeeps ==
  ASSUME IndInv, NEW u \in [Blocks -> InTable], LoadPersistentConfig(u),
         \A b \in Geometry : u[b] \in Stored
  PROVE  /\ used' \in [Blocks -> InTable \cup {Empty}]
         /\ \A b \in Blocks : used'[b] # Empty
         /\ \A b \in Geometry : used'[b] \in Stored
         /\ persisted' \subseteq Blocks
  <1>1. Stored \subseteq InTable /\ Empty \notin InTable
    BY Marks
  <1>2. CASE page_valid
    <2>1. used' = [b \in Blocks |-> IF b \in Geometry THEN page[b] ELSE u[b]]
      BY <1>2 DEF LoadPersistentConfig
    <2>2. persisted' = {b \in Blocks : b = "Encoder" \/ page[b] # Default}
      BY <1>2 DEF LoadPersistentConfig
    <2>3. \A b \in Geometry : page[b] \in Stored
      BY DEF IndInv, TablesInv
    <2> QED BY <2>1, <2>2, <2>3, <1>1 DEF Blocks
  <1>3. CASE ~page_valid
    BY <1>3, <1>1 DEF LoadPersistentConfig, IndInv, TypeOK, Blocks
  <1> QED BY <1>2, <1>3
(* One write of the page: composed with the motor at rest, from blocks that *)
(* are dirty and the record that is there.                                  *)
LEMMA PersistInd ==
  ASSUME IndInv, PersistPending
  PROVE  IndInv'
  <1> USE Marks DEF IndInv
  <1>1. CASE StopForPending
    <2>1. CASE dirty # {}
      <3>1. StopSession
        BY <1>1, <2>1 DEF StopForPending
      <3> QED
        BY <1>1, <3>1, StopKeeps DEF StopForPending, TypeOK, NoEmptyInUse, QuietInv,
           TablesInv, PageInv, TableInv, pageVars, confVars, Places
    <2>2. CASE dirty = {}
      BY <1>1, <2>2 DEF StopForPending, TypeOK, NoEmptyInUse, QuietInv,
         TablesInv, PageInv, TableInv, pageVars, confVars, Places
    <2> QED BY <2>1, <2>2
  <1>2. CASE NothingPending
    BY <1>2 DEF NothingPending, TypeOK, NoEmptyInUse, QuietInv,
       TablesInv, PageInv, TableInv, pageVars, confVars, ramVars, Places
  <1>3. CASE ComposeRecord
    <2>1. \A b \in Blocks : Composed(b) \in Stored \cup {Empty}
      BY DEF Composed, TypeOK, TablesInv, Blocks
    <2>2. \A b \in Geometry : Composed(b) \in Stored
      BY DEF Composed, TypeOK, TablesInv, Blocks
    <2>3. \A b \in Blocks \ dirty : Composed(b) = page[b]
      BY DEF Composed, PageInv, AllDefault
    <2> QED
      BY <1>3, <2>1, <2>2, <2>3 DEF ComposeRecord, TypeOK, NoEmptyInUse, QuietInv,
         TablesInv, PageInv, TableInv, pageVars, confVars, ramVars, Places, Blocks
  <1> DEFINE Zero == AllDefault(Blocks)
  <1>z. /\ Zero \in [Blocks -> Stored \cup {Empty}]
        /\ \A b \in Geometry : Zero[b] \in Stored
    BY DEF AllDefault, Blocks
  <1> HIDE DEF Zero
  <1>4. CASE EraseRecord
    <2>1. page' = Zero /\ page_valid' = FALSE
      BY <1>4 DEF EraseRecord, Zero
    <2>2. TypeOK'
      BY <1>4, <2>1, <1>z DEF EraseRecord, TypeOK, confVars, ramVars, Places
    <2>5. TablesInv'
      BY <1>4, <2>1, <1>z DEF EraseRecord, TablesInv, ramVars
    <2>3. NoEmptyInUse' /\ QuietInv' /\ TableInv'
      BY <1>4 DEF EraseRecord, NoEmptyInUse, QuietInv, TableInv, confVars, ramVars
    <2>4. PageInv'
      BY <1>4, <2>1 DEF EraseRecord, PageInv, Zero
    <2> QED BY <2>2, <2>3, <2>4, <2>5
  <1>5. CASE EraseRecordFails
    <2>1. /\ (page' = Zero /\ page_valid' = FALSE) \/ UNCHANGED <<page, page_valid>>
          /\ image' = Zero
      BY <1>5 DEF EraseRecordFails, Saved, Zero
    <2>6. left_behind' \in BOOLEAN
      BY <1>5 DEF EraseRecordFails, TypeOK
    <2>2. TypeOK'
      BY <1>5, <2>1, <2>6, <1>z DEF EraseRecordFails, Saved, TypeOK, confVars, Places
    <2>5. TablesInv'
      BY <1>5, <2>1, <1>z DEF EraseRecordFails, Saved, TablesInv
    <2>3. NoEmptyInUse' /\ QuietInv' /\ TableInv'
      BY <1>5 DEF EraseRecordFails, Saved, NoEmptyInUse, QuietInv, TableInv, confVars
    <2>4. PageInv'
      BY <1>5, <2>1 DEF EraseRecordFails, PageInv, Zero
    <2> QED BY <2>2, <2>3, <2>4, <2>5
  <1>6. CASE ProgramRecord
    BY <1>6 DEF ProgramRecord, Saved, TypeOK, NoEmptyInUse, QuietInv,
       TablesInv, PageInv, TableInv, confVars, Places, AllDefault, Blocks
  <1>7. CASE ProgramRecordFails
    BY <1>7 DEF ProgramRecordFails, Saved, TypeOK, NoEmptyInUse, QuietInv,
       TablesInv, PageInv, TableInv, confVars, pageVars, Places, AllDefault, Blocks
  <1> QED BY <1>1, <1>2, <1>3, <1>4, <1>5, <1>6, <1>7 DEF PersistPending

(* Requests that stop, start or end a session. *)
LEMMA SessionInd ==
  ASSUME IndInv,
         \/ StopRequest \/ SaveConfiguration \/ SessionFails
         \/ \E s \in Sessions : StartCalibration(s) \/ StartCalibrationFails(s)
         \/ \E v \in Measured : SessionDone(v)
  PROVE  IndInv'
  <1> USE Marks DEF IndInv
  <1>1. CASE StopRequest \/ SaveConfiguration \/ SessionFails
    <2>1. StopSession
      BY <1>1 DEF StopRequest, SaveConfiguration, SessionFails
    <2> QED
      BY <1>1, <2>1, StopKeeps DEF StopRequest, SaveConfiguration, SessionFails, TypeOK,
         NoEmptyInUse, QuietInv, TablesInv, PageInv, TableInv, pageVars, confVars, Places
  <1>2. ASSUME NEW s \in Sessions, StartCalibrationFails(s)
        PROVE  IndInv'
    <2>1. StopSession
      BY <1>2 DEF StartCalibrationFails
    <2> QED
      BY <1>2, <2>1, StopKeeps DEF StartCalibrationFails, TypeOK,
         NoEmptyInUse, QuietInv, TablesInv, PageInv, TableInv, pageVars, confVars, Places
  <1>3. ASSUME NEW s \in Sessions, StartCalibration(s)
        PROVE  IndInv'
    <2>1. /\ used' \in [Blocks -> InTable \cup {Empty}]
          /\ \A b \in Blocks : used'[b] # Empty
          /\ \A b \in Geometry : used'[b] \in Stored
          /\ backup' \in Stored \cup {NoBackup}
          /\ persisted' \subseteq Blocks
      BY <1>3 DEF StartCalibration, TypeOK, NoEmptyInUse, TablesInv, Blocks
    <2> QED
      BY <1>3, <2>1 DEF StartCalibration, TypeOK,
         NoEmptyInUse, QuietInv, TablesInv, PageInv, TableInv, pageVars, confVars, Places
  <1>4. ASSUME NEW v \in Measured, SessionDone(v)
        PROVE  IndInv'
    <2>1. session \in Sessions /\ v \in Stored /\ v \in InTable /\ v # Empty
      BY <1>4 DEF SessionDone, TypeOK, Stored
    <2>2. /\ used' \in [Blocks -> InTable \cup {Empty}]
          /\ \A b \in Blocks : used'[b] # Empty
          /\ \A b \in Geometry : used'[b] \in Stored
      BY <1>4, <2>1 DEF SessionDone, TypeOK, NoEmptyInUse, TablesInv, Blocks
    <2>3. /\ motor_table' \in [Electrical -> InTable \cup {Empty}]
          /\ \A k \in Electrical : motor_table'[k] # Empty
      BY <1>4, <2>1 DEF SessionDone, TypeOK, NoEmptyInUse
    <2> QED
      BY <1>4, <2>1, <2>2, <2>3 DEF SessionDone, TypeOK,
         NoEmptyInUse, QuietInv, TablesInv, PageInv, TableInv, pageVars, confVars, Places
  <1> QED BY <1>1, <1>2, <1>3, <1>4

(* The Motor table: typed, loaded, applied, saved. *)
LEMMA ConfigurationInd ==
  ASSUME IndInv,
         \/ SetConfiguration \/ RestoreDefaults \/ LoadConfiguration
         \/ ApplyConfiguration \/ EraseConfiguration \/ ProgramConfiguration
         \/ SaveConfigurationFails
  PROVE  IndInv'
  <1> USE Marks DEF IndInv
  <1> DEFINE Rest == UNCHANGED <<session, used, backup, result, dirty, persisted,
                                 image, pageVars>>
  <1>r. ASSUME Rest, pc = "poll", pc' \in {"poll", "apply"}
        PROVE  QuietInv' /\ TablesInv' /\ PageInv'
    BY <1>r DEF QuietInv, TablesInv, PageInv, pageVars
  <1>d. /\ AllDefault(Electrical) \in [Electrical -> InTable]
        /\ \A k \in Electrical : AllDefault(Electrical)[k] # Empty
    BY DEF AllDefault
  <1>1. CASE SetConfiguration
    <2>1. /\ motor_table' \in [Electrical -> InTable \cup {Empty}]
          /\ \A k \in Electrical : motor_table'[k] # Empty
      BY <1>1 DEF SetConfiguration, TypeOK, NoEmptyInUse, InTable
    <2>2. QuietInv' /\ TablesInv' /\ PageInv'
      BY <1>1, <1>r DEF SetConfiguration
    <2> QED
      BY <1>1, <2>1, <2>2 DEF SetConfiguration, TypeOK, NoEmptyInUse, TableInv, pageVars,
         confVars, Places
  <1>2. CASE RestoreDefaults
    <2>1. /\ motor_table' \in [Electrical -> InTable \cup {Empty}]
          /\ \A k \in Electrical : motor_table'[k] # Empty
      BY <1>2, <1>d DEF RestoreDefaults
    <2>2. QuietInv' /\ TablesInv' /\ PageInv'
      BY <1>2, <1>r DEF RestoreDefaults
    <2> QED
      BY <1>2, <2>1, <2>2 DEF RestoreDefaults, TypeOK, NoEmptyInUse, TableInv, pageVars,
         confVars, Places
  <1>3. CASE LoadConfiguration
    <2>2. QuietInv' /\ TablesInv' /\ PageInv'
      BY <1>3, <1>r DEF LoadConfiguration
    <2> QED
      BY <1>3, <2>2 DEF LoadConfiguration, TypeOK, NoEmptyInUse, TableInv, pageVars,
         confVars, Places
  <1>4. CASE ApplyConfiguration
    <2> DEFINE u == [b \in Blocks |-> IF b \in Electrical THEN operand[b] ELSE used[b]]
    <2>1. u \in [Blocks -> InTable] /\ \A b \in Geometry : u[b] \in Stored
      BY DEF TypeOK, NoEmptyInUse, TablesInv, Blocks
    <2>2. LoadPersistentConfig(u)
      BY <1>4 DEF ApplyConfiguration
    <2> HIDE DEF u
    <2>3. /\ used' \in [Blocks -> InTable \cup {Empty}]
          /\ \A b \in Blocks : used'[b] # Empty
          /\ \A b \in Geometry : used'[b] \in Stored
          /\ persisted' \subseteq Blocks
      BY <2>1, <2>2, LoadKeeps
    <2>4. operand' \in [Electrical -> InTable \cup {Empty}]
            /\ \A k \in Electrical : operand'[k] # Empty
      BY <1>4, <1>d DEF ApplyConfiguration
    <2>5. UNCHANGED <<session, backup, result, motor_table, dirty, image, page, page_valid,
                      left_behind, conf_page, conf_valid, flash_valid>> /\ pc = "apply" /\ pc' = "poll"
      BY <1>4 DEF ApplyConfiguration, pageVars, confVars
    <2> QED
      BY <2>3, <2>4, <2>5 DEF TypeOK, NoEmptyInUse, QuietInv, TablesInv, PageInv, TableInv,
         Places
  <1>5. CASE EraseConfiguration
    BY <1>5 DEF EraseConfiguration, TypeOK, NoEmptyInUse, QuietInv, TablesInv, PageInv,
       TableInv, pageVars, ramVars, Places
  <1>6. CASE ProgramConfiguration
    BY <1>6 DEF ProgramConfiguration, TypeOK, NoEmptyInUse, QuietInv, TablesInv, PageInv,
       TableInv, pageVars, ramVars, Places
  <1>7. CASE SaveConfigurationFails
    BY <1>7 DEF SaveConfigurationFails, TypeOK, NoEmptyInUse, QuietInv, TablesInv,
       PageInv, TableInv, pageVars, confVars, ramVars, Places
  <1> QED BY <1>1, <1>2, <1>3, <1>4, <1>5, <1>6, <1>7

LEMMA PollInd ==
  ASSUME IndInv,
         \/ PollDone
         \/ "Compensation" \in Geometry /\ \E v \in Stored : EditCompensation(v)
  PROVE  IndInv'
  <1> USE Marks DEF IndInv
  <1>1. CASE PollDone
    BY <1>1 DEF PollDone, TypeOK, NoEmptyInUse, QuietInv, TablesInv, PageInv, TableInv,
       pageVars, confVars, ramVars, Places
  <1>2. ASSUME "Compensation" \in Geometry, NEW v \in Stored, EditCompensation(v)
        PROVE  IndInv'
    BY <1>2 DEF EditCompensation, TypeOK, NoEmptyInUse, QuietInv, TablesInv, PageInv,
       TableInv, pageVars, confVars, Blocks
  <1> QED BY <1>1, <1>2

(* A reset, and the first thing the program does after one. *)
LEMMA BootInd ==
  ASSUME IndInv, Initialize \/ Reset
  PROVE  IndInv'
  <1> USE Marks DEF IndInv
  <1> DEFINE zero == AllDefault(Blocks)
             plain == AllDefault(Electrical)
  <1>d. /\ zero \in [Blocks -> Stored] /\ \A b \in Blocks : zero[b] = Default
        /\ plain \in [Electrical -> Stored] /\ \A b \in Electrical : plain[b] = Default
    BY DEF AllDefault
  <1> HIDE DEF zero, plain
  <1>1. CASE Initialize
    <2>1. /\ motor_table' \in [Electrical -> InTable]
          /\ \A k \in Electrical : motor_table'[k] # Empty
      <3>1. \A k \in Electrical : Seeded(k) \in InTable
        BY DEF Seeded, TypeOK, Blocks
      <3> QED
        BY <1>1, <3>1 DEF Initialize, TypeOK, TableInv
    <2> DEFINE u == [b \in Blocks |-> IF b \in Electrical THEN motor_table'[b] ELSE used[b]]
    <2>2. u \in [Blocks -> InTable] /\ \A b \in Geometry : u[b] \in Stored
      BY <2>1 DEF TypeOK, NoEmptyInUse, TablesInv, Blocks
    <2>3. LoadPersistentConfig(u)
      BY <1>1 DEF Initialize
    <2> HIDE DEF u
    <2>4. /\ used' \in [Blocks -> InTable \cup {Empty}]
          /\ \A b \in Blocks : used'[b] # Empty
          /\ \A b \in Geometry : used'[b] \in Stored
          /\ persisted' \subseteq Blocks
      BY <2>2, <2>3, LoadKeeps
    <2>5. /\ UNCHANGED <<session, backup, result, operand, dirty, image, page, page_valid,
                          left_behind, conf_page, conf_valid>>
          /\ flash_valid' = conf_valid /\ pc = "init" /\ pc' = "top"
      BY <1>1 DEF Initialize, pageVars
    <2> QED
      BY <2>1, <2>4, <2>5 DEF TypeOK, NoEmptyInUse, QuietInv, TablesInv, PageInv, TableInv,
         Places
  <1>2. CASE Reset
    <2>0. /\ used' = zero /\ image' = zero /\ motor_table' = plain /\ operand' = plain
          /\ UNCHANGED <<page, page_valid, conf_page, conf_valid>>
      BY <1>2 DEF Reset, pageVars, zero, plain
    <2>r. /\ pc' = "init" /\ session' = "none" /\ backup' = NoBackup
          /\ dirty' = {} /\ persisted' = {} /\ flash_valid' = FALSE /\ left_behind' = FALSE
          /\ result' \in [Electrical -> Measured \cup {Empty}]
      BY <1>2 DEF Reset
    <2>1. TypeOK'
      BY <1>d, <2>0, <2>r DEF TypeOK, Places
    <2>2. NoEmptyInUse' /\ QuietInv' /\ TableInv'
      BY <1>2, <1>d, <2>0 DEF Reset, NoEmptyInUse, QuietInv, TableInv
    <2>3. TablesInv' /\ PageInv'
      BY <1>2, <1>d, <2>0 DEF Reset, TablesInv, PageInv, Blocks
    <2> QED BY <2>1, <2>2, <2>3
  <1> QED BY <1>1, <1>2

LEMMA NextInd == IndInv /\ [Next]_vars => IndInv'
  <1> SUFFICES ASSUME IndInv, [Next]_vars PROVE IndInv'
    OBVIOUS
  <1>1. CASE Next
    <2>1. CASE Initialize \/ Reset
      BY <2>1, BootInd
    <2>2. CASE PersistPending
      BY <2>2, PersistInd
    <2>3. CASE PollDone
      BY <2>3, PollInd
    <2>4. CASE Requests
      <3>1. CASE \/ StopRequest \/ SaveConfiguration
                 \/ \E s \in Sessions : StartCalibration(s) \/ StartCalibrationFails(s)
        BY <3>1, SessionInd
      <3>2. CASE "Compensation" \in Geometry /\ \E v \in Stored : EditCompensation(v)
        BY <3>2, PollInd
      <3>3. CASE \/ SetConfiguration \/ RestoreDefaults \/ LoadConfiguration
                 \/ ApplyConfiguration \/ EraseConfiguration \/ ProgramConfiguration
                 \/ SaveConfigurationFails
        BY <3>3, ConfigurationInd
      <3> QED BY <2>4, <3>1, <3>2, <3>3 DEF Requests
    <2>5. CASE Interrupt
      BY <2>5, SessionInd DEF Interrupt
    <2> QED BY <1>1, <2>1, <2>2, <2>3, <2>4, <2>5 DEF Next
  <1>2. CASE UNCHANGED vars
    BY <1>2 DEF vars, ramVars, pageVars, confVars, IndInv, TypeOK, NoEmptyInUse, QuietInv,
       TablesInv, PageInv, TableInv
  <1> QED BY <1>1, <1>2

(* IndInv holds of every reachable state: whatever ends a session, fails a  *)
(* write or resets the board, the tables, the pages and the place agree.    *)
THEOREM Inductive == Spec => []IndInv
  BY InitInd, NextInd, PTL DEF Spec

(* No parameter in use is ever the empty result of a session that has not   *)
(* measured, although the record on flash may hold one.                     *)
THEOREM NeverEmpty == Spec => []NoEmptyInUse
  <1>1. IndInv => NoEmptyInUse
    BY DEF IndInv
  <1> QED BY <1>1, Inductive, PTL
-----------------------------------------------------------------------------
(* A table reported as persisted is in use, or in the backup.               *)

LEMMA InUseInit == Init => InUseInv
  BY DEF Init, InUseInv, Sure, Kept, NoBackup

(* Stop puts in use what was kept, whichever session it ends. *)
LEMMA StopKept ==
  ASSUME IndInv, InUseInv, StopSession
  PROVE  /\ session' = "none" /\ backup' = NoBackup
         /\ \A b \in Geometry : Kept(b)' = Kept(b)
  <1>1. session' = "none" /\ backup' = NoBackup
    BY DEF StopSession
  <1>2. CASE session = "Encoder"
    <2>1. "Encoder" \in Blocks
      BY <1>2, Marks DEF IndInv, TypeOK
    <2>2. backup # NoBackup
      BY <1>2 DEF InUseInv
    <2>3. used' = [used EXCEPT !["Encoder"] = backup]
      BY <2>2 DEF StopSession
    <2> QED
      BY <1>1, <1>2, <2>1, <2>3 DEF Kept, IndInv, TypeOK, Blocks
  <1>3. CASE session # "Encoder"
    <2>1. used' = used
      BY <1>3 DEF StopSession, InUseInv
    <2> QED BY <1>1, <1>3, <2>1 DEF Kept
  <1> QED BY <1>1, <1>2, <1>3

(* What every step does that neither loads nor writes the page: it reports  *)
(* no more than before, and what it puts in use anew it marks as dirty.     *)
LEMMA InUseFrame ==
  ASSUME InUseInv,
         session' = "Encoder" <=> backup' # NoBackup,
         UNCHANGED pageVars, dirty \subseteq dirty', persisted' \subseteq persisted,
         pc # "init", pc' \notin {"init", "erase", "program"},
         \A b \in Geometry : b \in dirty' \/ Kept(b)' = Kept(b)
  PROVE  InUseInv'
  <1>1. ASSUME NEW b \in Geometry, Sure(b)'
        PROVE  page'[b] \in {Default, Kept(b)'}
    <2>1. Sure(b) /\ b \notin dirty'
      BY <1>1 DEF Sure, pageVars
    <2>2. page[b] \in {Default, Kept(b)} /\ Kept(b)' = Kept(b) /\ page' = page
      BY <2>1 DEF InUseInv, pageVars
    <2> QED BY <2>2
  <1> QED BY <1>1 DEF InUseInv

(* The steps of the loop and the requests that leave the session alone. *)
LEMMA InUseLoop ==
  ASSUME IndInv, InUseInv,
         \/ NothingPending \/ PollDone
         \/ "Compensation" \in Geometry /\ \E v \in Stored : EditCompensation(v)
         \/ SetConfiguration \/ RestoreDefaults \/ LoadConfiguration
         \/ EraseConfiguration \/ ProgramConfiguration \/ SaveConfigurationFails
  PROVE  InUseInv'
  <1>1. CASE "Compensation" \in Geometry /\ \E v \in Stored : EditCompensation(v)
    <2>1. PICK v \in Stored : EditCompensation(v)
      BY <1>1
    <2>2. \A b \in Geometry : b \in dirty' \/ Kept(b)' = Kept(b)
      BY <2>1 DEF EditCompensation, Kept, IndInv, TypeOK, Blocks
    <2> QED
      BY <2>1, <2>2, InUseFrame DEF EditCompensation, InUseInv
  <1>2. CASE NothingPending \/ PollDone
    BY <1>2, InUseFrame DEF NothingPending, PollDone, ramVars, Kept, InUseInv
  <1>3. CASE SetConfiguration \/ RestoreDefaults \/ LoadConfiguration
    <2>1. /\ UNCHANGED <<session, used, backup, dirty, persisted, pageVars>>
          /\ pc = "poll" /\ pc' \in {"poll", "apply"}
      BY <1>3 DEF SetConfiguration, RestoreDefaults, LoadConfiguration
    <2> QED BY <2>1, InUseFrame DEF Kept, InUseInv
  <1>4. CASE EraseConfiguration \/ ProgramConfiguration \/ SaveConfigurationFails
    <2>1. /\ UNCHANGED <<session, used, backup, dirty, persisted, pageVars>>
          /\ pc # "init" /\ pc' \in {"confProgram", "poll"}
      BY <1>4 DEF EraseConfiguration, ProgramConfiguration, SaveConfigurationFails, ramVars
    <2> QED BY <2>1, InUseFrame DEF Kept, InUseInv
  <1> QED BY <1>1, <1>2, <1>3, <1>4

(* What starts, stops or ends a session. *)
LEMMA InUseSession ==
  ASSUME IndInv, InUseInv,
         \/ StopForPending \/ StopRequest \/ SaveConfiguration \/ SessionFails
         \/ \E s \in Sessions : StartCalibration(s) \/ StartCalibrationFails(s)
         \/ \E v \in Measured : SessionDone(v)
  PROVE  InUseInv'
  <1>1. CASE StopForPending
    <2>1. CASE dirty # {}
      <3>1. StopSession
        BY <1>1, <2>1 DEF StopForPending
      <3> QED BY <1>1, <3>1, StopKept, InUseFrame DEF StopForPending
    <2>2. CASE dirty = {}
      BY <1>1, <2>2, InUseFrame DEF StopForPending, Kept, InUseInv
    <2> QED BY <2>1, <2>2
  <1>2. CASE StopRequest \/ SaveConfiguration
    BY <1>2, StopKept, InUseFrame DEF StopRequest, SaveConfiguration
  <1>r. ASSUME session # "none"
        PROVE  pc \notin {"init", "erase", "program"}
    BY <1>r DEF IndInv, QuietInv
  <1>3. CASE SessionFails
    BY <1>3, <1>r, StopKept, InUseFrame DEF SessionFails
  <1>4. ASSUME NEW s \in Sessions, StartCalibrationFails(s)
        PROVE  InUseInv'
    BY <1>4, StopKept, InUseFrame DEF StartCalibrationFails
  <1>5. ASSUME NEW s \in Sessions, StartCalibration(s)
        PROVE  InUseInv'
    <2>1. CASE s = "Encoder"
      <3>1. /\ session' = "Encoder" /\ used' = [used EXCEPT !["Encoder"] = Default]
            /\ backup' = IF backup = NoBackup THEN used["Encoder"] ELSE backup
        BY <1>5, <2>1 DEF StartCalibration
      <3>2. "Encoder" \in Geometry
        BY <2>1, Marks DEF Sessions, Blocks
      <3>3. backup' # NoBackup
        BY <3>1, <3>2, Marks DEF IndInv, TablesInv
      <3>4. \A b \in Geometry : Kept(b)' = Kept(b)
        BY <3>1 DEF Kept, InUseInv, IndInv, TypeOK, Blocks
      <3> QED BY <1>5, <3>1, <3>3, <3>4, InUseFrame DEF StartCalibration
    <2>2. CASE s # "Encoder"
      <3>1. /\ session' = s /\ backup' = NoBackup /\ UNCHANGED persisted
            /\ used' = IF backup = NoBackup THEN used
                       ELSE [used EXCEPT !["Encoder"] = backup]
        BY <1>5, <2>2 DEF StartCalibration
      <3>2. \A b \in Geometry : Kept(b)' = Kept(b)
        BY <2>2, <3>1 DEF Kept, InUseInv, IndInv, TypeOK, Blocks
      <3> QED BY <1>5, <2>2, <3>1, <3>2, InUseFrame DEF StartCalibration
    <2> QED BY <2>1, <2>2
  <1>6. ASSUME NEW v \in Measured, SessionDone(v)
        PROVE  InUseInv'
    <2>1. /\ session # "none" /\ session' = "none" /\ backup' = NoBackup
          /\ used' = [used EXCEPT ![session] = v] /\ dirty' = dirty \cup {session}
          /\ persisted' = persisted \ {session} /\ UNCHANGED <<pc, pageVars>>
      BY <1>6 DEF SessionDone
    <2>2. \A b \in Geometry : b \in dirty' \/ Kept(b)' = Kept(b)
      BY <2>1 DEF Kept, IndInv, TypeOK, Blocks
    <2> QED BY <2>1, <2>2, <1>r, InUseFrame
  <1> QED BY <1>1, <1>2, <1>3, <1>4, <1>5, <1>6

(* A load puts the page in use; where there is none, the page holds zeros. *)
LEMMA InUseLoad ==
  ASSUME IndInv, InUseInv, Initialize \/ ApplyConfiguration \/ Reset
  PROVE  InUseInv'
  <1>1. CASE Reset
    BY <1>1 DEF Reset, InUseInv, Sure, NoBackup
  <1>2. ASSUME NEW u, LoadPersistentConfig(u), UNCHANGED <<session, backup, dirty, pageVars>>,
               pc' \in {"top", "poll"}, pc = "init" \/ \A b \in Geometry : u[b] = used[b]
        PROVE  InUseInv'
    <2>1. ASSUME NEW b \in Geometry, Sure(b)'
          PROVE  page'[b] \in {Default, Kept(b)'}
      <3>1. page' = page /\ session' = session /\ backup' = backup /\ dirty' = dirty
            /\ left_behind' = left_behind
        BY <1>2 DEF pageVars
      <3>2. CASE ~page_valid
        BY <3>1, <3>2 DEF IndInv, PageInv, AllDefault, Blocks
      <3>3. CASE page_valid /\ ~(b = "Encoder" /\ session = "Encoder")
        BY <3>1, <3>3, <1>2 DEF LoadPersistentConfig, Kept, Blocks
      <3>4. CASE b = "Encoder" /\ session = "Encoder"
        <4>1. pc # "init" /\ Sure(b)
          BY <1>2, <2>1, <3>1, <3>4 DEF Sure, IndInv, QuietInv
        <4> QED BY <3>1, <3>4, <4>1 DEF InUseInv, Kept
      <3> QED BY <3>2, <3>3, <3>4
    <2> QED BY <1>2, <2>1 DEF InUseInv
  <1>3. CASE Initialize
    BY <1>3, <1>2 DEF Initialize, pageVars
  <1>4. CASE ApplyConfiguration
    <2> DEFINE u == [b \in Blocks |-> IF b \in Electrical THEN operand[b] ELSE used[b]]
    <2>1. \A b \in Geometry : u[b] = used[b]
      BY Marks DEF Blocks
    <2>2. LoadPersistentConfig(u) /\ UNCHANGED <<session, backup, dirty, pageVars>>
          /\ pc' = "poll"
      BY <1>4 DEF ApplyConfiguration
    <2> HIDE DEF u
    <2> QED BY <2>1, <2>2, <1>2
  <1> QED BY <1>1, <1>3, <1>4

(* A write: composed of what is in use and of what the page holds. *)
LEMMA InUseWrite ==
  ASSUME IndInv, InUseInv,
         \/ ComposeRecord \/ EraseRecord \/ EraseRecordFails
         \/ ProgramRecord \/ ProgramRecordFails
  PROVE  InUseInv'
  <1>s. session = "none" /\ session' = session /\ backup' = backup /\ used' = used
    BY DEF ComposeRecord, EraseRecord, EraseRecordFails, ProgramRecord, ProgramRecordFails,
           ramVars, IndInv, QuietInv
  <1>k. \A b \in Geometry : Kept(b) = used[b] /\ Kept(b)' = used[b]
    BY <1>s DEF Kept
  <1>1. CASE ComposeRecord
    <2>1. /\ UNCHANGED <<dirty, persisted, pageVars>> /\ pc = "persist" /\ pc' = "erase"
          /\ image' = [b \in Blocks |-> Composed(b)]
      BY <1>1 DEF ComposeRecord, ramVars
    <2>2. ASSUME NEW b \in Geometry
          PROVE  /\ b \in dirty => image'[b] = used[b]
                 /\ Sure(b) => image'[b] \in {Default, used[b]}
                 /\ Sure(b)' = Sure(b)
      BY <2>1, <1>k, Marks DEF Composed, Sure, pageVars, InUseInv, Blocks
    <2> QED BY <1>s, <1>k, <2>1, <2>2 DEF InUseInv, pageVars
  <1>2. CASE EraseRecord
    <2>1. /\ UNCHANGED <<dirty, persisted, image, left_behind>>
          /\ pc = "erase" /\ pc' = "program" /\ page' = AllDefault(Blocks)
      BY <1>2 DEF EraseRecord, ramVars
    <2>2. \A b \in Geometry : page'[b] = Default /\ Sure(b)' = Sure(b)
      BY <2>1 DEF Sure, AllDefault, Blocks
    <2> QED BY <1>s, <1>k, <2>1, <2>2 DEF InUseInv
  <1>3. CASE EraseRecordFails
    <2>1. /\ pc = "erase" /\ pc' = "poll" /\ persisted' = persisted \ dirty
      BY <1>3 DEF EraseRecordFails, Saved
    <2>2. CASE page' = AllDefault(Blocks)
      BY <1>s, <2>1, <2>2 DEF InUseInv, AllDefault, Blocks
    <2>3. CASE page' = page /\ left_behind' = (left_behind \/ "Encoder" \in dirty)
      <3>1. \A b \in Geometry : Sure(b)' => Sure(b)
        BY <2>1, <2>3 DEF Sure
      <3> QED BY <1>s, <1>k, <2>1, <2>3, <3>1 DEF InUseInv
    <2> QED BY <1>3, <2>2, <2>3 DEF EraseRecordFails
  <1>4. CASE ProgramRecord
    <2>1. /\ pc = "program" /\ pc' = "poll" /\ page' = image
          /\ persisted' = persisted \cup dirty
          /\ left_behind' = (left_behind /\ "Encoder" \notin dirty)
      BY <1>4 DEF ProgramRecord, Saved
    <2>2. \A b \in Geometry : Sure(b)' => b \in dirty \/ Sure(b)
      BY <2>1 DEF Sure
    <2> QED BY <1>s, <1>k, <2>1, <2>2 DEF InUseInv
  <1>5. CASE ProgramRecordFails
    <2>1. pc = "program" /\ pc' = "poll" /\ page' = page
      BY <1>5 DEF ProgramRecordFails, pageVars
    <2>2. \A b \in Geometry : page'[b] = Default
      BY <2>1 DEF IndInv, PageInv, AllDefault, Blocks
    <2> QED BY <1>s, <2>1, <2>2 DEF InUseInv
  <1> QED BY <1>1, <1>2, <1>3, <1>4, <1>5

LEMMA InUseNext == IndInv /\ InUseInv /\ [Next]_vars => InUseInv'
  <1> SUFFICES ASSUME IndInv, InUseInv, [Next]_vars PROVE InUseInv'
    OBVIOUS
  <1>1. CASE Next
    BY <1>1, InUseLoop, InUseSession, InUseLoad, InUseWrite
       DEF Next, PersistPending, Requests, Interrupt
  <1>2. CASE UNCHANGED vars
    BY <1>2 DEF vars, ramVars, pageVars, InUseInv, Sure, Kept
  <1> QED BY <1>1, <1>2

(* A table reported as persisted is the table in use, or lost with the      *)
(* record, over every order of sessions, reloads, failed writes and resets. *)
THEOREM PersistedInUse == Spec => []PersistedIsInUse
  <1>1. IndInv /\ InUseInv => PersistedIsInUse
    BY DEF InUseInv, PersistedIsInUse, Sure, Kept
  <1>2. Spec => []InUseInv
    BY InUseInit, InUseNext, Inductive, PTL DEF Spec
  <1> QED BY <1>1, <1>2, Inductive, PTL
-----------------------------------------------------------------------------
(* The refinement: outside a write the abstract record is the page; during  *)
(* one it is what a successful write would make of the blocks not replaced. *)

recordBar == [b \in Blocks |->
                IF pc \in {"erase", "program"} /\ b \in dirty THEN Default
                ELSE IF pc = "program" THEN image[b] ELSE page[b]]
openBar == IF pc \in {"erase", "program"} THEN dirty ELSE {}

LEMMA RecordInit == Init => Record!Init
  <1> SUFFICES ASSUME Init PROVE recordBar \in [Blocks -> Stored \cup {Empty}] /\ openBar = {}
    BY DEF Record!Init, recordBar, openBar
  <1> QED BY Marks DEF Init, AllDefault, recordBar, openBar

(* What leaves pc outside a write, on both sides, and the page alone, is a  *)
(* stutter of the record.                                                   *)
LEMMA Outside ==
  ASSUME pc \notin {"erase", "program"}, pc' \notin {"erase", "program"}, page' = page
  PROVE  UNCHANGED <<recordBar, openBar>>
  BY DEF recordBar, openBar

(* The steps of a write. *)
LEMMA WriteStep ==
  ASSUME IndInv, \/ ComposeRecord \/ EraseRecord \/ EraseRecordFails
                 \/ ProgramRecord \/ ProgramRecordFails \/ Reset
  PROVE  Record!Next \/ UNCHANGED <<recordBar, openBar>>
  <1> DEFINE Finishes == /\ openBar # {} /\ openBar' = {}
                         /\ recordBar' \in [Blocks -> Stored \cup {Empty}]
                         /\ \A b \in Blocks \ openBar : recordBar'[b] = recordBar[b]
             Loses == openBar # {} /\ openBar' = {} /\ recordBar' = AllDefault(Blocks)
  <1>f. Finishes => Record!Next
    BY DEF Record!Next, Record!Finish, recordBar, openBar
  <1>l. Loses => Record!Next
    BY DEF Record!Next, Record!Lose, Record!Blank, AllDefault, recordBar, openBar
  <1>p. /\ page \in [Blocks -> Stored \cup {Empty}]
        /\ ~page_valid => page = AllDefault(Blocks)
        /\ pc = "erase" => \A b \in Blocks \ dirty : image[b] = page[b]
        /\ pc = "program" => ~page_valid
        /\ pc \in {"erase", "program"} => dirty # {}
    BY DEF IndInv, TypeOK, PageInv, QuietInv
  <1>1. CASE ComposeRecord
    <2>1. /\ openBar = {} /\ dirty # {} /\ openBar' = dirty
          /\ recordBar' = [b \in Blocks |-> IF b \in dirty THEN Default ELSE recordBar[b]]
      BY <1>1 DEF ComposeRecord, openBar, recordBar, ramVars, pageVars
    <2>2. dirty \in SUBSET Blocks
      BY DEF IndInv, TypeOK
    <2> QED BY <2>1, <2>2 DEF Record!Next, Record!Begin, openBar, recordBar
  <1>2. CASE EraseRecord
    BY <1>2, <1>p DEF EraseRecord, recordBar, openBar, ramVars
  <1>3. CASE EraseRecordFails
    <2>1. openBar # {} /\ openBar' = {} /\ recordBar' = [b \in Blocks |-> page'[b]]
      BY <1>3, <1>p DEF EraseRecordFails, recordBar, openBar
    <2>2. CASE UNCHANGED <<page, page_valid>>
      <3>1. Finishes
        BY <1>3, <2>1, <2>2, <1>p DEF EraseRecordFails, recordBar, openBar
      <3> QED BY <3>1, <1>f
    <2>3. CASE page' = AllDefault(Blocks)
      <3>1. Loses
        BY <2>1, <2>3 DEF AllDefault
      <3> QED BY <3>1, <1>l
    <2> QED BY <1>3, <2>2, <2>3 DEF EraseRecordFails
  <1>4. CASE ProgramRecord
    <2>1. image \in [Blocks -> Stored \cup {Empty}]
      BY DEF IndInv, TypeOK
    <2>2. Finishes
      BY <1>4, <1>p, <2>1 DEF ProgramRecord, recordBar, openBar
    <2> QED BY <2>2, <1>f
  <1>5. CASE ProgramRecordFails
    <2>1. openBar # {} /\ openBar' = {} /\ recordBar' = [b \in Blocks |-> page[b]]
      BY <1>5, <1>p DEF ProgramRecordFails, recordBar, openBar, pageVars
    <2>2. Loses
      BY <1>5, <1>p, <2>1 DEF ProgramRecordFails, AllDefault
    <2> QED BY <2>2, <1>l
  <1>6. CASE Reset
    <2>1. pc' = "init" /\ page' = page
      BY <1>6 DEF Reset, pageVars
    <2>2. openBar' = {} /\ recordBar' = [b \in Blocks |-> page[b]]
      BY <2>1 DEF recordBar, openBar
    <2>3. CASE pc = "erase"
      <3>1. Finishes
        BY <2>2, <2>3, <1>p DEF recordBar, openBar
      <3> QED BY <3>1, <1>f
    <2>4. CASE pc = "program"
      <3>1. Loses
        BY <2>2, <2>4, <1>p DEF openBar, AllDefault
      <3> QED BY <3>1, <1>l
    <2>5. CASE pc \notin {"erase", "program"}
      BY <2>1, <2>5, Outside
    <2> QED BY <2>3, <2>4, <2>5
  <1> QED BY <1>1, <1>2, <1>3, <1>4, <1>5, <1>6

(* Every other step is outside a write, a session because none runs there. *)
LEMMA RecordStep == IndInv /\ [Next]_vars => [Record!Next]_(Record!vars)
  <1> SUFFICES ASSUME IndInv, [Next]_vars
               PROVE  Record!Next \/ UNCHANGED <<recordBar, openBar>>
    BY DEF Record!vars, recordBar, openBar
  <1>1. CASE UNCHANGED vars
    BY <1>1 DEF vars, ramVars, pageVars, recordBar, openBar
  <1>2. CASE \/ ComposeRecord \/ EraseRecord \/ EraseRecordFails
             \/ ProgramRecord \/ ProgramRecordFails \/ Reset
    BY <1>2, WriteStep
  <1>3. CASE Initialize \/ StopForPending \/ NothingPending \/ PollDone
    BY <1>3, Outside DEF Initialize, StopForPending, NothingPending, PollDone, pageVars
  <1>4. CASE Requests
    <2>1. /\ pc \in {"poll", "apply", "confErase", "confProgram"}
          /\ pc' \in {"poll", "apply", "confErase", "confProgram"}
          /\ page' = page
      BY <1>4 DEF Requests, StopRequest, StartCalibration, StartCalibrationFails,
         EditCompensation, SetConfiguration, RestoreDefaults, LoadConfiguration,
         ApplyConfiguration, SaveConfiguration, EraseConfiguration, ProgramConfiguration,
         SaveConfigurationFails, pageVars
    <2> QED BY <2>1, Outside
  <1>5. CASE Interrupt
    <2>1. session # "none" /\ pc' = pc /\ page' = page
      BY <1>5 DEF Interrupt, SessionFails, SessionDone, pageVars
    <2>2. pc \notin {"erase", "program"}
      BY <2>1 DEF IndInv, QuietInv
    <2> QED BY <2>1, <2>2, Outside
  <1> QED BY <1>1, <1>2, <1>3, <1>4, <1>5 DEF Next, PersistPending

(* The calibration page implements DurableRecord: a write replaces the      *)
(* blocks that were dirty and brings every other block back.                *)
THEOREM Refinement == Spec => ImplementsDurableRecord
  BY RecordInit, RecordStep, Inductive, PTL DEF Spec, ImplementsDurableRecord, Record!Spec
=============================================================================
