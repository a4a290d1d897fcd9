------------------------------ MODULE DurableRecord ------------------------------
(***************************************************************************)
(* What the calibration page of the flash promises, with no flash in it: a *)
(* record with one value per block.  A write names the blocks it replaces  *)
(* before it starts, and every other block comes out of it as it went in.  *)
(* The one way to lose a block it did not name is to lose the record as a  *)
(* whole, by a failure or a power cut in the middle of the write.          *)
(***************************************************************************)
CONSTANTS
  Blocks,   \* the blocks of a record
  Values,   \* what a block may hold
  Absent    \* what a block holds that was never written

VARIABLES
  record,   \* the value of each block
  open      \* the blocks being replaced; {} when no write is under way

vars == <<record, open>>

Blank == [b \in Blocks |-> Absent]

TypeOK == record \in [Blocks -> Values] /\ open \subseteq Blocks

Init == record \in [Blocks -> Values] /\ open = {}

Begin(S) ==
  /\ open = {} /\ S # {}
  /\ open' = S
  /\ record' = [b \in Blocks |-> IF b \in S THEN Absent ELSE record[b]]

Finish ==
  /\ open # {}
  /\ open' = {}
  /\ record' \in [Blocks -> Values]
  /\ \A b \in Blocks \ open : record'[b] = record[b]

Lose ==
  /\ open # {}
  /\ open' = {}
  /\ record' = Blank

Next == Finish \/ Lose \/ \E S \in SUBSET Blocks : Begin(S)

Spec == Init /\ [][Next]_vars
=============================================================================
