--------------------------------- MODULE GapFill ---------------------------------
(***************************************************************************)
(* The end of CoggingCal::Finish: bins with too few samples take the value *)
(* of a neighbour.  Four passes over the array, in place: a bin filled in  *)
(* a pass is a neighbour for the next bin of the same pass.                *)
(***************************************************************************)
EXTENDS Naturals, FiniteSets, Functions

CONSTANTS
  FillBins,         \* kCoggingTableSize
  FillPasses        \* the four passes

ASSUME GapFillAssumption == FillBins \in Nat \ {0} /\ FillPasses \in Nat \ {0}

VARIABLES
  f_state, pass,
  bin,              \* the bin the pass is at
  value             \* whose measurement a bin holds; itself if it was covered

gapFillVars == <<f_state, pass, bin, value>>

FillRange == 0..FillBins - 1
Empty == FillBins
LeftOf(b) == (b + FillBins - 1) % FillBins
RightOf(b) == (b + 1) % FillBins

GapFillTypeOK ==
  /\ f_state \in {"Filling", "Done", "Failed"}
  /\ pass \in 0..FillPasses /\ bin \in FillRange
  /\ value \in [FillRange -> FillRange \cup {Empty}]

(* Every set of bins that passed the test of CoggingFinish. *)
GapFillInit ==
  /\ f_state = "Filling" /\ pass = 0 /\ bin = 0
  /\ \E covered \in SUBSET FillRange :
       /\ 4 * Cardinality(covered) >= 3 * FillBins
       /\ value = [b \in FillRange |-> IF b \in covered THEN b ELSE Empty]

(* Mutant: the neighbour of the first bin is itself. *)
FillBin_NoWrap ==
  LET left  == IF bin = 0 THEN 0 ELSE bin - 1
      right == IF bin = FillBins - 1 THEN bin ELSE bin + 1
  IN value' = [value EXCEPT ![bin] =
       IF @ # Empty THEN @ ELSE IF value[left] # Empty THEN value[left] ELSE value[right]]

(* The left neighbour comes first. *)
FillBin ==
  value' = [value EXCEPT ![bin] =
    IF @ # Empty THEN @
    ELSE IF value[LeftOf(bin)] # Empty THEN value[LeftOf(bin)] ELSE value[RightOf(bin)]]

(* The passes end early when no bin is empty.                               *)
NextBin ==
  IF bin + 1 < FillBins THEN bin' = bin + 1 /\ UNCHANGED <<pass, f_state>>
  ELSE /\ bin' = 0 /\ pass' = pass + 1
       /\ f_state' = IF \A b \in FillRange : value'[b] # Empty THEN "Done"
                     ELSE IF pass + 1 < FillPasses THEN "Filling" ELSE "Failed"

FillStep == f_state = "Filling" /\ FillBin /\ NextBin

-----------------------------------------------------------------------------
(* Three quarters of the bins are enough: the filling never fails, wherever *)
(* the gaps are, around the end of the array too, and two of the four       *)
(* passes do.                                                               *)
GapsAreFilled == f_state # "Failed" /\ pass <= 2
=============================================================================
