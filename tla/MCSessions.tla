-------------------------------- MODULE MCSessions --------------------------------
(* A small instance of Sessions: a handful of ticks for every wait, tables   *)
(* of a few bins, and the requests on either side of the clamps.             *)
EXTENDS Sessions

PointChoices == {2, 9}
TrialChoices == {2, 9}

(* What SignIsRight, SpinCoversBins and GapsGetFilled of SessionsProofs ask. *)
ASSUME HypothesesHold == SwingIsSmall /\ FillPasses >= 2
=============================================================================
