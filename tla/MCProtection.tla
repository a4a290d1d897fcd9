------------------------------ MODULE MCProtection ------------------------------
(* A small monitor: a rating whose trip level one current passes, one above  *)
(* the rating but under the level, and a higher rating to change to.         *)
EXTENDS Protection

Readings == {0, 6, 8}
TwoRatings == {5, 7}
=============================================================================
