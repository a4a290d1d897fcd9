---------------------------------- MODULE MCLink ----------------------------------
(* A small instance of Link: a table of two chunks, a burst of three frames. *)
EXTENDS Link
=============================================================================
