------------------------------ MODULE MCBootloader ------------------------------
(* A small instance of Bootloader: a page of the bootloader, and one of the  *)
(* application with two double words of two cells.                           *)
EXTENDS Bootloader

BootPage     == "b0"
TwoPages     == {BootPage, "a0"}
BootPages    == {BootPage}
TwoOffsets   == {0, 1}
TwoCells     == {0, 1}
OneValue     == {"x"}
FirstWord    == <<"a0", 0>>
EntryVectors == {[c \in TwoCells |-> "x"]}

At(w, c, v) == [word |-> w, cell |-> c, value |-> v]

(* Single bytes, whole words, and words whose second byte is none. *)
SmallLines ==
  {<<At(<<p, o>>, c, v)>> : p \in TwoPages, o \in TwoOffsets, c \in TwoCells, v \in {"x", Blank}}
    \cup {<<At(<<"a0", o>>, 0, "x"), At(<<"a0", o>>, 1, v)>> : o \in TwoOffsets, v \in {"x", Junk}}

(* Lines of one byte and of two, and room for one of either. *)
ShortLines == [l \in Lined |-> IF l = "OK" THEN 1 ELSE 2]

(* The bootloader is there; the application is there, or its pages are blank. *)
Delivered ==
  {[w \in TwoPages \X TwoOffsets |->
      [c \in TwoCells |-> IF w[1] = BootPage \/ app THEN "x" ELSE Blank]] : app \in BOOLEAN}
=============================================================================
