-------------------------------- MODULE MCUpdate --------------------------------
(* A small instance of Update: pages of five double words of two cells, an   *)
(* old image and a new one that ends within its second page.  The first page *)
(* is written in blocks of one double word, as many as two restarts hide and *)
(* one more; the second in blocks of two, the last one shorter.              *)
EXTENDS Update

BootPage     == "b0"
ThreePages   == {BootPage, "a0", "a1"}
BootPages    == {BootPage}
Image        == <<"a0", "a1">>
FiveOffsets  == 0..4
TwoCells     == {0, 1}
OldAndNew    == {"old", "new"}
FirstWord    == <<"a0", 0>>
GoodEntries  == {[c \in TwoCells |-> v] : v \in OldAndNew}

OldFlash ==
  {[w \in ThreePages \X FiveOffsets |-> [c \in TwoCells |-> "old"]],
   [w \in ThreePages \X FiveOffsets |->
      [c \in TwoCells |-> IF w[1] = BootPage THEN "old" ELSE Blank]]}
NewWords == {<<"a0", o>> : o \in FiveOffsets} \cup {<<"a1", o>> : o \in 0..2}
NewImage == [w \in NewWords |-> [c \in TwoCells |-> "new"]]

New(p, o)  == [c \in 1..2 |-> [word |-> <<p, o>>, cell |-> c - 1, value |-> "new"]]
WordBlocks == <<[k \in 1..5 |-> New("a0", k - 1)],
                <<New("a1", 0) \o New("a1", 1), New("a1", 2)>> >>
WordLines  == UNION {{WordBlocks[i][k] : k \in DOMAIN WordBlocks[i]} : i \in 1..2}

(* The lines as they are: the banner has the date and the time of the build, *)
(* "data" an address and 32 bytes, and "ERR" is that of a program.           *)
LineSizes ==
  [l \in Lined |-> CASE l = Banner                -> 54
                     [] l = "ERR flash is locked" -> 21
                     [] l = "ERR"                 -> 28
                     [] l = "OK"                  -> 4
                     [] l = "data"                -> 75]

(* What the theorem on the pages takes for granted.                          *)
ASSUME TidyAssumption == ImageIsTidy
=============================================================================
