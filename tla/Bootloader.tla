------------------------------- MODULE Bootloader -------------------------------
(***************************************************************************)
(* The CAN bootloader: BootOrchestrator decides between the application    *)
(* and the command server, BL_CommandServer executes one line at a time,   *)
(* BL_FlashWriter gathers bytes into double words and erases a page ahead  *)
(* of the first word it programs in it.  The power may go at any step.     *)
(*                                                                         *)
(* A cell stands for a byte; an address is a double word and a cell of it. *)
(* Blank is what an erased cell reads, and may also be written.            *)
(***************************************************************************)
EXTENDS Naturals, Sequences

CONSTANTS
  Pages,        \* the erase pages of the flash
  Offsets,      \* the double words of a page
  Cells,        \* the cells of a double word
  Values,       \* what a cell may be written with, besides Blank
  Protected,    \* the pages of the bootloader, below kAppStart
  Vectors,      \* the double word at kAppStart: stack pointer and entry
  GoodVectors,  \* the contents of it that JumpToApp accepts
  Lines,        \* the data of the w commands: sequences of bytes with addresses
  Shipped,      \* what the flash may hold at first
  FlashFails,   \* whether an erase or a program may fail
  Size,         \* the bytes of a line of the response, its line end included
  Frame,        \* the bytes of the response that fit a frame: kMaxCanPayload
  Capacity      \* the bytes that fit the response buffer

Blank == "ff"
None  == "none"
Junk  == "??"   \* what is written for a byte and is none
NoWord == << >>
Words == Pages \X Offsets
Bytes == Values \cup {Blank}
Contents == [Cells -> Bytes]
BlankWord == [c \in Cells |-> Blank]

ASSUME VectorsAssumption == Vectors \in Words /\ BlankWord \notin GoodVectors
ASSUME ValuesAssumption == None \notin Bytes /\ Junk \notin Bytes
ASSUME LinesAssumption ==
  Lines \subseteq Seq([word : Words, cell : Cells, value : Bytes \cup {Junk}])
ASSUME ShippedAssumption == Shipped \subseteq [Words -> Contents]
ASSUME FailsAssumption == FlashFails \in BOOLEAN

(* What the server answers; "ERR" is any error but that of a locked flash.  *)
Banner  == "multiplex bootloader protocol 1"
Errors  == {"ERR flash is locked", "ERR"}
Replies == Errors \cup {"OK", "data"}
Lined   == Replies \cup {Banner}

ASSUME SizeAssumption ==
  /\ Size \in [Lined -> Nat \ {0}]
  /\ Frame \in Nat \ {0} /\ Capacity \in Nat

(* The bytes of a line: each is known by its place in it.                   *)
Text(line) == [i \in 1..Size[line] |-> <<line, i>>]
Octets == Lined \X (Nat \ {0})

VARIABLES
  boot,         \* BootState: what runs
  magic,        \* the request word at kBootMagicAddr
  flash,        \* the contents of every double word
  locked,       \* locked_, and flash_state_, which goes with it
  erased,       \* sectors_erased_
  shadow_start, shadow, shadow_bits,  \* the double word being gathered
  step,         \* where the server is: at a line, a byte, an erase, a program
  after,        \* what the flush under way was called from
  todo,         \* the bytes of the w line that are still to be written
  response,     \* the bytes the host has not polled yet
  taken         \* ghost: the last byte taken for each address since the unlock

shadowVars == <<shadow_start, shadow, shadow_bits>>
lineVars == <<step, after, todo>>
vars == <<boot, magic, flash, locked, erased, shadowVars, lineVars, response, taken>>

NothingTaken == [w \in Words |-> [c \in Cells |-> None]]

TypeOK ==
  /\ boot \in {"decide", "jump", "app", "serve"}
  /\ magic \in BOOLEAN
  /\ flash \in [Words -> Contents]
  /\ locked \in BOOLEAN
  /\ erased \subseteq Pages
  /\ shadow_start \in Words \cup {NoWord}
  /\ shadow \in Contents
  /\ shadow_bits \subseteq Cells
  /\ step \in {"line", "byte", "erase", "program"}
  /\ after \in {"byte", "full", "lock", "reset"}
  /\ todo \in Seq([word : Words, cell : Cells, value : Bytes \cup {Junk}])
  /\ response \in Seq(Octets) /\ Len(response) <= Capacity
  /\ taken \in [Words -> [Cells -> Bytes \cup {None}]]

Init ==
  /\ boot = "decide" /\ magic = FALSE
  /\ flash \in Shipped
  /\ locked = TRUE /\ erased = {}
  /\ shadow_start = NoWord /\ shadow = BlankWord /\ shadow_bits = {}
  /\ step = "line" /\ after = "byte" /\ todo = << >>
  /\ response = << >>
  /\ taken = NothingTaken

-----------------------------------------------------------------------------
(* Pieces.                                                                  *)

(* A reset: the RAM goes with it, the request word may stay. *)
Restart(request) ==
  /\ boot' = "decide" /\ magic' = request
  /\ locked' = TRUE /\ erased' = {}
  /\ shadow_start' = NoWord /\ shadow' = BlankWord /\ shadow_bits' = {}
  /\ step' = "line" /\ after' = "byte" /\ todo' = << >>
  /\ response' = << >>
  /\ taken' = NothingTaken

(* A line of the response; one that does not fit the buffer is dropped. *)
Reply(line) ==
  response' = IF Len(response) + Size[line] <= Capacity THEN response \o Text(line)
              ELSE response

(* The line is done: the server waits for the next frame. *)
FinishLine(line) == step' = "line" /\ todo' = << >> /\ after' = after /\ Reply(line)

ClearShadow == shadow_start' = NoWord /\ shadow' = BlankWord /\ shadow_bits' = {}

(* FlushWord is called: erase first, where the page was not erased yet. *)
CallFlush(from) == step' = "erase" /\ after' = from

-----------------------------------------------------------------------------
(* BootOrchestrator.                                                        *)

Decide ==
  /\ boot = "decide"
  /\ IF magic THEN boot' = "serve" /\ Reply(Banner) ELSE boot' = "jump" /\ UNCHANGED response
  /\ magic' = FALSE
  /\ UNCHANGED <<flash, locked, erased, shadowVars, lineVars, taken>>

JumpToApp ==
  /\ boot = "jump"
  /\ IF flash[Vectors] \in GoodVectors THEN boot' = "app" /\ UNCHANGED response
     ELSE boot' = "serve" /\ Reply(Banner)
  /\ UNCHANGED <<magic, flash, locked, erased, shadowVars, lineVars, taken>>

(* The application asks for the bootloader. *)
EnterBootloader ==
  /\ boot = "app"
  /\ Restart(TRUE)
  /\ UNCHANGED flash

(* A power cut: the request word is lost too, and an erase or a program     *)
(* under way has taken place or not.                                        *)
PowerLoss ==
  /\ Restart(FALSE)
  /\ \/ flash' = flash
     \/ /\ step = "erase" /\ shadow_start[1] \notin erased
        /\ flash' = [w \in Words |-> IF w[1] = shadow_start[1] THEN BlankWord ELSE flash[w]]
     \/ /\ step = "program" /\ flash[shadow_start] = BlankWord
        /\ flash' = [flash EXCEPT ![shadow_start] = shadow]

-----------------------------------------------------------------------------
(* BL_CommandServer: lines.                                                 *)

AtLine == boot = "serve" /\ step = "line"

RunUnlock ==
  /\ AtLine
  /\ locked' = FALSE
  /\ erased' = {}
  /\ ClearShadow
  /\ taken' = NothingTaken
  /\ FinishLine("OK")
  /\ UNCHANGED <<boot, magic, flash>>

RunLock ==
  /\ AtLine
  /\ IF ~locked /\ shadow_bits # {}
     THEN CallFlush("lock") /\ UNCHANGED <<locked, todo, response>>
     ELSE locked' = TRUE /\ FinishLine("OK")
  /\ UNCHANGED <<boot, magic, flash, erased, shadowVars, taken>>

RunReset ==
  /\ AtLine
  /\ IF ~locked /\ shadow_bits # {}
     THEN /\ CallFlush("reset")
          /\ UNCHANGED <<boot, magic, locked, erased, shadowVars, todo, response, taken>>
     ELSE Restart(FALSE)
  /\ UNCHANGED flash

RunWrite(data) ==
  /\ AtLine
  /\ step' = "byte" /\ todo' = data
  /\ UNCHANGED <<boot, magic, flash, locked, erased, shadowVars, after, response, taken>>

(* r, echo, and what is not a command. *)
RunOther(line) ==
  /\ AtLine
  /\ FinishLine(line)
  /\ UNCHANGED <<boot, magic, flash, locked, erased, shadowVars, taken>>

(* A poll for n bytes takes them off the front, whether a line ends there   *)
(* or not; so does one whose answer gets lost.                              *)
WriteResponse(n) ==
  /\ AtLine
  /\ response' = SubSeq(response, n + 1, Len(response))
  /\ UNCHANGED <<boot, magic, flash, locked, erased, shadowVars, lineVars, taken>>

-----------------------------------------------------------------------------
(* BL_CommandServer::WriteFlash, and BL_FlashWriter.                        *)

Writable(b) == b.value # Junk /\ ~locked /\ b.word[1] \notin Protected

(* The byte is refused, or is not a byte: the rest of the line is dropped.  *)
RefuseByte ==
  /\ step = "byte" /\ todo # << >>
  /\ ~Writable(Head(todo))
  /\ FinishLine(IF locked /\ Head(todo).value # Junk THEN "ERR flash is locked" ELSE "ERR")
  /\ UNCHANGED <<boot, magic, flash, locked, erased, shadowVars, taken>>

(* The double word of the byte replaces another one, which is flushed.      *)
FlushOther ==
  /\ step = "byte" /\ todo # << >>
  /\ Writable(Head(todo))
  /\ shadow_start \notin {NoWord, Head(todo).word}
  /\ CallFlush("byte")
  /\ UNCHANGED <<boot, magic, flash, locked, erased, shadowVars, todo, response, taken>>

(* Mutant: the region of the bootloader is not looked at. *)
TakeByte_Anywhere ==
  /\ step = "byte" /\ todo # << >>
  /\ LET b == Head(todo) IN
     /\ b.value # Junk /\ ~locked
     /\ shadow_start \in {NoWord, b.word}
     /\ shadow_start' = b.word
     /\ shadow' = [shadow EXCEPT ![b.cell] = b.value]
     /\ shadow_bits' = shadow_bits \cup {b.cell}
     /\ taken' = [taken EXCEPT ![b.word][b.cell] = b.value]
     /\ IF shadow_bits' = Cells THEN CallFlush("full") ELSE UNCHANGED <<step, after>>
  /\ todo' = Tail(todo)
  /\ UNCHANGED <<boot, magic, flash, locked, erased, response>>

TakeByte ==
  /\ step = "byte" /\ todo # << >>
  /\ LET b == Head(todo) IN
     /\ Writable(b)
     /\ shadow_start \in {NoWord, b.word}
     /\ shadow_start' = b.word
     /\ shadow' = [shadow EXCEPT ![b.cell] = b.value]
     /\ shadow_bits' = shadow_bits \cup {b.cell}
     /\ taken' = [taken EXCEPT ![b.word][b.cell] = b.value]
     /\ IF shadow_bits' = Cells THEN CallFlush("full") ELSE UNCHANGED <<step, after>>
  /\ todo' = Tail(todo)
  /\ UNCHANGED <<boot, magic, flash, locked, erased, response>>

WriteDone ==
  /\ step = "byte" /\ todo = << >>
  /\ FinishLine("OK")
  /\ UNCHANGED <<boot, magic, flash, locked, erased, shadowVars, taken>>

(* Mutant: the page is erased for every word. *)
EraseSector_EveryTime ==
  /\ step = "erase" /\ step' = "program"
  /\ flash' = [w \in Words |-> IF w[1] = shadow_start[1] THEN BlankWord ELSE flash[w]]
  /\ erased' = erased \cup {shadow_start[1]}
  /\ UNCHANGED <<boot, magic, locked, shadowVars, after, todo, response, taken>>

(* MaybeEraseSector: a page is erased once in a session. *)
EraseSector ==
  /\ step = "erase" /\ step' = "program"
  /\ flash' = IF shadow_start[1] \in erased THEN flash
              ELSE [w \in Words |-> IF w[1] = shadow_start[1] THEN BlankWord ELSE flash[w]]
  /\ erased' = erased \cup {shadow_start[1]}
  /\ UNCHANGED <<boot, magic, locked, shadowVars, after, todo, response, taken>>

EraseFails ==
  /\ FlashFails
  /\ step = "erase" /\ shadow_start[1] \notin erased
  /\ flash' \in {flash, [w \in Words |-> IF w[1] = shadow_start[1] THEN BlankWord
                                          ELSE flash[w]]}
  /\ FinishLine("ERR")
  /\ UNCHANGED <<boot, magic, locked, erased, shadowVars, taken>>

(* A word that is there already is not programmed again. *)
ProgramWord ==
  /\ step = "program"
  /\ flash[shadow_start] \in {shadow, BlankWord}
  /\ flash' = [flash EXCEPT ![shadow_start] = shadow]
  /\ CASE after \in {"byte", "full"} ->
            /\ step' = "byte" /\ ClearShadow
            /\ UNCHANGED <<boot, magic, locked, erased, after, todo, response, taken>>
       [] after = "lock" ->
            /\ locked' = TRUE /\ ClearShadow /\ FinishLine("OK")
            /\ UNCHANGED <<boot, magic, erased, taken>>
       [] after = "reset" -> Restart(FALSE)

(* The flash refuses a word that is not blank, or fails: the shadow stays,  *)
(* and every later flush fails as well, until the next unlock.              *)
ProgramFails ==
  /\ step = "program"
  /\ flash[shadow_start] # shadow
  /\ \/ flash' = flash /\ (flash[shadow_start] # BlankWord \/ FlashFails)
     \/ /\ FlashFails /\ flash[shadow_start] = BlankWord
        /\ flash' = [flash EXCEPT ![shadow_start] = shadow]
  /\ FinishLine("ERR")
  /\ UNCHANGED <<boot, magic, locked, erased, shadowVars, taken>>

Orchestrator == Decide \/ JumpToApp

Flushing == EraseSector \/ EraseFails \/ ProgramWord \/ ProgramFails

ServerStep == RefuseByte \/ FlushOther \/ TakeByte \/ WriteDone \/ Flushing

Next ==
  \/ Orchestrator \/ EnterBootloader \/ PowerLoss
  \/ RunUnlock \/ RunLock \/ RunReset
  \/ \E n \in 1..Frame : WriteResponse(n)
  \/ \E data \in Lines : RunWrite(data)
  \/ \E line \in Replies : RunOther(line)
  \/ ServerStep

Spec == Init /\ [][Next]_vars

-----------------------------------------------------------------------------
(* Properties.                                                              *)

(* A lock that was answered OK means that every byte taken since the unlock *)
(* is in the flash, whatever the order and the shape of the writes, however *)
(* often one was repeated, and whatever failed in between.                  *)
LockedIsWritten ==
  locked => \A w \in Words, c \in Cells :
              taken[w][c] # None => flash[w][c] = taken[w][c]

(* The flash changes only in pages the host has written to since it was     *)
(* unlocked, and never in the bootloader's own.                             *)
OnlyWrittenPagesChange ==
  [][\A w \in Words : flash'[w] # flash[w] =>
       /\ w[1] \notin Protected
       /\ ~locked
       /\ \E o \in Offsets, c \in Cells : taken[<<w[1], o>>][c] # None]_vars

(* What makes the first one inductive: a byte is in the shadow or, in a     *)
(* page erased since the unlock, in the flash.                              *)
Kept ==
  \A w \in Words, c \in Cells : taken[w][c] # None =>
    \/ w = shadow_start /\ c \in shadow_bits /\ shadow[c] = taken[w][c]
    \/ (w = shadow_start => c \notin shadow_bits)
         /\ w[1] \in erased /\ flash[w][c] = taken[w][c]

ShadowInv ==
  /\ shadow_start = NoWord <=> shadow_bits = {}
  /\ \A c \in Cells \ shadow_bits : shadow[c] = Blank
  /\ \A c \in shadow_bits : taken[shadow_start][c] = shadow[c]
  /\ locked => shadow_bits = {}
  /\ shadow_start # NoWord => shadow_start[1] \notin Protected

StepInv ==
  /\ step \in {"erase", "program"} => shadow_bits # {} /\ ~locked
  /\ step = "program" => shadow_start[1] \in erased
  /\ step # "line" => boot = "serve"

IndInv == TypeOK /\ Kept /\ ShadowInv /\ StepInv
=============================================================================
