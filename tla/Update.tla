---------------------------------- MODULE Update ----------------------------------
(***************************************************************************)
(* An update of the application over CAN: tools/bootload_test.py on one    *)
(* side, Bootloader on the other, a bus between them that loses frames     *)
(* and a supply that sags.                                                 *)
(*                                                                         *)
(* The tool sends a command, polls until the end of a line comes back, and *)
(* goes on or tries again.  A poll brings what fits a frame: what is left  *)
(* stays in front of the next answer.  The tool gives a command up when no *)
(* answer can come any more: it polls for seconds, and the device answers  *)
(* within milliseconds.                                                    *)
(***************************************************************************)
EXTENDS Bootloader

CONSTANTS
  AppPages,       \* the pages of the image, in the order they are written
  Blocks,         \* for each of them, the data of its w commands
  Target,         \* the contents of each double word of the image
  PageAttempts,   \* PAGE_WRITE_ATTEMPTS
  VerifyAttempts, \* VERIFY_ATTEMPTS
  PowerCuts       \* bound: how often the power may go

(* The tool refuses an empty image, and a page of it is never empty. *)
ASSUME ImageAssumption ==
  /\ AppPages \in Seq(Pages \ Protected) \ {<< >>}
  /\ DOMAIN Blocks = DOMAIN AppPages
  /\ \A i \in DOMAIN AppPages : Blocks[i] \in Seq(Lines) \ {<< >>}
  /\ DOMAIN Target \subseteq Words
ASSUME BoundsAssumption ==
  /\ PageAttempts \in Nat \ {0} /\ VerifyAttempts \in Nat \ {0}
  /\ PowerCuts \in Nat
(* A frame takes the banner with the OK of an unlock behind it, every error, *)
(* and two of a locked flash.                                               *)
ASSUME FrameAssumption ==
  /\ Size[Banner] + Size["OK"] <= Frame
  /\ \A e \in Errors : Size[e] <= Frame
  /\ 2 * Size["ERR flash is locked"] <= Frame

Covers(line, w) == \E j \in DOMAIN line : line[j].word = w

(* A line of whole double words: the bytes of one are all there, each once, *)
(* one after the other.                                                     *)
WholeWords(line) ==
  /\ line # << >>
  /\ \A i \in DOMAIN line, c \in Cells :
       \E j \in DOMAIN line : line[j].word = line[i].word /\ line[j].cell = c
  /\ \A i, j \in DOMAIN line : line[i].word = line[j].word =>
       /\ line[i].cell = line[j].cell => i = j
       /\ \A k \in i..j : line[k].word = line[i].word

(* How flash() cuts an image up: page after page, in blocks of 8 or 24      *)
(* bytes, the last double word filled up.  The first block has the vectors, *)
(* and those of an application that boots.                                  *)
ImageIsTidy ==
  /\ \A i, j \in DOMAIN AppPages : AppPages[i] = AppPages[j] => i = j
  /\ Target \in [DOMAIN Target -> Contents]
  /\ \A i \in DOMAIN AppPages : \A k \in DOMAIN Blocks[i] :
       /\ WholeWords(Blocks[i][k])
       /\ \A j \in DOMAIN Blocks[i][k] :
            LET b == Blocks[i][k][j]
            IN  /\ b.word[1] = AppPages[i] /\ b.word \in DOMAIN Target
                /\ b.value = Target[b.word][b.cell]
  /\ \A i \in DOMAIN AppPages, w \in DOMAIN Target :
       w[1] = AppPages[i] => \E k \in DOMAIN Blocks[i] : Covers(Blocks[i][k], w)
  /\ Vectors[1] = AppPages[1] /\ Covers(Blocks[1][1], Vectors)
  /\ Target[Vectors] \in GoodVectors

VARIABLES
  host,         \* what the tool is doing
  waiting,      \* its command was sent, and it polls for the answer
  page, block,  \* what it writes
  attempt,      \* of this page, or of this verification
  heard,        \* result: what the polls for this answer brought so far
  checked,      \* the double words it has read back
  cuts          \* the power cuts so far

hostVars == <<host, waiting, page, block, attempt, heard, checked>>
updateVars == <<vars, hostVars, cuts>>

Stages == {"enter", "unlock", "write", "recover", "reopen", "lock", "verify",
           "reset", "done", "failed"}

UpdateTypeOK ==
  /\ host \in Stages
  /\ waiting \in BOOLEAN
  /\ page \in DOMAIN AppPages
  /\ block \in DOMAIN Blocks[page]
  /\ attempt \in 1..PageAttempts \/ (host \in {"verify", "failed"} /\ attempt \in 1..VerifyAttempts)
  /\ heard \in Seq(Octets)
  /\ checked \subseteq DOMAIN Target
  /\ cuts \in 0..PowerCuts

UpdateInit ==
  /\ Init
  /\ host = "enter" /\ waiting = FALSE
  /\ page = 1 /\ block = 1 /\ attempt = 1
  /\ heard = << >> /\ checked = {}
  /\ cuts = 0

Holds(i) == \A w \in DOMAIN Target : w[1] = AppPages[i] => flash[w] = Target[w]

-----------------------------------------------------------------------------
(* The device, and what happens to it.                                      *)

DeviceStep == (Orchestrator \/ ServerStep) /\ UNCHANGED <<hostVars, cuts>>

PowerCut ==
  /\ cuts < PowerCuts /\ cuts' = cuts + 1
  /\ PowerLoss
  /\ UNCHANGED hostVars

(* An application that works takes the BOOT frame; half of one may not.     *)
AppEntersBoot ==
  /\ host \in {"enter", "recover"}
  /\ EnterBootloader
  /\ UNCHANGED <<hostVars, cuts>>

-----------------------------------------------------------------------------
(* The tool.                                                                *)

(* drain_banner: what was left in the response is thrown away. *)
DrainBanner ==
  /\ host \in {"enter", "recover"} /\ response # << >>
  /\ WriteResponse(Frame)
  /\ UNCHANGED <<hostVars, cuts>>

(* A poll brings nothing more, and the echo comes back. *)
Connect ==
  /\ host \in {"enter", "recover"} /\ AtLine /\ response = << >>
  /\ host' = IF host = "enter" THEN "unlock" ELSE "reopen"
  /\ UNCHANGED <<vars, waiting, page, block, attempt, heard, checked, cuts>>

(* No bootloader answers, again and again. *)
ConnectFails ==
  /\ host \in {"enter", "recover"} /\ boot # "serve"
  /\ host' = "failed"
  /\ UNCHANGED <<vars, waiting, page, block, attempt, heard, checked, cuts>>

Command ==
  CASE host \in {"unlock", "reopen"} -> RunUnlock
    [] host = "write"                -> RunWrite(Blocks[page][block])
    [] host = "lock"                 -> RunLock
    [] host = "verify"               -> RunOther("data")
    [] OTHER                         -> FALSE

Send ==
  /\ host \in {"unlock", "reopen", "write", "lock", "verify"}
  /\ ~waiting /\ waiting' = TRUE
  /\ Command
  /\ UNCHANGED <<host, page, block, attempt, heard, checked, cuts>>

(* The frame does not reach the server. *)
SendIsLost ==
  /\ host \in {"unlock", "reopen", "write", "lock", "verify"}
  /\ ~waiting /\ waiting' = TRUE
  /\ UNCHANGED <<vars, host, page, block, attempt, heard, checked, cuts>>

(* The bytes are taken from the buffer and lost on the way. *)
AnswerIsLost ==
  /\ waiting /\ response # << >>
  /\ WriteResponse(Frame)
  /\ UNCHANGED <<hostVars, cuts>>

(* What a poll brings, and what the tool has of its answer then.            *)
Chunk == SubSeq(response, 1, IF Len(response) < Frame THEN Len(response) ELSE Frame)
Heard == heard \o Chunk
HasLine(bytes) == \E j \in DOMAIN bytes : bytes[j][2] = Size[bytes[j][1]]

(* What is left of a line end may come first, and is stripped.              *)
OnlyLineEnd(bytes, n) == \A i \in 1..n : bytes[i][2] >= Size[bytes[i][1]] - 1
IsError(bytes) ==
  \E j \in DOMAIN bytes :
    OnlyLineEnd(bytes, j - 1) /\ bytes[j] \in {<<e, 1>> : e \in Errors}
IsData(bytes) ==
  \E j \in DOMAIN bytes :
    OnlyLineEnd(bytes, j - 1) /\ SubSeq(bytes, j, Len(bytes)) = Text("data")

(* The line goes on: so does the polling. *)
PartHeard ==
  /\ waiting /\ response # << >>
  /\ WriteResponse(Frame)
  /\ ~HasLine(Heard)
  /\ heard' = Heard
  /\ UNCHANGED <<host, waiting, page, block, attempt, checked, cuts>>

Answered ==
  /\ waiting /\ response # << >>
  /\ WriteResponse(Frame)
  /\ HasLine(Heard)
  /\ waiting' = FALSE /\ heard' = << >>

(* Whatever does not begin as an error is taken for the OK: a banner, and   *)
(* the rest of an error too.                                                *)
Accepted == Answered /\ ~IsError(Heard)

GivesUp ==
  /\ waiting
  /\ boot # "serve" \/ (AtLine /\ response = << >>)
  /\ waiting' = FALSE /\ heard' = << >>
  /\ UNCHANGED vars

Refused == (Answered /\ IsError(Heard)) \/ GivesUp

(* Mutant: after the recovery the page goes on with the block that failed. *)
Unlocked_SameBlock ==
  /\ host \in {"unlock", "reopen"}
  /\ Accepted
  /\ host' = "write"
  /\ UNCHANGED <<page, block, attempt, checked, cuts>>

Unlocked ==
  /\ host \in {"unlock", "reopen"}
  /\ Accepted
  /\ host' = "write" /\ block' = 1
  /\ UNCHANGED <<page, attempt, checked, cuts>>

NotUnlocked ==
  /\ host \in {"unlock", "reopen"}
  /\ Refused
  /\ host' = IF host = "unlock" THEN "failed" ELSE "recover"
  /\ UNCHANGED <<page, block, attempt, checked, cuts>>

BlockWritten ==
  /\ host = "write"
  /\ Accepted
  /\ IF block < Len(Blocks[page]) THEN block' = block + 1 /\ UNCHANGED <<host, page, attempt>>
     ELSE IF page < Len(AppPages)
     THEN page' = page + 1 /\ block' = 1 /\ attempt' = 1 /\ UNCHANGED host
     ELSE host' = "lock" /\ UNCHANGED <<page, block, attempt>>
  /\ UNCHANGED <<checked, cuts>>

(* The whole page is written again, after a recovery. *)
BlockNotWritten ==
  /\ host = "write"
  /\ Refused
  /\ IF attempt < PageAttempts THEN host' = "recover" /\ attempt' = attempt + 1
     ELSE host' = "failed" /\ UNCHANGED attempt
  /\ UNCHANGED <<page, block, checked, cuts>>

FlashLocked ==
  /\ host = "lock"
  /\ Accepted
  /\ host' = "verify" /\ attempt' = 1
  /\ UNCHANGED <<page, block, checked, cuts>>

FlashNotLocked ==
  /\ host = "lock"
  /\ Refused
  /\ host' = "failed"
  /\ UNCHANGED <<page, block, attempt, checked, cuts>>

(* Mutant: the lines that come back are counted, not compared. *)
WordVerified_Trusted(w) ==
  /\ host = "verify" /\ w \notin checked
  /\ Accepted
  /\ checked' = checked \cup {w} /\ attempt' = 1
  /\ host' = IF checked' = DOMAIN Target THEN "reset" ELSE host
  /\ UNCHANGED <<page, block, cuts>>

(* One line with the address asked for and the data expected. *)
WordVerified(w) ==
  /\ host = "verify" /\ w \notin checked
  /\ Answered /\ IsData(Heard) /\ flash[w] = Target[w]
  /\ checked' = checked \cup {w} /\ attempt' = 1
  /\ host' = IF checked' = DOMAIN Target THEN "reset" ELSE host
  /\ UNCHANGED <<page, block, cuts>>

WordNotVerified(w) ==
  /\ host = "verify" /\ w \notin checked
  /\ \/ Answered /\ (~IsData(Heard) \/ flash[w] # Target[w])
     \/ GivesUp
  /\ IF attempt < VerifyAttempts THEN attempt' = attempt + 1 /\ UNCHANGED host
     ELSE host' = "failed" /\ UNCHANGED attempt
  /\ UNCHANGED <<page, block, checked, cuts>>

(* No answer is waited for. *)
SendReset ==
  /\ host = "reset" /\ host' = "done"
  /\ RunReset \/ UNCHANGED vars
  /\ UNCHANGED <<waiting, page, block, attempt, heard, checked, cuts>>

Tool ==
  \/ DrainBanner \/ Connect \/ ConnectFails \/ Send \/ PartHeard \/ Unlocked \/ NotUnlocked
  \/ BlockWritten \/ BlockNotWritten \/ FlashLocked \/ FlashNotLocked
  \/ \E w \in DOMAIN Target : WordVerified(w) \/ WordNotVerified(w)
  \/ SendReset

Bus == AppEntersBoot \/ SendIsLost \/ AnswerIsLost

UpdateNext == DeviceStep \/ PowerCut \/ Bus \/ Tool

UpdateSpec == UpdateInit /\ [][UpdateNext]_updateVars

-----------------------------------------------------------------------------
(* Properties.                                                              *)

(* When the tool reports success the image is in the flash, through every   *)
(* lost frame and power cut, and although a banner passes for an OK.        *)
SuccessIsImage ==
  host \in {"reset", "done"} => \A i \in DOMAIN AppPages : Holds(i)

(* When the tool goes on to a page the pages before it are whole: every     *)
(* interruption of a page was noticed, and the page written again.  A       *)
(* silent restart may stand for two blocks as long as the vectors are       *)
(* erased: the banner comes in front of the error of the first one, and     *)
(* what a frame leaves of that in front of the error of the second.  So the *)
(* first page has to have more than two blocks for every power cut.         *)
EarlierPagesAreWhole ==
  2 * cuts < Len(Blocks[1]) => \A i \in 1..page - 1 : Holds(i)
=============================================================================
