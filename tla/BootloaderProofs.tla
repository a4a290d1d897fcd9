---------------------------- MODULE BootloaderProofs ----------------------------
(***************************************************************************)
(* Proofs about Bootloader and Update: what a lock that succeeds means,    *)
(* which pages may change, and what the success of an update means, for    *)
(* all layouts of the flash, all lines and all images.                     *)
(***************************************************************************)
EXTENDS Update, TLAPS

(* A byte of a w line. *)
LineBytes == [word : Words, cell : Cells, value : Bytes \cup {Junk}]

(* The head and the tail of a line. *)
LEMMA HeadTail ==
  ASSUME NEW S
  PROVE  << >> \in Seq(S) /\ \A q \in Seq(S) : q # << >> => Head(q) \in S /\ Tail(q) \in Seq(S)
  OBVIOUS

(* What the constants are apart from. *)
LEMMA Marks ==
  /\ None \notin Bytes /\ Blank \in Bytes
  /\ BlankWord \in Contents
  /\ NoWord \notin Words
  /\ NothingTaken \in [Words -> [Cells -> Bytes \cup {None}]]
  /\ Replies \subseteq Lined /\ Banner \in Lined
  BY ValuesAssumption
     DEF Bytes, BlankWord, Contents, NoWord, Words, NothingTaken, Lined

(* What the server answers.                                                 *)
LEMMA Answers ==
  /\ "OK" \in Lined /\ "data" \in Lined /\ Banner \in Lined
  /\ "ERR" \in Lined /\ "ERR flash is locked" \in Lined
  /\ "data" \in Replies /\ "ERR" \in Errors /\ "ERR flash is locked" \in Errors
  /\ "OK" \notin Errors /\ Banner \notin Errors
  BY DEF Lined, Replies, Errors, Banner

(* The bytes of a line.                                                     *)
LEMMA TextType ==
  ASSUME NEW line \in Lined
  PROVE  /\ Size[line] \in Nat \ {0}
         /\ Text(line) \in Seq(Octets) /\ Len(Text(line)) = Size[line]
         /\ \A i \in 1..Size[line] : Text(line)[i] = <<line, i>>
  <1>1. Size[line] \in Nat \ {0}
    BY SizeAssumption
  <1>2. \A i \in 1..Size[line] : <<line, i>> \in Octets
    BY <1>1 DEF Octets
  <1> QED BY <1>1, <1>2 DEF Text

(* One sequence behind another one, and what n bytes leave of one.          *)
LEMMA Joined ==
  ASSUME NEW S, NEW q \in Seq(S), NEW r \in Seq(S)
  PROVE  /\ q \o r \in Seq(S) /\ Len(q \o r) = Len(q) + Len(r)
         /\ q = << >> => q \o r = r
  OBVIOUS

LEMMA Cut ==
  ASSUME NEW S, NEW q \in Seq(S), NEW n \in Nat
  PROVE  /\ SubSeq(q, n + 1, Len(q)) \in Seq(S)
         /\ Len(SubSeq(q, n + 1, Len(q))) = IF n < Len(q) THEN Len(q) - n ELSE 0
  OBVIOUS

(* A line that does not fit is dropped. *)
LEMMA ReplyType ==
  ASSUME TypeOK, NEW line \in Lined, Reply(line)
  PROVE  /\ response' \in Seq(Octets) /\ Len(response') <= Capacity
         /\ Len(response') <= Len(response) + Size[line]
         /\ response = << >> => response' \in {<< >>, Text(line)}
  <1>1. response \in Seq(Octets) /\ Len(response) \in Nat /\ Len(response) <= Capacity
    BY DEF TypeOK
  <1>2. Size[line] \in Nat /\ Text(line) \in Seq(Octets) /\ Len(Text(line)) = Size[line]
    BY TextType
  <1>3. CASE response' = response
    BY <1>1, <1>2, <1>3
  <1>4. CASE response' = response \o Text(line) /\ Len(response) + Size[line] <= Capacity
    BY <1>1, <1>2, <1>4, Joined
  <1> QED BY <1>3, <1>4 DEF Reply

(* A poll takes bytes off the front.                                        *)
LEMMA PollType ==
  ASSUME TypeOK, NEW n \in Nat, WriteResponse(n)
  PROVE  /\ response' \in Seq(Octets) /\ Len(response') <= Capacity
         /\ Len(response') <= Len(response)
         /\ n < Len(response) => Len(response') = Len(response) - n
         /\ n >= Len(response) => response' = << >>
  <1>1. response \in Seq(Octets) /\ Len(response) \in Nat /\ Len(response) <= Capacity
    BY DEF TypeOK
  <1>2. /\ response' \in Seq(Octets)
        /\ Len(response') = IF n < Len(response) THEN Len(response) - n ELSE 0
    BY <1>1, Cut DEF WriteResponse
  <1>3. Len(response') = 0 => response' = << >>
    BY <1>2
  <1> QED BY <1>1, <1>2, <1>3, SizeAssumption

(* The power-up state. *)
LEMMA InitInd == Init => IndInv
  <1> SUFFICES ASSUME Init PROVE IndInv
    OBVIOUS
  <1> USE Marks DEF Init
  <1>1. flash \in [Words -> Contents]
    BY ShippedAssumption
  <1>2. Len(response) <= Capacity
    BY SizeAssumption
  <1>3. todo \in Seq([word : Words, cell : Cells, value : Bytes \cup {Junk}])
    BY HeadTail
  <1>5. response \in Seq(Octets)
    BY HeadTail
  <1>6. TypeOK
    BY <1>1, <1>2, <1>3, <1>5 DEF TypeOK
  <1>4. Kept
    BY DEF Kept, NothingTaken
  <1>7. ShadowInv /\ StepInv
    BY DEF ShadowInv, StepInv, BlankWord
  <1> QED BY <1>4, <1>6, <1>7 DEF IndInv

(* A restart forgets everything but the flash. *)
LEMMA RestartInd ==
  ASSUME NEW request \in BOOLEAN, Restart(request), flash' \in [Words -> Contents]
  PROVE  IndInv'
  <1> USE Marks DEF Restart
  <1>1. Len(response') <= Capacity
    BY SizeAssumption
  <1>2. TypeOK'
    BY <1>1 DEF TypeOK
  <1>3. Kept'
    BY DEF Kept, NothingTaken
  <1>4. ShadowInv' /\ StepInv'
    BY DEF ShadowInv, StepInv, BlankWord
  <1> QED BY <1>2, <1>3, <1>4 DEF IndInv

(* A line that ends where it is, and leaves the writer as it is. *)
LEMMA FinishInd ==
  ASSUME IndInv, NEW line \in Lined, FinishLine(line),
         UNCHANGED <<boot, magic, flash, locked, erased, shadowVars, taken>>
  PROVE  IndInv'
  <1> USE DEF IndInv, FinishLine
  <1>1. TypeOK'
    BY ReplyType DEF TypeOK, shadowVars, Lined
  <1>2. Kept' /\ ShadowInv' /\ StepInv'
    BY DEF Kept, ShadowInv, StepInv, shadowVars
  <1> QED BY <1>1, <1>2

(* The orchestrator touches neither the flash nor the writer. *)
LEMMA BootInd ==
  ASSUME IndInv, Decide \/ JumpToApp
  PROVE  IndInv'
  <1> USE DEF IndInv
  <1>1. response' \in Seq(Octets) /\ Len(response') <= Capacity
    BY ReplyType, Answers DEF Decide, JumpToApp, TypeOK, Lined
  <1>2. TypeOK'
    BY <1>1 DEF Decide, JumpToApp, TypeOK, shadowVars, lineVars, Lined
  <1>3. step = "line"
    BY DEF Decide, JumpToApp, StepInv, TypeOK
  <1>4. Kept' /\ ShadowInv' /\ StepInv'
    BY <1>3 DEF Decide, JumpToApp, Kept, ShadowInv, StepInv, shadowVars, lineVars
  <1> QED BY <1>2, <1>4

(* A page that is wiped is still contents. *)
LEMMA ErasedType ==
  ASSUME TypeOK, NEW p
  PROVE  [w \in Words |-> IF w[1] = p THEN BlankWord ELSE flash[w]] \in [Words -> Contents]
  BY Marks DEF TypeOK

(* A power cut is a restart, with an erase or a program half done. *)
LEMMA PowerLossInd ==
  ASSUME IndInv, PowerLoss
  PROVE  IndInv'
  <1>1. flash' \in [Words -> Contents]
    <2>1. CASE flash' = flash
      BY <2>1 DEF IndInv, TypeOK
    <2>2. CASE flash' = [w \in Words |-> IF w[1] = shadow_start[1] THEN BlankWord ELSE flash[w]]
      BY <2>2, ErasedType DEF IndInv
    <2>3. CASE flash' = [flash EXCEPT ![shadow_start] = shadow]
      BY <2>3 DEF IndInv, TypeOK
    <2> QED BY <2>1, <2>2, <2>3 DEF PowerLoss
  <1> QED BY <1>1, RestartInd DEF PowerLoss

(* The lines that do not flush. *)
LEMMA LinesInd ==
  ASSUME IndInv,
         \/ RunUnlock \/ RunLock \/ RunReset
         \/ \E n \in 1..Frame : WriteResponse(n)
         \/ \E data \in Lines : RunWrite(data)
         \/ \E line \in Replies : RunOther(line)
  PROVE  IndInv'
  <1> USE DEF IndInv
  <1>1. CASE RunUnlock
    <2>1. TypeOK'
      <3>1. response' \in Seq(Octets) /\ Len(response') <= Capacity
        BY <1>1, ReplyType, Answers DEF RunUnlock, FinishLine, Replies
      <3>2. todo' \in Seq(LineBytes)
        BY <1>1, HeadTail DEF RunUnlock, FinishLine
      <3> QED BY <1>1, <3>1, <3>2, Marks
          DEF RunUnlock, TypeOK, ClearShadow, FinishLine, Lined, LineBytes
    <2>2. Kept'
      BY <1>1 DEF RunUnlock, Kept, NothingTaken
    <2>3. ShadowInv' /\ StepInv'
      BY <1>1, Marks DEF RunUnlock, ShadowInv, StepInv, ClearShadow, FinishLine, BlankWord
    <2> QED BY <2>1, <2>2, <2>3
  <1>2. CASE RunLock
    <2>1. CASE ~locked /\ shadow_bits # {}
      <3>1. TypeOK'
        BY <1>2, <2>1 DEF RunLock, CallFlush, TypeOK, shadowVars
      <3>2. Kept' /\ ShadowInv'
        BY <1>2, <2>1 DEF RunLock, CallFlush, Kept, ShadowInv, shadowVars
      <3>3. StepInv'
        BY <1>2, <2>1 DEF RunLock, CallFlush, StepInv, shadowVars, AtLine
      <3> QED BY <3>1, <3>2, <3>3
    <2>2. CASE ~(~locked /\ shadow_bits # {})
      <3>1. TypeOK'
        <4>1. response' \in Seq(Octets) /\ Len(response') <= Capacity
          BY <1>2, <2>2, ReplyType, Answers DEF RunLock, FinishLine, Replies
        <4>2. todo' \in Seq(LineBytes)
          BY <1>2, <2>2, HeadTail DEF RunLock, FinishLine
        <4> QED BY <1>2, <2>2, <4>1, <4>2
            DEF RunLock, TypeOK, FinishLine, Lined, LineBytes, shadowVars
      <3>2. shadow_bits = {} /\ step' = "line"
        BY <1>2, <2>2 DEF ShadowInv, RunLock, FinishLine
      <3>3. Kept' /\ ShadowInv' /\ StepInv'
        BY <1>2, <2>2, <3>2 DEF RunLock, Kept, ShadowInv, StepInv, shadowVars
      <3> QED BY <3>1, <3>3
    <2> QED BY <2>1, <2>2
  <1>3. CASE RunReset
    <2>1. CASE ~locked /\ shadow_bits # {}
      <3>1. TypeOK'
        BY <1>3, <2>1 DEF RunReset, CallFlush, TypeOK, shadowVars
      <3>2. Kept' /\ ShadowInv'
        BY <1>3, <2>1 DEF RunReset, CallFlush, Kept, ShadowInv, shadowVars
      <3>3. StepInv'
        BY <1>3, <2>1 DEF RunReset, CallFlush, StepInv, shadowVars, AtLine
      <3> QED BY <3>1, <3>2, <3>3
    <2>2. CASE ~(~locked /\ shadow_bits # {})
      BY <1>3, <2>2, RestartInd DEF RunReset, TypeOK
    <2> QED BY <2>1, <2>2
  <1>4. ASSUME NEW n \in 1..Frame, WriteResponse(n)
        PROVE  IndInv'
    <2>1. response' \in Seq(Octets) /\ Len(response') <= Capacity
      BY <1>4, PollType, SizeAssumption
    <2>2. TypeOK'
      BY <1>4, <2>1 DEF WriteResponse, TypeOK, Lined, shadowVars, lineVars
    <2>3. Kept' /\ ShadowInv' /\ StepInv'
      BY <1>4 DEF WriteResponse, Kept, ShadowInv, StepInv, shadowVars, lineVars
    <2> QED BY <2>2, <2>3
  <1>5. ASSUME NEW data \in Lines, RunWrite(data)
        PROVE  IndInv'
    <2>1. TypeOK'
      BY <1>5, LinesAssumption DEF RunWrite, TypeOK, shadowVars
    <2>2. Kept' /\ ShadowInv' /\ StepInv'
      BY <1>5 DEF RunWrite, Kept, ShadowInv, StepInv, shadowVars, AtLine
    <2> QED BY <2>1, <2>2
  <1>6. ASSUME NEW line \in Replies, RunOther(line)
        PROVE  IndInv'
    BY <1>6, FinishInd, Marks DEF RunOther
  <1> QED BY <1>1, <1>2, <1>3, <1>4, <1>5, <1>6

(* A byte that is taken goes to the shadow, in front of what the flash has. *)
LEMMA TakeByteInd ==
  ASSUME IndInv, TakeByte
  PROVE  IndInv'
  <1> DEFINE b == Head(todo)
  <1>1. /\ b.word \in Words /\ b.cell \in Cells /\ b.value \in Bytes
        /\ Tail(todo) \in Seq([word : Words, cell : Cells, value : Bytes \cup {Junk}])
    <2>1. todo \in Seq(LineBytes) /\ todo # << >>
      BY DEF IndInv, TypeOK, TakeByte, LineBytes
    <2>2. Head(todo) \in LineBytes /\ Tail(todo) \in Seq(LineBytes)
      BY <2>1, HeadTail
    <2> QED BY <2>2 DEF LineBytes, TakeByte, Writable
  <1>2. /\ ~locked /\ ~locked' /\ b.word[1] \notin Protected
        /\ shadow_start \in {NoWord, b.word} /\ shadow_start' = b.word
        /\ shadow' = [shadow EXCEPT ![b.cell] = b.value]
        /\ shadow_bits' = shadow_bits \cup {b.cell}
        /\ taken' = [taken EXCEPT ![b.word][b.cell] = b.value]
        /\ todo' = Tail(todo)
        /\ (step' = "erase" /\ after' = "full") \/ (step' = "byte" /\ after' = after)
        /\ boot' = boot /\ flash' = flash /\ erased' = erased /\ magic' = magic
        /\ response' = response /\ locked' = locked /\ step = "byte"
    BY DEF TakeByte, CallFlush, Writable
  <1> HIDE DEF b
  <1>3. TypeOK'
    BY <1>1, <1>2 DEF IndInv, TypeOK, Contents
  <1>4. b.value # None /\ (shadow_start = NoWord => shadow_bits = {})
    BY <1>1, Marks DEF IndInv, ShadowInv
  <1>5. Kept'
    <2> SUFFICES ASSUME NEW w \in Words, NEW c \in Cells, taken'[w][c] # None
                 PROVE  \/ w = shadow_start' /\ c \in shadow_bits' /\ shadow'[c] = taken'[w][c]
                        \/ (w = shadow_start' => c \notin shadow_bits')
                             /\ w[1] \in erased' /\ flash'[w][c] = taken'[w][c]
      BY DEF Kept
    <2>1. CASE w = b.word /\ c = b.cell
      <3>1. taken'[w][c] = b.value /\ shadow'[c] = b.value
        BY <1>1, <1>2, <2>1 DEF IndInv, TypeOK, Contents
      <3> QED BY <3>1, <2>1, <1>2
    <2>2. CASE ~(w = b.word /\ c = b.cell)
      <3>1. taken'[w][c] = taken[w][c]
        BY <1>1, <1>2, <2>2 DEF IndInv, TypeOK
      <3>2. CASE w = shadow_start /\ c \in shadow_bits /\ shadow[c] = taken[w][c]
        <4>1. w = b.word /\ c # b.cell
          BY <1>2, <2>2, <3>2, Marks
        <4> QED BY <4>1, <3>1, <3>2, <1>1, <1>2 DEF IndInv, TypeOK, Contents
      <3>3. CASE /\ w = shadow_start => c \notin shadow_bits
                 /\ w[1] \in erased /\ flash[w][c] = taken[w][c]
        BY <3>1, <3>3, <1>2, <1>4, <2>2
      <3> QED BY <3>1, <3>2, <3>3 DEF IndInv, Kept
    <2> QED BY <2>1, <2>2
  <1>6. ShadowInv'
    <2>1. shadow_start' # NoWord /\ shadow_bits' # {}
      BY <1>1, <1>2, Marks
    <2>2. \A c \in Cells \ shadow_bits' : shadow'[c] = Blank
      BY <1>1, <1>2 DEF IndInv, ShadowInv, TypeOK, Contents
    <2>3. ASSUME NEW c \in shadow_bits'
          PROVE  taken'[shadow_start'][c] = shadow'[c]
      <3>1. CASE c = b.cell
        BY <3>1, <1>1, <1>2 DEF IndInv, TypeOK, Contents
      <3>2. CASE c # b.cell
        <4>1. c \in shadow_bits /\ shadow_start = b.word
          BY <3>2, <1>2, <1>4
        <4> QED BY <4>1, <3>2, <1>1, <1>2 DEF IndInv, TypeOK, Contents, ShadowInv
      <3> QED BY <3>1, <3>2
    <2> QED BY <2>1, <2>2, <2>3, <1>2 DEF ShadowInv
  <1>7. StepInv'
    BY <1>2 DEF IndInv, StepInv
  <1> QED BY <1>3, <1>5, <1>6, <1>7 DEF IndInv

(* A page is erased once since the unlock, so no byte that was taken and    *)
(* programmed is in a page that is erased.                                  *)
LEMMA EraseInd ==
  ASSUME IndInv, EraseSector \/ EraseFails
  PROVE  IndInv'
  <1> DEFINE s == shadow_start
             Wiped == [w \in Words |-> IF w[1] = s[1] THEN BlankWord ELSE flash[w]]
  <1>1. Wiped \in [Words -> Contents]
    BY ErasedType DEF IndInv
  <1>2. s[1] \in Pages
    BY DEF IndInv, StepInv, ShadowInv, TypeOK, EraseSector, EraseFails, Words
  <1>3. \/ flash' = flash
        \/ flash' = Wiped /\ s[1] \notin erased
    BY DEF EraseSector, EraseFails
  <1>4. Kept' /\ ShadowInv'
    <2>1. /\ taken' = taken /\ UNCHANGED shadowVars /\ locked' = locked
          /\ erased \subseteq erased'
      BY DEF EraseSector, EraseFails
    <2>2. ASSUME NEW w \in Words, w[1] \in erased
          PROVE  flash'[w] = flash[w]
      BY <1>3, <2>2
    <2>3. Kept'
      BY <2>1, <2>2 DEF IndInv, Kept, shadowVars
    <2>4. ShadowInv'
      BY <2>1 DEF IndInv, ShadowInv, shadowVars
    <2> QED BY <2>3, <2>4
  <1>5. TypeOK' /\ StepInv'
    <2>1. CASE EraseSector
      BY <2>1, <1>1, <1>2, <1>3 DEF EraseSector, IndInv, TypeOK, StepInv, shadowVars
    <2>2. CASE EraseFails
      <3>1. response' \in Seq(Octets) /\ Len(response') <= Capacity
        BY <2>2, ReplyType, Answers DEF EraseFails, FinishLine, IndInv
      <3> QED
        BY <2>2, <3>1, <1>1, <1>3
           DEF EraseFails, FinishLine, IndInv, TypeOK, StepInv, shadowVars, Lined
    <2> QED BY <2>1, <2>2
  <1> QED BY <1>4, <1>5 DEF IndInv

(* A word that is programmed has every byte taken for it, and one that      *)
(* is not keeps the shadow.                                                 *)
LEMMA ProgramInd ==
  ASSUME IndInv, ProgramWord \/ ProgramFails
  PROVE  IndInv'
  <1> DEFINE s == shadow_start
  <1>1. /\ s \in Words /\ s[1] \in erased /\ s[1] \notin Protected
        /\ shadow_bits # {} /\ ~locked
        /\ boot = "serve"
    BY DEF IndInv, TypeOK, StepInv, ShadowInv, ProgramWord, ProgramFails
  <1> HIDE DEF s
  <1>2. flash' = flash \/ flash' = [flash EXCEPT ![s] = shadow]
    BY DEF ProgramWord, ProgramFails, s
  <1>3. flash' \in [Words -> Contents]
    BY <1>2, <1>1 DEF IndInv, TypeOK
  <1>4. \A w \in Words : w # s => flash'[w] = flash[w]
    BY <1>2, <1>1 DEF IndInv, TypeOK
  <1>5. CASE ProgramWord /\ after = "reset"
    BY <1>5, <1>3, RestartInd DEF ProgramWord
  <1>6. CASE ProgramWord /\ after # "reset"
    <2>1. /\ flash' = [flash EXCEPT ![s] = shadow]
          /\ shadow_start' = NoWord /\ shadow' = BlankWord /\ shadow_bits' = {}
          /\ taken' = taken /\ erased' = erased /\ boot' = boot /\ magic' = magic
          /\ \/ /\ step' = "byte" /\ locked' = locked
                /\ after' = after /\ todo' = todo /\ response' = response
             \/ locked' = TRUE /\ FinishLine("OK")
      BY <1>6 DEF ProgramWord, ClearShadow, IndInv, TypeOK, s
    <2>2. TypeOK'
      <3>1. CASE step' = "byte"
        BY <3>1, <2>1, <1>3, Marks DEF IndInv, TypeOK, FinishLine
      <3>2. CASE locked' = TRUE /\ FinishLine("OK")
        <4>1. response' \in Seq(Octets) /\ Len(response') <= Capacity
          BY <3>2, ReplyType, Answers DEF FinishLine, IndInv, Replies
        <4>2. todo' \in Seq(LineBytes)
          BY <3>2, HeadTail DEF FinishLine
        <4> QED BY <3>2, <4>1, <4>2, <2>1, <1>3, Marks
            DEF IndInv, TypeOK, FinishLine, Lined, LineBytes
      <3> QED BY <3>1, <3>2, <2>1
    <2>3. Kept'
      <3> SUFFICES ASSUME NEW w \in Words, NEW c \in Cells, taken'[w][c] # None
                   PROVE  w[1] \in erased /\ flash'[w][c] = taken[w][c]
        BY <2>1 DEF Kept
      <3>1. CASE w = s
        <4>1. flash'[w] = shadow
          BY <3>1, <2>1, <1>1 DEF IndInv, TypeOK
        <4>2. CASE c \in shadow_bits
          BY <4>1, <4>2, <3>1, <1>1 DEF IndInv, ShadowInv, s
        <4>3. CASE c \notin shadow_bits
          <5>1. w[1] \in erased /\ flash[w][c] = taken[w][c]
            BY <4>3, <2>1 DEF IndInv, Kept
          <5>2. flash[s] \in {shadow, BlankWord} /\ shadow[c] = Blank
            BY <1>6, <4>3 DEF ProgramWord, IndInv, ShadowInv, s
          <5> QED BY <5>1, <5>2, <4>1, <3>1 DEF BlankWord
        <4> QED BY <4>2, <4>3
      <3>2. CASE w # s
        BY <3>2, <1>4, <2>1 DEF IndInv, Kept, s
      <3> QED BY <3>1, <3>2
    <2>4. ShadowInv' /\ StepInv'
      BY <2>1, <1>1 DEF ShadowInv, StepInv, BlankWord, FinishLine
    <2> QED BY <2>2, <2>3, <2>4 DEF IndInv
  <1>7. CASE ProgramFails
    <2>1. /\ UNCHANGED <<boot, magic, locked, erased, shadowVars, taken>>
          /\ FinishLine("ERR")
      BY <1>7 DEF ProgramFails
    <2>2. TypeOK'
      <3>1. response' \in Seq(Octets) /\ Len(response') <= Capacity
        BY <2>1, ReplyType, Answers DEF FinishLine, IndInv
      <3>2. todo' \in Seq(LineBytes)
        BY <2>1, HeadTail DEF FinishLine
      <3> QED BY <2>1, <3>1, <3>2, <1>3 DEF IndInv, TypeOK, FinishLine, shadowVars, LineBytes
    <2>3. Kept'
      <3> SUFFICES ASSUME NEW w \in Words, NEW c \in Cells, taken[w][c] # None,
                          w # s \/ c \notin shadow_bits
                   PROVE  w[1] \in erased /\ flash'[w][c] = taken[w][c]
        BY <2>1 DEF IndInv, Kept, ShadowInv, shadowVars, s
      <3>1. w[1] \in erased /\ flash[w][c] = taken[w][c]
        BY DEF IndInv, Kept, s
      <3>2. CASE w # s
        BY <3>1, <3>2, <1>4
      <3>3. CASE w = s
        <4>1. shadow[c] = Blank
          BY <3>3 DEF IndInv, ShadowInv
        <4>2. CASE flash' = flash
          BY <3>1, <4>2
        <4>3. CASE flash[s] = BlankWord /\ flash' = [flash EXCEPT ![s] = shadow]
          <5>1. flash'[w] = shadow /\ flash[w][c] = Blank
            BY <4>3, <3>3, <1>1 DEF IndInv, TypeOK, BlankWord
          <5> QED BY <5>1, <4>1, <3>1
        <4> QED BY <4>2, <4>3, <1>7 DEF ProgramFails, s
      <3> QED BY <3>2, <3>3
    <2>4. ShadowInv' /\ StepInv'
      BY <2>1 DEF IndInv, ShadowInv, StepInv, FinishLine, shadowVars
    <2> QED BY <2>2, <2>3, <2>4 DEF IndInv
  <1> QED BY <1>5, <1>6, <1>7

(* Every step of the bootloader. *)
LEMMA NextInd == IndInv /\ [Next]_vars => IndInv'
  <1> SUFFICES ASSUME IndInv, [Next]_vars PROVE IndInv'
    OBVIOUS
  <1>1. CASE UNCHANGED vars
    BY <1>1 DEF vars, shadowVars, lineVars, IndInv, TypeOK, Kept, ShadowInv, StepInv
  <1>2. CASE Orchestrator
    BY <1>2, BootInd DEF Orchestrator
  <1>3. CASE EnterBootloader
    BY <1>3, RestartInd DEF EnterBootloader, IndInv, TypeOK
  <1>4. CASE PowerLoss
    BY <1>4, PowerLossInd
  <1>5. CASE RefuseByte
    BY <1>5, FinishInd, Answers DEF RefuseByte
  <1>6. CASE WriteDone
    BY <1>6, FinishInd, Answers DEF WriteDone, Replies
  <1>7. CASE FlushOther
    <2>1. shadow_bits # {}
      BY <1>7 DEF FlushOther, IndInv, ShadowInv
    <2>2. TypeOK'
      BY <1>7 DEF FlushOther, CallFlush, IndInv, TypeOK, shadowVars
    <2>3. Kept' /\ ShadowInv' /\ StepInv'
      BY <1>7, <2>1 DEF FlushOther, CallFlush, IndInv, Kept, ShadowInv, StepInv, shadowVars
    <2> QED BY <2>2, <2>3 DEF IndInv
  <1>8. CASE TakeByte
    BY <1>8, TakeByteInd
  <1>9. CASE Flushing
    BY <1>9, EraseInd, ProgramInd DEF Flushing
  <1>10. CASE \/ RunUnlock \/ RunLock \/ RunReset
              \/ \E n \in 1..Frame : WriteResponse(n)
              \/ \E data \in Lines : RunWrite(data)
              \/ \E line \in Replies : RunOther(line)
    BY <1>10, LinesInd
  <1> QED
    BY <1>1, <1>2, <1>3, <1>4, <1>5, <1>6, <1>7, <1>8, <1>9, <1>10 DEF Next, ServerStep

(* The inductive invariant of the flash writer: every byte taken since the  *)
(* unlock is in the shadow, or in the flash of a page erased since then.    *)
THEOREM Inductive == Spec => []IndInv
  BY InitInd, NextInd, PTL DEF Spec

(* What FlushWord and Lock promise: when lock has answered OK, every byte   *)
(* that was taken since the unlock is in the flash.                         *)
THEOREM LockIsWritten == Spec => []LockedIsWritten
  <1>1. IndInv => LockedIsWritten
    BY Marks DEF IndInv, Kept, ShadowInv, LockedIsWritten
  <1> QED BY <1>1, Inductive, PTL

(* MaybeEraseSector and WriteByte: the flash changes in pages the host has  *)
(* written to since the unlock, never in the bootloader's own.              *)
THEOREM PagesChange == Spec => OnlyWrittenPagesChange
  <1> DEFINE Step == \A w \in Words : flash'[w] # flash[w] =>
                       /\ w[1] \notin Protected
                       /\ ~locked
                       /\ \E o \in Offsets, c \in Cells : taken[<<w[1], o>>][c] # None
  <1>1. IndInv /\ [Next]_vars => [Step]_vars
    <2> SUFFICES ASSUME IndInv, Next, NEW w \in Words, flash'[w] # flash[w]
                 PROVE  /\ w[1] \notin Protected
                        /\ ~locked
                        /\ \E o \in Offsets, c \in Cells : taken[<<w[1], o>>][c] # None
      OBVIOUS
    <2>1. step \in {"erase", "program"} /\ w[1] = shadow_start[1]
      <3>1. \/ PowerLoss \/ EraseSector \/ EraseFails \/ ProgramWord \/ ProgramFails
            \/ flash' = flash
        BY DEF Next, Orchestrator, Decide, JumpToApp, EnterBootloader, RunUnlock, RunLock,
           RunReset, WriteResponse, RunWrite, RunOther, ServerStep, Flushing, RefuseByte,
           FlushOther, TakeByte, WriteDone
      <3>2. step \in {"erase", "program"}
        BY <3>1 DEF PowerLoss, EraseSector, EraseFails, ProgramWord, ProgramFails
      <3>3. \/ flash' = [v \in Words |-> IF v[1] = shadow_start[1] THEN BlankWord ELSE flash[v]]
            \/ flash' = [flash EXCEPT ![shadow_start] = shadow]
        BY <3>1 DEF PowerLoss, EraseSector, EraseFails, ProgramWord, ProgramFails
      <3> QED BY <3>2, <3>3 DEF IndInv, TypeOK
    <2>2. shadow_start \in Words /\ shadow_start[1] \notin Protected /\ ~locked
      BY <2>1 DEF IndInv, TypeOK, StepInv, ShadowInv
    <2>3. PICK c \in shadow_bits : TRUE
      BY <2>1 DEF IndInv, StepInv
    <2>4. c \in Cells /\ taken[shadow_start][c] # None
      BY <2>3, Marks DEF IndInv, TypeOK, ShadowInv, Contents
    <2>5. shadow_start = <<w[1], shadow_start[2]>> /\ shadow_start[2] \in Offsets
      BY <2>1, <2>2 DEF Words
    <2> QED BY <2>1, <2>2, <2>4, <2>5
  <1> QED BY <1>1, Inductive, PTL DEF Spec, OnlyWrittenPagesChange

-----------------------------------------------------------------------------
(* The update: it is a behaviour of the bootloader, and success means that  *)
(* the image is in the flash.                                               *)

(* The stages after the lock: the flash is read, and nothing writes it.     *)
Reading == {"verify", "reset", "done"}

(* The next poll brings an error from its first byte on; it may bring       *)
(* something else, which the tool takes for an OK.                          *)
Refuses == heard = << >> /\ response # << >> /\ \E e \in Errors : response[1] = <<e, 1>>
Passes == response # << >> /\ ~Refuses

BannerSize == Size[Banner]
OKSize     == Size["OK"]
LockedSize == Size["ERR flash is locked"]

(* What may wait in the response: while the flash is unlocked one answer,   *)
(* and before an unlock is answered the banner in front of it.  One poll    *)
(* takes either.                                                            *)
AnswerInv ==
  /\ boot # "serve" => response = << >>
  /\ heard # << >> => waiting /\ step = "line"
  /\ host \in {"enter", "recover", "reset"} => ~waiting
  /\ host \in {"enter", "recover", "unlock", "reopen"} => step = "line"
  /\ host \in {"write", "lock"} /\ ~waiting => step = "line"
  /\ host \in {"unlock", "reopen"} =>
       Len(response) <= BannerSize + (IF waiting THEN OKSize ELSE 0)
  /\ host \in {"write", "lock"} /\ ~locked =>
       /\ Len(response) <= Frame
       /\ ~waiting \/ step # "line" \/ heard # << >> => response = << >>

(* The lock is answered OK, or by the banner of a restart, only when the    *)
(* flash is locked: the answers to the writes were taken before it.         *)
LockInv ==
  /\ boot # "serve" => locked
  /\ host = "lock" =>
       /\ step # "byte"
       /\ step \in {"erase", "program"} => after = "lock"
       /\ Passes => locked

(* While the tool reads, the device is locked and between two lines.        *)
ReadInv == host \in Reading => locked /\ step = "line"

(* What was compared stays as it was.                                       *)
CheckedInv ==
  /\ host \notin Reading \cup {"failed"} => checked = {}
  /\ host = "verify" => \A w \in checked : flash[w] = Target[w]
  /\ host \in {"reset", "done"} => \A w \in DOMAIN Target : flash[w] = Target[w]

UpdateInv == UpdateTypeOK /\ AnswerInv /\ LockInv /\ ReadInv /\ CheckedInv

-----------------------------------------------------------------------------
(* The sizes of the lines, and of a frame.                                  *)
LEMMA Sizes ==
  /\ Frame \in Nat /\ Frame > 0 /\ Frame \in 1..Frame
  /\ BannerSize \in Nat /\ OKSize \in Nat /\ LockedSize \in Nat
  /\ BannerSize + OKSize <= Frame /\ 2 * LockedSize <= Frame
  <1>1. \A l \in Lined : Size[l] \in Nat \ {0}
    BY SizeAssumption
  <1>2. BannerSize \in Nat /\ OKSize \in Nat /\ LockedSize \in Nat
    BY <1>1, Answers DEF BannerSize, OKSize, LockedSize
  <1>3. Frame \in Nat /\ Frame > 0 /\ Frame \in 1..Frame
    BY SizeAssumption
  <1>4. BannerSize + OKSize <= Frame /\ 2 * LockedSize <= Frame
    BY FrameAssumption, Zenon DEF BannerSize, OKSize, LockedSize
  <1> QED BY <1>2, <1>3, <1>4

LEMMA ErrorSizes ==
  ASSUME NEW e \in Errors
  PROVE  e \in Lined /\ Size[e] \in Nat /\ Size[e] > 0 /\ Size[e] <= Frame
  <1>1. e \in Lined
    BY DEF Lined, Replies
  <1>2. Size[e] \in Nat /\ Size[e] > 0
    BY <1>1, SizeAssumption
  <1>3. Size[e] <= Frame
    BY FrameAssumption, Zenon
  <1> QED BY <1>1, <1>2, <1>3

(* How much the answers add.                                                *)
LEMMA ReplySizes ==
  ASSUME TypeOK
  PROVE  /\ Reply(Banner) => Len(response') <= Len(response) + BannerSize
         /\ Reply("OK") => Len(response') <= Len(response) + OKSize
         /\ Reply("ERR flash is locked") => Len(response') <= Len(response) + LockedSize
         /\ \A line \in Errors \cup {"OK"} : Reply(line) =>
              /\ Len(response') \in Nat
              /\ response = << >> => Len(response') <= Frame
  <1>1. /\ Reply(Banner) => Len(response') <= Len(response) + Size[Banner]
        /\ Reply("OK") => Len(response') <= Len(response) + Size["OK"]
        /\ Reply("ERR flash is locked") =>
             Len(response') <= Len(response) + Size["ERR flash is locked"]
    BY ReplyType, Answers
  <1>2. ASSUME NEW line \in Errors, Reply(line)
        PROVE  Len(response') \in Nat /\ (response = << >> => Len(response') <= Frame)
    <2>1. response' \in Seq(Octets) /\ Len(response') <= Len(response) + Size[line]
      BY <1>2, ErrorSizes, ReplyType
    <2> QED BY <2>1, ErrorSizes, Sizes
  <1>3. ASSUME Reply("OK")
        PROVE  Len(response') \in Nat /\ (response = << >> => Len(response') <= Frame)
    <2>1. response' \in Seq(Octets) /\ Len(response') <= Len(response) + OKSize
      BY <1>3, ReplyType, Answers DEF OKSize
    <2> QED BY <2>1, Sizes
  <1> QED BY <1>1, <1>2, <1>3 DEF BannerSize, OKSize, LockedSize

(* A poll of a response that fits a frame takes all of it.                  *)
LEMMA PollAll ==
  ASSUME TypeOK, WriteResponse(Frame)
  PROVE  /\ response' \in Seq(Octets) /\ Len(response') <= Len(response)
         /\ Frame < Len(response) => Len(response') = Len(response) - Frame
         /\ Len(response) <= Frame => response' = << >>
  <1>1. Len(response) \in Nat
    BY DEF TypeOK
  <1> QED BY <1>1, Sizes, PollType

(* An error that is alone in the response is refused.                       *)
LEMMA ErrorRefuses ==
  ASSUME NEW e \in Errors, response' \in {<< >>, Text(e)}, heard' = << >>
  PROVE  ~Passes'
  <1>1. Text(e) \in Seq(Octets) /\ Len(Text(e)) > 0 /\ Text(e)[1] = <<e, 1>>
    BY ErrorSizes, TextType
  <1> QED BY <1>1 DEF Passes, Refuses

(* What is accepted did not begin as an error.                              *)
LEMMA AcceptedPasses ==
  ASSUME TypeOK, UpdateTypeOK, Accepted
  PROVE  Passes
  <1> SUFFICES ASSUME Refuses PROVE IsError(Heard)
    BY DEF Accepted, Answered, Passes
  <1>1. PICK e \in Errors : heard = << >> /\ response # << >> /\ response[1] = <<e, 1>>
    BY DEF Refuses
  <1>2. /\ Chunk \in Seq(Octets) /\ Len(Chunk) >= 1 /\ Chunk[1] = response[1]
    <2>1. response \in Seq(Octets) /\ Len(response) \in Nat /\ Len(response) >= 1
      BY <1>1 DEF TypeOK
    <2> DEFINE m == IF Len(response) < Frame THEN Len(response) ELSE Frame
    <2>2. m \in 1..Len(response) /\ Chunk = SubSeq(response, 1, m)
      BY <2>1, Sizes DEF Chunk
    <2> HIDE DEF m
    <2>3. Chunk \in Seq(Octets) /\ Len(Chunk) = m /\ Chunk[1] = response[1]
      BY <2>1, <2>2
    <2> QED BY <2>2, <2>3
  <1>3. Heard = Chunk
    BY <1>1, <1>2, Joined DEF Heard, UpdateTypeOK
  <1>4. 1 \in DOMAIN Heard /\ Heard[1] = <<e, 1>>
    BY <1>1, <1>2, <1>3
  <1>5. OnlyLineEnd(Heard, 1 - 1)
    BY DEF OnlyLineEnd
  <1> QED BY <1>4, <1>5 DEF IsError

(* What the tool writes is a line the bootloader may be sent.               *)
LEMMA BlocksAreLines ==
  ASSUME UpdateTypeOK
  PROVE  Blocks[page][block] \in Lines
  <1>1. Blocks[page] \in Seq(Lines) /\ block \in DOMAIN Blocks[page]
    BY ImageAssumption DEF UpdateTypeOK
  <1> QED BY <1>1

(* Every step of an update is one of the bootloader, or leaves it alone.    *)
LEMMA UpdateStep ==
  ASSUME TypeOK, UpdateTypeOK, [UpdateNext]_updateVars
  PROVE  [Next]_vars
  <1>1. CASE UNCHANGED updateVars
    BY <1>1 DEF updateVars
  <1>2. CASE WriteResponse(Frame)
    BY <1>2, Sizes DEF Next
  <1>3. CASE DeviceStep \/ PowerCut \/ Bus
    BY <1>2, <1>3 DEF DeviceStep, PowerCut, Bus, AppEntersBoot, SendIsLost, AnswerIsLost, Next
  <1>4. CASE Tool
    <2>1. CASE Send
      <3>1. Blocks[page][block] \in Lines /\ "data" \in Replies
        BY BlocksAreLines, Answers
      <3> QED BY <2>1, <3>1 DEF Send, Command, Next
    <2>2. CASE RunReset
      BY <2>2 DEF Next
    <2>3. ASSUME NEW w \in DOMAIN Target, WordVerified(w) \/ WordNotVerified(w)
          PROVE  WriteResponse(Frame) \/ UNCHANGED vars
      BY <2>3 DEF WordVerified, WordNotVerified, Answered, GivesUp
    <2> QED
      BY <1>2, <1>4, <2>1, <2>2, <2>3
         DEF Tool, DrainBanner, Connect, ConnectFails, PartHeard, Unlocked, NotUnlocked,
             BlockWritten, BlockNotWritten, FlashLocked, FlashNotLocked, SendReset, Accepted,
             Refused, Answered, GivesUp
  <1> QED BY <1>1, <1>3, <1>4 DEF UpdateNext

-----------------------------------------------------------------------------
(* The counters of the tool.                                                *)

LEMMA UpdateInitType == UpdateInit => UpdateTypeOK
  <1> SUFFICES ASSUME UpdateInit PROVE UpdateTypeOK
    OBVIOUS
  <1>1. 1 \in DOMAIN AppPages
    BY ImageAssumption
  <1>2. 1 \in DOMAIN Blocks[1]
    BY <1>1, ImageAssumption
  <1>3. 1 \in 1..PageAttempts /\ 0 \in 0..PowerCuts
    BY BoundsAssumption
  <1>4. host = "enter" /\ waiting = FALSE /\ page = 1 /\ block = 1 /\ attempt = 1 /\ checked = {} /\ cuts = 0
    BY DEF UpdateInit
  <1>5. host \in Stages /\ waiting \in BOOLEAN /\ heard \in Seq(Octets)
    BY <1>4, HeadTail DEF Stages, UpdateInit
  <1> QED BY <1>1, <1>2, <1>3, <1>4, <1>5 DEF UpdateTypeOK

(* One more attempt, one more power cut.                                    *)
LEMMA OneMore ==
  /\ 1 \in 1..PageAttempts /\ 1 \in 1..VerifyAttempts /\ 0 \in 0..PowerCuts
  /\ \A a \in 1..PageAttempts : a < PageAttempts => a + 1 \in 1..PageAttempts
  /\ \A a \in 1..PageAttempts \cup 1..VerifyAttempts :
       a < VerifyAttempts => a + 1 \in 1..VerifyAttempts
  /\ \A c \in 0..PowerCuts : c < PowerCuts => c + 1 \in 0..PowerCuts
  BY BoundsAssumption

(* The block and the page after this one.                                   *)
LEMMA NextBlock ==
  ASSUME UpdateTypeOK
  PROVE  /\ 1 \in DOMAIN Blocks[page]
         /\ block < Len(Blocks[page]) => block + 1 \in DOMAIN Blocks[page]
         /\ page < Len(AppPages) =>
              page + 1 \in DOMAIN AppPages /\ 1 \in DOMAIN Blocks[page + 1]
  <1>1. page \in DOMAIN AppPages /\ block \in DOMAIN Blocks[page]
    BY DEF UpdateTypeOK
  <1>2. Blocks[page] \in Seq(Lines) \ {<< >>} /\ AppPages \in Seq(Pages \ Protected)
    BY <1>1, ImageAssumption
  <1>3. page < Len(AppPages) => page + 1 \in DOMAIN AppPages
    BY <1>1, <1>2
  <1>4. page < Len(AppPages) => Blocks[page + 1] \in Seq(Lines) \ {<< >>}
    BY <1>3, ImageAssumption
  <1> QED BY <1>1, <1>2, <1>3, <1>4

(* What was heard of an answer, and what a poll adds to it.                 *)
LEMMA HeardType ==
  ASSUME TypeOK, UpdateTypeOK
  PROVE  << >> \in Seq(Octets) /\ Heard \in Seq(Octets)
  <1>1. response \in Seq(Octets) /\ heard \in Seq(Octets)
    BY DEF TypeOK, UpdateTypeOK
  <1>2. Chunk \in Seq(Octets)
    BY <1>1, Sizes DEF Chunk
  <1> QED BY <1>1, <1>2 DEF Heard

LEMMA UpdateType ==
  ASSUME TypeOK, UpdateTypeOK, [UpdateNext]_updateVars
  PROVE  UpdateTypeOK'
  <1> USE DEF UpdateTypeOK, Stages
  <1>1. CASE UNCHANGED updateVars \/ DeviceStep
    BY <1>1 DEF updateVars, hostVars, DeviceStep
  <1>2. CASE PowerCut
    BY <1>2, OneMore DEF PowerCut, hostVars
  <1>3. CASE Bus \/ DrainBanner
    BY <1>3 DEF Bus, AppEntersBoot, SendIsLost, AnswerIsLost, DrainBanner, hostVars
  <1>4. CASE Connect \/ ConnectFails \/ Send \/ PartHeard
    BY <1>4, HeardType DEF Connect, ConnectFails, Send, PartHeard
  <1>5. CASE SendReset
    BY <1>5 DEF SendReset
  <1>6. CASE Answered \/ GivesUp
    <2> USE <1>6
    <2>1. waiting' = FALSE /\ heard' = << >> /\ heard' \in Seq(Octets)
      BY HeardType DEF Answered, GivesUp
    <2>2. CASE Unlocked \/ NotUnlocked
      BY <2>1, <2>2, NextBlock DEF Unlocked, NotUnlocked
    <2>3. CASE BlockWritten
      <3>1. /\ UNCHANGED <<checked, cuts>>
            /\ \/ block < Len(Blocks[page]) /\ block' = block + 1 /\ UNCHANGED <<host, page, attempt>>
               \/ page < Len(AppPages) /\ page' = page + 1 /\ block' = 1 /\ attempt' = 1 /\ UNCHANGED host
               \/ host' = "lock" /\ UNCHANGED <<page, block, attempt>>
        BY <2>3 DEF BlockWritten
      <3>2. host = "write"
        BY <2>3 DEF BlockWritten
      <3> QED BY <2>1, <3>1, <3>2, NextBlock, OneMore
    <2>4. CASE BlockNotWritten
      BY <2>1, <2>4, OneMore DEF BlockNotWritten
    <2>5. CASE FlashLocked \/ FlashNotLocked
      BY <2>1, <2>5, OneMore DEF FlashLocked, FlashNotLocked
    <2>6. ASSUME NEW w \in DOMAIN Target, WordVerified(w)
          PROVE  UpdateTypeOK'
      BY <2>1, <2>6, OneMore DEF WordVerified
    <2>7. ASSUME NEW w \in DOMAIN Target, WordNotVerified(w)
          PROVE  UpdateTypeOK'
      BY <2>1, <2>7, OneMore DEF WordNotVerified
    <2> QED
      BY <1>1, <1>2, <1>3, <1>4, <1>5, <2>2, <2>3, <2>4, <2>5, <2>6, <2>7
         DEF UpdateNext, Tool
  <1>7. CASE ~(Answered \/ GivesUp)
    BY <1>1, <1>2, <1>3, <1>4, <1>5, <1>7
       DEF UpdateNext, Tool, Unlocked, NotUnlocked, BlockWritten, BlockNotWritten, FlashLocked,
           FlashNotLocked, WordVerified, WordNotVerified, Accepted, Refused
  <1> QED BY <1>6, <1>7

-----------------------------------------------------------------------------
(* The end of an update.                                                    *)

(* The flash changes in a flush only.                                       *)
LEMMA FlashStays ==
  ASSUME [Next]_vars, step \notin {"erase", "program"}
  PROVE  flash' = flash
  BY DEF Next, vars, Orchestrator, Decide, JumpToApp, EnterBootloader, PowerLoss, RunUnlock,
     RunLock, RunReset, WriteResponse, RunWrite, RunOther, ServerStep, Flushing, RefuseByte,
     FlushOther, TakeByte, WriteDone, EraseSector, EraseFails, ProgramWord, ProgramFails

(* Where the stage is left as it is, or given up: the checked words, too.   *)
LEMMA CheckedStays ==
  ASSUME [Next]_vars, CheckedInv, ReadInv, UNCHANGED checked,
         \/ host' \in {host, "failed"}
         \/ host \notin Reading \cup {"failed"} /\ host' \notin Reading
  PROVE  CheckedInv'
  <1>1. host \in Reading => flash' = flash
    BY FlashStays DEF ReadInv
  <1>2. host' \in Reading => host' = host /\ flash' = flash
    BY <1>1 DEF Reading
  <1>3. host' \notin Reading \cup {"failed"} => checked' = {}
    BY DEF CheckedInv, Reading
  <1> QED BY <1>2, <1>3 DEF CheckedInv, Reading

(* Only a restart ends the server, and it locks the flash.                  *)
LEMMA BootLocked ==
  ASSUME IndInv, boot # "serve" => locked, [Next]_vars
  PROVE  (boot # "serve" => locked)'
  <1>1. CASE UNCHANGED vars \/ Orchestrator \/ EnterBootloader \/ PowerLoss
    BY <1>1 DEF vars, Orchestrator, Decide, JumpToApp, EnterBootloader, PowerLoss, Restart
  <1>2. CASE \/ RunUnlock \/ RunLock \/ RunReset
             \/ \E n \in 1..Frame : WriteResponse(n)
             \/ \E data \in Lines : RunWrite(data)
             \/ \E line \in Replies : RunOther(line)
    BY <1>2 DEF RunUnlock, RunLock, RunReset, WriteResponse, RunWrite, RunOther, AtLine, Restart
  <1>3. CASE ServerStep
    <2>1. step # "line"
      BY <1>3 DEF ServerStep, RefuseByte, FlushOther, TakeByte, WriteDone, Flushing,
         EraseSector, EraseFails, ProgramWord, ProgramFails
    <2>2. boot = "serve"
      BY <2>1 DEF IndInv, StepInv
    <2>3. CASE ProgramWord
      BY <2>2, <2>3 DEF ProgramWord, Restart, IndInv, TypeOK
    <2>4. CASE ~ProgramWord
      BY <1>3, <2>2, <2>4 DEF ServerStep, RefuseByte, FlushOther, TakeByte, WriteDone, Flushing,
         EraseSector, EraseFails, ProgramFails
    <2> QED BY <2>3, <2>4
  <1> QED BY <1>1, <1>2, <1>3 DEF Next

(* The server answers at the end of a line, and locks the flash at most.    *)
LEMMA ServerAnswers ==
  ASSUME IndInv, ServerStep
  PROVE  \/ Restart(FALSE)
         \/ /\ boot' = "serve" /\ (locked => locked')
            /\ \/ step' # "line" /\ response' = response
               \/ step' = "line" /\ \E line \in Errors \cup {"OK"} : Reply(line)
  <1>1. step # "line" /\ boot = "serve"
    BY DEF ServerStep, RefuseByte, FlushOther, TakeByte, WriteDone, Flushing, EraseSector,
       EraseFails, ProgramWord, ProgramFails, IndInv, StepInv
  <1>2. CASE RefuseByte \/ EraseFails \/ ProgramFails \/ WriteDone
    BY <1>1, <1>2, Answers DEF RefuseByte, EraseFails, ProgramFails, WriteDone, FinishLine
  <1>3. CASE FlushOther \/ TakeByte \/ EraseSector
    BY <1>1, <1>3 DEF FlushOther, TakeByte, EraseSector, CallFlush
  <1>4. CASE ProgramWord
    <2>1. after \in {"byte", "full", "lock", "reset"}
      BY DEF IndInv, TypeOK
    <2> QED BY <1>1, <1>4, <2>1 DEF ProgramWord, FinishLine
  <1> QED BY <1>2, <1>3, <1>4 DEF ServerStep, Flushing

(* What waits in the response.                                              *)
LEMMA AnswerStep ==
  ASSUME IndInv, UpdateTypeOK, AnswerInv, LockInv, [UpdateNext]_updateVars
  PROVE  AnswerInv'
  <1>1. /\ TypeOK /\ Len(response) \in Nat
        /\ boot # "serve" => locked /\ step = "line" /\ response = << >>
    BY DEF IndInv, TypeOK, StepInv, AnswerInv, LockInv
  <1> USE DEF AnswerInv
  <1>2. CASE UNCHANGED updateVars \/ ConnectFails \/ SendIsLost
    BY <1>1, <1>2, Sizes DEF updateVars, hostVars, vars, shadowVars, lineVars, ConnectFails, SendIsLost
  <1>3. CASE Orchestrator /\ UNCHANGED <<hostVars, cuts>>
    <2>1. /\ step' = "line" /\ locked' /\ UNCHANGED <<host, waiting, heard>>
          /\ boot' # "serve" => response' = << >>
      BY <1>1, <1>3 DEF Orchestrator, Decide, JumpToApp, lineVars, hostVars
    <2>2. response' = response \/ Reply(Banner)
      BY <1>3 DEF Orchestrator, Decide, JumpToApp
    <2>3. Len(response') <= BannerSize /\ Len(response') \in Nat
      <3>1. response = << >> /\ Len(response) = 0
        BY <1>1, <1>3 DEF Orchestrator, Decide, JumpToApp
      <3>2. CASE response' = response
        BY <3>1, <3>2, Sizes
      <3>3. CASE Reply(Banner)
        <4>1. response' \in Seq(Octets) /\ Len(response') <= Len(response) + BannerSize
          BY <1>1, <3>3, ReplyType, ReplySizes, Answers
        <4> QED BY <3>1, <4>1, Sizes
      <3> QED BY <2>2, <3>2, <3>3
    <2> QED BY <2>1, <2>3, Sizes
  <1>4. CASE PowerCut \/ AppEntersBoot
    BY <1>4, Sizes DEF PowerCut, PowerLoss, AppEntersBoot, EnterBootloader, Restart, hostVars
  <1>5. CASE ServerStep /\ UNCHANGED <<hostVars, cuts>>
    <2>1. step # "line" /\ UNCHANGED <<host, waiting, heard>> /\ heard = << >>
      BY <1>5 DEF ServerStep, RefuseByte, FlushOther, TakeByte, WriteDone, Flushing, EraseSector,
         EraseFails, ProgramWord, ProgramFails, hostVars
    <2>2. host \notin {"enter", "recover", "unlock", "reopen"}
      BY <2>1
    <2>3. host \in {"write", "lock"} => waiting /\ (~locked => response = << >>)
      BY <2>1
    <2>4. CASE Restart(FALSE)
      BY <2>1, <2>2, <2>4, Sizes DEF Restart
    <2>5. CASE /\ boot' = "serve" /\ (locked => locked')
               /\ step' # "line" /\ response' = response
      BY <2>1, <2>2, <2>3, <2>5, Sizes
    <2>6. ASSUME boot' = "serve", locked => locked', step' = "line",
                 NEW line \in Errors \cup {"OK"}, Reply(line)
          PROVE  AnswerInv'
      <3>1. Len(response') \in Nat /\ (response = << >> => Len(response') <= Frame)
        BY <1>1, <2>6, ReplySizes
      <3>2. host \in {"write", "lock"} /\ ~locked' => Len(response') <= Frame
        BY <2>3, <2>6, <3>1
      <3> QED BY <2>1, <2>2, <2>3, <2>6, <3>2
    <2> QED BY <1>5, <2>4, <2>5, <2>6, ServerAnswers
  <1>6. CASE AnswerIsLost \/ PartHeard \/ DrainBanner
    <2>1. /\ WriteResponse(Frame) /\ UNCHANGED <<host, waiting, boot, locked, step>>
          /\ boot = "serve" /\ step = "line"
          /\ UNCHANGED heard \/ waiting
      BY <1>6 DEF AnswerIsLost, PartHeard, DrainBanner, WriteResponse, AtLine, hostVars, lineVars
    <2>2. /\ Len(response') \in Nat /\ Len(response') <= Len(response)
          /\ Len(response) <= Frame => response' = << >>
      BY <1>1, <2>1, PollAll
    <2> QED BY <1>1, <2>1, <2>2, Sizes
  <1>7. CASE Connect
    BY <1>1, <1>7, Sizes DEF Connect, vars, lineVars, AtLine
  <1>8. CASE Send
    <2>1. /\ ~waiting /\ waiting' /\ heard = << >> /\ UNCHANGED <<host, heard>>
          /\ step = "line" /\ boot = "serve" /\ boot' \in {"serve", "decide"}
      BY <1>1, <1>8 DEF Send, Command, RunUnlock, RunWrite, RunLock, RunOther, AtLine
    <2>2. CASE host \in {"unlock", "reopen"}
      <3>1. Reply("OK") /\ step' = "line" /\ boot' = "serve"
        BY <1>8, <2>1, <2>2 DEF Send, Command, RunUnlock, FinishLine
      <3>2. Len(response') \in Nat /\ Len(response') <= Len(response) + OKSize
        BY <1>1, <3>1, ReplySizes
      <3>3. Len(response) <= BannerSize
        BY <1>1, <2>1, <2>2, Sizes
      <3>4. Len(response') <= BannerSize + OKSize
        BY <1>1, <3>2, <3>3, Sizes
      <3> QED BY <2>1, <2>2, <3>1, <3>4
    <2>3. CASE host = "write"
      <3>1. step' = "byte" /\ UNCHANGED <<boot, locked, response>>
        BY <1>8, <2>3 DEF Send, Command, RunWrite
      <3> QED BY <1>1, <2>1, <2>3, <3>1, Sizes
    <2>4. CASE host = "lock"
      <3>1. /\ boot' = boot
            /\ locked' \/ (step' = "erase" /\ UNCHANGED <<locked, response>>)
        BY <1>8, <2>4 DEF Send, Command, RunLock, CallFlush
      <3> QED BY <1>1, <2>1, <2>4, <3>1, Sizes
    <2>5. CASE host = "verify"
      <3>1. boot' = boot
        BY <1>8, <2>5 DEF Send, Command, RunOther
      <3> QED BY <2>1, <2>5, <3>1
    <2> QED BY <1>8, <2>2, <2>3, <2>4, <2>5 DEF Send
  <1>9. CASE SendReset
    <2>1. /\ host' = "done" /\ UNCHANGED <<waiting, heard>>
          /\ UNCHANGED vars \/ RunReset
      BY <1>9 DEF SendReset
    <2>2. host = "reset" /\ ~waiting /\ heard = << >>
      BY <1>9 DEF SendReset
    <2>3. boot' # "serve" => response' = << >>
      BY <1>1, <2>1 DEF RunReset, Restart, AtLine, vars
    <2> QED BY <2>1, <2>2, <2>3
  <1>10. CASE /\ Answered \/ GivesUp
              /\ host' \in {"recover", "failed", "verify", "reset"}
                   \/ (host' \in {"write", "lock"} /\ host \in {"unlock", "reopen", "write"})
    <2>1. /\ waiting' = FALSE /\ heard' = << >> /\ step = "line"
          /\ UNCHANGED <<boot, locked, step>>
      BY <1>1, <1>10 DEF Answered, GivesUp, WriteResponse, AtLine, vars, lineVars
    <2>2. /\ boot # "serve" => response' = << >>
          /\ Len(response) <= Frame => response' = << >>
      <3>1. CASE Answered
        BY <1>1, <3>1, PollAll DEF Answered, WriteResponse, AtLine
      <3>2. CASE GivesUp
        BY <1>1, <3>2 DEF GivesUp, vars
      <3> QED BY <1>10, <3>1, <3>2
    <2>3. host \in {"unlock", "reopen"} => Len(response) <= Frame
      BY <1>1, Sizes
    <2> QED BY <1>10, <2>1, <2>2, <2>3, Sizes
  <1>11. ASSUME NEW w \in DOMAIN Target, WordVerified(w) \/ WordNotVerified(w)
         PROVE  (Answered \/ GivesUp) /\ host' \in {"verify", "reset", "failed"}
    BY <1>11 DEF WordVerified, WordNotVerified
  <1>12. CASE Unlocked \/ NotUnlocked \/ BlockWritten \/ BlockNotWritten \/ FlashLocked \/ FlashNotLocked
    BY <1>10, <1>12 DEF Unlocked, NotUnlocked, BlockWritten, BlockNotWritten, FlashLocked,
       FlashNotLocked, Accepted, Refused
  <1> QED
    BY <1>2, <1>3, <1>4, <1>5, <1>6, <1>7, <1>8, <1>9, <1>10, <1>11, <1>12
       DEF UpdateNext, DeviceStep, Bus, Tool

(* A step of the device, or a poll, in the last stages.                     *)
LEMMA DeviceInv ==
  ASSUME IndInv, AnswerInv, LockInv, ReadInv, UNCHANGED host,
         \/ /\ Orchestrator \/ ServerStep \/ PowerLoss \/ UNCHANGED vars
            /\ host = "lock" => UNCHANGED heard
         \/ WriteResponse(Frame)
  PROVE  LockInv' /\ ReadInv'
  <1>1. (boot # "serve" => locked)'
    <2>1. [Next]_vars
      BY Sizes DEF Next
    <2> QED BY <2>1, BootLocked DEF LockInv
  <1> USE <1>1 DEF LockInv, ReadInv, Reading
  <1>2. CASE UNCHANGED vars /\ (host = "lock" => UNCHANGED heard)
    BY <1>2 DEF vars, shadowVars, lineVars, Passes, Refuses
  <1>3. CASE WriteResponse(Frame)
    <2>1. host = "lock" /\ ~locked => response' = << >>
      BY <1>3, PollAll DEF AnswerInv, IndInv
    <2> QED BY <1>3, <2>1 DEF WriteResponse, lineVars, AtLine, Passes
  <1>4. CASE PowerLoss
    BY <1>4 DEF PowerLoss, Restart
  <1>5. CASE Orchestrator
    BY <1>5 DEF Orchestrator, Decide, JumpToApp, IndInv, StepInv, lineVars
  <1>6. CASE ServerStep /\ (host = "lock" => UNCHANGED heard)
    <2>1. step # "line"
      BY <1>6 DEF ServerStep, RefuseByte, FlushOther, TakeByte, WriteDone, Flushing,
         EraseSector, EraseFails, ProgramWord, ProgramFails
    <2>2. CASE host # "lock"
      BY <2>1, <2>2
    <2>3. CASE host = "lock"
      <3>1. step \in {"erase", "program"} /\ after = "lock"
        BY <2>1, <2>3 DEF IndInv, TypeOK
      <3>2. EraseSector \/ EraseFails \/ ProgramWord \/ ProgramFails
        BY <1>6, <3>1 DEF ServerStep, Flushing, RefuseByte, FlushOther, TakeByte, WriteDone
      <3>3. response = << >> /\ heard' = << >>
        BY <1>6, <2>1, <2>3, <3>1 DEF AnswerInv, IndInv, StepInv
      <3>4. CASE EraseSector
        BY <2>3, <3>1, <3>3, <3>4 DEF EraseSector, Passes
      <3>6. CASE EraseFails \/ ProgramFails
        <4>1. Reply("ERR") /\ step' = "line"
          BY <3>6 DEF EraseFails, ProgramFails, FinishLine
        <4>2. ~Passes'
          BY <3>3, <4>1, ReplyType, Answers, ErrorRefuses DEF IndInv
        <4> QED BY <2>3, <4>1, <4>2
      <3>5. CASE ProgramWord
        BY <2>3, <3>1, <3>5 DEF ProgramWord, FinishLine
      <3> QED BY <3>2, <3>4, <3>5, <3>6
    <2> QED BY <2>2, <2>3
  <1> QED BY <1>2, <1>3, <1>4, <1>5, <1>6

(* A step of the tool.                                                      *)
LEMMA ToolInv ==
  ASSUME IndInv, UpdateTypeOK, AnswerInv, LockInv, ReadInv, Tool
  PROVE  LockInv' /\ ReadInv'
  <1>1. [Next]_vars
    BY UpdateStep DEF UpdateNext, IndInv
  <1>2. (boot # "serve" => locked)'
    BY <1>1, BootLocked DEF LockInv
  <1> USE <1>2 DEF LockInv, ReadInv, Reading
  <1>3. CASE host' \notin Reading \cup {"lock"}
    BY <1>3
  <1>4. CASE host' = host /\ (WriteResponse(Frame) \/ (UNCHANGED vars /\ host # "lock"))
    BY <1>4, DeviceInv
  <1>5. CASE Send
    <2>1. CASE host = "lock"
      <3>1. RunLock /\ step = "line"
        BY <1>5, <2>1 DEF Send, Command, RunLock, AtLine
      <3>2. CASE ~locked /\ shadow_bits # {}
        BY <1>5, <2>1, <3>1, <3>2 DEF RunLock, CallFlush, Send, Passes, Refuses
      <3>3. CASE ~(~locked /\ shadow_bits # {})
        BY <1>5, <2>1, <3>1, <3>3 DEF RunLock, FinishLine, Send
      <3> QED BY <3>2, <3>3
    <2>2. CASE host = "verify"
      BY <1>5, <2>2 DEF Send, Command, RunOther, FinishLine
    <2>3. CASE host \notin {"lock", "verify"}
      BY <1>5, <2>3 DEF Send
    <2> QED BY <2>1, <2>2, <2>3
  <1>6. CASE host' = "lock" /\ host # "lock"
    <2>1. WriteResponse(Frame) /\ host = "write"
      BY <1>6 DEF Tool, DrainBanner, Connect, ConnectFails, Send, PartHeard, Unlocked,
         NotUnlocked, BlockWritten, BlockNotWritten, FlashLocked, FlashNotLocked, WordVerified,
         WordNotVerified, SendReset, Accepted, Answered, hostVars
    <2>2. ~locked => response' = << >>
      BY <2>1, PollAll DEF AnswerInv, IndInv
    <2> QED BY <1>6, <2>1, <2>2 DEF WriteResponse, AtLine, lineVars, Passes
  <1>7. CASE FlashLocked
    BY <1>7, AcceptedPasses DEF FlashLocked, Accepted, Answered, WriteResponse, AtLine, lineVars, IndInv
  <1>8. CASE SendReset
    BY <1>8 DEF SendReset, RunReset, Restart, vars, lineVars
  <1>9. ASSUME NEW w \in DOMAIN Target, WordVerified(w)
        PROVE  LockInv' /\ ReadInv'
    BY <1>9 DEF WordVerified, Answered, WriteResponse, AtLine, lineVars
  <1>10. ASSUME NEW w \in DOMAIN Target, WordNotVerified(w)
         PROVE  host' \notin Reading \cup {"lock"} \/
                (host' = host /\ (WriteResponse(Frame) \/ (UNCHANGED vars /\ host # "lock")))
    BY <1>10 DEF WordNotVerified, Answered, GivesUp
  <1>11. CASE \/ DrainBanner \/ Connect \/ ConnectFails \/ PartHeard \/ Unlocked \/ NotUnlocked
              \/ BlockWritten \/ BlockNotWritten \/ FlashNotLocked
    BY <1>11, <1>3, <1>4, <1>6 DEF DrainBanner, Connect, ConnectFails, PartHeard, Unlocked,
       NotUnlocked, BlockWritten, BlockNotWritten, FlashNotLocked, hostVars
  <1> QED BY <1>3, <1>4, <1>5, <1>7, <1>8, <1>9, <1>10, <1>11 DEF Tool

(* What was compared, and what the comparison of a word adds.               *)
LEMMA CheckedStep ==
  ASSUME IndInv, UpdateTypeOK, ReadInv, CheckedInv, [UpdateNext]_updateVars
  PROVE  CheckedInv'
  <1>1. [Next]_vars
    BY UpdateStep DEF IndInv
  <1>2. CASE UNCHANGED updateVars \/ DeviceStep \/ PowerCut \/ Bus \/ DrainBanner \/ PartHeard
    <2>1. UNCHANGED <<host, checked>>
      BY <1>2 DEF updateVars, hostVars, DeviceStep, PowerCut, Bus, AppEntersBoot, SendIsLost,
         AnswerIsLost, DrainBanner, PartHeard
    <2> QED BY <1>1, <2>1, CheckedStays
  <1>3. CASE \/ Connect \/ ConnectFails \/ Send \/ Unlocked \/ NotUnlocked
             \/ BlockWritten \/ BlockNotWritten \/ FlashNotLocked
    <2>1. /\ UNCHANGED checked
          /\ \/ host' \in {host, "failed"}
             \/ host \notin Reading \cup {"failed"} /\ host' \notin Reading
      BY <1>3 DEF Connect, ConnectFails, Send, Unlocked, NotUnlocked, BlockWritten,
         BlockNotWritten, FlashNotLocked, Reading
    <2> QED BY <1>1, <2>1, CheckedStays
  <1>4. CASE FlashLocked
    BY <1>4 DEF FlashLocked, CheckedInv, Reading
  <1>5. CASE SendReset
    <2>1. flash' = flash
      BY <1>1, <1>5, FlashStays DEF SendReset, ReadInv, Reading
    <2> QED BY <1>5, <2>1 DEF SendReset, CheckedInv, Reading
  <1>6. ASSUME NEW w \in DOMAIN Target, WordVerified(w)
        PROVE  CheckedInv'
    <2>1. flash' = flash
      BY <1>1, <1>6, FlashStays DEF WordVerified, ReadInv, Reading
    <2>2. \A v \in checked' : flash'[v] = Target[v]
      BY <1>6, <2>1 DEF WordVerified, CheckedInv
    <2> QED BY <1>6, <2>2 DEF WordVerified, CheckedInv, Reading
  <1>7. ASSUME NEW w \in DOMAIN Target, WordNotVerified(w)
        PROVE  CheckedInv'
    <2>1. UNCHANGED checked /\ host' \in {host, "failed"}
      BY <1>7 DEF WordNotVerified
    <2> QED BY <1>1, <2>1, CheckedStays
  <1> QED BY <1>2, <1>3, <1>4, <1>5, <1>6, <1>7 DEF UpdateNext, Tool

(* The update as a whole.                                                   *)
LEMMA UpdateNextInd == IndInv /\ UpdateInv /\ [UpdateNext]_updateVars => IndInv' /\ UpdateInv'
  <1> SUFFICES ASSUME IndInv, UpdateInv, [UpdateNext]_updateVars
               PROVE  IndInv' /\ UpdateInv'
    OBVIOUS
  <1> USE DEF UpdateInv
  <1>1. IndInv'
    BY UpdateStep, NextInd DEF IndInv
  <1>2. UpdateTypeOK' /\ AnswerInv' /\ CheckedInv'
    BY UpdateType, AnswerStep, CheckedStep DEF IndInv
  <1>3. CASE Tool
    BY <1>1, <1>2, <1>3, ToolInv
  <1>4. CASE UNCHANGED updateVars \/ DeviceStep \/ PowerCut \/ SendIsLost \/ AnswerIsLost
    <2>1. /\ UNCHANGED <<host, heard>>
          /\ \/ Orchestrator \/ ServerStep \/ PowerLoss
             \/ WriteResponse(Frame) \/ UNCHANGED vars
      BY <1>4 DEF updateVars, hostVars, DeviceStep, PowerCut, SendIsLost, AnswerIsLost
    <2> QED BY <1>1, <1>2, <2>1, DeviceInv
  <1>5. CASE AppEntersBoot
    <2>1. LockInv' /\ ReadInv'
      BY <1>5 DEF AppEntersBoot, EnterBootloader, Restart, hostVars, LockInv, ReadInv, Reading
    <2> QED BY <1>1, <1>2, <2>1
  <1> QED BY <1>3, <1>4, <1>5 DEF UpdateNext, Bus

LEMMA UpdateInitInd == UpdateInit => IndInv /\ UpdateInv
  <1> SUFFICES ASSUME UpdateInit PROVE IndInv /\ UpdateInv
    OBVIOUS
  <1>1. AnswerInv /\ LockInv /\ ReadInv /\ CheckedInv
    BY DEF UpdateInit, Init, AnswerInv, LockInv, ReadInv, CheckedInv, Reading
  <1> QED BY <1>1, InitInd, UpdateInitType DEF UpdateInit, UpdateInv

(* The inductive invariant of an update, with that of the flash writer.     *)
THEOREM UpdateInductive == UpdateSpec => [](IndInv /\ UpdateInv)
  BY UpdateInitInd, UpdateNextInd, PTL DEF UpdateSpec

(* The tool and the bus add nothing to what the bootloader does: an update  *)
(* is a behaviour of the bootloader, and what is proved of it holds in an   *)
(* update, through every lost frame and power cut.                          *)
THEOREM UpdateIsBootloader == UpdateSpec => Spec
  <1>1. UpdateInit => Init
    BY DEF UpdateInit
  <1>2. IndInv /\ UpdateInv /\ [UpdateNext]_updateVars => [Next]_vars
    BY UpdateStep DEF IndInv, UpdateInv
  <1> QED BY <1>1, <1>2, UpdateInductive, PTL DEF UpdateSpec, Spec

(* bootload_test.py: when the tool reports success, the image is in the     *)
(* flash, although a banner passes for an OK: what counts is that nothing   *)
(* writes between the comparison of the first double word and the reset.    *)
THEOREM ImageIsWritten == UpdateSpec => []SuccessIsImage
  <1>1. UpdateInv => SuccessIsImage
    BY DEF UpdateInv, CheckedInv, SuccessIsImage, Holds
  <1> QED BY <1>1, UpdateInductive, PTL

-----------------------------------------------------------------------------
(* The pages of an update: those before the one at hand are whole.          *)

(* The bytes of a line that were taken, up to its n-th; those of blocks.    *)
Taken(line, n) ==
  \A j \in 1..n : taken[line[j].word][line[j].cell] = Target[line[j].word][line[j].cell]
BlocksTaken(n) == \A k \in 1..n : Taken(Blocks[page][k], Len(Blocks[page][k]))

(* In the middle of a block: what is left of it, and in the shadow the      *)
(* bytes of its last double word, unless that was complete.                 *)
Gone == Len(Blocks[page][block]) - Len(todo)
Gathered(line, n) ==
  IF shadow_bits = {} THEN n > 0 => \A j \in DOMAIN line : line[j].word = line[n].word => j <= n
  ELSE /\ n > 0 /\ shadow_start = line[n].word
       /\ shadow_bits = {c \in Cells : \E j \in 1..n : line[j].word = line[n].word /\ line[j].cell = c}
Midway(line, n) ==
  /\ n \in 0..Len(line)
  /\ \A j \in DOMAIN todo : todo[j] = line[n + j]
  /\ Taken(line, n)
  /\ Gathered(line, n)
  /\ IF step = "byte" THEN shadow_bits # Cells ELSE shadow_bits = Cells /\ after = "full"

(* The pages before the one at hand are whole.                              *)
PagesInv ==
  /\ host \in {"enter", "unlock"} => page = 1
  /\ \A i \in 1..page - 1 : Holds(i)

(* The flash writer has to do with the page at hand only.                   *)
WriterInv ==
  /\ shadow_start # NoWord => shadow_start[1] = AppPages[page]
  /\ \A j \in DOMAIN todo : todo[j].word[1] = AppPages[page] /\ todo[j].value # Junk
  /\ step = "line" => todo = << >>
  /\ locked /\ step = "byte" => todo # << >>

(* Before an unlock, and of a request to enter the bootloader.              *)
IdleInv ==
  /\ host \in {"unlock", "reopen"} /\ response # << >> => shadow_bits = {}
  /\ host = "reopen" /\ page > 1 /\ locked => response = << >>
  /\ magic => boot = "decide" /\ host \in {"enter", "recover", "failed"}

(* What may be in front of the next answer while n blocks may still pass on *)
(* account of a cut: the banner, the rest of an error, nothing.             *)
Room(n) == IF n = 2 THEN BannerSize ELSE IF n = 1 THEN LockedSize ELSE 0
Stale(n) ==
  /\ block - 1 + n <= 2 * cuts
  /\ boot # "serve" => n = 2
  /\ Len(response) <= Room(n) + (IF waiting /\ step = "line" THEN LockedSize ELSE 0)
  /\ n = 0 => ~Passes

(* After a cut: the application runs and no banner comes, or the blocks of  *)
(* the first page that passed did so by the banner and what it leaves, two  *)
(* for a cut.                                                               *)
LostInv ==
  host = "write" /\ locked =>
    \/ boot # "serve" /\ flash[Vectors] \in GoodVectors
    \/ page = 1 /\ \E n \in 0..2 : Stale(n)

(* With the first block the vectors are there.                              *)
VectorsInv ==
  host = "write" /\ ~locked /\ page = 1 /\ block > 1 =>
    flash[Vectors] = Target[Vectors] /\ Vectors[1] \in erased

(* Without a cut: a block that passes was taken, and is in the flash.       *)
WriteInv ==
  host = "write" /\ ~locked =>
    /\ BlocksTaken(block - 1)
    /\ ~waiting => shadow_bits = {}
    /\ step = "line" /\ Passes => BlocksTaken(block) /\ shadow_bits = {}
    /\ step # "line" => Midway(Blocks[page][block], Gone)

(* Two blocks of the first page may pass for each cut.                      *)
FewCuts == 2 * cuts < Len(Blocks[1])

WholeInv ==
  FewCuts => PagesInv /\ WriterInv /\ IdleInv /\ LostInv /\ VectorsInv /\ WriteInv

-----------------------------------------------------------------------------
(* What a block of a tidy image is.                                         *)
LEMMA BlockIsTidy ==
  ASSUME ImageIsTidy, NEW i \in DOMAIN AppPages, NEW k \in DOMAIN Blocks[i]
  PROVE  /\ Blocks[i][k] \in Seq(LineBytes) /\ WholeWords(Blocks[i][k])
         /\ Len(Blocks[i][k]) \in Nat /\ DOMAIN Blocks[i][k] = 1..Len(Blocks[i][k])
         /\ \A j \in 1..Len(Blocks[i][k]) :
              /\ Blocks[i][k][j].word \in Words /\ Blocks[i][k][j].cell \in Cells
              /\ Blocks[i][k][j].word \in DOMAIN Target
              /\ Blocks[i][k][j].word[1] = AppPages[i]
              /\ Blocks[i][k][j].value = Target[Blocks[i][k][j].word][Blocks[i][k][j].cell]
              /\ Blocks[i][k][j].value # Junk
  <1>1. Blocks[i] \in Seq(Lines)
    BY ImageAssumption
  <1>2. Blocks[i][k] \in Seq(LineBytes)
    <2>1. Blocks[i][k] \in Lines
      BY <1>1
    <2> QED BY <2>1, LinesAssumption DEF LineBytes
  <1>3. /\ WholeWords(Blocks[i][k])
        /\ \A j \in DOMAIN Blocks[i][k] :
              /\ Blocks[i][k][j].word[1] = AppPages[i] /\ Blocks[i][k][j].word \in DOMAIN Target
              /\ Blocks[i][k][j].value = Target[Blocks[i][k][j].word][Blocks[i][k][j].cell]
    BY DEF ImageIsTidy
  <1>4. \A j \in 1..Len(Blocks[i][k]) :
          Blocks[i][k][j].word \in Words /\ Blocks[i][k][j].cell \in Cells
    <2>1. \A j \in 1..Len(Blocks[i][k]) : Blocks[i][k][j] \in LineBytes
      BY <1>2
    <2> QED BY <2>1 DEF LineBytes
  <1>5. Len(Blocks[i][k]) \in Nat /\ DOMAIN Blocks[i][k] = 1..Len(Blocks[i][k])
    BY <1>2
  <1>6. ASSUME NEW j \in 1..Len(Blocks[i][k])
        PROVE  Blocks[i][k][j].value # Junk
    <2>1. Target[Blocks[i][k][j].word] \in Contents /\ Blocks[i][k][j].cell \in Cells
      BY <1>3, <1>4, <1>5 DEF ImageIsTidy
    <2>2. Target[Blocks[i][k][j].word][Blocks[i][k][j].cell] \in Bytes
      BY <2>1 DEF Contents
    <2> QED BY <1>3, <1>5, <2>2, ValuesAssumption
  <1> QED BY <1>2, <1>3, <1>4, <1>5, <1>6

(* The first page is that of the vectors, and no other is.                  *)
LEMMA FirstPage ==
  ASSUME ImageIsTidy
  PROVE  /\ 1 \in DOMAIN AppPages /\ 1 \in DOMAIN Blocks[1] /\ DOMAIN AppPages = 1..Len(AppPages)
         /\ Len(AppPages) \in Nat
         /\ \A i \in DOMAIN AppPages : /\ Len(Blocks[i]) \in Nat /\ DOMAIN Blocks[i] = 1..Len(Blocks[i])
                                       /\ i # 1 => AppPages[i] # Vectors[1]
         /\ Vectors \in DOMAIN Target /\ Target[Vectors] \in Contents
         /\ Target[Vectors] # BlankWord
  <1>1. AppPages # << >> /\ AppPages \in Seq(Pages \ Protected)
    BY ImageAssumption
  <1>2. \A i \in DOMAIN AppPages : Blocks[i] \in Seq(Lines) /\ Blocks[i] # << >>
    BY ImageAssumption
  <1>3. 1 \in DOMAIN AppPages /\ DOMAIN AppPages = 1..Len(AppPages) /\ Len(AppPages) \in Nat
    BY <1>1
  <1>4. \A i \in DOMAIN AppPages : Len(Blocks[i]) \in Nat /\ DOMAIN Blocks[i] = 1..Len(Blocks[i])
    BY <1>2
  <1>5. 1 \in DOMAIN Blocks[1]
    BY <1>2, <1>3
  <1>6. Vectors \in DOMAIN Target
    <2>1. PICK j \in DOMAIN Blocks[1][1] : Blocks[1][1][j].word = Vectors
      BY DEF ImageIsTidy, Covers
    <2> QED BY <2>1, <1>3, <1>5, BlockIsTidy
  <1>7. Target[Vectors] \in Contents /\ Target[Vectors] # BlankWord
    BY <1>6, VectorsAssumption DEF ImageIsTidy
  <1>8. \A i \in DOMAIN AppPages : i # 1 => AppPages[i] # Vectors[1]
    BY <1>3 DEF ImageIsTidy
  <1> QED BY <1>3, <1>4, <1>5, <1>6, <1>7, <1>8

(* The flash changes in the page of the shadow only.                        *)
LEMMA FlashOfShadow ==
  ASSUME IndInv, [Next]_vars, NEW w \in Words, flash'[w] # flash[w]
  PROVE  step \in {"erase", "program"} /\ shadow_start \in Words /\ w[1] = shadow_start[1]
  <1>1. \/ PowerLoss \/ EraseSector \/ EraseFails \/ ProgramWord \/ ProgramFails
        \/ flash' = flash
    BY DEF Next, vars, Orchestrator, Decide, JumpToApp, EnterBootloader, RunUnlock, RunLock,
       RunReset, WriteResponse, RunWrite, RunOther, ServerStep, Flushing, RefuseByte,
       FlushOther, TakeByte, WriteDone
  <1>2. step \in {"erase", "program"}
    BY <1>1 DEF PowerLoss, EraseSector, EraseFails, ProgramWord, ProgramFails
  <1>3. shadow_start \in Words
    BY <1>2 DEF IndInv, TypeOK, StepInv, ShadowInv
  <1>4. \/ flash' = [v \in Words |-> IF v[1] = shadow_start[1] THEN BlankWord ELSE flash[v]]
        \/ flash' = [flash EXCEPT ![shadow_start] = shadow]
    BY <1>1 DEF PowerLoss, EraseSector, EraseFails, ProgramWord, ProgramFails
  <1> QED BY <1>2, <1>3, <1>4 DEF IndInv, TypeOK

(* The vectors, once programmed, stay while their page is not erased again. *)
LEMMA VectorsStay ==
  ASSUME IndInv, [Next]_vars, ImageIsTidy, flash[Vectors] = Target[Vectors],
         Vectors[1] \in erased
  PROVE  flash'[Vectors] = Target[Vectors]
  <1>1. Vectors \in Words /\ Target[Vectors] # BlankWord
    BY VectorsAssumption, FirstPage
  <1>2. \/ PowerLoss \/ EraseSector \/ EraseFails \/ ProgramWord \/ ProgramFails
        \/ flash' = flash
    BY DEF Next, vars, Orchestrator, Decide, JumpToApp, EnterBootloader, RunUnlock, RunLock,
       RunReset, WriteResponse, RunWrite, RunOther, ServerStep, Flushing, RefuseByte,
       FlushOther, TakeByte, WriteDone
  <1>3. \/ flash' = flash
        \/ /\ shadow_start[1] \notin erased
           /\ flash' = [v \in Words |-> IF v[1] = shadow_start[1] THEN BlankWord ELSE flash[v]]
        \/ /\ flash[shadow_start] \in {shadow, BlankWord}
           /\ flash' = [flash EXCEPT ![shadow_start] = shadow]
    BY <1>2 DEF PowerLoss, EraseSector, EraseFails, ProgramWord, ProgramFails
  <1> QED BY <1>1, <1>3 DEF IndInv, TypeOK

(* What a step of an update is to the bootloader.                           *)
DeviceNext ==
  \/ Orchestrator \/ EnterBootloader \/ PowerLoss
  \/ RunUnlock \/ RunLock \/ RunReset \/ RunOther("data")
  \/ RunWrite(Blocks[page][block]) \/ WriteResponse(Frame)
  \/ ServerStep \/ UNCHANGED vars

LEMMA UpdateIsDevice ==
  ASSUME [UpdateNext]_updateVars
  PROVE  DeviceNext
  <1> USE DEF DeviceNext
  <1>1. CASE UNCHANGED updateVars
    BY <1>1 DEF updateVars
  <1>2. CASE DeviceStep \/ PowerCut \/ Bus
    BY <1>2 DEF DeviceStep, PowerCut, Bus, AppEntersBoot, SendIsLost, AnswerIsLost
  <1>3. CASE Send
    BY <1>3 DEF Send, Command
  <1>4. ASSUME NEW w \in DOMAIN Target, WordVerified(w) \/ WordNotVerified(w)
        PROVE  WriteResponse(Frame) \/ UNCHANGED vars
    BY <1>4 DEF WordVerified, WordNotVerified, Answered, GivesUp
  <1>5. CASE Tool /\ ~Send
    BY <1>4, <1>5
       DEF Tool, DrainBanner, Connect, ConnectFails, PartHeard, Unlocked, NotUnlocked,
           BlockWritten, BlockNotWritten, FlashLocked, FlashNotLocked, SendReset, Accepted,
           Refused, Answered, GivesUp
  <1> QED BY <1>1, <1>2, <1>3, <1>5 DEF UpdateNext

(* The writer keeps to the page at hand.                                    *)
LEMMA WriterStep ==
  ASSUME IndInv, UpdateTypeOK, ImageIsTidy, WriterInv, DeviceNext, UNCHANGED page
  PROVE  WriterInv'
  <1> USE DEF WriterInv
  <1> DEFINE line == Blocks[page][block]
  <1>1. /\ line \in Seq(LineBytes) /\ line # << >>
        /\ \A j \in DOMAIN line : line[j].word[1] = AppPages[page] /\ line[j].value # Junk
    <2>1. page \in DOMAIN AppPages /\ block \in DOMAIN Blocks[page]
      BY DEF UpdateTypeOK
    <2> QED BY <2>1, BlockIsTidy DEF WholeWords
  <1> HIDE DEF line
  <1>2. CASE UNCHANGED vars \/ WriteResponse(Frame)
    BY <1>2 DEF vars, WriteResponse, shadowVars, lineVars
  <1>3. CASE Orchestrator
    BY <1>3 DEF Orchestrator, Decide, JumpToApp, shadowVars, lineVars
  <1>4. CASE EnterBootloader \/ PowerLoss
    BY <1>4 DEF EnterBootloader, PowerLoss, Restart
  <1>5. CASE RunUnlock \/ RunOther("data")
    BY <1>5 DEF RunUnlock, RunOther, ClearShadow, FinishLine, shadowVars
  <1>6. CASE RunLock
    BY <1>6 DEF RunLock, CallFlush, FinishLine, shadowVars
  <1>7. CASE RunReset
    BY <1>7 DEF RunReset, CallFlush, Restart, shadowVars
  <1>8. CASE RunWrite(line)
    BY <1>1, <1>8 DEF RunWrite, shadowVars
  <1>9. CASE RefuseByte \/ WriteDone \/ EraseFails \/ ProgramFails
    <2>1. step' = "line" /\ todo' = << >> /\ shadow_start' = shadow_start
      BY <1>9 DEF RefuseByte, WriteDone, EraseFails, ProgramFails, FinishLine, shadowVars
    <2> QED BY <2>1
  <1>10. CASE FlushOther \/ EraseSector
    BY <1>10 DEF FlushOther, EraseSector, CallFlush, shadowVars
  <1>11. CASE TakeByte
    <2>1. todo \in Seq(LineBytes) /\ todo # << >>
      BY <1>11 DEF TakeByte, IndInv, TypeOK, LineBytes
    <2>2. /\ Head(todo) = todo[1] /\ 1 \in DOMAIN todo
          /\ \A j \in DOMAIN Tail(todo) : j + 1 \in DOMAIN todo /\ Tail(todo)[j] = todo[j + 1]
      BY <2>1
    <2>3. shadow_start' = Head(todo).word /\ todo' = Tail(todo) /\ ~locked' /\ step' # "line"
      BY <1>11 DEF TakeByte, CallFlush, Writable
    <2> QED BY <2>2, <2>3
  <1>12. CASE ProgramWord
    <2>1. ~locked /\ step # "line"
      BY <1>12 DEF ProgramWord, IndInv, StepInv
    <2>2. after \in {"byte", "full", "lock", "reset"}
      BY DEF IndInv, TypeOK
    <2>3. /\ shadow_start' = NoWord
          /\ \/ step' = "byte" /\ todo' = todo /\ ~locked'
             \/ step' = "line" /\ todo' = << >>
      BY <1>12, <2>1, <2>2 DEF ProgramWord, ClearShadow, FinishLine, Restart
    <2> QED BY <2>3
  <1> QED
    BY <1>2, <1>3, <1>4, <1>5, <1>6, <1>7, <1>8, <1>9, <1>10, <1>11, <1>12
       DEF DeviceNext, ServerStep, Flushing, line

(* The pages before the one at hand are left alone.                         *)
LEMMA PagesStep ==
  ASSUME IndInv, UpdateTypeOK, ImageIsTidy, WriterInv, PagesInv, [Next]_vars
  PROVE  \A i \in 1..page - 1 : Holds(i)'
  <1> SUFFICES ASSUME NEW i \in 1..page - 1, NEW w \in DOMAIN Target, w[1] = AppPages[i]
               PROVE  flash'[w] = Target[w]
    BY DEF Holds
  <1>1. w \in Words /\ flash[w] = Target[w]
    BY ImageAssumption DEF PagesInv, Holds
  <1>2. page \in 1..Len(AppPages) /\ DOMAIN AppPages = 1..Len(AppPages) /\ Len(AppPages) \in Nat
    BY FirstPage DEF UpdateTypeOK
  <1>3. i \in DOMAIN AppPages /\ i # page
    BY <1>2
  <1>4. w[1] # AppPages[page]
    BY <1>2, <1>3 DEF ImageIsTidy
  <1>5. flash'[w] = flash[w]
    BY <1>1, <1>4, FlashOfShadow, Marks DEF WriterInv
  <1> QED BY <1>1, <1>5

(* On a later page the vectors are there.                                   *)
LEMMA LaterPage ==
  ASSUME UpdateTypeOK, ImageIsTidy, PagesInv, page > 1
  PROVE  flash[Vectors] = Target[Vectors] /\ flash[Vectors] \in GoodVectors
  <1>1. 1 \in 1..page - 1
    BY FirstPage DEF UpdateTypeOK
  <1>2. Vectors \in DOMAIN Target /\ Vectors[1] = AppPages[1] /\ Target[Vectors] \in GoodVectors
    BY FirstPage DEF ImageIsTidy
  <1> QED BY <1>1, <1>2 DEF PagesInv, Holds

-----------------------------------------------------------------------------
(* The writer in the middle of a block.                                     *)

(* A double word that is not complete goes on with the next byte.           *)
LEMMA GoesOn ==
  ASSUME NEW line \in Seq(LineBytes), WholeWords(line), NEW n \in 0..Len(line),
         Gathered(line, n), shadow_bits # {}, shadow_bits \subseteq Cells, shadow_bits # Cells
  PROVE  n > 0 /\ n < Len(line) /\ line[n + 1].word = line[n].word
  <1>1. /\ n > 0 /\ n \in DOMAIN line
        /\ shadow_bits = {c \in Cells : \E j \in 1..n : line[j].word = line[n].word /\ line[j].cell = c}
    BY DEF Gathered
  <1>2. PICK c \in Cells : c \notin shadow_bits
    OBVIOUS
  <1>3. PICK j \in DOMAIN line : line[j].word = line[n].word /\ line[j].cell = c
    BY <1>1, <1>2 DEF WholeWords
  <1>4. j > n /\ j \in 1..Len(line)
    BY <1>1, <1>2, <1>3
  <1>5. \A k \in n..j : line[k].word = line[n].word
    BY <1>1, <1>3 DEF WholeWords
  <1> QED BY <1>1, <1>4, <1>5

(* A double word that begins has not been seen in the line.                 *)
LEMMA BeginsAnew ==
  ASSUME NEW line \in Seq(LineBytes), WholeWords(line), NEW n \in 0..Len(line), n < Len(line),
         Gathered(line, n), shadow_bits = {}
  PROVE  \A j \in 1..n : line[j].word # line[n + 1].word
  <1> SUFFICES ASSUME NEW j \in 1..n, line[j].word = line[n + 1].word PROVE FALSE
    OBVIOUS
  <1>1. j \in DOMAIN line /\ n + 1 \in DOMAIN line /\ n > 0 /\ n \in j..(n + 1)
    OBVIOUS
  <1>2. line[n].word = line[j].word
    BY <1>1 DEF WholeWords
  <1>3. n + 1 <= n
    BY <1>1, <1>2 DEF Gathered
  <1> QED BY <1>3

(* One more byte.                                                           *)
LEMMA GatheredMore ==
  ASSUME NEW line \in Seq(LineBytes), WholeWords(line), NEW n \in 0..Len(line), n < Len(line),
         Gathered(line, n), shadow_bits \subseteq Cells, shadow_bits # Cells,
         shadow_start' = line[n + 1].word, shadow_bits' = shadow_bits \cup {line[n + 1].cell}
  PROVE  Gathered(line, n + 1)'
  <1>1. line[n + 1].cell \in Cells
    <2>1. line[n + 1] \in LineBytes
      OBVIOUS
    <2> QED BY <2>1 DEF LineBytes
  <1>2. shadow_bits = {c \in Cells : \E j \in 1..n : line[j].word = line[n + 1].word
                                                       /\ line[j].cell = c}
    <2>1. CASE shadow_bits = {}
      BY <2>1, BeginsAnew
    <2>2. CASE shadow_bits # {}
      BY <2>2, GoesOn DEF Gathered
    <2> QED BY <2>1, <2>2
  <1>3. 1..(n + 1) = 1..n \cup {n + 1} /\ n + 1 > 0
    OBVIOUS
  <1>4. shadow_bits' = {c \in Cells : \E j \in 1..(n + 1) : line[j].word = line[n + 1].word
                                                              /\ line[j].cell = c}
    BY <1>1, <1>2, <1>3
  <1>5. shadow_bits' # {}
    OBVIOUS
  <1> QED BY <1>3, <1>4, <1>5 DEF Gathered

(* A double word that is complete is not gone on with.                      *)
LEMMA GatheredAll ==
  ASSUME NEW line \in Seq(LineBytes), WholeWords(line), NEW n \in 0..Len(line),
         Gathered(line, n), shadow_bits = Cells, Cells # {}, shadow_bits' = {}
  PROVE  Gathered(line, n)'
  <1>1. /\ n > 0 /\ n \in DOMAIN line
        /\ Cells = {c \in Cells : \E j \in 1..n : line[j].word = line[n].word /\ line[j].cell = c}
    BY DEF Gathered
  <1>2. ASSUME NEW j \in DOMAIN line, line[j].word = line[n].word
        PROVE  j <= n
    <2>1. line[j].cell \in Cells
      <3>1. line[j] \in LineBytes
        OBVIOUS
      <3> QED BY <3>1 DEF LineBytes
    <2>2. PICK i \in 1..n : line[i].word = line[n].word /\ line[i].cell = line[j].cell
      BY <1>1, <2>1
    <2>3. i \in DOMAIN line
      BY <2>2
    <2>4. i = j
      BY <1>2, <2>2, <2>3 DEF WholeWords
    <2> QED BY <2>2, <2>4
  <1> QED BY <1>2 DEF Gathered

(* What was taken of a line that the shadow is done with is in the flash.   *)
LEMMA WordIsWritten ==
  ASSUME IndInv, ImageIsTidy, NEW i \in DOMAIN AppPages, NEW k \in DOMAIN Blocks[i],
         Taken(Blocks[i][k], Len(Blocks[i][k])), shadow_bits = {},
         NEW w \in DOMAIN Target, Covers(Blocks[i][k], w)
  PROVE  flash[w] = Target[w] /\ w[1] \in erased
  <1> DEFINE line == Blocks[i][k]
  <1>1. /\ WholeWords(line) /\ DOMAIN line = 1..Len(line)
        /\ \A j \in 1..Len(line) : line[j].cell \in Cells
    BY BlockIsTidy
  <1>2. w \in Words /\ Target[w] \in Contents /\ flash[w] \in Contents
    BY ImageAssumption DEF ImageIsTidy, IndInv, TypeOK
  <1>3. PICK j \in DOMAIN line : line[j].word = w
    BY DEF Covers
  <1>4. ASSUME NEW c \in Cells
        PROVE  flash[w][c] = Target[w][c] /\ w[1] \in erased
    <2>1. PICK h \in DOMAIN line : line[h].word = w /\ line[h].cell = c
      BY <1>1, <1>3 DEF WholeWords
    <2>2. taken[w][c] = Target[w][c]
      BY <1>1, <2>1 DEF Taken
    <2>3. taken[w][c] # None
      BY <1>2, <2>2, Marks DEF Contents
    <2> QED BY <1>2, <2>2, <2>3 DEF IndInv, Kept
  <1>5. w[1] \in erased
    BY <1>1, <1>3, <1>4
  <1>6. flash[w] = Target[w]
    BY <1>2, <1>4 DEF Contents
  <1> QED BY <1>5, <1>6

(* The bytes of a block one by one: they are taken, and not refused, as     *)
(* long as the flash is unlocked, and when the block is done, so is the     *)
(* shadow.                                                                  *)
LEMMA BlockStep ==
  ASSUME IndInv, ImageIsTidy, NEW p \in DOMAIN AppPages, NEW m \in DOMAIN Blocks[p],
         NEW line, line = Blocks[p][m],
         \A k \in 1..m - 1 : Taken(Blocks[p][k], Len(Blocks[p][k])),
         ~locked, step # "line", response = << >>, heard = << >>, UNCHANGED heard,
         NEW n, n = Len(line) - Len(todo), Midway(line, n), ServerStep
  PROVE  /\ UNCHANGED locked /\ (\A k \in 1..m - 1 : Taken(Blocks[p][k], Len(Blocks[p][k])))'
         /\ erased \subseteq erased' /\ boot' = "serve"
         /\ step' = "line" /\ Passes' => Taken(line, Len(line))' /\ shadow_bits' = {}
         /\ step' # "line" => Midway(line, Len(line) - Len(todo))'
  <1> DEFINE Stays == (\A k \in 1..m - 1 : Taken(Blocks[p][k], Len(Blocks[p][k])))'
             Goes == step' # "line" => Midway(line, Len(line) - Len(todo))'
  <1>1. DOMAIN Blocks[p] = 1..Len(Blocks[p]) /\ Len(Blocks[p]) \in Nat
    BY FirstPage
  <1>2. /\ line \in Seq(LineBytes) /\ WholeWords(line) /\ Len(line) \in Nat
        /\ DOMAIN line = 1..Len(line) /\ line # << >>
        /\ \A j \in 1..Len(line) :
             /\ line[j].word \in Words /\ line[j].cell \in Cells
             /\ line[j].value = Target[line[j].word][line[j].cell]
    <2>1. Blocks[p][m] # << >>
      BY BlockIsTidy DEF WholeWords
    <2> QED BY <2>1, BlockIsTidy
  <1>3. /\ boot = "serve" /\ todo \in Seq(LineBytes) /\ Len(todo) \in Nat
        /\ shadow_bits \subseteq Cells /\ taken \in [Words -> [Cells -> Bytes \cup {None}]]
        /\ shadow_start \in Words \cup {NoWord} /\ response \in Seq(Octets)
        /\ shadow_start = NoWord <=> shadow_bits = {}
        /\ step \in {"line", "byte", "erase", "program"}
    BY DEF IndInv, TypeOK, StepInv, ShadowInv, LineBytes, Lined
  <1>4. /\ n \in 0..Len(line) /\ Taken(line, n) /\ Gathered(line, n)
        /\ \A j \in DOMAIN todo : todo[j] = line[n + j]
        /\ step = "byte" => shadow_bits # Cells
        /\ step # "byte" => shadow_bits = Cells /\ after = "full"
    BY DEF Midway
  <1>5. Cells # {}
    BY <1>2
  <1>6. todo # << >> => n < Len(line) /\ Head(todo) = line[n + 1]
    BY <1>2, <1>3, <1>4
  <1>8. UNCHANGED taken => Stays
    BY DEF Taken
  <1>9. CASE RefuseByte \/ EraseFails \/ ProgramFails
    <2>1. UNCHANGED <<taken, locked, boot, erased>> /\ step' = "line"
      BY <1>9 DEF RefuseByte, EraseFails, ProgramFails, FinishLine
    <2>2. PICK e \in Errors : Reply(e)
      BY <1>9, Answers DEF RefuseByte, EraseFails, ProgramFails, FinishLine
    <2>3. response' \in {<< >>, Text(e)}
      BY <2>2, ErrorSizes, ReplyType DEF IndInv
    <2>4. ~Passes'
      BY <2>3, ErrorRefuses
    <2> QED BY <2>1, <2>4, <1>3, <1>8
  <1>10. ASSUME FlushOther
         PROVE  FALSE
    <2>1. step = "byte" /\ todo # << >> /\ shadow_start \notin {NoWord, Head(todo).word}
      BY <1>10 DEF FlushOther
    <2>2. n > 0 /\ line[n + 1].word = line[n].word
      BY <2>1, <1>2, <1>3, <1>4, GoesOn
    <2>3. shadow_start = line[n].word
      BY <2>1, <1>3, <1>4 DEF Gathered
    <2> QED BY <2>1, <2>2, <2>3, <1>6
  <1>11. CASE TakeByte
    <2> DEFINE b == line[n + 1]
    <2>1. /\ todo # << >> /\ step = "byte" /\ b = Head(todo) /\ n < Len(line) /\ n + 1 \in 1..Len(line)
      BY <1>4, <1>6, <1>11, <1>2 DEF TakeByte
    <2>2. /\ shadow_start' = b.word /\ shadow_bits' = shadow_bits \cup {b.cell}
          /\ taken' = [taken EXCEPT ![b.word][b.cell] = b.value]
          /\ todo' = Tail(todo)
          /\ IF shadow_bits' = Cells THEN step' = "erase" /\ after' = "full" ELSE step' = step
          /\ UNCHANGED <<boot, locked, erased, response>>
      BY <2>1, <1>11 DEF TakeByte, CallFlush
    <2>3. b.word \in Words /\ b.cell \in Cells /\ b.value = Target[b.word][b.cell]
      BY <2>1, <1>2
    <2> HIDE DEF b
    <2>4. ASSUME NEW w, NEW c, w \in Words, c \in Cells, taken[w][c] = Target[w][c]
          PROVE  taken'[w][c] = Target[w][c]
      BY <2>2, <2>3, <2>4, <1>3
    <2>5. taken'[b.word][b.cell] = Target[b.word][b.cell]
      BY <2>2, <2>3, <1>3
    <2>6. Stays
      <3> SUFFICES ASSUME NEW k \in 1..m - 1, NEW j \in 1..Len(Blocks[p][k])
                   PROVE  taken'[Blocks[p][k][j].word][Blocks[p][k][j].cell]
                            = Target[Blocks[p][k][j].word][Blocks[p][k][j].cell]
        BY DEF Taken
      <3>1. k \in DOMAIN Blocks[p]
        BY <1>1
      <3>2. Blocks[p][k][j].word \in Words /\ Blocks[p][k][j].cell \in Cells
        BY <1>1, <3>1, BlockIsTidy
      <3> QED BY <3>2, <2>4 DEF Taken
    <2>7. Gathered(line, n + 1)'
      BY <1>2, <1>3, <1>4, <2>1, <2>2, GatheredMore DEF b
    <2>8. /\ Len(todo') = Len(todo) - 1
          /\ \A j \in DOMAIN todo' : j + 1 \in DOMAIN todo /\ todo'[j] = todo[j + 1]
      BY <2>1, <2>2, <1>3
    <2>9. Len(line) - Len(todo') = n + 1
      BY <2>8, <1>2, <1>3
    <2>10. \A j \in DOMAIN todo' : todo'[j] = line[(n + 1) + j]
      <3> SUFFICES ASSUME NEW j \in DOMAIN todo' PROVE todo'[j] = line[(n + 1) + j]
        OBVIOUS
      <3>1. todo' \in Seq(LineBytes)
        BY <2>1, <2>2, <1>3, HeadTail
      <3>2. j \in Nat /\ n \in Nat
        BY <3>1, <1>4
      <3>3. (n + 1) + j = n + (j + 1)
        BY <3>2
      <3> QED BY <2>8, <1>4, <3>3
    <2>11. Taken(line, n + 1)'
      <3> SUFFICES ASSUME NEW j \in 1..(n + 1)
                   PROVE  taken'[line[j].word][line[j].cell] = Target[line[j].word][line[j].cell]
        BY DEF Taken
      <3>1. j \in 1..n \/ j = n + 1
        BY <1>4
      <3>2. line[j].word \in Words /\ line[j].cell \in Cells
        BY <1>2, <2>1
      <3>3. CASE j \in 1..n
        <4>1. taken[line[j].word][line[j].cell] = Target[line[j].word][line[j].cell]
          BY <3>3, <1>4 DEF Taken
        <4> QED BY <4>1, <3>2, <2>4
      <3>4. CASE j = n + 1
        BY <3>4, <2>5 DEF b
      <3> QED BY <3>1, <3>3, <3>4
    <2>12. n + 1 \in 0..Len(line)
      BY <2>1
    <2>13. step' # "line" /\ Midway(line, n + 1)'
      BY <2>1, <2>2, <2>7, <2>10, <2>11, <2>12 DEF Midway
    <2>14. Goes
      BY <2>13, <2>2, <2>9
    <2> QED BY <2>2, <2>6, <2>13, <2>14, <1>3
  <1>12. CASE WriteDone
    <2>1. /\ UNCHANGED <<taken, locked, boot, erased, shadow_bits>> /\ step' = "line"
          /\ step = "byte" /\ todo = << >>
      BY <1>12 DEF WriteDone, FinishLine, shadowVars
    <2>2. n = Len(line)
      BY <2>1, <1>2, <1>3
    <2>3. shadow_bits = {}
      BY <2>1, <2>2, <1>2, <1>3, <1>4, GoesOn
    <2>4. Taken(line, Len(line))'
      BY <2>1, <2>2, <1>4 DEF Taken
    <2> QED BY <2>1, <2>3, <2>4, <1>3, <1>8
  <1>13. CASE EraseSector
    <2>1. /\ UNCHANGED <<taken, locked, boot, shadow_start, shadow_bits, todo, after, response>>
          /\ step = "erase" /\ step' = "program" /\ erased \subseteq erased'
      BY <1>13 DEF EraseSector, shadowVars
    <2>2. Goes
      BY <2>1, <1>4 DEF Midway, Taken, Gathered
    <2> QED BY <2>1, <2>2, <1>3, <1>8
  <1>14. CASE ProgramWord
    <2>1. step = "program" /\ after = "full" /\ shadow_bits = Cells
      BY <1>14, <1>4 DEF ProgramWord
    <2>2. /\ UNCHANGED <<taken, locked, boot, erased, todo, response>>
          /\ step' = "byte" /\ shadow_bits' = {}
      BY <1>14, <2>1 DEF ProgramWord, ClearShadow
    <2>3. Gathered(line, n)'
      BY <2>1, <2>2, <1>2, <1>4, <1>5, GatheredAll
    <2>4. Taken(line, n)'
      BY <2>2, <1>4 DEF Taken
    <2>5. Midway(line, n)'
      BY <2>2, <2>3, <2>4, <1>4, <1>5 DEF Midway
    <2>6. Goes
      BY <2>2, <2>5
    <2> QED BY <2>2, <2>6, <1>3, <1>8
  <1> QED BY <1>9, <1>10, <1>11, <1>12, <1>13, <1>14 DEF ServerStep, Flushing

-----------------------------------------------------------------------------
(* The stages.                                                              *)

AllInv ==
  /\ IndInv /\ UpdateInv
  /\ PagesInv /\ WriterInv /\ IdleInv /\ LostInv /\ VectorsInv /\ WriteInv

(* Where the tool is, in numbers.                                           *)
LEMMA AtBlock ==
  ASSUME UpdateTypeOK, ImageIsTidy
  PROVE  /\ page \in DOMAIN AppPages /\ page \in Nat /\ page >= 1
         /\ block \in DOMAIN Blocks[page] /\ block \in Nat /\ block >= 1
         /\ block <= Len(Blocks[page]) /\ Len(Blocks[page]) \in Nat
         /\ page <= Len(AppPages) /\ Len(AppPages) \in Nat
         /\ cuts \in Nat
  BY FirstPage, BoundsAssumption DEF UpdateTypeOK

(* The server works at a line only in the middle of it.                     *)
LEMMA ServerIsBusy ==
  ASSUME ServerStep
  PROVE  step # "line"
  BY DEF ServerStep, RefuseByte, FlushOther, TakeByte, WriteDone, Flushing, EraseSector,
     EraseFails, ProgramWord, ProgramFails

(* A page is written by the server.                                         *)
LEMMA ServerWrites ==
  ASSUME AllInv, ImageIsTidy, host = "write", ServerStep, UNCHANGED <<hostVars, cuts>>
  PROVE  LostInv' /\ VectorsInv' /\ WriteInv'
  <1> USE DEF hostVars
  <1>1. /\ step # "line" /\ waiting /\ boot = "serve" /\ heard = << >>
        /\ UpdateTypeOK /\ IndInv
    BY ServerIsBusy DEF AllInv, AnswerInv, UpdateInv, UpdateTypeOK, IndInv, StepInv
  <1>2. PICK p \in DOMAIN AppPages : page = p
    BY <1>1 DEF UpdateTypeOK
  <1>3. PICK m \in DOMAIN Blocks[p] : block = m
    BY <1>1, <1>2 DEF UpdateTypeOK
  <1>4. CASE locked
    <2>1. RefuseByte
      BY <1>1, <1>4 DEF ServerStep, FlushOther, TakeByte, WriteDone, Flushing, EraseSector,
         EraseFails, ProgramWord, ProgramFails, Writable, IndInv, StepInv, AllInv, WriterInv
    <2>2. todo # << >> /\ Head(todo).value # Junk
      <3>1. todo # << >> /\ todo \in Seq(LineBytes)
        BY <1>1, <2>1 DEF RefuseByte, IndInv, TypeOK, LineBytes
      <3>2. Head(todo) = todo[1] /\ 1 \in DOMAIN todo
        BY <3>1
      <3> QED BY <3>1, <3>2 DEF AllInv, WriterInv
    <2>3. /\ locked' = locked /\ boot' = boot /\ step' = "line"
          /\ Reply("ERR flash is locked")
      BY <1>4, <2>1, <2>2 DEF RefuseByte, FinishLine
    <2>4. page = 1 /\ \E n \in 0..2 : Stale(n)
      BY <1>1, <1>4 DEF AllInv, LostInv
    <2>5. PICK n \in 0..2 : Stale(n)
      BY <2>4
    <2>6. /\ Len(response) \in Nat /\ Len(response) <= Room(n) /\ Room(n) \in Nat
          /\ n = 0 => response = << >>
      <3>1. Room(n) \in Nat /\ (n = 0 => Room(n) = 0)
        BY Sizes DEF Room
      <3>2. response \in Seq(Octets) /\ Len(response) <= Room(n)
        BY <1>1, <2>5, <3>1 DEF Stale, IndInv, TypeOK
      <3> QED BY <3>1, <3>2
    <2>7. Len(response') <= Room(n) + LockedSize
      <3>1. Len(response') \in Nat /\ Len(response') <= Len(response) + LockedSize
        BY <1>1, <2>3, ReplySizes, Answers DEF IndInv
      <3> QED BY <3>1, <2>6, Sizes
    <2>8. n = 0 => ~Passes'
      <3>1. n = 0 => response' \in {<< >>, Text("ERR flash is locked")}
        BY <1>1, <2>3, <2>6, ReplyType, Answers DEF IndInv
      <3> QED BY <1>1, <3>1, Answers, ErrorRefuses
    <2>9. Stale(n)'
      BY <1>1, <2>3, <2>5, <2>7, <2>8 DEF Stale, Room
    <2>10. LostInv'
      BY <2>4, <2>9 DEF LostInv
    <2> QED BY <1>4, <2>3, <2>10 DEF VectorsInv, WriteInv
  <1>5. CASE ~locked
    <2> DEFINE line == Blocks[p][m]
               n == Len(line) - Len(todo)
    <2>1. /\ \A k \in 1..m - 1 : Taken(Blocks[p][k], Len(Blocks[p][k]))
          /\ response = << >> /\ Midway(line, n)
      BY <1>1, <1>2, <1>3, <1>5 DEF AllInv, UpdateInv, AnswerInv, WriteInv, BlocksTaken, Gone
    <2> HIDE DEF line
    <2>2. /\ UNCHANGED locked /\ (\A k \in 1..m - 1 : Taken(Blocks[p][k], Len(Blocks[p][k])))'
          /\ erased \subseteq erased' /\ boot' = "serve"
          /\ step' = "line" /\ Passes' => Taken(line, Len(line))' /\ shadow_bits' = {}
          /\ step' # "line" => Midway(line, Len(line) - Len(todo))'
      BY <1>1, <1>5, <2>1, BlockStep DEF line
    <2>3. LostInv'
      BY <1>5, <2>2 DEF LostInv
    <2>4. VectorsInv'
      <3>1. [Next]_vars
        BY DEF Next
      <3> QED BY <1>1, <1>5, <2>2, <3>1, VectorsStay DEF AllInv, VectorsInv
    <2>5. WriteInv'
      <3>1. BlocksTaken(block - 1)'
        BY <1>2, <1>3, <2>2 DEF BlocksTaken, Taken
      <3>2. step' = "line" /\ Passes' => BlocksTaken(block)' /\ shadow_bits' = {}
        <4> SUFFICES ASSUME step' = "line", Passes'
                     PROVE  BlocksTaken(block)' /\ shadow_bits' = {}
          OBVIOUS
        <4>1. Taken(line, Len(line))' /\ shadow_bits' = {}
          BY <2>2
        <4>2. \A k \in 1..m : k = m \/ k \in 1..m - 1
          BY <1>1, <1>2, <1>3, AtBlock
        <4>3. (\A k \in 1..m : Taken(Blocks[p][k], Len(Blocks[p][k])))'
          BY <2>2, <4>1, <4>2 DEF line
        <4> QED BY <1>2, <1>3, <4>1, <4>3 DEF BlocksTaken, Taken
      <3>3. step' # "line" => Midway(Blocks[page][block], Gone)'
        BY <1>2, <1>3, <2>2 DEF Midway, Taken, Gathered, Gone, line
      <3> QED BY <1>1, <3>1, <3>2, <3>3 DEF WriteInv
    <2> QED BY <2>3, <2>4, <2>5
  <1> QED BY <1>4, <1>5

(* The power goes while a page is written.                                  *)
LEMMA CutWrites ==
  ASSUME AllInv, ImageIsTidy, host = "write", PowerCut
  PROVE  LostInv' /\ VectorsInv' /\ WriteInv'
  <1>1. /\ locked' /\ boot' # "serve" /\ response' = << >> /\ cuts' = cuts + 1
        /\ UNCHANGED <<host, page, block>>
    BY DEF PowerCut, PowerLoss, Restart, hostVars
  <1>2. UpdateTypeOK /\ IndInv /\ cuts \in Nat /\ page >= 1 /\ block >= 1 /\ page \in Nat /\ block \in Nat
    BY AtBlock DEF AllInv, UpdateInv
  <1>3. [Next]_vars
    BY DEF PowerCut, Next
  <1>8. block + 1 <= 2 * cuts' => Stale(2)'
    BY <1>1, <1>2, Sizes DEF Stale, Room
  <1>4. CASE page > 1
    <2>1. PagesInv'
      BY <1>1, <1>2, <1>3, PagesStep DEF AllInv, PagesInv
    <2>2. UpdateTypeOK'
      BY UpdateType, <1>2 DEF UpdateNext, IndInv
    <2>3. flash'[Vectors] \in GoodVectors
      <3>1. (page > 1)'
        BY <1>1, <1>4
      <3>2. 1 \in 1..page' - 1
        BY <1>1, <1>2, <1>4
      <3>3. Vectors \in DOMAIN Target /\ Vectors[1] = AppPages[1] /\ Target[Vectors] \in GoodVectors
        BY FirstPage DEF ImageIsTidy
      <3> QED BY <2>1, <3>2, <3>3 DEF PagesInv, Holds
    <2> QED BY <1>1, <2>3 DEF LostInv, VectorsInv, WriteInv
  <1>5. CASE page = 1 /\ ~locked /\ block > 1
    <2>1. flash'[Vectors] = Target[Vectors]
      BY <1>2, <1>3, <1>5, VectorsStay DEF AllInv, VectorsInv
    <2> QED BY <1>1, <2>1 DEF ImageIsTidy, LostInv, VectorsInv, WriteInv
  <1>6. CASE page = 1 /\ ~locked /\ block = 1
    BY <1>1, <1>2, <1>6, <1>8 DEF LostInv, VectorsInv, WriteInv
  <1>7. CASE page = 1 /\ locked
    <2>1. CASE boot # "serve" /\ flash[Vectors] \in GoodVectors
      <3>1. step = "line"
        BY <1>2, <2>1 DEF IndInv, StepInv
      <3>2. flash' = flash
        BY <1>3, <3>1, FlashStays
      <3> QED BY <1>1, <2>1, <3>2 DEF LostInv, VectorsInv, WriteInv
    <2>2. CASE \E n \in 0..2 : Stale(n)
      <3>1. block - 1 <= 2 * cuts
        BY <1>2, <2>2 DEF Stale
      <3> QED BY <1>1, <1>2, <1>7, <1>8, <3>1 DEF LostInv, VectorsInv, WriteInv
    <2> QED BY <1>7, <2>1, <2>2 DEF AllInv, LostInv
  <1> QED BY <1>2, <1>4, <1>5, <1>6, <1>7

(* The device boots while a page is written, a command is sent, a frame is  *)
(* lost.                                                                    *)
LEMMA BusWrites ==
  ASSUME AllInv, ImageIsTidy, host = "write",
         \/ Orchestrator /\ UNCHANGED <<hostVars, cuts>>
         \/ Send \/ SendIsLost \/ AnswerIsLost \/ PartHeard \/ UNCHANGED updateVars
  PROVE  LostInv' /\ VectorsInv' /\ WriteInv'
  <1>1. /\ UpdateTypeOK /\ IndInv /\ page \in DOMAIN AppPages /\ block \in DOMAIN Blocks[page]
        /\ AnswerInv /\ Len(response) \in Nat
    BY AtBlock DEF AllInv, UpdateInv, IndInv, TypeOK
  <1>2. CASE Orchestrator /\ UNCHANGED <<hostVars, cuts>>
    <2>1. boot \in {"decide", "jump"} /\ locked /\ locked' /\ ~magic
      BY <1>2 DEF Orchestrator, Decide, JumpToApp, AllInv, IdleInv, UpdateInv, LockInv
    <2>2. UNCHANGED <<host, page, block, waiting, heard, cuts, flash, step>>
      BY <1>2 DEF Orchestrator, Decide, JumpToApp, hostVars, lineVars
    <2>3. ASSUME flash[Vectors] \in GoodVectors
          PROVE  LostInv'
      <3>1. boot' \in {"jump", "app"}
        BY <1>2, <2>1, <2>3 DEF Orchestrator, Decide, JumpToApp
      <3>2. boot' # "serve" /\ flash'[Vectors] \in GoodVectors
        BY <2>2, <2>3, <3>1
      <3> QED BY <3>2 DEF LostInv
    <2>4. ASSUME page = 1, NEW n \in 0..2, Stale(n)
          PROVE  Stale(2)'
      <3>1. n = 2 /\ response = << >> /\ Len(response) = 0
        BY <1>1, <2>1, <2>4 DEF Stale, AnswerInv
      <3>2. response' = response \/ Reply(Banner)
        BY <1>2 DEF Orchestrator, Decide, JumpToApp
      <3>3. Len(response') \in Nat /\ Len(response') <= BannerSize
        <4>1. CASE response' = response
          BY <3>1, <4>1, Sizes
        <4>2. CASE Reply(Banner)
          <5>1. response' \in Seq(Octets) /\ Len(response') <= Len(response) + BannerSize
            BY <1>1, <4>2, ReplyType, ReplySizes, Answers DEF IndInv
          <5> QED BY <5>1, <3>1, Sizes
        <4> QED BY <3>2, <4>1, <4>2
      <3> QED BY <2>2, <2>4, <3>1, <3>3, Sizes DEF Stale, Room
    <2>5. LostInv'
      BY <2>1, <2>2, <2>3, <2>4 DEF AllInv, LostInv
    <2> QED BY <2>1, <2>5 DEF VectorsInv, WriteInv
  <1>3. CASE UNCHANGED updateVars
    <2> USE <1>3 DEF updateVars, vars, hostVars, shadowVars, lineVars
    <2>1. LostInv' /\ VectorsInv'
      BY DEF AllInv, LostInv, VectorsInv, Passes, Refuses, Stale, Room
    <2>2. WriteInv'
      BY DEF AllInv, WriteInv, Passes, Refuses, BlocksTaken, Taken, Midway, Gathered, Gone
    <2> QED BY <2>1, <2>2
  <1>4. CASE SendIsLost
    <2>1. /\ ~waiting /\ waiting' /\ step = "line" /\ (~locked => response = << >>)
          /\ UNCHANGED <<host, page, block, cuts, heard, boot, flash, locked, erased,
                         shadow_bits, step, response, taken>>
      BY <1>1, <1>4 DEF SendIsLost, AnswerInv, vars, shadowVars, lineVars
    <2>2. ASSUME NEW n \in 0..2, Stale(n)
          PROVE  Stale(n)'
      <3>1. Room(n) \in Nat
        BY Sizes DEF Room
      <3>2. Len(response') <= Room(n) + LockedSize
        BY <1>1, <2>1, <2>2, <3>1, Sizes DEF Stale
      <3> QED BY <2>1, <2>2, <3>2 DEF Stale, Passes, Refuses, Room
    <2>3. LostInv' /\ VectorsInv'
      BY <2>1, <2>2 DEF AllInv, LostInv, VectorsInv
    <2>4. WriteInv'
      BY <2>1 DEF AllInv, WriteInv, Passes, BlocksTaken, Taken
    <2> QED BY <2>3, <2>4
  <1>5. CASE AnswerIsLost \/ PartHeard
    <2>1. /\ waiting /\ step = "line" /\ boot = "serve" /\ WriteResponse(Frame)
          /\ UNCHANGED <<boot, flash, locked, erased, shadow_bits, step, taken, host, waiting,
                         page, block, cuts>>
      BY <1>5 DEF AnswerIsLost, PartHeard, WriteResponse, AtLine, hostVars, shadowVars, lineVars
    <2>2. /\ response' \in Seq(Octets) /\ Len(response') <= Len(response)
          /\ Len(response) <= Frame => response' = << >>
      BY <1>1, <2>1, PollAll DEF IndInv
    <2>3. ASSUME NEW n \in 0..2, Stale(n)
          PROVE  Stale(n)'
      <3>1. Room(n) \in Nat /\ (n = 0 => Room(n) = 0)
        BY Sizes DEF Room
      <3>2. Len(response) <= Room(n) + LockedSize
        BY <2>1, <2>3 DEF Stale
      <3>3. n = 0 => ~Passes'
        BY <1>1, <2>2, <3>1, <3>2, Sizes DEF Passes
      <3>4. Len(response') <= Room(n) + LockedSize
        BY <1>1, <2>2, <3>1, <3>2, Sizes
      <3> QED BY <2>1, <2>3, <3>3, <3>4 DEF Stale, Room
    <2>4. LostInv' /\ VectorsInv'
      BY <2>1, <2>3 DEF AllInv, LostInv, VectorsInv
    <2>5. ~locked => ~Passes'
      BY <1>1, <2>2 DEF AnswerInv, Passes
    <2>6. WriteInv'
      BY <2>1, <2>5 DEF AllInv, WriteInv, BlocksTaken, Taken
    <2> QED BY <2>4, <2>6
  <1>6. CASE Send
    <2> DEFINE line == Blocks[page][block]
    <2>1. /\ ~waiting /\ waiting' /\ step' = "byte" /\ todo' = line
          /\ UNCHANGED <<host, page, block, cuts, heard, boot, flash, locked, erased,
                         shadow_start, shadow, shadow_bits, response, taken>>
      BY <1>6 DEF Send, Command, RunWrite, shadowVars
    <2>2. LostInv' /\ VectorsInv'
      BY <2>1 DEF AllInv, LostInv, VectorsInv, Stale, Passes, Refuses, Room
    <2>3. WriteInv'
      <3> SUFFICES ASSUME ~locked PROVE WriteInv'
        BY <2>1 DEF WriteInv
      <3>1. shadow_bits = {} /\ BlocksTaken(block - 1)
        BY <2>1 DEF AllInv, WriteInv
      <3>2. /\ line \in Seq(LineBytes) /\ Len(line) \in Nat /\ line # << >> /\ DOMAIN line = 1..Len(line)
            /\ \A j \in 1..Len(line) : line[j].cell \in Cells
        BY <1>1, BlockIsTidy DEF WholeWords
      <3>3. Cells # {}
        BY <3>2
      <3>4. Gone' = 0
        BY <2>1, <3>2 DEF Gone
      <3> HIDE DEF line
      <3>5. \A j \in DOMAIN line : 0 + j = j
        BY <3>2
      <3>6. Midway(line, 0)'
        BY <2>1, <3>1, <3>2, <3>3, <3>5 DEF Midway, Taken, Gathered, line
      <3>7. BlocksTaken(block - 1)'
        BY <2>1, <3>1 DEF BlocksTaken, Taken
      <3> QED BY <2>1, <3>1, <3>4, <3>6, <3>7 DEF WriteInv, line
    <2> QED BY <2>2, <2>3
  <1> QED BY <1>2, <1>3, <1>4, <1>5, <1>6

(* A page begins with its first block, and nothing in the shadow.           *)
LEMMA UnlockedWrites ==
  ASSUME AllInv, ImageIsTidy, Unlocked
  PROVE  LostInv' /\ VectorsInv' /\ WriteInv'
  <1>1. UpdateTypeOK /\ IndInv /\ cuts \in Nat /\ page >= 1 /\ page \in Nat
    BY AtBlock DEF AllInv, UpdateInv
  <1>2. /\ host \in {"unlock", "reopen"} /\ host' = "write" /\ block' = 1 /\ waiting' = FALSE
        /\ response # << >> /\ boot = "serve" /\ step = "line"
        /\ WriteResponse(Frame)
        /\ UNCHANGED <<page, cuts, boot, locked, step, shadow_bits>>
    BY DEF Unlocked, Accepted, Answered, WriteResponse, AtLine, shadowVars, lineVars
  <1>3. response' = << >> /\ ~Passes'
    <2>1. Len(response) \in Nat /\ Len(response) <= Frame
      BY <1>1, <1>2, Sizes DEF AllInv, UpdateInv, AnswerInv, IndInv, TypeOK
    <2> QED BY <1>1, <1>2, <2>1, PollAll DEF IndInv, Passes
  <1>4. shadow_bits = {} /\ (locked => page = 1)
    BY <1>1, <1>2 DEF AllInv, IdleInv, PagesInv
  <1>7. Stale(0)'
    BY <1>1, <1>2, <1>3, Sizes DEF Stale, Room
  <1>5. LostInv'
    BY <1>2, <1>4, <1>7 DEF LostInv
  <1>6. WriteInv'
    BY <1>2, <1>3, <1>4 DEF WriteInv, BlocksTaken
  <1> QED BY <1>2, <1>5, <1>6 DEF VectorsInv

(* The first block has the vectors.                                         *)
LEMMA VectorsWritten ==
  ASSUME IndInv, ImageIsTidy, page = 1, BlocksTaken(1), shadow_bits = {}
  PROVE  flash[Vectors] = Target[Vectors] /\ Vectors[1] \in erased
  <1>1. /\ 1 \in DOMAIN AppPages /\ 1 \in DOMAIN Blocks[1] /\ Vectors \in DOMAIN Target
        /\ Covers(Blocks[1][1], Vectors)
    BY FirstPage DEF ImageIsTidy
  <1>2. Taken(Blocks[1][1], Len(Blocks[1][1]))
    BY DEF BlocksTaken
  <1> QED BY <1>1, <1>2, WordIsWritten

(* The last block makes the page whole.                                     *)
LEMMA PageWritten ==
  ASSUME IndInv, UpdateTypeOK, ImageIsTidy, BlocksTaken(Len(Blocks[page])), shadow_bits = {}
  PROVE  Holds(page)
  <1> SUFFICES ASSUME NEW w \in DOMAIN Target, w[1] = AppPages[page]
               PROVE  flash[w] = Target[w]
    BY DEF Holds
  <1>1. page \in DOMAIN AppPages /\ DOMAIN Blocks[page] = 1..Len(Blocks[page])
    BY AtBlock, FirstPage
  <1>2. PICK k \in DOMAIN Blocks[page] : Covers(Blocks[page][k], w)
    BY <1>1 DEF ImageIsTidy
  <1>3. Taken(Blocks[page][k], Len(Blocks[page][k]))
    BY <1>1, <1>2 DEF BlocksTaken
  <1> QED BY <1>1, <1>2, <1>3, WordIsWritten

(* From block to block, and from page to page.                              *)
LEMMA BlockWrites ==
  ASSUME AllInv, ImageIsTidy, FewCuts, BlockWritten
  PROVE  PagesInv' /\ WriterInv' /\ LostInv' /\ VectorsInv' /\ WriteInv'
  <1>1. /\ UpdateTypeOK /\ IndInv /\ cuts \in Nat /\ page >= 1 /\ page \in Nat
        /\ block \in Nat /\ block >= 1 /\ block <= Len(Blocks[page]) /\ Len(Blocks[page]) \in Nat
    BY AtBlock DEF AllInv, UpdateInv
  <1>2. /\ host = "write" /\ waiting /\ waiting' = FALSE
        /\ boot = "serve" /\ step = "line" /\ Passes
        /\ WriteResponse(Frame)
        /\ UNCHANGED <<cuts, boot, flash, locked, erased, shadow_start, shadow, shadow_bits,
                       step, after, todo, taken>>
    BY <1>1, AcceptedPasses
       DEF BlockWritten, Accepted, Answered, WriteResponse, AtLine, shadowVars, lineVars, IndInv
  <1>3. /\ response' \in Seq(Octets) /\ Len(response) \in Nat
        /\ Frame < Len(response) => Len(response') = Len(response) - Frame
        /\ Len(response) <= Frame => response' = << >>
    BY <1>1, <1>2, PollAll DEF IndInv, TypeOK
  <1>10. ~locked => ~Passes'
    BY <1>2, <1>3 DEF AllInv, UpdateInv, AnswerInv, Passes
  <1>4. shadow_bits = {} /\ shadow_start = NoWord /\ todo = << >>
    BY <1>1, <1>2 DEF AllInv, WriteInv, WriterInv, IndInv, ShadowInv
  <1>5. ~locked => BlocksTaken(block)
    BY <1>2 DEF AllInv, WriteInv
  <1>6. locked => page = 1 /\ \E n \in 1..2 : Stale(n)
    <2>1. ~Stale(0)
      BY <1>2 DEF Stale
    <2>2. \A n \in 0..2 : n = 0 \/ n \in 1..2
      OBVIOUS
    <2> QED BY <1>2, <2>1, <2>2 DEF AllInv, LostInv
  <1>7. WriterInv'
    BY <1>2, <1>4 DEF WriterInv
  <1>8. CASE block < Len(Blocks[page])
    <2>1. block' = block + 1 /\ UNCHANGED <<host, page>>
      BY <1>8 DEF BlockWritten
    <2>2. PagesInv'
      BY <1>2, <2>1 DEF AllInv, PagesInv, Holds
    <2>3. LostInv'
      <3> SUFFICES ASSUME NEW n \in 1..2, Stale(n), page = 1
                   PROVE  n - 1 \in 0..2 /\ Stale(n - 1)'
        BY <1>2, <1>6, <2>1 DEF LostInv
      <3>1. Len(response) <= Room(n) + LockedSize /\ block - 1 + n <= 2 * cuts
        BY <1>2 DEF Stale
      <3>2. CASE n = 2
        <4>1. Len(response') <= LockedSize
          BY <1>3, <3>1, <3>2, Sizes DEF Room
        <4>2. Room(1) = LockedSize /\ Len(response') <= LockedSize + 0
          BY <1>3, <4>1, Sizes DEF Room
        <4>3. block' - 1 + 1 <= 2 * cuts'
          BY <1>1, <1>2, <2>1, <3>1, <3>2
        <4>4. Stale(1)'
          BY <1>2, <4>2, <4>3 DEF Stale, Room
        <4> QED BY <3>2, <4>4
      <3>3. CASE n = 1
        <4>1. response' = << >>
          BY <1>3, <3>1, <3>3, Sizes DEF Room
        <4> QED BY <1>1, <1>2, <2>1, <3>1, <3>3, <4>1 DEF Stale, Room, Passes
      <3> QED BY <3>2, <3>3
    <2>4. WriteInv'
      BY <1>1, <1>2, <1>4, <1>5, <1>10, <2>1 DEF WriteInv, BlocksTaken, Taken
    <2>5. VectorsInv'
      <3> SUFFICES ASSUME ~locked, page = 1
                   PROVE  flash[Vectors] = Target[Vectors] /\ Vectors[1] \in erased
        BY <1>2, <2>1 DEF VectorsInv
      <3>1. CASE block > 1
        BY <1>2, <3>1 DEF AllInv, VectorsInv
      <3>2. CASE block = 1
        BY <1>1, <1>4, <1>5, <3>2, VectorsWritten
      <3> QED BY <1>1, <3>1, <3>2
    <2> QED BY <1>7, <2>2, <2>3, <2>4, <2>5
  <1>9. CASE block = Len(Blocks[page])
    <2>1. ~locked
      BY <1>1, <1>6, <1>9 DEF FewCuts, Stale
    <2>2. Holds(page)
      BY <1>1, <1>4, <1>5, <1>9, <2>1, PageWritten
    <2>3. \/ page' = page + 1 /\ block' = 1 /\ host' = "write"
          \/ page' = page /\ host' = "lock"
      BY <1>2, <1>9 DEF BlockWritten
    <2>4. PagesInv'
      <3>1. \A i \in 1..page' - 1 : i \in 1..page - 1 \/ i = page
        BY <1>1, <2>3
      <3>2. \A i \in 1..page' - 1 : Holds(i)
        BY <2>2, <3>1 DEF AllInv, PagesInv
      <3>3. host' \notin {"enter", "unlock"}
        BY <2>3
      <3> QED BY <1>2, <3>2, <3>3 DEF PagesInv, Holds
    <2>5. LostInv'
      BY <1>2, <2>1 DEF LostInv
    <2>6. VectorsInv'
      BY <1>1, <2>3 DEF VectorsInv
    <2>7. WriteInv'
      BY <1>2, <1>4, <1>10, <2>3 DEF WriteInv, BlocksTaken
    <2> QED BY <1>7, <2>4, <2>5, <2>6, <2>7
  <1> QED BY <1>1, <1>8, <1>9

(* The device between lines, and what is in its answers.                    *)
LEMMA IdleStep ==
  ASSUME AllInv, ImageIsTidy, [UpdateNext]_updateVars
  PROVE  IdleInv'
  <1> USE DEF IdleInv
  <1>1. UpdateTypeOK /\ IndInv /\ IdleInv /\ AnswerInv /\ LockInv /\ PagesInv
    BY DEF AllInv, UpdateInv
  <1>2. CASE UNCHANGED updateVars \/ SendIsLost
    BY <1>1, <1>2 DEF updateVars, hostVars, vars, shadowVars, lineVars, SendIsLost
  <1>3. CASE Orchestrator /\ UNCHANGED <<hostVars, cuts>>
    <2>1. locked /\ shadow_bits = {} /\ step = "line"
      BY <1>1, <1>3 DEF Orchestrator, Decide, JumpToApp, LockInv, IndInv, ShadowInv, StepInv
    <2>2. UNCHANGED <<host, waiting, page, locked, shadow_bits, step>> /\ ~magic'
      BY <1>1, <1>3 DEF Orchestrator, Decide, JumpToApp, hostVars, shadowVars, lineVars
    <2>3. host = "reopen" /\ page > 1 => response' = response
      <3>1. page > 1 => flash[Vectors] \in GoodVectors
        BY <1>1, LaterPage
      <3> QED BY <1>1, <1>3, <3>1 DEF Orchestrator, Decide, JumpToApp
    <2> QED BY <1>1, <2>1, <2>2, <2>3
  <1>4. CASE ServerStep /\ UNCHANGED <<hostVars, cuts>>
    <2>1. step # "line" /\ boot = "serve" /\ host \notin {"unlock", "reopen"}
      BY <1>1, <1>4, ServerIsBusy DEF IndInv, StepInv, AnswerInv
    <2>2. magic' => magic
      <3>1. after \in {"byte", "full", "lock", "reset"}
        BY <1>1 DEF IndInv, TypeOK
      <3>2. CASE ProgramWord
        BY <3>1, <3>2 DEF ProgramWord, Restart
      <3>3. CASE ~ProgramWord
        BY <1>4, <3>3 DEF ServerStep, RefuseByte, FlushOther, TakeByte, WriteDone, Flushing,
           EraseSector, EraseFails, ProgramFails
      <3> QED BY <3>2, <3>3
    <2> QED BY <1>1, <1>4, <2>1, <2>2 DEF hostVars
  <1>5. CASE PowerCut
    BY <1>1, <1>5 DEF PowerCut, PowerLoss, Restart, hostVars
  <1>6. CASE AppEntersBoot
    BY <1>1, <1>6 DEF AppEntersBoot, EnterBootloader, Restart, hostVars
  <1>7. CASE AnswerIsLost \/ PartHeard \/ DrainBanner
    <2>1. /\ response # << >> /\ boot = "serve"
          /\ UNCHANGED <<host, page, locked, shadow_bits, boot, magic>>
      BY <1>7 DEF AnswerIsLost, PartHeard, DrainBanner, WriteResponse, AtLine, hostVars, shadowVars
    <2> QED BY <1>1, <2>1
  <1>14. CASE Connect
    <2>1. /\ boot = "serve" /\ response' = << >> /\ magic' = magic
      BY <1>14 DEF Connect, AtLine, vars
    <2> QED BY <1>1, <2>1
  <1>8. CASE ConnectFails
    BY <1>1, <1>8 DEF ConnectFails, vars, shadowVars, lineVars
  <1>9. CASE Send
    <2>1. boot = "serve" /\ ~magic /\ ~magic' /\ waiting' /\ UNCHANGED <<host, page>>
      BY <1>1, <1>9 DEF Send, Command, RunUnlock, RunWrite, RunLock, RunOther, AtLine
    <2>2. CASE host \in {"unlock", "reopen"}
      BY <1>9, <2>1, <2>2 DEF Send, Command, RunUnlock, ClearShadow, FinishLine
    <2> QED BY <1>9, <2>1, <2>2 DEF Send
  <1>10. CASE Unlocked \/ BlockWritten
    BY <1>1, <1>10 DEF Unlocked, BlockWritten, Accepted, Answered, WriteResponse, AtLine, lineVars
  <1>11. CASE NotUnlocked \/ BlockNotWritten
    <2>1. host \in {"unlock", "reopen", "write"} /\ host' \in {"failed", "recover"}
      BY <1>11 DEF NotUnlocked, BlockNotWritten
    <2>2. magic' = magic
      BY <1>11 DEF NotUnlocked, BlockNotWritten, Refused, Answered, GivesUp, WriteResponse, vars
    <2> QED BY <1>1, <2>1, <2>2
  <1>12. CASE FlashLocked \/ FlashNotLocked \/ SendReset
    <2>1. /\ host \in {"lock", "reset"} /\ host' \in {"verify", "failed", "done"}
          /\ magic' => magic
      BY <1>12 DEF FlashLocked, FlashNotLocked, SendReset, Accepted, Refused, Answered, GivesUp,
         WriteResponse, RunReset, Restart, vars
    <2> QED BY <1>1, <2>1
  <1>13. ASSUME NEW w \in DOMAIN Target, WordVerified(w) \/ WordNotVerified(w)
         PROVE  IdleInv'
    <2>1. /\ host = "verify" /\ host' \in {"verify", "reset", "failed"} /\ magic' = magic
      BY <1>13 DEF WordVerified, WordNotVerified, Answered, GivesUp, WriteResponse, vars
    <2> QED BY <1>1, <2>1
  <1> QED
    BY <1>2, <1>3, <1>4, <1>5, <1>6, <1>7, <1>8, <1>9, <1>10, <1>11, <1>12, <1>13,
       <1>14 DEF UpdateNext, DeviceStep, Bus, Tool

(* Where the tool does not write a page, nothing is asked of the page.      *)
LEMMA NotWriting ==
  ASSUME host' # "write"
  PROVE  LostInv' /\ VectorsInv' /\ WriteInv'
  BY DEF LostInv, VectorsInv, WriteInv

(* Every step of an update.                                                 *)
LEMMA WholeStep ==
  ASSUME AllInv, ImageIsTidy, FewCuts, [UpdateNext]_updateVars
  PROVE  PagesInv' /\ WriterInv' /\ IdleInv' /\ LostInv' /\ VectorsInv' /\ WriteInv'
  <1>1. IndInv /\ UpdateTypeOK /\ WriterInv /\ PagesInv
    BY DEF AllInv, UpdateInv
  <1>2. IdleInv'
    BY IdleStep
  <1>3. CASE BlockWritten
    BY <1>2, <1>3, BlockWrites
  <1>4. CASE ~BlockWritten
    <2>1. UNCHANGED page /\ (host' \in {"enter", "unlock"} => host \in {"enter", "unlock"})
      BY <1>4 DEF UpdateNext, DeviceStep, PowerCut, Bus, AppEntersBoot, SendIsLost, AnswerIsLost,
         Tool, DrainBanner, Connect, ConnectFails, Send, PartHeard, Unlocked, NotUnlocked,
         BlockNotWritten, FlashLocked, FlashNotLocked, WordVerified, WordNotVerified, SendReset,
         hostVars, updateVars
    <2>2. WriterInv'
      BY <1>1, <2>1, UpdateIsDevice, WriterStep
    <2>3. PagesInv'
      <3>1. [Next]_vars
        BY <1>1, UpdateStep DEF IndInv
      <3>2. \A i \in 1..page - 1 : Holds(i)'
        BY <1>1, <3>1, PagesStep
      <3> QED BY <1>1, <2>1, <3>2 DEF PagesInv, Holds
    <2>4. LostInv' /\ VectorsInv' /\ WriteInv'
      <3>1. CASE host' # "write"
        BY <3>1, NotWriting
      <3>2. CASE Unlocked
        BY <3>2, UnlockedWrites
      <3>3. CASE host' = "write" /\ ~Unlocked
        <4>1. host = "write"
          BY <1>4, <3>3 DEF UpdateNext, DeviceStep, PowerCut, Bus, AppEntersBoot, SendIsLost,
             AnswerIsLost, Tool, DrainBanner, Connect, ConnectFails, Send, PartHeard,
             NotUnlocked, BlockNotWritten, FlashLocked, FlashNotLocked, WordVerified,
             WordNotVerified, SendReset, hostVars, updateVars
        <4>2. \/ ServerStep /\ UNCHANGED <<hostVars, cuts>>
              \/ PowerCut
              \/ Orchestrator /\ UNCHANGED <<hostVars, cuts>>
              \/ Send \/ SendIsLost \/ AnswerIsLost \/ PartHeard \/ UNCHANGED updateVars
          BY <1>4, <3>3, <4>1 DEF UpdateNext, DeviceStep, Bus, AppEntersBoot, Tool, DrainBanner,
             Connect, ConnectFails, NotUnlocked, BlockNotWritten, FlashLocked, FlashNotLocked,
             WordVerified, WordNotVerified, SendReset
        <4> QED BY <4>1, <4>2, ServerWrites, CutWrites, BusWrites
      <3> QED BY <3>1, <3>2, <3>3
    <2> QED BY <1>2, <2>2, <2>3, <2>4
  <1> QED BY <1>3, <1>4

(* Cuts are counted, and are never fewer.                                   *)
LEMMA CutsGrow ==
  ASSUME UpdateTypeOK, ImageIsTidy, [UpdateNext]_updateVars, FewCuts'
  PROVE  FewCuts
  <1>1. cuts \in Nat /\ Len(Blocks[1]) \in Nat
    BY AtBlock, FirstPage
  <1>2. cuts' = cuts \/ cuts' = cuts + 1
    BY DEF UpdateNext, DeviceStep, PowerCut, Bus, AppEntersBoot, SendIsLost, AnswerIsLost,
       Tool, DrainBanner, Connect, ConnectFails, Send, PartHeard, Unlocked, NotUnlocked,
       BlockWritten, BlockNotWritten, FlashLocked, FlashNotLocked, WordVerified,
       WordNotVerified, SendReset, hostVars, updateVars
  <1> QED BY <1>1, <1>2 DEF FewCuts

LEMMA WholeInit == UpdateInit => WholeInv
  <1> SUFFICES ASSUME UpdateInit
               PROVE  PagesInv /\ WriterInv /\ IdleInv /\ LostInv /\ VectorsInv /\ WriteInv
    BY DEF WholeInv
  <1> USE DEF UpdateInit, Init
  <1>1. PagesInv /\ WriterInv /\ IdleInv
    BY DEF PagesInv, WriterInv, IdleInv
  <1> QED BY <1>1 DEF LostInv, VectorsInv, WriteInv

(* The inductive invariant of the pages of an update, while the first page  *)
(* has more than two blocks for every power cut.                            *)
THEOREM PagesInductive ==
  ASSUME ImageIsTidy
  PROVE  UpdateSpec => [](IndInv /\ UpdateInv /\ WholeInv)
  <1>1. UpdateInit => IndInv /\ UpdateInv /\ WholeInv
    BY UpdateInitInd, WholeInit
  <1>2. IndInv /\ UpdateInv /\ WholeInv /\ [UpdateNext]_updateVars
          => IndInv' /\ UpdateInv' /\ WholeInv'
    <2> SUFFICES ASSUME IndInv, UpdateInv, WholeInv, [UpdateNext]_updateVars, FewCuts'
                 PROVE  PagesInv' /\ WriterInv' /\ IdleInv' /\ LostInv' /\ VectorsInv' /\ WriteInv'
      BY UpdateNextInd DEF WholeInv
    <2>1. FewCuts
      BY CutsGrow DEF UpdateInv
    <2>2. AllInv
      BY <2>1 DEF AllInv, WholeInv
    <2> QED BY <2>1, <2>2, WholeStep
  <1> QED BY <1>1, <1>2, PTL DEF UpdateSpec

(* _write_page: when the tool goes on to a page the pages before it are     *)
(* whole, though a banner passes for an OK, and so does what a poll leaves  *)
(* of the error behind it: after the first block the application boots and  *)
(* sends no banner, and before that a power cut stands for two blocks of    *)
(* the first page at most.                                                  *)
THEOREM PagesAreWhole ==
  ASSUME ImageIsTidy
  PROVE  UpdateSpec => []EarlierPagesAreWhole
  <1>1. WholeInv => EarlierPagesAreWhole
    BY DEF WholeInv, FewCuts, PagesInv, EarlierPagesAreWhole
  <1> QED BY <1>1, PagesInductive, PTL
=============================================================================
