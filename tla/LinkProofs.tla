------------------------------- MODULE LinkProofs -------------------------------
(***************************************************************************)
(* Proofs about Link: the table in use is the one that was uploaded, and   *)
(* a series is one capture, for every size of the table, the burst and the *)
(* queues, and any number of jobs, lost frames, reloads and restarts.      *)
(***************************************************************************)
EXTENDS Link, TLAPS

(* Frames of the server, and the step of an upload that sends one.          *)
Own(f) == f.cmd # "conf"
StepOf(f) == CASE f.cmd \in {"clear", "snap"} -> 1
               [] f.cmd = "chunk"             -> f.chunk + 1
               [] OTHER                       -> Chunks + 2

(* The frames in the bus, and the acks that may still be taken.             *)
InBus(f) == \E i \in DOMAIN down : down[i] = f
Coming(a) ==
  \/ \E i \in DOMAIN tx : tx[i] = a /\ tx[i] \in Acks
  \/ \E i \in DOMAIN inbox.acks : inbox.acks[i] = a

-----------------------------------------------------------------------------
(* The exchange.                                                            *)

(* A frame is of an earlier job, or of an earlier step, or the one that is  *)
(* waited for.                                                              *)
Sooner(f) ==
  /\ f.cmd = "chunk" => f.chunk \in 1..Chunks
  /\ f.job <= host.job
  /\ f.job = host.job /\ host.doing # "nothing" =>
       \/ host.waiting /\ f = Command
       \/ host.doing = "upload" /\ StepOf(f) < host.step

SentInv ==
  /\ \A i \in DOMAIN down : Own(down[i]) => Sooner(down[i])
  /\ \A a \in Acks : Coming(a) /\ Own(a.of) => Sooner(a.of)

(* The command that is waited for is the last of the server's in the bus,   *)
(* and has left it when its answer comes.                                   *)
OrderInv ==
  host.doing # "nothing" /\ host.waiting =>
    /\ \A i \in DOMAIN down : Own(down[i]) => \E j \in DOMAIN down : i <= j /\ down[j] = Command
    /\ \A i, j \in DOMAIN down : down[i] = Command /\ i < j => ~Own(down[j])
    /\ \A a \in Acks : Coming(a) /\ a.of = Command =>
         \A i \in DOMAIN down : down[i] # Command

(* With every answer that was taken the right one, the chunks and the       *)
(* commit of an upload are alone in the bus.                                *)
AloneInv ==
  ~strayed =>
    /\ host.doing # "nothing" /\ host.step > 1 =>
         \A i \in DOMAIN down : Own(down[i]) => host.waiting /\ down[i] = Command
    /\ \A i, j \in DOMAIN down : down[i].cmd \in {"chunk", "commit"} /\ j < i => ~Own(down[j])

-----------------------------------------------------------------------------
(* The table.                                                               *)

Whole(t) == \A c \in 1..Chunks : t[c] = t[1]

(* The table of an upload that is not committed: out of use, and so is what *)
(* a reload would bring.                                                    *)
Open(job) ==
  /\ ~valid /\ (dirty \/ ~record.valid)
  /\ \A c \in mask : table[c] = job

(* The table of one that is: in use, and so is what a reload would bring.   *)
InUse(job) ==
  /\ valid /\ \A c \in 1..Chunks : table[c] = job
  /\ ~dirty => /\ record.present /\ record.valid
               /\ \A c \in 1..Chunks : record.table[c] = job

TableInv ==
  ~strayed /\ ~undone =>
    /\ valid => Whole(table)
    /\ record.valid => Whole(record.table)
    /\ \A f \in Frames : InBus(f) /\ f.cmd \in {"chunk", "commit"} => Open(f.job)
    /\ host.doing = "upload" /\ host.step > 1 /\ (host.step < Chunks + 2 \/ ~host.waiting)
         => Open(host.job)
    /\ \A a \in Acks :
         Coming(a) /\ a.ok /\ host.doing = "upload" /\ host.waiting /\ a.of = Command =>
           IF host.step = Chunks + 2 THEN InUse(host.job) ELSE Open(host.job)

UploadInv == SentInv /\ OrderInv /\ AloneInv /\ TableInv

-----------------------------------------------------------------------------
(* The series.                                                              *)

(* A burst is going out, or may begin to.                                   *)
CanSend == snap.state # "idle" \/ pc \in {"meta", "burst"}
NoBurst == \A i \in DOMAIN tx : tx[i] \in Acks
Quiet ==
  /\ \A i \in DOMAIN down : down[i].cmd # "snap"
  /\ ~CanSend /\ NoBurst

(* What is on its way is of this job, and starts at most one burst.         *)
OwnSeries ==
  /\ \A i \in DOMAIN down : down[i].cmd = "snap" => down[i].job = host.job
  /\ \A i, j \in DOMAIN down : down[i].cmd = "snap" /\ down[j].cmd = "snap" => i = j
  /\ \A i \in DOMAIN tx : tx[i] \notin Acks => tx[i].job = host.job
  /\ \A i \in DOMAIN inbox.datas : inbox.datas[i].job = host.job
  /\ CanSend => snap.job = host.job
  /\ (\E i \in DOMAIN down : down[i].cmd = "snap") =>
       ~CanSend /\ NoBurst /\ inbox.datas = << >> /\ got = 0

(* Its frames come in order, after those that were taken.                   *)
InOrder ==
  /\ \A i \in DOMAIN inbox.datas : got < inbox.datas[i].index
  /\ \A i \in DOMAIN tx : tx[i] \notin Acks /\ tx[i].index # 0 =>
       /\ got < tx[i].index
       /\ \A j \in DOMAIN inbox.datas : inbox.datas[j].index < tx[i].index
       /\ \A j \in DOMAIN tx : j < i /\ tx[j] \notin Acks => tx[j].index < tx[i].index
  /\ \A i, j \in DOMAIN inbox.datas : i < j => inbox.datas[i].index < inbox.datas[j].index

(* What is still to be sent comes after what was.                           *)
SendInv ==
  /\ snap.state \in {"capturing", "ready"} \/ pc = "meta" => snap.next = 0
  /\ CanSend =>
       /\ got <= snap.next
       /\ \A i \in DOMAIN inbox.datas : inbox.datas[i].index <= snap.next
       /\ \A i \in DOMAIN tx : tx[i] \notin Acks => tx[i].index <= snap.next

(* A sample that was lost is missed: what is left does not make up for it.  *)
Missed ==
  /\ \A i \in DOMAIN inbox.datas : got + 1 < inbox.datas[i].index
  /\ \A i \in DOMAIN tx : tx[i] \notin Acks /\ tx[i].index # 0 => got + 1 < tx[i].index
  /\ CanSend => got < snap.next

RowsInv == Missed \/ \A i \in 1..got : rows[i] = host.job

SeriesInv ==
  ~abandoned =>
    /\ host.doing # "capture" \/ ~host.waiting => Quiet
    /\ host.doing = "capture" /\ host.waiting =>
         OwnSeries /\ InOrder /\ SendInv /\ RowsInv

(* Where a job may be.                                                      *)
StepInv ==
  /\ host.doing = "upload" => host.step \in 1..Chunks + 2
  /\ host.doing = "capture" =>
       /\ host.step \in 1..3 /\ got < DataFrames
       /\ host.step > 1 => host.waiting
       /\ host.step < 3 => got = 0

(* What goes out is a burst, or was before an abort.                        *)
BurstInv == pc = "burst" => snap.state \in {"idle", "sending"}

LinkInv == TypeOK /\ StepInv /\ BurstInv /\ UploadInv /\ SeriesInv

-----------------------------------------------------------------------------
(* Sequences.                                                               *)

LEMMA HeadTail ==
  ASSUME NEW S, NEW q \in Seq(S), q # << >>
  PROVE  /\ Head(q) \in S /\ Tail(q) \in Seq(S)
         /\ 1 \in DOMAIN q /\ Head(q) = q[1]
         /\ \A i \in DOMAIN Tail(q) : i + 1 \in DOMAIN q /\ Tail(q)[i] = q[i + 1]
         /\ Len(Tail(q)) = Len(q) - 1
  OBVIOUS

LEMMA AppendAt ==
  ASSUME NEW S, NEW q \in Seq(S), NEW e \in S
  PROVE  /\ Append(q, e) \in Seq(S)
         /\ Len(Append(q, e)) = Len(q) + 1
         /\ \A i \in DOMAIN Append(q, e) :
              \/ i \in DOMAIN q /\ Append(q, e)[i] = q[i]
              \/ i = Len(q) + 1 /\ Append(q, e)[i] = e
         /\ \A i \in DOMAIN q : i \in DOMAIN Append(q, e) /\ Append(q, e)[i] = q[i] /\ i < Len(q) + 1
         /\ Len(q) + 1 \in DOMAIN Append(q, e) /\ Append(q, e)[Len(q) + 1] = e
  OBVIOUS

LEMMA EmptySeq == ASSUME NEW S PROVE << >> \in Seq(S) /\ DOMAIN << >> = {}
  OBVIOUS

-----------------------------------------------------------------------------
(* Types.                                                                   *)

Messages == Acks \cup Bursts

LEMMA Sizes ==
  /\ Chunks \in Nat \ {0} /\ DataFrames \in Nat \ {0} /\ TxDepth \in Nat \ {0}
  /\ FramesPerPoll \in Nat \ {0} /\ FramesPerBurst \in Nat \ {0}
  /\ MaxJobs \in Nat /\ MaxTrouble \in Nat
  BY SizesAssumption, BoundsAssumption

(* An ack is not a frame of a burst.                                        *)
LEMMA AckOrBurst == \A m \in Bursts : m \notin Acks
  <1> SUFFICES ASSUME NEW m \in Bursts, m \in Acks PROVE FALSE
    OBVIOUS
  <1>1. DOMAIN m = {"job", "index"}
    BY DEF Bursts
  <1>2. DOMAIN m = {"of", "ok"}
    BY DEF Acks
  <1> QED BY <1>1, <1>2

LEMMA CommandType ==
  ASSUME TypeOK, StepInv, host.doing # "nothing"
  PROVE  /\ Command \in Frames /\ Own(Command) /\ Command.job = host.job
         /\ host.doing = "upload" => StepOf(Command) = host.step /\ Command.cmd # "snap"
         /\ host.doing = "capture" => Command = Frame("snap", 0, host.job)
         /\ Command.cmd = "chunk" => Command.chunk \in 1..Chunks
         /\ Command.cmd \in {"chunk", "commit"} => host.doing = "upload" /\ host.step > 1
  <1> USE Sizes DEF Frames, Frame, Commands, Own, StepOf
  <1>1. host.job \in 0..MaxJobs /\ host.step \in Nat /\ host.doing \in {"upload", "capture"}
    BY DEF TypeOK
  <1>2. CASE host.doing = "capture"
    BY <1>1, <1>2 DEF Command
  <1>3. CASE host.doing = "upload" /\ host.step = 1
    BY <1>1, <1>3 DEF Command
  <1>4. CASE host.doing = "upload" /\ host.step = Chunks + 2
    BY <1>1, <1>4 DEF Command
  <1>5. CASE host.doing = "upload" /\ host.step \in 2..Chunks + 1
    <2>1. Command = Frame("chunk", host.step - 1, host.job) /\ host.step - 1 \in 1..Chunks
      BY <1>5 DEF Command
    <2> QED BY <1>1, <1>5, <2>1
  <1> QED BY <1>1, <1>2, <1>3, <1>4, <1>5 DEF StepInv

(* The transmit FIFO.                                                       *)
LEMMA ReplyType ==
  ASSUME TypeOK, NEW f \in Frames, NEW ok \in BOOLEAN, Reply(f, ok)
  PROVE  /\ tx' \in Seq(Messages) /\ Len(tx') <= TxDepth
         /\ \A i \in DOMAIN tx' :
              \/ i \in DOMAIN tx /\ tx'[i] = tx[i]
              \/ tx'[i] = [of |-> f, ok |-> ok]
  <1>1. [of |-> f, ok |-> ok] \in Messages /\ tx \in Seq(Messages)
    BY DEF TypeOK, Messages, Acks
  <1>2. CASE Len(tx) < TxDepth
    BY <1>1, <1>2, AppendAt, Sizes DEF Reply
  <1>3. CASE ~(Len(tx) < TxDepth)
    BY <1>1, <1>3, Sizes DEF Reply, TypeOK
  <1> QED BY <1>2, <1>3

LEMMA SentType ==
  ASSUME TypeOK, NEW m \in Bursts, Sent(m)
  PROVE  /\ tx' \in Seq(Messages) /\ Len(tx') <= TxDepth
         /\ \A i \in DOMAIN tx' :
              \/ i \in DOMAIN tx /\ tx'[i] = tx[i]
              \/ i = Len(tx) + 1 /\ tx'[i] = m
  <1>1. m \in Messages /\ tx \in Seq(Messages)
    BY DEF TypeOK, Messages
  <1> QED BY <1>1, AppendAt, Sizes DEF Sent

LEMMA LoadType ==
  ASSUME TypeOK, LoadPersistentConfig
  PROVE  table' \in Tables /\ valid' \in BOOLEAN /\ mask' \subseteq 1..Chunks
  BY DEF TypeOK, LoadPersistentConfig

LEMMA FilledType ==
  /\ Filled(Zeros) \in Tables /\ Filled(Earlier) \in Tables
  /\ NoRecord \in [present : BOOLEAN, valid : BOOLEAN, table : Tables]
  BY Sizes DEF Filled, Zeros, Earlier, Tables, NoRecord

SnapType == [state : {"idle", "capturing", "ready", "sending"},
             job : 0..MaxJobs, next : 0..DataFrames]
Counts == 0..(FramesPerPoll + FramesPerBurst)

(* The counters.                                                            *)
LEMMA Counting ==
  /\ 0 \in Counts /\ \A c \in Counts : c < FramesPerPoll \/ c < FramesPerBurst => c + 1 \in Counts
  /\ 0 \in 0..DataFrames /\ \A n \in 0..DataFrames : n < DataFrames => n + 1 \in 0..DataFrames
  /\ 0 \in 0..MaxTrouble /\ \A n \in 0..MaxTrouble : n < MaxTrouble => n + 1 \in 0..MaxTrouble
  /\ 0 \in 0..MaxJobs /\ \A n \in 0..MaxJobs : n < MaxJobs => n + 1 \in 0..MaxJobs
  BY Sizes DEF Counts

LEMMA SnapTypes ==
  /\ [state |-> "idle", job |-> 0, next |-> 0] \in SnapType
  /\ \A j \in 0..MaxJobs : [state |-> "capturing", job |-> j, next |-> 0] \in SnapType
  /\ \A s \in SnapType :
       /\ \A v \in {"idle", "ready"} : [s EXCEPT !.state = v] \in SnapType
       /\ [s EXCEPT !.state = "sending", !.next = 0] \in SnapType
       /\ s.next < DataFrames => [s EXCEPT !.next = @ + 1] \in SnapType
  BY Counting DEF SnapType

(* Of a chunk in the bus SentInv says that it is one of the table.          *)
LEMMA ReceivesType ==
  ASSUME TypeOK, NEW cmd \in Commands, Receives(cmd)
  PROVE  /\ Head(down) \in Frames /\ Head(down).cmd = cmd
         /\ down' \in Seq(Frames)
         /\ count' \in Counts
         /\ UNCHANGED <<pc, hostVars, trouble, strayed, abandoned>>
  <1>1. down \in Seq(Frames) /\ down # << >>
    BY DEF TypeOK, Receives
  <1>2. count' \in Counts
    BY Counting DEF TypeOK, Receives, Counts
  <1> QED BY <1>1, <1>2, HeadTail DEF Receives

LEMMA InitType == Init => TypeOK /\ StepInv
  <1> SUFFICES ASSUME Init PROVE TypeOK /\ StepInv
    OBVIOUS
  <1>1. table \in Tables /\ record \in [present : BOOLEAN, valid : BOOLEAN, table : Tables]
    BY FilledType DEF Init
  <1>2. /\ down \in Seq(Frames) /\ tx \in Seq(Messages) /\ Len(tx) <= TxDepth
        /\ inbox \in [acks : Seq(Acks), metas : Seq(Bursts), datas : Seq(Bursts)]
    BY EmptySeq, Sizes DEF Init, EmptyInbox
  <1>3. rows \in [1..DataFrames -> 0..MaxJobs] /\ got \in 0..DataFrames /\ trouble \in 0..MaxTrouble
    BY Sizes DEF Init
  <1>4. /\ snap \in [state : {"idle", "capturing", "ready", "sending"},
                     job : 0..MaxJobs, next : 0..DataFrames]
        /\ host \in [job : 0..MaxJobs, doing : {"nothing", "upload", "capture"},
                     step : 0..Chunks + 3, waiting : BOOLEAN, outcome : {"none", "ok", "failed"}]
    BY Sizes DEF Init
  <1>5. count \in Counts
    BY Counting DEF Init
  <1>6. mask \subseteq 1..Chunks
    BY DEF Init
  <1>7. StepInv
    BY DEF Init, StepInv
  <1> QED BY <1>1, <1>2, <1>3, <1>4, <1>5, <1>6, <1>7 DEF Init, TypeOK, Messages, Counts

(* The superloop and its commands.                                          *)
LEMMA DeviceType ==
  ASSUME TypeOK, SentInv, Device
  PROVE  TypeOK'
  <1>1. /\ count \in Counts /\ snap \in SnapType /\ trouble \in 0..MaxTrouble
        /\ record \in [present : BOOLEAN, valid : BOOLEAN, table : Tables]
        /\ table \in Tables /\ valid \in BOOLEAN /\ dirty \in BOOLEAN /\ undone \in BOOLEAN
        /\ tx \in Seq(Messages)
    BY DEF TypeOK, Counts, SnapType, Messages
  <1> USE DEF hostVars, historyVars, tableVars
  <1>2. CASE Persist \/ PersistFails
    <2>1. record' \in [present : BOOLEAN, valid : BOOLEAN, table : Tables]
      <3>1. [present |-> TRUE, valid |-> valid, table |-> table]
              \in [present : BOOLEAN, valid : BOOLEAN, table : Tables]
        BY <1>1
      <3>2. CASE Persist
        BY <1>1, <3>1, <3>2 DEF Persist
      <3>3. CASE PersistFails
        BY <1>1, <3>3, FilledType DEF PersistFails
      <3> QED BY <1>2, <3>2, <3>3
    <2>2. count' \in Counts /\ trouble' \in 0..MaxTrouble
      BY <1>1, <1>2, Counting DEF Persist, PersistFails
    <2>3. snap' \in SnapType
      BY <1>1, <1>2, SnapTypes DEF Persist, PersistFails
    <2> QED BY <1>2, <2>1, <2>2, <2>3 DEF Persist, PersistFails, TypeOK, Counts, SnapType
  <1>3. ASSUME NEW cmd \in Commands, Receives(cmd), NEW ok \in BOOLEAN, Reply(Head(down), ok),
               table' \in Tables, valid' \in BOOLEAN, mask' \subseteq 1..Chunks, dirty' \in BOOLEAN,
               record' = record, undone' \in BOOLEAN, snap' \in SnapType
        PROVE  TypeOK'
    <2>1. /\ down' \in Seq(Frames) /\ count' \in Counts
          /\ UNCHANGED <<pc, hostVars, trouble, strayed, abandoned>>
      BY <1>3, ReceivesType
    <2>2. tx' \in Seq(Messages) /\ Len(tx') <= TxDepth
      BY <1>3, ReceivesType, ReplyType
    <2> QED BY <1>3, <2>1, <2>2 DEF TypeOK, Messages, Counts, SnapType
  <1>4. CASE Refuse
    <2>1. /\ UNCHANGED <<tableVars, snap, undone>>
          /\ \E cmd \in Commands : Receives(cmd) /\ Reply(Head(down), FALSE)
      BY <1>4 DEF Refuse
    <2> QED BY <1>1, <1>3, <2>1 DEF TypeOK
  <1>5. CASE ClearCompensation
    BY <1>1, <1>3, <1>5, FilledType DEF ClearCompensation, Commands
  <1>6. CASE SetCompensationChunk
    <2>1. Receives("chunk") /\ Head(down) \in Frames /\ Head(down).cmd = "chunk"
      BY <1>6, ReceivesType DEF SetCompensationChunk, Commands
    <2>2. Head(down).chunk \in 1..Chunks /\ Head(down).job \in 0..MaxJobs
      <3>1. Sooner(Head(down))
        BY <2>1, HeadTail DEF SentInv, Own, Receives, TypeOK
      <3> QED BY <2>1, <3>1 DEF Sooner, Frames
    <2>3. table' \in Tables /\ mask' \subseteq 1..Chunks
      BY <1>6, <2>2 DEF SetCompensationChunk, Tables, TypeOK
    <2> QED BY <1>1, <1>3, <1>6, <2>3 DEF SetCompensationChunk, Commands
  <1>7. CASE CommitCompensation
    <2>1. mask' \subseteq 1..Chunks
      BY <1>7 DEF CommitCompensation, TypeOK
    <2> QED BY <1>1, <1>3, <1>7, <2>1 DEF CommitCompensation, Commands
  <1>8. CASE SetConfiguration
    BY <1>1, <1>3, <1>8, LoadType DEF SetConfiguration, Commands
  <1>9. CASE ArmSnapshot
    <2>1. Head(down).job \in 0..MaxJobs
      BY <1>9, ReceivesType DEF ArmSnapshot, Commands, Frames
    <2>2. snap' \in SnapType
      BY <1>1, <1>9, <2>1, SnapTypes DEF ArmSnapshot
    <2>3. mask' \subseteq 1..Chunks
      BY <1>9 DEF ArmSnapshot, TypeOK
    <2> QED BY <1>1, <1>3, <1>9, <2>2, <2>3 DEF ArmSnapshot, Commands
  <1>10. CASE PollDone \/ Tick
    <2>1. snap' \in SnapType
      BY <1>1, <1>10, SnapTypes DEF PollDone, Tick
    <2> QED BY <1>10, <2>1 DEF PollDone, Tick, TypeOK, SnapType
  <1>11. ASSUME NEW m \in Bursts, Sent(m), snap' \in SnapType, count' \in Counts, SendUnchanged,
                pc' \in {pc, "meta"}
         PROVE  TypeOK'
    <2>1. tx' \in Seq(Messages) /\ Len(tx') <= TxDepth
      BY <1>11, SentType
    <2> QED BY <1>11, <2>1 DEF SendUnchanged, TypeOK, Messages, Counts, SnapType
  <1>12. CASE SendMeta
    <2>1. [job |-> snap.job, index |-> 0] \in Bursts
      BY <1>1, Counting DEF Bursts, SnapType
    <2> QED BY <1>1, <1>11, <1>12, <2>1 DEF SendMeta
  <1>13. CASE SendData
    <2>1. [job |-> snap.job, index |-> snap.next + 1] \in Bursts
      BY <1>1, <1>13, Counting DEF SendData, Bursts, SnapType
    <2>2. count' \in Counts /\ snap' \in SnapType
      BY <1>1, <1>13, Counting, SnapTypes DEF SendData
    <2> QED BY <1>11, <1>13, <2>1, <2>2 DEF SendData
  <1>14. CASE MetaSent \/ Resume \/ BurstDone \/ SendDone
    <2>1. snap' \in SnapType /\ count' \in Counts
      BY <1>1, <1>14, Counting, SnapTypes DEF MetaSent, Resume, BurstDone, SendDone
    <2> QED BY <1>14, <2>1 DEF MetaSent, Resume, BurstDone, SendDone, SendUnchanged, TypeOK,
            Counts, SnapType
  <1>15. CASE Restart
    <2>1. down' \in Seq(Frames) /\ tx' \in Seq(Messages) /\ Len(tx') <= TxDepth
      BY <1>15, EmptySeq, Sizes DEF Restart
    <2>2. snap' \in SnapType /\ count' \in Counts /\ trouble' \in 0..MaxTrouble
      BY <1>1, <1>15, Counting, SnapTypes DEF Restart
    <2>3. table' \in Tables /\ valid' \in BOOLEAN /\ mask' \subseteq 1..Chunks
      BY <1>1, <1>15 DEF Restart
    <2> QED BY <1>1, <1>15, <2>1, <2>2, <2>3 DEF Restart, TypeOK, Messages, Counts, SnapType
  <1> QED
    BY <1>2, <1>4, <1>5, <1>6, <1>7, <1>8, <1>9, <1>10, <1>12, <1>13, <1>14, <1>15 DEF Device

HostType == [job : 0..MaxJobs, doing : {"nothing", "upload", "capture"},
             step : 0..Chunks + 3, waiting : BOOLEAN, outcome : {"none", "ok", "failed"}]
InboxType == [acks : Seq(Acks), metas : Seq(Bursts), datas : Seq(Bursts)]

LEMMA HostTypes ==
  /\ \A h \in HostType :
       /\ [h EXCEPT !.waiting = TRUE] \in HostType
       /\ \A n \in 0..Chunks + 3 : /\ [h EXCEPT !.step = n] \in HostType
                                   /\ [h EXCEPT !.step = n, !.waiting = FALSE] \in HostType
       /\ \A o \in {"ok", "failed"} :
            [h EXCEPT !.doing = "nothing", !.waiting = FALSE, !.outcome = o] \in HostType
  /\ \A j \in 0..MaxJobs, w \in {"upload", "capture"} :
       [job |-> j, doing |-> w, step |-> 1, waiting |-> FALSE, outcome |-> "none"] \in HostType
  /\ 2 \in 0..Chunks + 3 /\ 3 \in 0..Chunks + 3
  /\ \A n \in 1..Chunks + 2 : n # Chunks + 2 => n + 1 \in 1..Chunks + 2 /\ n + 1 \in 0..Chunks + 3
  <1>1. 2 \in 0..Chunks + 3 /\ 3 \in 0..Chunks + 3 /\ 1 \in 0..Chunks + 3
    BY Sizes
  <1>2. \A n \in 1..Chunks + 2 :
          n # Chunks + 2 => n + 1 \in 1..Chunks + 2 /\ n + 1 \in 0..Chunks + 3
    BY Sizes
  <1>3. ASSUME NEW h \in HostType
        PROVE  /\ [h EXCEPT !.waiting = TRUE] \in HostType
               /\ \A n \in 0..Chunks + 3 : /\ [h EXCEPT !.step = n] \in HostType
                                           /\ [h EXCEPT !.step = n, !.waiting = FALSE] \in HostType
               /\ \A o \in {"ok", "failed"} :
                    [h EXCEPT !.doing = "nothing", !.waiting = FALSE, !.outcome = o] \in HostType
    BY DEF HostType
  <1>4. ASSUME NEW j \in 0..MaxJobs, NEW w \in {"upload", "capture"}
        PROVE  [job |-> j, doing |-> w, step |-> 1, waiting |-> FALSE, outcome |-> "none"] \in HostType
    BY <1>1 DEF HostType
  <1> QED BY <1>1, <1>2, <1>3, <1>4

(* The bus.                                                                 *)
LEMMA BusType ==
  ASSUME TypeOK, Lost \/ Arrives \/ OtherClient
  PROVE  TypeOK'
  <1>1. /\ down \in Seq(Frames) /\ tx \in Seq(Messages) /\ Len(tx) <= TxDepth
        /\ inbox \in InboxType /\ trouble \in 0..MaxTrouble
    BY DEF TypeOK, Messages, InboxType
  <1> USE DEF deviceVars, hostVars, tableVars, historyVars
  <1>2. ASSUME tx # << >>, tx' = Tail(tx)
        PROVE  tx' \in Seq(Messages) /\ Len(tx') <= TxDepth
    BY <1>1, <1>2, HeadTail, Sizes
  <1>3. CASE Lost
    <2>1. down' \in Seq(Frames) /\ tx' \in Seq(Messages) /\ Len(tx') <= TxDepth
      BY <1>1, <1>2, <1>3, HeadTail DEF Lost
    <2> QED BY <1>3, <2>1 DEF Lost, TypeOK, Messages
  <1>4. CASE Arrives
    <2>1. Head(tx) \in Messages
      BY <1>1, <1>4, HeadTail DEF Arrives
    <2>2. inbox' \in InboxType
      <3>1. CASE Head(tx) \in Acks
        <4>1. Append(inbox.acks, Head(tx)) \in Seq(Acks)
          BY <1>1, <3>1, AppendAt DEF InboxType
        <4> QED BY <1>1, <1>4, <3>1, <4>1 DEF Arrives, InboxType
      <3>2. CASE Head(tx) \notin Acks
        <4>1. Head(tx) \in Bursts
          BY <2>1, <3>2 DEF Messages
        <4>2. /\ Append(inbox.metas, Head(tx)) \in Seq(Bursts)
              /\ Append(inbox.datas, Head(tx)) \in Seq(Bursts)
          BY <1>1, <4>1, AppendAt DEF InboxType
        <4> QED BY <1>1, <1>4, <3>2, <4>2 DEF Arrives, InboxType
      <3> QED BY <3>1, <3>2
    <2>3. tx' \in Seq(Messages) /\ Len(tx') <= TxDepth
      BY <1>2, <1>4 DEF Arrives
    <2>4. UNCHANGED <<deviceVars, down, host, rows, got, trouble, historyVars>>
      BY <1>4 DEF Arrives
    <2> QED BY <2>2, <2>3, <2>4 DEF TypeOK, Messages, InboxType
  <1>5. CASE OtherClient
    <2>1. Frame("conf", 0, 0) \in Frames
      BY Sizes DEF Frame, Frames, Commands
    <2>2. down' \in Seq(Frames)
      BY <1>1, <1>5, <2>1, AppendAt DEF OtherClient
    <2>3. trouble' \in 0..MaxTrouble
      BY <1>1, <1>5, Counting DEF OtherClient
    <2> QED BY <1>5, <2>2, <2>3 DEF OtherClient, TypeOK
  <1> QED BY <1>3, <1>4, <1>5

LEMMA ServerType ==
  ASSUME TypeOK, StepInv, Server
  PROVE  TypeOK' /\ StepInv'
  <1>1. /\ down \in Seq(Frames) /\ inbox \in InboxType /\ host \in HostType
        /\ rows \in [1..DataFrames -> 0..MaxJobs] /\ got \in 0..DataFrames
        /\ strayed \in BOOLEAN /\ abandoned \in BOOLEAN
    BY DEF TypeOK, InboxType, HostType
  <1> USE DEF deviceVars, hostVars, tableVars, historyVars, ServerOnly
  <1>2. ASSUME UNCHANGED <<deviceVars, tx, trouble, undone>>, down' \in Seq(Frames),
               host' \in HostType, inbox' \in InboxType, rows' \in [1..DataFrames -> 0..MaxJobs],
               got' \in 0..DataFrames, strayed' \in BOOLEAN, abandoned' \in BOOLEAN
        PROVE  TypeOK'
    BY <1>2 DEF TypeOK, HostType, InboxType
  <1>3. ASSUME NEW o \in {"ok", "failed"}, End(o)
        PROVE  host' \in HostType /\ abandoned' \in BOOLEAN /\ StepInv'
    <2>1. host' \in HostType /\ host'.doing = "nothing"
      BY <1>1, <1>3, HostTypes DEF End, HostType
    <2>2. abandoned' \in BOOLEAN
      BY <1>1, <1>3 DEF End
    <2> QED BY <2>1, <2>2 DEF StepInv
  <1>4. ASSUME TakeAck
        PROVE  /\ inbox' \in InboxType /\ strayed' \in BOOLEAN
               /\ UNCHANGED <<rows, got, down>> /\ ServerOnly
    <2>1. Tail(inbox.acks) \in Seq(Acks)
      BY <1>1, <1>4, HeadTail DEF TakeAck, InboxType
    <2>2. inbox' \in InboxType
      BY <1>1, <1>4, <2>1 DEF TakeAck, InboxType
    <2>3. strayed' \in BOOLEAN
      BY <1>1, <1>4 DEF TakeAck
    <2> QED BY <1>4, <2>2, <2>3 DEF TakeAck
  <1>5. ASSUME NEW work \in {"upload", "capture"}, Start(work)
        PROVE  TypeOK' /\ StepInv'
    <2>1. host.job + 1 \in 0..MaxJobs
      BY <1>1, <1>5, Counting DEF Start, HostType
    <2>2. host' \in HostType
      BY <1>5, <2>1, HostTypes DEF Start
    <2>3. rows' \in [1..DataFrames -> 0..MaxJobs] /\ got' \in 0..DataFrames
      BY <1>5, Counting DEF Start
    <2>4. StepInv'
      BY <1>5, Sizes DEF Start, StepInv
    <2> QED BY <1>1, <1>2, <1>5, <2>2, <2>3, <2>4 DEF Start
  <1>6. CASE SendCommand
    <2>1. Command \in Frames
      BY <1>6, CommandType DEF SendCommand
    <2>2. down' \in Seq(Frames) /\ inbox' \in InboxType
      BY <1>1, <1>6, <2>1, AppendAt, EmptySeq DEF SendCommand, EmptyInbox, InboxType
    <2>3. host' \in HostType
      BY <1>1, <1>6, HostTypes DEF SendCommand
    <2>4. StepInv'
      BY <1>1, <1>6 DEF SendCommand, StepInv, HostType
    <2> QED BY <1>1, <1>2, <1>6, <2>2, <2>3, <2>4 DEF SendCommand
  <1>7. CASE UploadAck
    <2>1. CASE \E o \in {"ok", "failed"} : End(o)
      BY <1>1, <1>2, <1>3, <1>4, <1>7, <2>1 DEF UploadAck
    <2>2. CASE /\ host.step # Chunks + 2
               /\ host' = [host EXCEPT !.step = @ + 1, !.waiting = FALSE]
               /\ UNCHANGED abandoned
      <3>1. host.step \in 1..Chunks + 2
        BY <1>7 DEF UploadAck, StepInv
      <3>2. host.step + 1 \in 0..Chunks + 3 /\ host.step + 1 \in 1..Chunks + 2
        BY <3>1, <2>2, HostTypes
      <3>3. host' \in HostType
        BY <1>1, <2>2, <3>2, HostTypes
      <3>4. StepInv'
        BY <1>1, <1>7, <2>2, <3>2 DEF UploadAck, StepInv, HostType
      <3> QED BY <1>1, <1>2, <1>4, <1>7, <2>2, <3>3, <3>4 DEF UploadAck
    <2> QED BY <1>7, <2>1, <2>2 DEF UploadAck
  <1>8. CASE CaptureAck
    <2>1. CASE End("failed")
      BY <1>1, <1>2, <1>3, <1>4, <1>8, <2>1 DEF CaptureAck
    <2>2. CASE host' = [host EXCEPT !.step = 2] /\ UNCHANGED abandoned
      <3>1. host' \in HostType
        BY <1>1, <2>2, HostTypes
      <3>2. StepInv'
        BY <1>1, <1>4, <1>8, <2>2 DEF CaptureAck, StepInv, HostType, TakeAck
      <3> QED BY <1>1, <1>2, <1>4, <1>8, <2>2, <3>1, <3>2 DEF CaptureAck
    <2> QED BY <1>8, <2>1, <2>2 DEF CaptureAck
  <1>9. CASE TakeMeta
    <2>1. Tail(inbox.metas) \in Seq(Bursts)
      BY <1>1, <1>9, HeadTail DEF TakeMeta, InboxType
    <2>2. inbox' \in InboxType
      BY <1>1, <1>9, <2>1 DEF TakeMeta, InboxType
    <2>3. host' \in HostType
      BY <1>1, <1>9, HostTypes DEF TakeMeta
    <2>4. StepInv'
      BY <1>1, <1>9 DEF TakeMeta, StepInv, HostType
    <2> QED BY <1>1, <1>2, <1>9, <2>2, <2>3, <2>4 DEF TakeMeta
  <1>10. CASE TakeData
    <2>1. Head(inbox.datas) \in Bursts /\ Tail(inbox.datas) \in Seq(Bursts)
      BY <1>1, <1>10, HeadTail DEF TakeData, InboxType
    <2>2. inbox' \in InboxType
      BY <1>1, <1>10, <2>1 DEF TakeData, InboxType
    <2>3. got' \in 0..DataFrames /\ (got' # DataFrames => got' < DataFrames)
      BY <1>1, <1>10, Sizes DEF TakeData, StepInv
    <2>4. rows' \in [1..DataFrames -> 0..MaxJobs]
      BY <1>1, <1>10, <2>1 DEF TakeData, Bursts
    <2>5. CASE End("ok")
      BY <1>1, <1>2, <1>3, <1>10, <2>2, <2>3, <2>4, <2>5 DEF TakeData
    <2>6. CASE got' # DataFrames /\ UNCHANGED <<host, abandoned>>
      <3>1. StepInv'
        BY <1>10, <2>3, <2>6 DEF TakeData, StepInv
      <3> QED BY <1>1, <1>2, <1>10, <2>2, <2>3, <2>4, <2>6, <3>1 DEF TakeData
    <2> QED BY <1>10, <2>5, <2>6 DEF TakeData
  <1>11. CASE TimesOut
    BY <1>1, <1>2, <1>3, <1>11 DEF TimesOut
  <1> QED BY <1>5, <1>6, <1>7, <1>8, <1>9, <1>10, <1>11 DEF Server

LEMMA LinkType ==
  ASSUME TypeOK, StepInv, SentInv, [Next]_vars
  PROVE  TypeOK' /\ StepInv'
  <1>1. CASE UNCHANGED vars
    BY <1>1 DEF vars, deviceVars, tableVars, hostVars, historyVars, TypeOK, StepInv
  <1>2. CASE Device
    <2>1. UNCHANGED <<host, got>>
      BY <1>2 DEF Device, Persist, PersistFails, Refuse, ClearCompensation, SetCompensationChunk,
         CommitCompensation, SetConfiguration, ArmSnapshot, PollDone, Tick, SendMeta, MetaSent,
         Resume, SendData, BurstDone, SendDone, Restart, Receives, SendUnchanged, hostVars
    <2> QED BY <1>2, <2>1, DeviceType DEF StepInv
  <1>3. CASE Lost \/ Arrives \/ OtherClient
    BY <1>3, BusType DEF Lost, Arrives, OtherClient, hostVars, StepInv
  <1>4. CASE Server
    BY <1>4, ServerType
  <1> QED BY <1>1, <1>2, <1>3, <1>4 DEF Next

-----------------------------------------------------------------------------
(* What a step does to the exchange.                                        *)

Exchange == SentInv /\ OrderInv /\ AloneInv

(* The first k frames leave the bus.                                        *)
Passes(k) ==
  /\ \A i \in DOMAIN down' : i + k \in DOMAIN down /\ down'[i] = down[i + k]
  /\ \A i \in DOMAIN down : k < i => i - k \in DOMAIN down'

(* The acks that come are those that came, or answer a frame.               *)
Answers(f, ok) ==
  \A a \in Acks : Coming(a)' => Coming(a) \/ a = [of |-> f, ok |-> ok]
NoAnswer == \A a \in Acks : Coming(a)' => Coming(a)

LEMMA FrameAt ==
  ASSUME TypeOK
  PROVE  /\ \A i \in DOMAIN down : down[i] \in Frames /\ i \in Nat /\ 0 < i
         /\ \A f \in Frames : f.job \in Nat
         /\ \A a \in Acks : a.of \in Frames /\ a.ok \in BOOLEAN
  <1>1. down \in Seq(Frames)
    BY DEF TypeOK
  <1>2. \A i \in DOMAIN down : down[i] \in Frames /\ i \in Nat /\ 0 < i
    BY <1>1
  <1>3. \A f \in Frames : f.job \in Nat
    BY Sizes DEF Frames
  <1> QED BY <1>2, <1>3 DEF Acks

LEMMA PassNone == ASSUME TypeOK, UNCHANGED down PROVE Passes(0)
  BY DEF TypeOK, Passes

LEMMA PassOne ==
  ASSUME TypeOK, down # << >>, down' = Tail(down)
  PROVE  Passes(1) /\ 1 \in DOMAIN down /\ Head(down) = down[1] /\ Head(down) \in Frames
  <1>1. down \in Seq(Frames)
    BY DEF TypeOK
  <1>2. /\ Head(down) \in Frames /\ 1 \in DOMAIN down /\ Head(down) = down[1]
        /\ \A i \in DOMAIN Tail(down) : i + 1 \in DOMAIN down /\ Tail(down)[i] = down[i + 1]
        /\ Len(Tail(down)) = Len(down) - 1
        /\ Tail(down) \in Seq(Frames)
    BY <1>1, HeadTail
  <1>3. \A i \in DOMAIN down : 1 < i => i - 1 \in DOMAIN Tail(down)
    BY <1>1, <1>2
  <1> QED BY <1>2, <1>3 DEF Passes

LEMMA PassAll ==
  ASSUME TypeOK, down' = << >>
  PROVE  Len(down) \in Nat /\ Passes(Len(down))
  BY DEF TypeOK, Passes

(* A frame that is received is answered, or the answer finds no room.       *)
LEMMA Received ==
  ASSUME TypeOK, NEW cmd \in Commands, Receives(cmd), NEW ok \in BOOLEAN, Reply(Head(down), ok)
  PROVE  /\ Passes(1) /\ 1 \in DOMAIN down
         /\ Head(down) = down[1] /\ Head(down) \in Frames /\ Head(down).cmd = cmd
         /\ Answers(Head(down), ok)
         /\ UNCHANGED <<pc, inbox, host, rows, got, trouble, strayed, abandoned>>
         /\ \A i \in DOMAIN tx' : tx'[i] \in Acks \/ (i \in DOMAIN tx /\ tx'[i] = tx[i])
  <1>1. /\ Passes(1) /\ 1 \in DOMAIN down
        /\ Head(down) = down[1] /\ Head(down) \in Frames /\ Head(down).cmd = cmd
    BY PassOne DEF Receives
  <1>2. UNCHANGED <<pc, inbox, host, rows, got, trouble, strayed, abandoned>>
    BY DEF Receives, hostVars
  <1>3. \A i \in DOMAIN tx' : \/ i \in DOMAIN tx /\ tx'[i] = tx[i]
                              \/ tx'[i] = [of |-> Head(down), ok |-> ok]
    BY <1>1, ReplyType
  <1>4. Answers(Head(down), ok)
    BY <1>2, <1>3 DEF Answers, Coming
  <1>5. [of |-> Head(down), ok |-> ok] \in Acks
    BY <1>1 DEF Acks
  <1> QED BY <1>1, <1>2, <1>3, <1>4, <1>5

LEMMA NoAnswers ==
  ASSUME inbox'.acks = inbox.acks,
         \A i \in DOMAIN tx' : tx'[i] \in Acks => \E j \in DOMAIN tx : tx[j] = tx'[i]
  PROVE  NoAnswer
  BY DEF NoAnswer, Coming

LEMMA AckTaken ==
  ASSUME TypeOK, TakeAck
  PROVE  /\ NoAnswer /\ Head(inbox.acks) \in Acks /\ Coming(Head(inbox.acks))
         /\ strayed' = (strayed \/ Head(inbox.acks).of # Command)
         /\ UNCHANGED <<deviceVars, down, tx, rows, got, trouble, undone>>
         /\ inbox'.datas = inbox.datas
  <1>1. inbox.acks \in Seq(Acks) /\ inbox.acks # << >> /\ inbox'.acks = Tail(inbox.acks)
    BY DEF TypeOK, TakeAck
  <1>2. /\ Head(inbox.acks) \in Acks /\ 1 \in DOMAIN inbox.acks /\ Head(inbox.acks) = inbox.acks[1]
        /\ \A i \in DOMAIN inbox'.acks :
             i + 1 \in DOMAIN inbox.acks /\ inbox'.acks[i] = inbox.acks[i + 1]
    BY <1>1, HeadTail
  <1>3. UNCHANGED <<deviceVars, down, tx, rows, got, trouble, undone>>
    BY DEF TakeAck, ServerOnly
  <1>4. NoAnswer
    BY <1>2, <1>3 DEF NoAnswer, Coming
  <1>5. inbox'.datas = inbox.datas
    BY DEF TypeOK, TakeAck
  <1> QED BY <1>2, <1>3, <1>4, <1>5 DEF Coming, TakeAck

(* Frames pass, and an answer to the first may come: the server does not    *)
(* move.                                                                    *)
LEMMA FramesPass ==
  ASSUME TypeOK, TypeOK', StepInv, Exchange, UNCHANGED <<host, strayed>>,
         NEW k \in Nat, Passes(k),
         \/ NoAnswer
         \/ k = 1 /\ 1 \in DOMAIN down /\ \E ok \in BOOLEAN : Answers(down[1], ok)
  PROVE  Exchange'
  <1>1. UNCHANGED Command
    BY DEF Command
  <1>2. \A f : Sooner(f)' <=> Sooner(f)
    BY <1>1 DEF Sooner, StepOf
  <1>3. /\ \A i \in DOMAIN down : i \in Nat /\ 0 < i
        /\ \A i \in DOMAIN down' : i \in Nat /\ 0 < i
    <2>1. down \in Seq(Frames) /\ down' \in Seq(Frames)
      BY DEF TypeOK
    <2> QED BY <2>1
  <1>4. \A i \in DOMAIN down' : i + k \in DOMAIN down /\ down'[i] = down[i + k]
    BY DEF Passes
  <1>5. \A i \in DOMAIN down : k < i => i - k \in DOMAIN down' /\ down'[i - k] = down[i]
    BY <1>3, <1>4 DEF Passes
  <1>6. \A a \in Acks : Coming(a)' =>
          Coming(a) \/ (k = 1 /\ 1 \in DOMAIN down /\ a.of = down[1])
    BY DEF NoAnswer, Answers
  <1>7. SentInv'
    <2>1. \A i \in DOMAIN down' : Own(down'[i]) => Sooner(down'[i])
      BY <1>4 DEF Exchange, SentInv
    <2>2. \A a \in Acks : Coming(a)' /\ Own(a.of) => Sooner(a.of)
      BY <1>6 DEF Exchange, SentInv
    <2> QED BY <1>2, <2>1, <2>2 DEF SentInv, Own
  <1>8. OrderInv'
    <2> SUFFICES ASSUME host.doing # "nothing", host.waiting
                 PROVE  /\ \A i \in DOMAIN down' : Own(down'[i]) =>
                             \E j \in DOMAIN down' : i <= j /\ down'[j] = Command
                        /\ \A i, j \in DOMAIN down' : down'[i] = Command /\ i < j => ~Own(down'[j])
                        /\ \A a \in Acks : Coming(a)' /\ a.of = Command =>
                             \A i \in DOMAIN down' : down'[i] # Command
      BY <1>1 DEF OrderInv, Own
    <2>1. /\ \A i \in DOMAIN down : Own(down[i]) => \E j \in DOMAIN down : i <= j /\ down[j] = Command
          /\ \A i, j \in DOMAIN down : down[i] = Command /\ i < j => ~Own(down[j])
          /\ \A a \in Acks : Coming(a) /\ a.of = Command =>
               \A i \in DOMAIN down : down[i] # Command
      BY DEF Exchange, OrderInv
    <2>2. ASSUME NEW i \in DOMAIN down', Own(down'[i])
          PROVE  \E j \in DOMAIN down' : i <= j /\ down'[j] = Command
      <3>1. PICK j \in DOMAIN down : i + k <= j /\ down[j] = Command
        BY <1>4, <2>1, <2>2
      <3>2. k < j /\ i <= j - k
        BY <1>3, <3>1
      <3> QED BY <1>5, <3>1, <3>2
    <2>3. ASSUME NEW i \in DOMAIN down', NEW j \in DOMAIN down', down'[i] = Command, i < j
          PROVE  ~Own(down'[j])
      <3>1. i + k < j + k
        BY <1>3, <2>3
      <3> QED BY <1>4, <2>1, <2>3, <3>1
    <2>4. ASSUME NEW a \in Acks, Coming(a)', a.of = Command, NEW i \in DOMAIN down'
          PROVE  down'[i] # Command
      <3>1. CASE Coming(a)
        BY <1>4, <2>1, <2>4, <3>1
      <3>2. CASE k = 1 /\ 1 \in DOMAIN down /\ a.of = down[1]
        <4>1. 1 < i + k /\ i + k \in DOMAIN down /\ down'[i] = down[i + k]
          BY <1>3, <1>4, <3>2
        <4>2. ~Own(down'[i])
          BY <2>1, <2>4, <3>2, <4>1
        <4> QED BY <4>2, CommandType
      <3> QED BY <1>6, <2>4, <3>1, <3>2
    <2> QED BY <2>2, <2>3, <2>4
  <1>9. AloneInv'
    <2> SUFFICES ASSUME ~strayed
                 PROVE  /\ host.doing # "nothing" /\ host.step > 1 =>
                             \A i \in DOMAIN down' : Own(down'[i]) => host.waiting /\ down'[i] = Command
                        /\ \A i, j \in DOMAIN down' :
                             down'[i].cmd \in {"chunk", "commit"} /\ j < i => ~Own(down'[j])
      BY <1>1 DEF AloneInv, Own
    <2>1. /\ host.doing # "nothing" /\ host.step > 1 =>
               \A i \in DOMAIN down : Own(down[i]) => host.waiting /\ down[i] = Command
          /\ \A i, j \in DOMAIN down : down[i].cmd \in {"chunk", "commit"} /\ j < i => ~Own(down[j])
      BY DEF Exchange, AloneInv
    <2>2. \A i, j \in DOMAIN down' : j < i => j + k < i + k
      BY <1>3
    <2> QED BY <1>4, <2>1, <2>2
  <1> QED BY <1>7, <1>8, <1>9 DEF Exchange

(* A frame of another client joins.                                         *)
LEMMA OtherJoins ==
  ASSUME TypeOK, StepInv, Exchange, OtherClient
  PROVE  Exchange'
  <1> DEFINE conf == Frame("conf", 0, 0)
  <1>1. conf \in Frames /\ ~Own(conf) /\ conf.cmd = "conf"
    BY Sizes DEF Frame, Frames, Commands, Own
  <1>2. /\ UNCHANGED <<tx, inbox, host, strayed>> /\ UNCHANGED Command
        /\ down \in Seq(Frames) /\ down' = Append(down, conf)
    BY DEF OtherClient, hostVars, historyVars, Command, TypeOK
  <1> HIDE DEF conf
  <1>3. /\ \A i \in DOMAIN down' : \/ i \in DOMAIN down /\ down'[i] = down[i]
                                   \/ i = Len(down) + 1 /\ down'[i] = conf
        /\ \A i \in DOMAIN down : i \in DOMAIN down' /\ down'[i] = down[i] /\ i < Len(down) + 1
    BY <1>1, <1>2, AppendAt
  <1>4. \A i, j \in DOMAIN down' : Own(down'[i]) /\ j < i => i \in DOMAIN down /\ j \in DOMAIN down
    BY <1>1, <1>2, <1>3
  <1>5. \A a : Coming(a)' <=> Coming(a)
    BY <1>2 DEF Coming
  <1>6. \A f : Sooner(f)' <=> Sooner(f)
    BY <1>2 DEF Sooner, StepOf
  <1>7. SentInv'
    BY <1>1, <1>3, <1>5, <1>6 DEF Exchange, SentInv, Own
  <1>8. OrderInv'
    <2> SUFFICES ASSUME host.doing # "nothing", host.waiting
                 PROVE  /\ \A i \in DOMAIN down' : Own(down'[i]) =>
                             \E j \in DOMAIN down' : i <= j /\ down'[j] = Command
                        /\ \A i, j \in DOMAIN down' : down'[i] = Command /\ i < j => ~Own(down'[j])
                        /\ \A a \in Acks : Coming(a)' /\ a.of = Command =>
                             \A i \in DOMAIN down' : down'[i] # Command
      BY <1>2 DEF OrderInv, Own
    <2>1. Own(Command)
      BY CommandType
    <2> QED BY <1>1, <1>3, <1>4, <1>5, <2>1 DEF Exchange, OrderInv
  <1>9. AloneInv'
    <2> SUFFICES ASSUME ~strayed
                 PROVE  /\ host.doing # "nothing" /\ host.step > 1 =>
                             \A i \in DOMAIN down' : Own(down'[i]) => host.waiting /\ down'[i] = Command
                        /\ \A i, j \in DOMAIN down' :
                             down'[i].cmd \in {"chunk", "commit"} /\ j < i => ~Own(down'[j])
      BY <1>2 DEF AloneInv, Own
    <2>1. \A i \in DOMAIN down' : down'[i].cmd \in {"chunk", "commit"} => Own(down'[i])
      BY DEF Own
    <2> QED BY <1>1, <1>3, <1>4, <2>1 DEF Exchange, AloneInv
  <1> QED BY <1>7, <1>8, <1>9 DEF Exchange

(* The server sends the next command.                                       *)
LEMMA CommandSent ==
  ASSUME TypeOK, StepInv, Exchange, SendCommand
  PROVE  Exchange'
  <1>1. /\ host.doing # "nothing" /\ ~host.waiting /\ host'.waiting
        /\ host'.job = host.job /\ host'.doing = host.doing /\ host'.step = host.step
        /\ UNCHANGED <<tx, strayed>> /\ inbox'.acks = << >>
        /\ down \in Seq(Frames) /\ down' = Append(down, Command)
    BY DEF SendCommand, historyVars, EmptyInbox, TypeOK
  <1>2. UNCHANGED Command
    BY <1>1 DEF Command
  <1>3. /\ Command \in Frames /\ Own(Command) /\ Command.job = host.job
        /\ host.doing = "upload" => StepOf(Command) = host.step
        /\ Command.cmd = "chunk" => Command.chunk \in 1..Chunks
        /\ Command.cmd \in {"chunk", "commit"} => host.step > 1
    BY <1>1, CommandType
  <1>4. /\ \A i \in DOMAIN down' : \/ i \in DOMAIN down /\ down'[i] = down[i]
                                   \/ i = Len(down) + 1 /\ down'[i] = Command
        /\ \A i \in DOMAIN down : i \in DOMAIN down' /\ down'[i] = down[i] /\ i < Len(down) + 1
        /\ Len(down) + 1 \in DOMAIN down' /\ down'[Len(down) + 1] = Command
    BY <1>1, <1>3, AppendAt
  <1>5. \A a : Coming(a)' => Coming(a)
    BY <1>1, EmptySeq DEF Coming
  <1>6. \A f : /\ Sooner(f) => Sooner(f)' /\ f # Command
               /\ Sooner(Command)'
    <2>1. \A f : Sooner(f) => Sooner(f)'
      BY <1>1, <1>2 DEF Sooner, StepOf
    <2>2. ASSUME Sooner(Command) PROVE FALSE
      <3>1. host.doing = "upload" /\ StepOf(Command) < host.step
        BY <1>1, <1>3, <2>2 DEF Sooner
      <3>2. host.step \in Nat
        BY DEF TypeOK
      <3> QED BY <1>3, <3>1, <3>2
    <2>3. Sooner(Command)'
      <3>1. host.job \in Nat
        BY Sizes DEF TypeOK
      <3> QED BY <1>1, <1>2, <1>3, <3>1 DEF Sooner
    <2> QED BY <2>1, <2>2, <2>3
  <1>7. /\ \A i \in DOMAIN down : down[i] # Command
        /\ \A a \in Acks : Coming(a) => a.of # Command
    BY <1>3, <1>6 DEF Exchange, SentInv
  <1>8. SentInv'
    <2>1. ASSUME NEW f, NEW i \in DOMAIN down', f = down'[i], Own(f) PROVE Sooner(f)'
      <3>1. CASE i \in DOMAIN down /\ down'[i] = down[i]
        BY <1>6, <2>1, <3>1 DEF Exchange, SentInv
      <3> QED BY <1>2, <1>4, <1>6, <2>1, <3>1
    <2>2. \A a \in Acks : Coming(a)' /\ Own(a.of) => Sooner(a.of)'
      BY <1>5, <1>6 DEF Exchange, SentInv
    <2>3. \A i \in DOMAIN down' : Own(down'[i]) => Sooner(down[i])'
      BY <2>1
    <2> QED BY <2>2, <2>3 DEF SentInv, Own
  <1>9. OrderInv'
    <2> SUFFICES /\ \A i \in DOMAIN down' : Own(down'[i]) =>
                      \E j \in DOMAIN down' : i <= j /\ down'[j] = Command
                 /\ \A i, j \in DOMAIN down' : down'[i] = Command /\ i < j => ~Own(down'[j])
                 /\ \A a \in Acks : Coming(a)' /\ a.of = Command =>
                      \A i \in DOMAIN down' : down'[i] # Command
      BY <1>2 DEF OrderInv, Own
    <2>1. \A i \in DOMAIN down' : i <= Len(down) + 1
      <3>1. Len(down) + 1 <= Len(down) + 1
        BY <1>1
      <3> QED BY <1>4, <3>1
    <2>2. \A i, j \in DOMAIN down' : down'[i] = Command => ~(i < j)
      BY <1>1, <1>4, <1>7
    <2> QED BY <1>4, <1>5, <1>7, <2>1, <2>2
  <1>10. AloneInv'
    <2> SUFFICES ASSUME ~strayed
                 PROVE  /\ host.step > 1 =>
                             \A i \in DOMAIN down' : Own(down'[i]) => down'[i] = Command
                        /\ \A i, j \in DOMAIN down' :
                             down'[i].cmd \in {"chunk", "commit"} /\ j < i => ~Own(down'[j])
      BY <1>1, <1>2 DEF AloneInv, Own
    <2>1. /\ host.step > 1 => \A i \in DOMAIN down : ~Own(down[i])
          /\ \A i, j \in DOMAIN down : down[i].cmd \in {"chunk", "commit"} /\ j < i => ~Own(down[j])
      BY <1>1 DEF Exchange, AloneInv
    <2>2. ASSUME NEW i \in DOMAIN down', NEW j \in DOMAIN down',
                 down'[i].cmd \in {"chunk", "commit"}, j < i
          PROVE  ~Own(down'[j])
      <3>1. j \in DOMAIN down /\ down'[j] = down[j]
        BY <1>1, <1>4, <2>2
      <3>2. CASE i \in DOMAIN down /\ down'[i] = down[i]
        BY <2>1, <2>2, <3>1, <3>2
      <3>3. CASE down'[i] = Command
        BY <1>3, <2>1, <2>2, <3>1, <3>3
      <3> QED BY <1>4, <3>2, <3>3
    <2> QED BY <1>4, <2>1, <2>2
  <1> QED BY <1>8, <1>9, <1>10 DEF Exchange

(* A job ends, or the next one begins.                                      *)
LEMMA JobTurns ==
  ASSUME TypeOK, TypeOK', Exchange, down' = down, NoAnswer, strayed => strayed',
         \/ host'.doing = "nothing" /\ host'.job = host.job
         \/ host'.job = host.job + 1 /\ ~host'.waiting /\ host'.step = 1
  PROVE  Exchange'
  <1>1. /\ host.job \in Nat /\ host'.job \in Nat
        /\ \A f \in Frames : f.job \in Nat
        /\ \A i \in DOMAIN down : down[i] \in Frames
        /\ \A a \in Acks : a.of \in Frames
    <2>1. host.job \in Nat /\ host'.job \in Nat
      BY Sizes DEF TypeOK
    <2> QED BY <2>1, FrameAt
  <1>2. \A f \in Frames : Sooner(f) => Sooner(f)'
    <2> SUFFICES ASSUME NEW f \in Frames, Sooner(f) PROVE Sooner(f)'
      OBVIOUS
    <2>1. /\ f.cmd = "chunk" => f.chunk \in 1..Chunks
          /\ f.job \in Nat /\ f.job <= host.job
      BY <1>1 DEF Sooner
    <2>2. f.job <= host'.job /\ (f.job = host'.job => host'.doing = "nothing")
      BY <1>1, <2>1
    <2> QED BY <2>1, <2>2 DEF Sooner
  <1>3. SentInv'
    BY <1>1, <1>2 DEF Exchange, SentInv, NoAnswer, Own
  <1>4. OrderInv'
    BY DEF OrderInv
  <1>5. AloneInv'
    BY DEF Exchange, AloneInv, Own
  <1> QED BY <1>3, <1>4, <1>5 DEF Exchange

(* An answer is taken, and the job goes on: none of its frames is left in   *)
(* the bus.                                                                 *)
LEMMA NoneLeft ==
  ASSUME TypeOK, StepInv, Exchange, host.doing # "nothing", TakeAck, ~strayed'
  PROVE  /\ ~strayed /\ Head(inbox.acks).of = Command
         /\ \A i \in DOMAIN down : ~Own(down[i])
  <1>1. Coming(Head(inbox.acks)) /\ Head(inbox.acks) \in Acks /\ ~strayed
        /\ Head(inbox.acks).of = Command
    BY AckTaken
  <1>2. host.waiting
    BY DEF TakeAck
  <1>3. \A i \in DOMAIN down : down[i] # Command
    BY <1>1, <1>2 DEF Exchange, OrderInv
  <1> QED BY <1>1, <1>2, <1>3 DEF Exchange, OrderInv

LEMMA JobGoesOn ==
  ASSUME TypeOK, TypeOK', StepInv, Exchange, host.doing # "nothing",
         down' = down, NoAnswer, strayed => strayed',
         host'.job = host.job /\ host'.doing = host.doing,
         \/ /\ host.doing = "upload" /\ host.waiting /\ ~host'.waiting /\ host'.step = host.step + 1
            /\ ~strayed' => \A i \in DOMAIN down : ~Own(down[i])
         \/ /\ host.doing = "capture" /\ host'.waiting = host.waiting
            /\ host'.step # host.step /\ ~strayed' /\ host.step = 1
                  => \A i \in DOMAIN down : ~Own(down[i])
  PROVE  Exchange'
  <1>1. host.step \in Nat /\ host'.step \in Nat
    BY Sizes DEF TypeOK
  <1>2. \A i \in DOMAIN down : down[i] \in Frames
    BY FrameAt
  <1>3. \A a \in Acks : a.of \in Frames
    BY FrameAt
  <1>4. CASE host.doing = "upload" /\ host.waiting /\ ~host'.waiting /\ host'.step = host.step + 1
             /\ (~strayed' => \A i \in DOMAIN down : ~Own(down[i]))
    <2>1. \A f \in Frames : StepOf(f) \in Nat
      BY Sizes DEF StepOf, Frames, Commands
    <2>2. \A f \in Frames : Sooner(f) => Sooner(f)'
      <3> SUFFICES ASSUME NEW f \in Frames, Sooner(f) PROVE Sooner(f)'
        OBVIOUS
      <3>1. f.job = host.job => StepOf(f) < host'.step
        <4>1. StepOf(Command) = host.step
          BY <1>4, CommandType
        <4> QED BY <1>1, <1>4, <2>1, <4>1 DEF Sooner
      <3>2. StepOf(f)' = StepOf(f)
        BY DEF StepOf
      <3> QED BY <1>4, <3>1, <3>2 DEF Sooner
    <2>3. SentInv'
      BY <1>2, <1>3, <2>2 DEF Exchange, SentInv, NoAnswer, Own
    <2>4. OrderInv' /\ AloneInv'
      BY <1>4 DEF Exchange, OrderInv, AloneInv, Own
    <2> QED BY <2>3, <2>4 DEF Exchange
  <1>5. CASE host.doing = "capture" /\ host'.waiting = host.waiting
             /\ (host'.step # host.step /\ ~strayed' /\ host.step = 1
                  => \A i \in DOMAIN down : ~Own(down[i]))
    <2>1. Command' = Command
      BY <1>5 DEF Command
    <2>2. \A f \in Frames : Sooner(f) => Sooner(f)'
      BY <1>5, <2>1 DEF Sooner
    <2>3. SentInv'
      BY <1>2, <1>3, <2>2 DEF Exchange, SentInv, NoAnswer, Own
    <2>4. OrderInv'
      BY <1>5, <2>1 DEF Exchange, OrderInv, NoAnswer, Own
    <2>5. ~strayed' /\ host'.step > 1 => \A i \in DOMAIN down : Own(down[i]) => host.waiting /\ down[i] = Command
      <3>1. host.step = 1 \/ host.step > 1
        BY <1>5 DEF StepInv
      <3> QED BY <1>1, <1>5, <3>1 DEF Exchange, AloneInv
    <2>6. AloneInv'
      BY <1>5, <2>1, <2>5 DEF Exchange, AloneInv, Own
    <2> QED BY <2>3, <2>4, <2>6 DEF Exchange
  <1> QED BY <1>4, <1>5

(* An ack moves from the FIFO to the queue.                                 *)
LEMMA ArrivesAnswer ==
  ASSUME TypeOK, Arrives
  PROVE  NoAnswer
  <1>1. /\ tx # << >> /\ tx' = Tail(tx)
        /\ tx \in Seq(Messages) /\ inbox.acks \in Seq(Acks) /\ inbox \in InboxType
    BY DEF Arrives, TypeOK, Messages, InboxType
  <1>2. /\ Head(tx) = tx[1] /\ 1 \in DOMAIN tx
        /\ \A i \in DOMAIN tx' : i + 1 \in DOMAIN tx /\ tx'[i] = tx[i + 1]
    BY <1>1, HeadTail
  <1>3. \A i \in DOMAIN inbox'.acks :
          \/ i \in DOMAIN inbox.acks /\ inbox'.acks[i] = inbox.acks[i]
          \/ inbox'.acks[i] = tx[1] /\ tx[1] \in Acks
    <2>1. CASE Head(tx) \in Acks
      <3>1. inbox'.acks = Append(inbox.acks, Head(tx))
        BY <1>1, <2>1 DEF Arrives, InboxType
      <3> QED BY <1>1, <1>2, <2>1, <3>1, AppendAt
    <2>2. CASE Head(tx) \notin Acks
      <3>1. inbox'.acks = inbox.acks
        BY <1>1, <2>2 DEF Arrives, InboxType
      <3> QED BY <3>1
    <2> QED BY <2>1, <2>2
  <1>4. NoAnswer
    BY <1>2, <1>3 DEF NoAnswer, Coming
  <1> QED BY <1>4

LEMMA ExchangeNext ==
  ASSUME TypeOK, TypeOK', StepInv, Exchange, [Next]_vars
  PROVE  Exchange'
  <1>1. CASE UNCHANGED vars
    <2>1. UNCHANGED <<host, strayed, down, tx, inbox>>
      BY <1>1 DEF vars, deviceVars, hostVars, historyVars
    <2> QED BY <2>1, PassNone, NoAnswers, FramesPass
  <1>2. CASE Persist \/ PersistFails \/ PollDone \/ Tick \/ MetaSent \/ Resume \/ BurstDone \/ SendDone
    <2>1. UNCHANGED <<host, strayed, down, tx, inbox>>
      BY <1>2 DEF Persist, PersistFails, PollDone, Tick, MetaSent, Resume, BurstDone, SendDone,
         SendUnchanged, hostVars, historyVars
    <2> QED BY <2>1, PassNone, NoAnswers, FramesPass
  <1>3. CASE Refuse \/ ClearCompensation \/ SetCompensationChunk \/ CommitCompensation
             \/ SetConfiguration \/ ArmSnapshot
    <2>1. PICK cmd \in Commands, ok \in BOOLEAN : Receives(cmd) /\ Reply(Head(down), ok)
      BY <1>3 DEF Refuse, ClearCompensation, SetCompensationChunk, CommitCompensation,
         SetConfiguration, ArmSnapshot, Commands
    <2>2. /\ Passes(1) /\ 1 \in DOMAIN down /\ Head(down) = down[1]
          /\ Answers(Head(down), ok) /\ UNCHANGED <<host, strayed>>
      BY <2>1, Received
    <2>3. Answers(down[1], ok)
      BY <2>2
    <2> QED BY <2>2, <2>3, FramesPass
  <1>4. CASE SendMeta \/ SendData
    <2>1. PICK m \in Bursts : Sent(m)
      <3>1. snap.job \in 0..MaxJobs /\ snap.next \in 0..DataFrames
        BY DEF TypeOK
      <3>2. CASE SendMeta
        BY <3>1, <3>2, Counting DEF SendMeta, Bursts
      <3>3. CASE SendData
        BY <3>1, <3>3, Counting DEF SendData, Bursts
      <3> QED BY <1>4, <3>2, <3>3
    <2>2. UNCHANGED <<host, strayed, down, inbox>>
      BY <1>4 DEF SendMeta, SendData, SendUnchanged, hostVars, historyVars
    <2>3. NoAnswer
      BY <2>1, <2>2, SentType, AckOrBurst, NoAnswers
    <2> QED BY <2>2, <2>3, PassNone, FramesPass
  <1>5. CASE Restart
    <2>1. /\ UNCHANGED <<host, strayed, inbox>> /\ down' = << >> /\ tx' = << >>
      BY <1>5 DEF Restart, hostVars
    <2>2. NoAnswer
      BY <2>1, EmptySeq, NoAnswers
    <2> QED BY <2>1, <2>2, PassAll, FramesPass
  <1>6. CASE Lost
    <2>1. UNCHANGED <<host, strayed, inbox>>
      BY <1>6 DEF Lost, hostVars, historyVars
    <2>2. CASE down # << >> /\ down' = Tail(down) /\ UNCHANGED tx
      <3>1. NoAnswer
        BY <2>1, <2>2, NoAnswers
      <3> QED BY <2>1, <2>2, <3>1, PassOne, FramesPass
    <2>3. CASE tx # << >> /\ tx' = Tail(tx) /\ UNCHANGED down
      <3>1. tx \in Seq(Messages)
        BY DEF TypeOK, Messages
      <3>2. NoAnswer
        BY <2>1, <2>3, <3>1, HeadTail, NoAnswers
      <3> QED BY <2>1, <2>3, <3>2, PassNone, FramesPass
    <2> QED BY <1>6, <2>2, <2>3 DEF Lost
  <1>7. CASE Arrives
    <2>1. UNCHANGED <<host, strayed, down>> /\ NoAnswer
      BY <1>7, ArrivesAnswer DEF Arrives, historyVars
    <2> QED BY <2>1, PassNone, FramesPass
  <1>8. CASE OtherClient
    BY <1>8, OtherJoins
  <1>9. CASE \E work \in {"upload", "capture"} : Start(work)
    <2>1. /\ down' = down /\ UNCHANGED <<tx, inbox, strayed>>
          /\ host'.job = host.job + 1 /\ ~host'.waiting /\ host'.step = 1
      BY <1>9 DEF Start, historyVars
    <2> QED BY <2>1, NoAnswers, JobTurns
  <1>10. CASE SendCommand
    BY <1>10, CommandSent
  <1>11. ASSUME NEW o, End(o), down' = down, NoAnswer, strayed => strayed'
         PROVE  Exchange'
    <2>1. host'.doing = "nothing" /\ host'.job = host.job
      BY <1>11 DEF End, TypeOK
    <2> QED BY <1>11, <2>1, JobTurns
  <1>12. CASE UploadAck
    <2>1. /\ down' = down /\ NoAnswer /\ (strayed => strayed')
          /\ host.doing = "upload" /\ host.waiting /\ TakeAck
      BY <1>12, AckTaken DEF UploadAck, TakeAck
    <2>2. CASE \E o \in {"ok", "failed"} : End(o)
      BY <1>11, <2>1, <2>2
    <2>3. CASE host' = [host EXCEPT !.step = @ + 1, !.waiting = FALSE]
      <3>1. /\ host'.step = host.step + 1 /\ ~host'.waiting
            /\ host'.job = host.job /\ host'.doing = host.doing
        BY <2>3 DEF TypeOK
      <3> QED BY <2>1, <3>1, NoneLeft, JobGoesOn
    <2> QED BY <1>12, <2>2, <2>3 DEF UploadAck
  <1>13. CASE CaptureAck
    <2>1. /\ down' = down /\ NoAnswer /\ (strayed => strayed')
          /\ host.doing = "capture" /\ TakeAck
      BY <1>13, AckTaken DEF CaptureAck
    <2>2. CASE End("failed")
      BY <1>11, <2>1, <2>2
    <2>3. CASE host' = [host EXCEPT !.step = 2]
      <3>1. host'.waiting = host.waiting /\ host'.job = host.job /\ host'.doing = host.doing
        BY <2>3 DEF TypeOK
      <3> QED BY <2>1, <3>1, NoneLeft, JobGoesOn
    <2> QED BY <1>13, <2>2, <2>3 DEF CaptureAck
  <1>14. CASE TakeMeta
    <2>1. /\ down' = down /\ UNCHANGED <<tx, strayed>> /\ inbox'.acks = inbox.acks
          /\ host.doing = "capture" /\ host.step = 2
          /\ host'.waiting = host.waiting /\ host'.job = host.job /\ host'.doing = host.doing
      BY <1>14 DEF TakeMeta, ServerOnly, TypeOK
    <2> QED BY <2>1, NoAnswers, JobGoesOn
  <1>15. CASE TakeData \/ TimesOut
    <2>1. /\ down' = down /\ UNCHANGED <<tx, strayed>> /\ inbox'.acks = inbox.acks
      BY <1>15 DEF TakeData, TimesOut, ServerOnly, TypeOK
    <2>2. NoAnswer
      BY <2>1, NoAnswers
    <2>3. CASE \E o \in {"ok", "failed"} : End(o)
      BY <1>11, <2>1, <2>2, <2>3
    <2>4. CASE UNCHANGED host
      BY <2>1, <2>2, <2>4, PassNone, FramesPass
    <2> QED BY <1>15, <2>3, <2>4 DEF TakeData, TimesOut
  <1> QED
    BY <1>1, <1>2, <1>3, <1>4, <1>5, <1>6, <1>7, <1>8, <1>9, <1>10, <1>12, <1>13, <1>14, <1>15
    DEF Next, Device, Server

-----------------------------------------------------------------------------
(* What a step does to the table.                                           *)

Tidy == (valid => Whole(table)) /\ (record.valid => Whole(record.table))

(* The chunks, the commit and the server's place in the upload.             *)
Places ==
  /\ \A f \in Frames : InBus(f) /\ f.cmd \in {"chunk", "commit"} => Open(f.job)
  /\ host.doing = "upload" /\ host.step > 1 /\ (host.step < Chunks + 2 \/ ~host.waiting)
       => Open(host.job)
  /\ \A a \in Acks :
       Coming(a) /\ a.ok /\ host.doing = "upload" /\ host.waiting /\ a.of = Command =>
         IF host.step = Chunks + 2 THEN InUse(host.job) ELSE Open(host.job)

LEMMA TableParts == TableInv <=> (~strayed /\ ~undone => Tidy /\ Places)
  BY DEF TableInv, Tidy, Places

LEMMA TablePartsNext == TableInv' <=> (~strayed' /\ ~undone' => Tidy' /\ Places')
  BY DEF TableInv, Tidy, Places

(* The table moves, and the server does not: what was open or in use still  *)
(* is, and no command of an upload is answered.                             *)
LEMMA PlacesKept ==
  ASSUME TypeOK, StepInv, Places, UNCHANGED host,
         \A job \in 0..MaxJobs : (Open(job) => Open(job)') /\ (InUse(job) => InUse(job)'),
         NEW k \in Nat, Passes(k),
         \/ NoAnswer
         \/ \E f \in Frames, ok \in BOOLEAN :
              Answers(f, ok) /\ (ok => f.cmd \in {"snap", "conf"})
  PROVE  Places'
  <1>1. host.job \in 0..MaxJobs /\ host'.job = host.job /\ Command' = Command
    BY DEF TypeOK, Command
  <1>2. \A f : InBus(f)' => InBus(f)
    BY DEF InBus, Passes
  <1>3. \A f \in Frames : f.job \in 0..MaxJobs
    BY DEF Frames
  <1>4. \A f \in Frames : InBus(f)' /\ f.cmd \in {"chunk", "commit"} => Open(f.job)'
    BY <1>2, <1>3 DEF Places
  <1>5. host.doing = "upload" /\ host.step > 1 /\ (host.step < Chunks + 2 \/ ~host.waiting)
          => Open(host.job)'
    BY <1>1 DEF Places
  <1>6. ASSUME NEW a \in Acks, Coming(a)', a.ok, host.doing = "upload", host.waiting, a.of = Command
        PROVE  IF host.step = Chunks + 2 THEN InUse(host.job)' ELSE Open(host.job)'
    <2>1. Command.cmd \notin {"snap", "conf"}
      BY <1>6, CommandType DEF Own
    <2>2. Coming(a)
      BY <1>6, <2>1 DEF NoAnswer, Answers
    <2> QED BY <1>1, <1>6, <2>2 DEF Places
  <1> QED BY <1>1, <1>4, <1>5, <1>6 DEF Places

(* A command of an upload is received: it was alone.                        *)
LEMMA UploadReceived ==
  ASSUME TypeOK, TypeOK', StepInv, Exchange, ~strayed, UNCHANGED host,
         1 \in DOMAIN down, Passes(1), Own(down[1]),
         NEW ok \in BOOLEAN, Answers(down[1], ok),
         host.doing = "upload" /\ host.waiting /\ down[1] = Command =>
           IF host.step = Chunks + 2 THEN ok => InUse(host.job)' ELSE Open(host.job)'
  PROVE  Places'
  <1>1. host'.job = host.job /\ Command' = Command /\ host.step \in Nat
    BY DEF TypeOK, Command
  <1>2. \A f \in Frames : InBus(f)' => f.cmd \notin {"chunk", "commit"}
    <2> SUFFICES ASSUME NEW i \in DOMAIN down' PROVE down'[i].cmd \notin {"chunk", "commit"}
      BY DEF InBus
    <2>1. i \in Nat /\ 0 < i
      <3>1. down' \in Seq(Frames)
        BY DEF TypeOK
      <3> QED BY <3>1
    <2>2. i + 1 \in DOMAIN down /\ down'[i] = down[i + 1] /\ 1 < i + 1
      BY <2>1 DEF Passes
    <2> QED BY <2>2 DEF Exchange, AloneInv
  <1>3. ASSUME host.doing = "upload", host.step > 1, host.step < Chunks + 2 \/ ~host.waiting
        PROVE  Open(host.job)'
    <2>1. host.waiting /\ down[1] = Command
      BY <1>3 DEF Exchange, AloneInv
    <2>2. host.step # Chunks + 2
      BY <1>1, <1>3, <2>1, Sizes
    <2> QED BY <1>3, <2>1, <2>2
  <1>4. ASSUME NEW a \in Acks, Coming(a)', a.ok, host.doing = "upload", host.waiting, a.of = Command
        PROVE  IF host.step = Chunks + 2 THEN InUse(host.job)' ELSE Open(host.job)'
    <2>1. \E j \in DOMAIN down : down[j] = Command
      BY <1>4 DEF Exchange, OrderInv
    <2>2. ~Coming(a)
      BY <1>4, <2>1 DEF Exchange, OrderInv
    <2>3. down[1] = Command /\ ok
      BY <1>4, <2>2 DEF Answers
    <2> QED BY <1>4, <2>3
  <1> QED BY <1>1, <1>2, <1>3, <1>4 DEF Places

(* The server moves, and the table does not.                                *)
LEMMA PlacesTurn ==
  ASSUME Places, UNCHANGED <<tableVars, down>>,
         \/ host'.doing # "upload"
         \/ ~host'.waiting /\ host'.step = 1
         \/ ~host'.waiting /\ Open(host'.job)
  PROVE  Places'
  <1>1. \A job : Open(job)' <=> Open(job)
    BY DEF Open, tableVars
  <1>2. \A f : InBus(f)' <=> InBus(f)
    BY DEF InBus
  <1>3. \A f \in Frames : InBus(f)' /\ f.cmd \in {"chunk", "commit"} => Open(f.job)'
    BY <1>1, <1>2 DEF Places
  <1>4. host'.doing = "upload" /\ host'.step > 1 => Open(host'.job)
    OBVIOUS
  <1>5. host'.doing # "upload" \/ ~host'.waiting
    OBVIOUS
  <1>6. \A job : host'.job = job /\ host'.doing = "upload" /\ host'.step > 1 => Open(job)'
    BY <1>1, <1>4
  <1> QED BY <1>3, <1>5, <1>6 DEF Places

LEMMA CommandIsNew ==
  ASSUME TypeOK, StepInv, SentInv, host.doing # "nothing", ~host.waiting
  PROVE  \A a \in Acks : Coming(a) => a.of # Command
  <1> SUFFICES ASSUME NEW a \in Acks, Coming(a), a.of = Command PROVE FALSE
    OBVIOUS
  <1>1. Own(Command) /\ Command.job = host.job /\ (host.doing = "upload" => StepOf(Command) = host.step)
    BY CommandType
  <1>2. Sooner(Command)
    BY <1>1 DEF SentInv
  <1>3. host.doing = "upload" /\ StepOf(Command) < host.step
    BY <1>1, <1>2 DEF Sooner
  <1>4. host.step \in Nat
    BY DEF TypeOK
  <1> QED BY <1>1, <1>3, <1>4

(* Nothing that was lost is found again.                                    *)
LEMMA HistoryGrows ==
  ASSUME [Next]_vars
  PROVE  (strayed => strayed') /\ (undone => undone')
  <1>1. CASE UNCHANGED vars
    BY <1>1 DEF vars, historyVars
  <1>2. CASE Persist \/ PollDone \/ Tick \/ MetaSent \/ Resume \/ BurstDone \/ SendDone
             \/ SendMeta \/ SendData
    BY <1>2 DEF Persist, PollDone, Tick, MetaSent, Resume, BurstDone, SendDone, SendMeta, SendData,
       SendUnchanged, historyVars
  <1>3. CASE PersistFails
    BY <1>3 DEF PersistFails
  <1>4. CASE Restart
    BY <1>4 DEF Restart
  <1>5. CASE Refuse \/ ClearCompensation \/ SetCompensationChunk \/ CommitCompensation \/ ArmSnapshot
    <2>1. (\E cmd \in Commands : Receives(cmd)) /\ undone' = undone
      BY <1>5 DEF Refuse, ClearCompensation, SetCompensationChunk, CommitCompensation, ArmSnapshot,
         Commands
    <2>2. strayed' = strayed
      BY <2>1 DEF Receives
    <2> QED BY <2>1, <2>2
  <1>6. CASE SetConfiguration
    BY <1>6 DEF SetConfiguration, Receives
  <1>7. CASE Lost \/ Arrives \/ OtherClient
    BY <1>7 DEF Lost, Arrives, OtherClient, historyVars
  <1>8. CASE UploadAck \/ CaptureAck
    <2>1. TakeAck
      BY <1>8 DEF UploadAck, CaptureAck
    <2>2. strayed' = (strayed \/ Head(inbox.acks).of # Command) /\ undone' = undone
      BY <2>1 DEF TakeAck, ServerOnly
    <2> QED BY <2>2
  <1>9. CASE (\E work \in {"upload", "capture"} : Start(work))
             \/ SendCommand \/ TakeMeta \/ TakeData \/ TimesOut
    BY <1>9 DEF Start, SendCommand, TakeMeta, TakeData, TimesOut, ServerOnly, historyVars
  <1> QED BY <1>1, <1>2, <1>3, <1>4, <1>5, <1>6, <1>7, <1>8, <1>9 DEF Next, Device, Server

LEMMA TableNext ==
  ASSUME TypeOK, TypeOK', StepInv, Exchange, TableInv, [Next]_vars
  PROVE  TableInv'
  <1> SUFFICES ASSUME ~strayed', ~undone' PROVE Tidy' /\ Places'
    BY TablePartsNext
  <1>1. ~strayed /\ ~undone /\ Tidy /\ Places
    BY HistoryGrows, TableParts
  <1>2. /\ table \in Tables /\ valid \in BOOLEAN /\ dirty \in BOOLEAN /\ mask \subseteq 1..Chunks
        /\ record \in [present : BOOLEAN, valid : BOOLEAN, table : Tables]
        /\ host.job \in 0..MaxJobs
    BY DEF TypeOK
  (* The table and the record stay. *)
  <1>3. ASSUME UNCHANGED tableVars
        PROVE  /\ Tidy'
               /\ \A job \in 0..MaxJobs : (Open(job) => Open(job)') /\ (InUse(job) => InUse(job)')
    BY <1>1, <1>3 DEF Tidy, Whole, Open, InUse, tableVars
  <1>4. ASSUME UNCHANGED <<tableVars, host, down, tx, inbox>>
        PROVE  Tidy' /\ Places'
    <2>1. Passes(0) /\ NoAnswer
      BY <1>4, PassNone, NoAnswers
    <2> QED BY <1>1, <1>3, <1>4, <2>1, PlacesKept
  <1>5. CASE UNCHANGED vars
    BY <1>4, <1>5 DEF vars, deviceVars, hostVars
  <1>6. CASE PollDone \/ Tick \/ MetaSent \/ Resume \/ BurstDone \/ SendDone
    BY <1>4, <1>6 DEF PollDone, Tick, MetaSent, Resume, BurstDone, SendDone, SendUnchanged, hostVars
  <1>7. CASE Persist
    <2>1. UNCHANGED <<host, down, tx, inbox, table, valid, mask>>
      BY <1>7 DEF Persist, hostVars
    <2>2. CASE dirty
      <3>1. /\ record'.present /\ record'.valid = valid /\ record'.table = table /\ ~dirty'
        BY <1>7, <2>2 DEF Persist
      <3>2. Tidy'
        BY <1>1, <2>1, <3>1 DEF Tidy, Whole
      <3>3. \A job \in 0..MaxJobs : (Open(job) => Open(job)') /\ (InUse(job) => InUse(job)')
        BY <2>1, <3>1 DEF Open, InUse
      <3>4. Passes(0) /\ NoAnswer
        BY <2>1, PassNone, NoAnswers
      <3> QED BY <1>1, <2>1, <3>2, <3>3, <3>4, PlacesKept
    <2>3. CASE ~dirty
      BY <1>4, <1>7, <2>1, <2>3 DEF Persist, tableVars
    <2> QED BY <2>2, <2>3
  <1>8. CASE PersistFails
    BY <1>8 DEF PersistFails
  <1>9. ASSUME NEW cmd \in Commands, Receives(cmd), NEW ok \in BOOLEAN, Reply(Head(down), ok)
        PROVE  /\ Passes(1) /\ 1 \in DOMAIN down
               /\ Head(down) = down[1] /\ Head(down) \in Frames /\ Head(down).cmd = cmd
               /\ Answers(Head(down), ok) /\ UNCHANGED host
               /\ InBus(Head(down))
    BY <1>9, Received DEF InBus
  <1>10. CASE Refuse \/ ArmSnapshot
    <2>1. PICK cmd \in Commands, ok \in BOOLEAN :
            /\ Receives(cmd) /\ Reply(Head(down), ok) /\ UNCHANGED tableVars
            /\ ok => cmd = "snap"
      BY <1>10 DEF Refuse, ArmSnapshot, Commands
    <2> QED BY <1>1, <1>3, <1>9, <2>1, PlacesKept
  <1>11. CASE SetConfiguration
    <2>1. /\ Receives("conf") /\ Reply(Head(down), TRUE)
          /\ LoadPersistentConfig /\ ~dirty /\ UNCHANGED <<dirty, record>>
      BY <1>11 DEF SetConfiguration
    <2>2. Tidy'
      BY <1>1, <2>1 DEF LoadPersistentConfig, Tidy, Whole
    <2>3. \A job \in 0..MaxJobs : (Open(job) => Open(job)') /\ (InUse(job) => InUse(job)')
      BY <1>2, <2>1 DEF LoadPersistentConfig, Open, InUse
    <2> QED BY <1>1, <1>9, <2>1, <2>2, <2>3, PlacesKept DEF Commands
  <1>12. CASE ClearCompensation
    <2>1. /\ Receives("clear") /\ Reply(Head(down), TRUE)
          /\ ~valid' /\ mask' = {} /\ dirty' /\ record' = record
      BY <1>12 DEF ClearCompensation
    <2>2. Tidy' /\ Open(host.job)'
      <3>1. \A job : Open(job)'
        BY <2>1 DEF Open
      <3> QED BY <1>1, <2>1, <3>1 DEF Tidy, Whole
    <2>3. host.doing = "upload" /\ Head(down) = Command => host.step # Chunks + 2
      <3>1. Command.cmd = "clear" /\ host.doing = "upload" /\ host.step = Chunks + 2 => FALSE
        BY Sizes DEF Command, Frame
      <3> QED BY <1>9, <2>1, <3>1 DEF Commands
    <2> QED BY <1>1, <1>9, <2>1, <2>2, <2>3, UploadReceived DEF Commands, Own
  <1>13. CASE SetCompensationChunk
    <2>1. /\ Receives("chunk") /\ Reply(Head(down), TRUE)
          /\ table' = [table EXCEPT ![Head(down).chunk] = Head(down).job]
          /\ mask' = mask \cup {Head(down).chunk}
          /\ UNCHANGED <<valid, dirty, record>>
      BY <1>13 DEF SetCompensationChunk
    <2>2. Open(Head(down).job)
      BY <1>1, <1>9, <2>1 DEF Commands, Places
    <2>3. \A job : job = Head(down).job => Open(job)'
      <3>1. ~valid' /\ (dirty' \/ ~record'.valid)
        BY <2>1, <2>2 DEF Open
      <3>2. \A c \in mask' : table'[c] = Head(down).job
        <4>1. DOMAIN table = 1..Chunks
          BY <1>2 DEF Tables
        <4>2. Head(down).chunk \in 1..Chunks
          <5>1. Sooner(Head(down))
            BY <1>9, <2>1 DEF Exchange, SentInv, Own, Commands
          <5> QED BY <1>9, <2>1, <5>1 DEF Sooner, Commands
        <4> QED BY <1>2, <2>1, <2>2, <4>1, <4>2 DEF Open
      <3> QED BY <3>1, <3>2 DEF Open
    <2>4. Tidy'
      BY <1>1, <2>1, <2>2 DEF Tidy, Whole, Open
    <2>5. host.doing = "upload" /\ Head(down) = Command => host.step # Chunks + 2
      <3>1. Command.cmd = "chunk" /\ host.doing = "upload" /\ host.step = Chunks + 2 => FALSE
        BY Sizes DEF Command, Frame
      <3> QED BY <1>9, <2>1, <3>1 DEF Commands
    <2>6. host.doing = "upload" /\ Head(down) = Command => Open(host.job)'
      <3>1. host'.job = host.job
        BY <1>9, <2>1 DEF Commands
      <3>2. host.doing = "upload" => Command.job = host.job
        BY CommandType
      <3> QED BY <2>3, <3>1, <3>2
    <2> QED BY <1>1, <1>9, <2>1, <2>4, <2>5, <2>6, UploadReceived DEF Commands, Own
  <1>14. CASE CommitCompensation
    <2> DEFINE complete == mask = 1..Chunks
    <2>1. /\ Receives("commit") /\ Reply(Head(down), complete)
          /\ valid' = complete /\ dirty' = (dirty \/ complete)
          /\ UNCHANGED <<table, mask, record>>
      BY <1>14 DEF CommitCompensation
    <2>2. Open(Head(down).job)
      BY <1>1, <1>9, <2>1 DEF Commands, Places
    <2>3. complete => \A c \in 1..Chunks : table'[c] = Head(down).job
      BY <2>1, <2>2 DEF Open
    <2>4. Tidy'
      <3>1. 1 \in 1..Chunks
        BY Sizes
      <3> QED BY <1>1, <2>1, <2>3, <3>1 DEF Tidy, Whole
    <2>5. complete => \A job : job = Head(down).job => InUse(job)'
      BY <2>1, <2>3 DEF InUse
    <2>6. host.doing = "upload" /\ Head(down) = Command =>
            host.step = Chunks + 2 /\ (complete => InUse(host.job)')
      <3>1. host'.job = host.job
        BY <1>9, <2>1 DEF Commands
      <3>2. host.doing = "upload" => Command.job = host.job
        BY CommandType
      <3>3. host.doing = "upload" /\ Command.cmd = "commit" => host.step = Chunks + 2
        BY DEF Command, Frame
      <3> QED BY <1>9, <2>1, <2>5, <3>1, <3>2, <3>3 DEF Commands
    <2> HIDE DEF complete
    <2>7. complete \in BOOLEAN
      BY DEF complete
    <2> QED BY <1>1, <1>9, <2>1, <2>4, <2>6, <2>7, UploadReceived DEF Commands, Own
  <1>15. CASE SendMeta \/ SendData
    <2>1. PICK m \in Bursts : Sent(m)
      <3>1. snap.job \in 0..MaxJobs /\ snap.next \in 0..DataFrames
        BY DEF TypeOK
      <3>2. CASE SendMeta
        BY <3>1, <3>2, Counting DEF SendMeta, Bursts
      <3>3. CASE SendData
        BY <3>1, <3>3, Counting DEF SendData, Bursts
      <3> QED BY <1>15, <3>2, <3>3
    <2>2. UNCHANGED <<host, tableVars, down, inbox>>
      BY <1>15 DEF SendMeta, SendData, SendUnchanged, hostVars
    <2>3. NoAnswer
      BY <2>1, <2>2, SentType, AckOrBurst, NoAnswers
    <2> QED BY <1>1, <1>3, <2>2, <2>3, PassNone, PlacesKept
  <1>16. CASE Restart
    <2>1. /\ UNCHANGED <<host, inbox, record>> /\ down' = << >> /\ tx' = << >> /\ ~dirty /\ ~dirty'
          /\ table' = record.table /\ valid' = record.valid
          /\ mask' = IF record.valid THEN 1..Chunks ELSE {}
      BY <1>16 DEF Restart, hostVars
    <2>2. Tidy'
      BY <1>1, <2>1 DEF Tidy, Whole
    <2>3. \A job \in 0..MaxJobs : (Open(job) => Open(job)') /\ (InUse(job) => InUse(job)')
      BY <2>1 DEF Open, InUse
    <2>4. NoAnswer
      BY <2>1, EmptySeq, NoAnswers
    <2> QED BY <1>1, <2>1, <2>2, <2>3, <2>4, PassAll, PlacesKept
  <1>17. CASE Lost
    <2>1. UNCHANGED <<host, inbox, tableVars>>
      BY <1>17 DEF Lost, hostVars, deviceVars
    <2>2. CASE down # << >> /\ down' = Tail(down) /\ UNCHANGED tx
      BY <1>1, <1>3, <2>1, <2>2, NoAnswers, PassOne, PlacesKept
    <2>3. CASE tx # << >> /\ tx' = Tail(tx) /\ UNCHANGED down
      <3>1. tx \in Seq(Messages)
        BY DEF TypeOK, Messages
      <3>2. NoAnswer
        BY <2>1, <2>3, <3>1, HeadTail, NoAnswers
      <3> QED BY <1>1, <1>3, <2>1, <2>3, <3>2, PassNone, PlacesKept
    <2> QED BY <1>17, <2>2, <2>3 DEF Lost
  <1>18. CASE Arrives
    <2>1. UNCHANGED <<host, down, tableVars>> /\ NoAnswer
      BY <1>18, ArrivesAnswer DEF Arrives, deviceVars
    <2> QED BY <1>1, <1>3, <2>1, PassNone, PlacesKept
  <1>19. CASE OtherClient
    <2>1. /\ UNCHANGED <<host, inbox, tx, tableVars>> /\ Command' = Command
          /\ down' = Append(down, Frame("conf", 0, 0)) /\ down \in Seq(Frames)
      BY <1>19 DEF OtherClient, hostVars, deviceVars, Command, TypeOK
    <2>2. Frame("conf", 0, 0) \in Frames /\ Frame("conf", 0, 0).cmd = "conf"
      BY Sizes DEF Frame, Frames, Commands
    <2>3. \A f \in Frames : InBus(f)' => InBus(f) \/ f.cmd = "conf"
      BY <2>1, <2>2, AppendAt DEF InBus
    <2>4. \A a : Coming(a)' => Coming(a)
      BY <2>1 DEF Coming
    <2>5. \A f \in Frames : f.job \in 0..MaxJobs
      BY DEF Frames
    <2> QED BY <1>1, <1>2, <1>3, <2>1, <2>3, <2>4, <2>5 DEF Places
  <1>20. CASE SendCommand
    <2>1. /\ host.doing # "nothing" /\ ~host.waiting /\ host'.waiting
          /\ host'.job = host.job /\ host'.doing = host.doing /\ host'.step = host.step
          /\ UNCHANGED <<tx, tableVars>> /\ inbox'.acks = << >>
          /\ down' = Append(down, Command) /\ down \in Seq(Frames)
      BY <1>20 DEF SendCommand, deviceVars, EmptyInbox, TypeOK
    <2>2. Command' = Command
      BY <2>1 DEF Command
    <2>3. /\ Command \in Frames /\ Command.job = host.job
          /\ Command.cmd \in {"chunk", "commit"} => host.doing = "upload" /\ host.step > 1
      BY <2>1, CommandType
    <2>4. \A f \in Frames : InBus(f)' => InBus(f) \/ f = Command
      BY <2>1, <2>3, AppendAt DEF InBus
    <2>5. \A a \in Acks : Coming(a)' => a.of # Command
      <3>1. \A a : Coming(a)' => Coming(a)
        BY <2>1, EmptySeq DEF Coming
      <3> QED BY <2>1, <3>1, CommandIsNew DEF Exchange
    <2>6. \A f \in Frames : InBus(f)' /\ f.cmd \in {"chunk", "commit"} => Open(f.job)
      BY <1>1, <2>1, <2>3, <2>4 DEF Places
    <2>7. host.doing = "upload" /\ host.step > 1 => Open(host.job)
      BY <1>1, <2>1 DEF Places
    <2>8. \A f \in Frames : f.job \in 0..MaxJobs
      BY DEF Frames
    <2>9. /\ \A f \in Frames : InBus(f)' /\ f.cmd \in {"chunk", "commit"} => Open(f.job)'
          /\ host'.doing = "upload" /\ host'.step > 1 => Open(host.job)'
      BY <1>2, <1>3, <2>1, <2>6, <2>7, <2>8
    <2> QED BY <1>3, <2>1, <2>2, <2>5, <2>9 DEF Places
  <1>21. ASSUME ServerOnly
         PROVE  UNCHANGED <<tableVars, down>>
    BY <1>21 DEF ServerOnly, deviceVars
  <1>22. ASSUME NEW o, End(o)
         PROVE  host'.doing = "nothing"
    BY <1>22 DEF End, TypeOK
  <1>23. CASE \E work \in {"upload", "capture"} : Start(work)
    <2>1. UNCHANGED <<tableVars, down>> /\ ~host'.waiting /\ host'.step = 1
      BY <1>23 DEF Start, deviceVars
    <2> QED BY <1>1, <1>3, <2>1, PlacesTurn
  <1>24. CASE UploadAck
    <2>1. host.doing = "upload" /\ host.waiting /\ TakeAck /\ UNCHANGED <<tableVars, down>>
      BY <1>21, <1>24 DEF UploadAck, TakeAck
    <2>2. CASE \E o \in {"ok", "failed"} : End(o)
      BY <1>1, <1>3, <1>22, <2>1, <2>2, PlacesTurn
    <2>3. CASE /\ Head(inbox.acks).ok /\ host.step # Chunks + 2
               /\ host' = [host EXCEPT !.step = @ + 1, !.waiting = FALSE]
      <3>1. ~host'.waiting /\ host'.job = host.job
        BY <2>3 DEF TypeOK
      <3>2. Open(host.job)
        BY <1>1, <2>1, <2>3, AckTaken, NoneLeft DEF Places
      <3> QED BY <1>1, <1>3, <2>1, <3>1, <3>2, PlacesTurn
    <2> QED BY <1>24, <2>2, <2>3 DEF UploadAck
  <1>25. CASE CaptureAck \/ TakeMeta \/ TakeData
    <2>1. host.doing = "capture" /\ UNCHANGED <<tableVars, down>>
      BY <1>21, <1>25 DEF CaptureAck, TakeMeta, TakeData, TakeAck
    <2>2. (\E o \in {"ok", "failed"} : End(o)) \/ host'.doing = host.doing
      BY <1>25 DEF CaptureAck, TakeMeta, TakeData, TypeOK
    <2>3. host'.doing # "upload"
      BY <1>22, <2>1, <2>2
    <2> QED BY <1>1, <1>3, <2>1, <2>3, PlacesTurn
  <1>26. CASE TimesOut
    <2>1. UNCHANGED <<tableVars, down>> /\ host'.doing = "nothing"
      BY <1>21, <1>22, <1>26 DEF TimesOut
    <2> QED BY <1>1, <1>3, <2>1, PlacesTurn
  <1> QED
    BY <1>5, <1>6, <1>7, <1>8, <1>10, <1>11, <1>12, <1>13, <1>14, <1>15, <1>16, <1>17, <1>18, <1>19,
       <1>20, <1>23, <1>24, <1>25, <1>26
    DEF Next, Device, Server

-----------------------------------------------------------------------------
(* What a step does to a series.                                            *)

Series == OwnSeries /\ InOrder /\ SendInv /\ RowsInv

(* The requests for a snapshot, and the frames of a burst, that stay, the   *)
(* first k left aside.                                                      *)
SnapsPass(k) ==
  \A i \in DOMAIN down' :
    down'[i].cmd = "snap" => i + k \in DOMAIN down /\ down'[i] = down[i + k]
BurstsPass(k) ==
  \A i \in DOMAIN tx' : tx'[i] \notin Acks => i + k \in DOMAIN tx /\ tx'[i] = tx[i + k]

(* Nothing begins to be sent.                                               *)
SnapStays ==
  /\ CanSend' => CanSend /\ snap'.job = snap.job /\ snap'.next = snap.next
  /\ snap'.state \in {"capturing", "ready"} \/ pc' = "meta" => snap'.next = 0

LEMMA BurstAt ==
  ASSUME TypeOK
  PROVE  /\ \A i \in DOMAIN tx : /\ i \in Nat /\ 0 < i
                                 /\ tx[i] \notin Acks => tx[i] \in Bursts /\ tx[i].index \in Nat
         /\ \A i \in DOMAIN inbox.datas :
              /\ i \in Nat /\ 0 < i
              /\ inbox.datas[i] \in Bursts
              /\ inbox.datas[i].index \in 0..DataFrames /\ inbox.datas[i].index \in Nat
         /\ \A i \in DOMAIN down : i \in Nat /\ 0 < i
         /\ snap.next \in Nat /\ got \in Nat /\ tx \in Seq(Messages) /\ inbox.datas \in Seq(Bursts)
  <1>1. tx \in Seq(Messages) /\ inbox.datas \in Seq(Bursts) /\ down \in Seq(Frames)
    BY DEF TypeOK, Messages
  <1>2. \A b \in Bursts : b.index \in 0..DataFrames /\ b.index \in Nat
    BY Sizes DEF Bursts
  <1>3. snap.next \in Nat /\ got \in Nat
    BY Sizes DEF TypeOK
  <1>4. \A i \in DOMAIN tx : i \in Nat /\ 0 < i /\ (tx[i] \notin Acks => tx[i] \in Bursts)
    BY <1>1 DEF Messages
  <1>5. \A i \in DOMAIN inbox.datas : i \in Nat /\ 0 < i /\ inbox.datas[i] \in Bursts
    BY <1>1
  <1>6. \A i \in DOMAIN down : i \in Nat /\ 0 < i
    BY <1>1
  <1> QED BY <1>1, <1>2, <1>3, <1>4, <1>5, <1>6

LEMMA QuietKept ==
  ASSUME Quiet, NEW k, NEW l, SnapsPass(k), BurstsPass(l), CanSend' => CanSend
  PROVE  Quiet'
  BY DEF Quiet, NoBurst, SnapsPass, BurstsPass

LEMMA SeriesKept ==
  ASSUME TypeOK, TypeOK', Series, UNCHANGED <<rows, got>>, host'.job = host.job,
         inbox'.datas = inbox.datas,
         NEW k \in Nat, NEW l \in Nat, SnapsPass(k), BurstsPass(l), SnapStays
  PROVE  Series'
  <1>1. /\ \A i \in DOMAIN down' : i \in Nat /\ (down'[i].cmd = "snap" =>
                                        i + k \in DOMAIN down /\ down'[i] = down[i + k])
        /\ \A i \in DOMAIN tx' : i \in Nat /\ (tx'[i] \notin Acks =>
                                        i + l \in DOMAIN tx /\ tx'[i] = tx[i + l])
    <2>1. down' \in Seq(Frames) /\ tx' \in Seq(Messages)
      BY DEF TypeOK, Messages
    <2> QED BY <2>1 DEF SnapsPass, BurstsPass
  <1>2. OwnSeries'
    <2>1. /\ \A i \in DOMAIN down' : down'[i].cmd = "snap" => down'[i].job = host.job
          /\ \A i, j \in DOMAIN down' : down'[i].cmd = "snap" /\ down'[j].cmd = "snap" => i = j
      <3>1. \A i, j \in DOMAIN down' : down'[i].cmd = "snap" /\ down'[j].cmd = "snap" => i + k = j + k
        BY <1>1 DEF Series, OwnSeries
      <3>2. \A i, j \in DOMAIN down' : i + k = j + k => i = j
        BY <1>1
      <3> QED BY <1>1, <3>1, <3>2 DEF Series, OwnSeries
    <2>2. \A i \in DOMAIN tx' : tx'[i] \notin Acks => tx'[i].job = host.job
      BY <1>1 DEF Series, OwnSeries
    <2>3. CanSend' => snap'.job = host.job
      BY DEF SnapStays, Series, OwnSeries
    <2>4. (\E i \in DOMAIN down' : down'[i].cmd = "snap") =>
             ~CanSend' /\ NoBurst' /\ inbox.datas = << >> /\ got = 0
      <3>1. (\E i \in DOMAIN down' : down'[i].cmd = "snap") => \E i \in DOMAIN down : down[i].cmd = "snap"
        BY <1>1
      <3>2. NoBurst => NoBurst'
        BY <1>1 DEF NoBurst
      <3> QED BY <3>1, <3>2 DEF SnapStays, Series, OwnSeries
    <2> QED BY <2>1, <2>2, <2>3, <2>4 DEF Series, OwnSeries
  <1>3. InOrder'
    <2>1. ASSUME NEW i \in DOMAIN tx', tx'[i] \notin Acks, tx'[i].index # 0
          PROVE  /\ got < tx'[i].index
                 /\ \A j \in DOMAIN inbox.datas : inbox.datas[j].index < tx'[i].index
                 /\ \A j \in DOMAIN tx' : j < i /\ tx'[j] \notin Acks => tx'[j].index < tx'[i].index
      <3>1. /\ got < tx'[i].index
            /\ \A j \in DOMAIN inbox.datas : inbox.datas[j].index < tx'[i].index
        BY <1>1, <2>1 DEF Series, InOrder
      <3>2. ASSUME NEW j \in DOMAIN tx', j < i, tx'[j] \notin Acks
            PROVE  tx'[j].index < tx'[i].index
        <4>1. /\ j + l \in DOMAIN tx /\ i + l \in DOMAIN tx /\ j + l < i + l
              /\ tx'[j] = tx[j + l] /\ tx'[i] = tx[i + l]
          BY <1>1, <2>1, <3>2
        <4> QED BY <2>1, <3>2, <4>1 DEF Series, InOrder
      <3> QED BY <3>1, <3>2
    <2> QED BY <2>1 DEF Series, InOrder
  <1>4. SendInv'
    BY <1>1 DEF SnapStays, Series, SendInv
  <1>5. RowsInv'
    <2>1. Missed => Missed'
      BY <1>1 DEF SnapStays, Missed
    <2> QED BY <2>1 DEF Series, RowsInv
  <1> QED BY <1>2, <1>3, <1>4, <1>5 DEF Series

(* The request is answered: the snapshot is armed.                          *)
LEMMA SeriesArmed ==
  ASSUME TypeOK, TypeOK', Series, UNCHANGED <<rows, got>>, host'.job = host.job,
         inbox'.datas = inbox.datas,
         1 \in DOMAIN down, down[1].cmd = "snap", Passes(1), BurstsPass(0),
         pc' \notin {"meta", "burst"},
         snap' = [state |-> "capturing", job |-> down[1].job, next |-> 0]
  PROVE  Series'
  <1>1. /\ ~CanSend /\ NoBurst /\ inbox.datas = << >> /\ got = 0 /\ down[1].job = host.job
    BY DEF Series, OwnSeries
  <1>2. \A i \in DOMAIN down' : down'[i].cmd # "snap"
    <2> SUFFICES ASSUME NEW i \in DOMAIN down', down'[i].cmd = "snap" PROVE FALSE
      OBVIOUS
    <2>1. down' \in Seq(Frames)
      BY DEF TypeOK
    <2>2. i \in Nat /\ 0 < i
      BY <2>1
    <2>3. i + 1 \in DOMAIN down /\ down[i + 1].cmd = "snap" /\ i + 1 # 1
      BY <2>2 DEF Passes
    <2> QED BY <2>3 DEF Series, OwnSeries
  <1>3. NoBurst'
    BY <1>1 DEF NoBurst, BurstsPass
  <1>4. snap'.job = host.job /\ snap'.next = 0
    BY <1>1
  <1>5. inbox'.datas = << >> /\ got' = 0
    BY <1>1
  <1>6. OwnSeries'
    BY <1>2, <1>3, <1>4, <1>5, EmptySeq DEF OwnSeries, NoBurst
  <1>7. InOrder'
    BY <1>3, <1>5, EmptySeq DEF InOrder, NoBurst
  <1>8. SendInv'
    BY <1>3, <1>4, <1>5, EmptySeq DEF SendInv, NoBurst
  <1>9. RowsInv'
    BY <1>5 DEF RowsInv
  <1> QED BY <1>6, <1>7, <1>8, <1>9 DEF Series

(* A frame of the burst is sent: the meta frame, or the next of the data.   *)
LEMMA SeriesGrows ==
  ASSUME TypeOK, TypeOK', BurstInv, Series, UNCHANGED <<rows, got, inbox, down>>, host'.job = host.job,
         CanSend, NEW m \in Bursts, Sent(m), m.job = snap.job, snap'.job = snap.job,
         CanSend', snap'.state = snap.state,
         \/ m.index = 0 /\ snap'.next = snap.next /\ (pc' = "meta" => snap.next = 0)
         \/ m.index = snap.next + 1 /\ snap'.next = snap.next + 1 /\ pc = "burst" /\ pc' = "burst"
  PROVE  Series'
  <1>1. m \notin Acks /\ m.index \in Nat /\ snap'.next \in Nat /\ snap.next <= snap'.next
        /\ m.index <= snap'.next
    <2>1. m.index \in Nat /\ snap.next \in Nat /\ snap'.next \in Nat
      BY BurstAt, Sizes DEF Bursts, TypeOK
    <2> QED BY <2>1, AckOrBurst
  <1>2. tx \in Seq(Messages) /\ tx' = Append(tx, m) /\ m \in Messages
    BY BurstAt DEF Sent, Messages
  <1>3. \A i \in DOMAIN tx' : \/ i \in DOMAIN tx /\ tx'[i] = tx[i] /\ i < Len(tx) + 1
                              \/ i = Len(tx) + 1 /\ tx'[i] = m
    BY <1>2, AppendAt
  <1>4. m.job = host.job /\ snap'.job = host.job
    BY DEF Series, OwnSeries
  <1>5. \A i \in DOMAIN down : down[i].cmd # "snap"
    BY DEF Series, OwnSeries
  <1>6. OwnSeries'
    BY <1>3, <1>4, <1>5 DEF Series, OwnSeries
  <1>7. /\ got <= snap.next
        /\ \A i \in DOMAIN inbox.datas : inbox.datas[i].index <= snap.next
        /\ \A i \in DOMAIN tx : tx[i] \notin Acks => tx[i].index <= snap.next
    BY DEF Series, SendInv
  <1>8. InOrder'
    <2>1. ASSUME NEW i \in DOMAIN tx', tx'[i] \notin Acks, tx'[i].index # 0
          PROVE  /\ got < tx'[i].index
                 /\ \A j \in DOMAIN inbox.datas : inbox.datas[j].index < tx'[i].index
                 /\ \A j \in DOMAIN tx' : j < i /\ tx'[j] \notin Acks => tx'[j].index < tx'[i].index
      <3>1. CASE i \in DOMAIN tx /\ tx'[i] = tx[i] /\ i < Len(tx) + 1
        <4>1. \A j \in DOMAIN tx' : j < i => j \in DOMAIN tx /\ tx'[j] = tx[j]
          BY <1>2, <1>3, <3>1
        <4> QED BY <2>1, <3>1, <4>1 DEF Series, InOrder
      <3>2. CASE i = Len(tx) + 1 /\ tx'[i] = m
        <4>1. m.index = snap.next + 1
          BY <2>1, <3>2
        <4>2. \A j \in DOMAIN tx' : j < i => j \in DOMAIN tx /\ tx'[j] = tx[j]
          BY <1>2, <1>3, <3>2
        <4>3. \A j \in DOMAIN tx : tx[j] \notin Acks => tx[j].index < m.index
          BY <1>7, <4>1, BurstAt
        <4>4. /\ got < m.index
              /\ \A j \in DOMAIN inbox.datas : inbox.datas[j].index < m.index
          BY <1>7, <4>1, BurstAt
        <4> QED BY <3>2, <4>2, <4>3, <4>4
      <3> QED BY <1>3, <3>1, <3>2
    <2> QED BY <2>1 DEF Series, InOrder
  <1>9. SendInv'
    <2>1. snap'.state \in {"capturing", "ready"} \/ pc' = "meta" => snap'.next = 0
      BY DEF BurstInv, Series, SendInv
    <2>2. /\ got <= snap'.next
          /\ \A i \in DOMAIN inbox.datas : inbox.datas[i].index <= snap'.next
          /\ \A i \in DOMAIN tx : tx[i] \notin Acks => tx[i].index <= snap'.next
      <3>1. \A n \in Nat : n <= snap.next => n <= snap'.next
        BY <1>1, BurstAt
      <3> QED BY <1>7, <3>1, BurstAt
    <2>3. \A i \in DOMAIN tx' : tx'[i] \notin Acks => tx'[i].index <= snap'.next
      BY <1>1, <1>3, <2>2
    <2> QED BY <2>1, <2>2, <2>3 DEF SendInv
  <1>10. RowsInv'
    <2>1. ASSUME Missed PROVE Missed'
      <3>1. got < snap.next /\ got < snap'.next
        <4>1. got < snap.next
          BY <2>1 DEF Missed
        <4> QED BY <1>1, <4>1, BurstAt
      <3>2. m.index # 0 => got + 1 < m.index
        BY <3>1, BurstAt
      <3> QED BY <1>3, <2>1, <3>1, <3>2 DEF Missed
    <2> QED BY <2>1 DEF Series, RowsInv
  <1> QED BY <1>6, <1>8, <1>9, <1>10 DEF Series

(* A frame moves from the FIFO to the queues.                               *)
LEMMA SeriesArrives ==
  ASSUME TypeOK, TypeOK', Series, Arrives
  PROVE  Series'
  <1>1. /\ UNCHANGED <<rows, got, host, down, snap, pc>> /\ tx # << >> /\ tx' = Tail(tx)
    BY DEF Arrives, deviceVars
  <1>2. /\ Head(tx) = tx[1] /\ 1 \in DOMAIN tx
        /\ \A i \in DOMAIN tx' : /\ i \in Nat /\ 0 < i
                                 /\ i + 1 \in DOMAIN tx /\ tx'[i] = tx[i + 1] /\ 1 < i + 1
    <2>1. tx \in Seq(Messages) /\ tx' \in Seq(Messages)
      BY DEF TypeOK, Messages
    <2>2. /\ Head(tx) = tx[1] /\ 1 \in DOMAIN tx
          /\ \A i \in DOMAIN tx' : i + 1 \in DOMAIN tx /\ tx'[i] = tx[i + 1]
      BY <1>1, <2>1, HeadTail
    <2> QED BY <2>1, <2>2
  <1>3. SnapsPass(0) /\ BurstsPass(1)
    BY <1>1, <1>2, BurstAt DEF SnapsPass, BurstsPass
  <1>4. SnapStays
    BY <1>1 DEF SnapStays, CanSend, Series, SendInv
  <1>5. CASE Head(tx) \in Acks \/ Head(tx).index = 0
    <2>1. inbox'.datas = inbox.datas
      <3>1. inbox \in InboxType
        BY DEF TypeOK, InboxType
      <3> QED BY <1>5, <3>1 DEF Arrives, InboxType
    <2> QED BY <1>1, <1>3, <1>4, <2>1, SeriesKept
  <1>6. CASE Head(tx) \notin Acks /\ Head(tx).index # 0
    <2> DEFINE b == tx[1]
    <2>1. b \in Bursts /\ b.index \in Nat /\ b \notin Acks /\ b.index # 0
      BY <1>2, <1>6, BurstAt
    <2>2. inbox'.datas = Append(inbox.datas, b)
      <3>1. inbox \in InboxType
        BY DEF TypeOK, InboxType
      <3> QED BY <1>2, <1>6, <3>1 DEF Arrives, InboxType
    <2>3. /\ b.job = host.job /\ got < b.index
          /\ \A j \in DOMAIN inbox.datas : inbox.datas[j].index < b.index
          /\ \A i \in DOMAIN tx' : tx'[i] \notin Acks /\ tx'[i].index # 0 => b.index < tx'[i].index
          /\ \A i \in DOMAIN down : down[i].cmd # "snap"
          /\ CanSend => b.index <= snap.next
          /\ Missed => got + 1 < b.index
      <3>1. b.job = host.job /\ \A i \in DOMAIN down : down[i].cmd # "snap"
        BY <1>2, <2>1 DEF Series, OwnSeries, NoBurst
      <3>2. /\ got < b.index
            /\ \A j \in DOMAIN inbox.datas : inbox.datas[j].index < b.index
            /\ \A i \in DOMAIN tx' : tx'[i] \notin Acks /\ tx'[i].index # 0 => b.index < tx'[i].index
        BY <1>2, <2>1 DEF Series, InOrder
      <3>3. CanSend => b.index <= snap.next
        BY <1>2, <2>1 DEF Series, SendInv
      <3>4. Missed => got + 1 < b.index
        BY <1>2, <2>1 DEF Missed
      <3> QED BY <3>1, <3>2, <3>3, <3>4
    <2> HIDE DEF b
    <2>4. \A i \in DOMAIN inbox'.datas :
            \/ i \in DOMAIN inbox.datas /\ inbox'.datas[i] = inbox.datas[i] /\ i < Len(inbox.datas) + 1
            \/ i = Len(inbox.datas) + 1 /\ inbox'.datas[i] = b
      BY <2>1, <2>2, BurstAt, AppendAt
    <2>5. CanSend' <=> CanSend
      BY <1>1 DEF CanSend
    <2>6. OwnSeries'
      <3>1. \A i \in DOMAIN tx' : tx'[i] \notin Acks => tx'[i].job = host.job
        BY <1>2 DEF Series, OwnSeries
      <3>2. \A i \in DOMAIN inbox'.datas : inbox'.datas[i].job = host.job
        BY <2>3, <2>4 DEF Series, OwnSeries
      <3> QED BY <1>1, <2>3, <2>5, <3>1, <3>2 DEF Series, OwnSeries
    <2>7. InOrder'
      <3>1. \A i \in DOMAIN inbox'.datas : got < inbox'.datas[i].index
        BY <2>3, <2>4 DEF Series, InOrder
      <3>2. ASSUME NEW i \in DOMAIN tx', tx'[i] \notin Acks, tx'[i].index # 0
            PROVE  /\ got < tx'[i].index
                   /\ \A j \in DOMAIN inbox'.datas : inbox'.datas[j].index < tx'[i].index
                   /\ \A j \in DOMAIN tx' : j < i /\ tx'[j] \notin Acks => tx'[j].index < tx'[i].index
        <4>1. i + 1 \in DOMAIN tx /\ tx'[i] = tx[i + 1]
          BY <1>2
        <4>2. /\ got < tx'[i].index
              /\ \A j \in DOMAIN inbox.datas : inbox.datas[j].index < tx'[i].index
          BY <3>2, <4>1 DEF Series, InOrder
        <4>3. \A j \in DOMAIN inbox'.datas : inbox'.datas[j].index < tx'[i].index
          BY <2>3, <2>4, <3>2, <4>2
        <4>4. ASSUME NEW j \in DOMAIN tx', j < i, tx'[j] \notin Acks
              PROVE  tx'[j].index < tx'[i].index
          <5>1. j + 1 \in DOMAIN tx /\ tx'[j] = tx[j + 1] /\ j + 1 < i + 1
            BY <1>2, <4>4
          <5> QED BY <3>2, <4>1, <4>4, <5>1 DEF Series, InOrder
        <4> QED BY <4>2, <4>3, <4>4
      <3>3. \A i, j \in DOMAIN inbox'.datas : i < j => inbox'.datas[i].index < inbox'.datas[j].index
        <4> SUFFICES ASSUME NEW i \in DOMAIN inbox'.datas, NEW j \in DOMAIN inbox'.datas, i < j
                     PROVE  inbox'.datas[i].index < inbox'.datas[j].index
          OBVIOUS
        <4>1. i \in DOMAIN inbox.datas /\ inbox'.datas[i] = inbox.datas[i]
          <5>1. Len(inbox.datas) \in Nat
            BY BurstAt
          <5>2. j <= Len(inbox.datas) + 1 /\ j \in Nat /\ i \in Nat
            BY <2>4, <5>1, BurstAt
          <5> QED BY <2>4, <5>1, <5>2
        <4>2. CASE j \in DOMAIN inbox.datas /\ inbox'.datas[j] = inbox.datas[j]
          BY <4>1, <4>2 DEF Series, InOrder
        <4>3. CASE inbox'.datas[j] = b
          BY <2>3, <4>1, <4>3
        <4> QED BY <2>4, <4>2, <4>3
      <3> QED BY <1>1, <3>1, <3>2, <3>3 DEF InOrder
    <2>8. SendInv'
      <3>1. snap.state \in {"capturing", "ready"} \/ pc = "meta" => snap.next = 0
        BY DEF Series, SendInv
      <3>2. CanSend => /\ got <= snap.next
                       /\ \A i \in DOMAIN inbox'.datas : inbox'.datas[i].index <= snap.next
                       /\ \A i \in DOMAIN tx' : tx'[i] \notin Acks => tx'[i].index <= snap.next
        BY <1>2, <2>3, <2>4 DEF Series, SendInv
      <3> QED BY <1>1, <2>5, <3>1, <3>2 DEF SendInv
    <2>9. RowsInv'
      <3>1. ASSUME Missed PROVE Missed'
        <4>1. \A i \in DOMAIN inbox'.datas : got + 1 < inbox'.datas[i].index
          BY <2>3, <2>4, <3>1 DEF Missed
        <4>2. \A i \in DOMAIN tx' : tx'[i] \notin Acks /\ tx'[i].index # 0 => got + 1 < tx'[i].index
          BY <1>2, <3>1 DEF Missed
        <4>3. CanSend => got < snap.next
          BY <3>1 DEF Missed
        <4> QED BY <1>1, <2>5, <4>1, <4>2, <4>3 DEF Missed
      <3> QED BY <1>1, <3>1 DEF Series, RowsInv
    <2> QED BY <2>6, <2>7, <2>8, <2>9 DEF Series
  <1> QED BY <1>5, <1>6

(* A sample is taken: with those before it, or after a gap.                 *)
LEMMA RowTaken ==
  ASSUME TypeOK, Series, TakeData
  PROVE  /\ Head(inbox.datas) = inbox.datas[1] /\ 1 \in DOMAIN inbox.datas
         /\ inbox.datas[1].index \in 1..DataFrames /\ got < inbox.datas[1].index
         /\ \A i \in DOMAIN inbox'.datas :
              /\ i \in Nat /\ i + 1 \in DOMAIN inbox.datas /\ inbox'.datas[i] = inbox.datas[i + 1]
              /\ inbox.datas[1].index < inbox'.datas[i].index
         /\ got' = got + 1
         /\ \/ got + 1 < inbox.datas[1].index
            \/ \A i \in 1..got + 1 : rows'[i] = host.job
  <1>1. inbox.datas # << >> /\ inbox'.datas = Tail(inbox.datas) /\ inbox.datas \in Seq(Bursts)
    BY DEF TakeData, TypeOK
  <1>2. /\ Head(inbox.datas) = inbox.datas[1] /\ 1 \in DOMAIN inbox.datas
        /\ \A i \in DOMAIN inbox'.datas :
             i \in Nat /\ 0 < i /\ i + 1 \in DOMAIN inbox.datas /\ inbox'.datas[i] = inbox.datas[i + 1]
    <2>1. Tail(inbox.datas) \in Seq(Bursts)
      BY <1>1, HeadTail
    <2> QED BY <1>1, <2>1, HeadTail
  <1> DEFINE d == inbox.datas[1]
  <1>3. d.index \in 0..DataFrames /\ d.job = host.job /\ got < d.index /\ got \in Nat
    BY <1>2, BurstAt DEF Series, OwnSeries, InOrder
  <1>4. \A i \in DOMAIN inbox'.datas : d.index < inbox'.datas[i].index
    <2> SUFFICES ASSUME NEW i \in DOMAIN inbox'.datas PROVE d.index < inbox'.datas[i].index
      OBVIOUS
    <2>1. 1 < i + 1 /\ i + 1 \in DOMAIN inbox.datas /\ inbox'.datas[i] = inbox.datas[i + 1]
      BY <1>2
    <2> QED BY <1>2, <2>1 DEF Series, InOrder
  <1>5. d.index \in 1..DataFrames
    BY <1>3, Sizes
  <1>6. rows' = [rows EXCEPT ![d.index] = d.job] /\ got' = got + 1
    BY <1>2 DEF TakeData
  <1>7. CASE Missed
    BY <1>2, <1>4, <1>5, <1>6, <1>7, <1>3 DEF Missed
  <1>8. CASE \A i \in 1..got : rows[i] = host.job
    <2>1. CASE got + 1 < d.index
      BY <1>2, <1>3, <1>4, <1>5, <1>6, <2>1
    <2>2. CASE d.index = got + 1
      <3>1. rows \in [1..DataFrames -> 0..MaxJobs]
        BY DEF TypeOK
      <3>2. \A i \in 1..got + 1 : i = d.index \/ i \in 1..got
        BY <1>3, <2>2
      <3>3. \A i \in 1..got + 1 : i \in 1..DataFrames
        BY <1>3, <1>5, <2>2, Sizes
      <3>4. \A i \in 1..got + 1 : rows'[i] = host.job
        BY <1>3, <1>5, <1>6, <1>8, <3>1, <3>2, <3>3
      <3> QED BY <1>2, <1>3, <1>4, <1>5, <1>6, <3>4
    <2>3. got + 1 < d.index \/ d.index = got + 1
      BY <1>3
    <2> QED BY <2>1, <2>2, <2>3
  <1> QED BY <1>7, <1>8 DEF Series, RowsInv

LEMMA SeriesTaken ==
  ASSUME TypeOK, TypeOK', Series, TakeData, UNCHANGED host
  PROVE  Series'
  <1> DEFINE d == inbox.datas[1]
  <1>1. /\ d.index \in Nat /\ got < d.index /\ 1 \in DOMAIN inbox.datas
        /\ \A i \in DOMAIN inbox'.datas :
             /\ i \in Nat /\ i + 1 \in DOMAIN inbox.datas /\ inbox'.datas[i] = inbox.datas[i + 1]
             /\ d.index < inbox'.datas[i].index
        /\ got' = got + 1
        /\ (got + 1 < d.index \/ \A i \in 1..got + 1 : rows'[i] = host.job)
    BY RowTaken, Sizes
  <1>2. UNCHANGED <<down, tx, snap, pc>>
    BY DEF TakeData, ServerOnly, deviceVars
  <1>3. (CanSend' <=> CanSend) /\ (NoBurst' <=> NoBurst)
    BY <1>2 DEF CanSend, NoBurst
  <1>4. /\ \A i \in DOMAIN inbox'.datas : inbox'.datas[i] \in Bursts /\ inbox'.datas[i].index \in Nat
        /\ \A i \in DOMAIN tx : tx[i] \notin Acks => tx[i].index \in Nat
        /\ got \in Nat /\ got' \in Nat /\ snap.next \in Nat
    <2>1. \A i \in DOMAIN inbox'.datas : inbox'.datas[i] \in Bursts /\ inbox'.datas[i].index \in Nat
      BY <1>1, BurstAt
    <2> QED BY <1>1, <2>1, BurstAt
  <1>5. /\ \A i \in DOMAIN tx : tx[i] \notin Acks /\ tx[i].index # 0 => d.index < tx[i].index
        /\ CanSend => d.index <= snap.next
        /\ \A i \in DOMAIN down : down[i].cmd # "snap"
    <2>1. \A i \in DOMAIN tx : tx[i] \notin Acks /\ tx[i].index # 0 => d.index < tx[i].index
      BY <1>1 DEF Series, InOrder
    <2>2. CanSend => d.index <= snap.next
      BY <1>1 DEF Series, SendInv
    <2>3. \A i \in DOMAIN down : down[i].cmd # "snap"
      BY <1>1, EmptySeq DEF Series, OwnSeries
    <2> QED BY <2>1, <2>2, <2>3
  <1> HIDE DEF d
  <1>6. OwnSeries'
    <2>1. \A i \in DOMAIN inbox'.datas : inbox'.datas[i].job = host.job
      BY <1>1 DEF Series, OwnSeries
    <2> QED BY <1>2, <1>3, <1>5, <2>1 DEF Series, OwnSeries
  <1>7. InOrder'
    <2>1. \A i \in DOMAIN inbox'.datas : got' < inbox'.datas[i].index
      BY <1>1, <1>4
    <2>2. ASSUME NEW i \in DOMAIN tx, tx[i] \notin Acks, tx[i].index # 0
          PROVE  /\ got' < tx[i].index
                 /\ \A j \in DOMAIN inbox'.datas : inbox'.datas[j].index < tx[i].index
                 /\ \A j \in DOMAIN tx : j < i /\ tx[j] \notin Acks => tx[j].index < tx[i].index
      <3>1. got' < tx[i].index
        BY <1>1, <1>4, <1>5, <2>2
      <3>2. \A j \in DOMAIN inbox'.datas : inbox'.datas[j].index < tx[i].index
        BY <1>1, <2>2 DEF Series, InOrder
      <3> QED BY <2>2, <3>1, <3>2 DEF Series, InOrder
    <2>3. \A i, j \in DOMAIN inbox'.datas : i < j => inbox'.datas[i].index < inbox'.datas[j].index
      <3> SUFFICES ASSUME NEW i \in DOMAIN inbox'.datas, NEW j \in DOMAIN inbox'.datas, i < j
                   PROVE  inbox'.datas[i].index < inbox'.datas[j].index
        OBVIOUS
      <3>1. i + 1 < j + 1
        BY <1>1
      <3> QED BY <1>1, <3>1 DEF Series, InOrder
    <2> QED BY <1>2, <2>1, <2>2, <2>3 DEF InOrder
  <1>8. SendInv'
    <2>1. snap.state \in {"capturing", "ready"} \/ pc = "meta" => snap.next = 0
      BY DEF Series, SendInv
    <2>2. CanSend => /\ got' <= snap.next
                     /\ \A i \in DOMAIN inbox'.datas : inbox'.datas[i].index <= snap.next
                     /\ \A i \in DOMAIN tx : tx[i] \notin Acks => tx[i].index <= snap.next
      <3>1. CanSend => got' <= snap.next
        BY <1>1, <1>4, <1>5
      <3> QED BY <1>1, <3>1 DEF Series, SendInv
    <2> QED BY <1>2, <1>3, <2>1, <2>2 DEF SendInv
  <1>9. RowsInv'
    <2>1. CASE got + 1 < d.index
      <3>1. \A n \in Nat : d.index < n => got' + 1 < n
        BY <1>1, <1>4, <2>1
      <3>2. CanSend => got' < snap.next
        BY <1>1, <1>4, <1>5, <2>1
      <3>3. Missed'
        BY <1>1, <1>2, <1>3, <1>4, <1>5, <3>1, <3>2 DEF Missed
      <3> QED BY <3>3 DEF RowsInv
    <2>2. CASE \A i \in 1..got + 1 : rows'[i] = host.job
      BY <1>1, <2>2 DEF RowsInv
    <2> QED BY <1>1, <2>1, <2>2
  <1> QED BY <1>6, <1>7, <1>8, <1>9 DEF Series

(* The request is sent: nothing is on its way.                              *)
LEMMA SeriesBegins ==
  ASSUME TypeOK, TypeOK', StepInv, Quiet, host.doing = "capture", SendCommand
  PROVE  Series'
  <1>1. /\ UNCHANGED <<pc, snap, tx, rows, got>> /\ host'.job = host.job /\ inbox'.datas = << >>
        /\ down' = Append(down, Command) /\ down \in Seq(Frames)
    BY DEF SendCommand, deviceVars, EmptyInbox, TypeOK
  <1>2. got = 0
    BY DEF SendCommand, StepInv
  <1>3. Command \in Frames /\ Command.job = host.job
    BY CommandType
  <1>4. /\ \A i \in DOMAIN down' :
             \/ i \in DOMAIN down /\ down'[i] = down[i]
             \/ i = Len(down) + 1 /\ down'[i] = Command
    BY <1>1, <1>3, AppendAt
  <1>5. \A i \in DOMAIN down' : down'[i].cmd = "snap" => i = Len(down) + 1 /\ down'[i].job = host.job
    BY <1>3, <1>4 DEF Quiet
  <1>6. ~CanSend' /\ NoBurst'
    BY <1>1 DEF Quiet, CanSend, NoBurst
  <1>7. OwnSeries'
    BY <1>1, <1>2, <1>5, <1>6, EmptySeq DEF OwnSeries, NoBurst
  <1>8. InOrder'
    BY <1>1, <1>6, EmptySeq DEF InOrder, NoBurst
  <1>9. SendInv'
    BY <1>6 DEF SendInv, CanSend
  <1>10. RowsInv'
    BY <1>1, <1>2 DEF RowsInv
  <1> QED BY <1>7, <1>8, <1>9, <1>10 DEF Series

(* A job ends with nothing of it on its way.                                *)
LEMMA SeriesEnds ==
  ASSUME TypeOK, OwnSeries, ~UnderWay, UNCHANGED <<pc, snap, tx, down>>
  PROVE  Quiet'
  <1>1. \A i \in DOMAIN down : down[i].cmd # "snap"
    BY DEF OwnSeries, UnderWay
  <1>2. NoBurst
    BY DEF OwnSeries, UnderWay, NoBurst
  <1>3. ~CanSend
    BY DEF OwnSeries, UnderWay, CanSend
  <1> QED BY <1>1, <1>2, <1>3 DEF Quiet, NoBurst, CanSend

NextZero == snap.state \in {"capturing", "ready"} \/ pc = "meta" => snap.next = 0

LEMMA PassSnaps ==
  ASSUME TypeOK, NEW k, Passes(k)
  PROVE  SnapsPass(k)
  BY DEF Passes, SnapsPass

LEMMA KeepBursts ==
  ASSUME TypeOK, UNCHANGED tx
  PROVE  BurstsPass(0)
  BY BurstAt DEF BurstsPass

(* The steps that begin nothing: the requests pass or stay, and so do the   *)
(* frames of the burst.                                                     *)
LEMMA NothingBegins ==
  ASSUME TypeOK, NextZero,
         \/ UNCHANGED vars
         \/ Persist \/ PersistFails \/ PollDone \/ Tick \/ MetaSent \/ Resume \/ BurstDone \/ SendDone
         \/ Restart \/ Refuse \/ ClearCompensation \/ SetCompensationChunk \/ CommitCompensation
         \/ SetConfiguration \/ (ArmSnapshot /\ snap.state # "idle") \/ Lost \/ OtherClient
  PROVE  /\ UNCHANGED <<rows, got, host, inbox, abandoned>> /\ SnapStays
         /\ \E k, l \in Nat : SnapsPass(k) /\ BurstsPass(l)
  <1>1. ASSUME UNCHANGED <<down, tx>>
        PROVE  \E k, l \in Nat : SnapsPass(k) /\ BurstsPass(l)
    BY <1>1, PassNone, PassSnaps, KeepBursts
  <1>2. ASSUME UNCHANGED <<pc, snap>>
        PROVE  SnapStays
    BY <1>2 DEF SnapStays, CanSend, NextZero
  <1>3. CASE UNCHANGED vars
    BY <1>1, <1>2, <1>3 DEF vars, deviceVars, hostVars, historyVars
  <1>4. CASE Persist \/ PersistFails
    <2>1. UNCHANGED <<rows, got, host, inbox, abandoned, down, tx>>
      BY <1>4 DEF Persist, PersistFails, hostVars, historyVars
    <2>2. SnapStays
      <3>1. /\ pc' = "poll" /\ pc = "persist" /\ snap'.job = snap.job /\ snap'.next = snap.next
            /\ snap'.state \in {snap.state, "idle"}
        BY <1>4 DEF Persist, PersistFails, TypeOK
      <3> QED BY <3>1 DEF SnapStays, CanSend, NextZero
    <2> QED BY <1>1, <2>1, <2>2
  <1>5. CASE PollDone \/ Resume \/ SendDone
    <2>1. UNCHANGED <<rows, got, host, inbox, abandoned, down, tx, snap>>
      BY <1>5 DEF PollDone, Resume, SendDone, SendUnchanged, hostVars, historyVars
    <2>2. SnapStays
      BY <1>5, <2>1 DEF PollDone, Resume, SendDone, SnapStays, CanSend, NextZero
    <2> QED BY <1>1, <2>1, <2>2
  <1>6. CASE Tick
    <2>1. UNCHANGED <<rows, got, host, inbox, abandoned, down, tx, pc>>
      BY <1>6 DEF Tick, hostVars, historyVars
    <2>2. /\ snap.state # "idle" /\ snap'.job = snap.job /\ snap'.next = snap.next
          /\ snap'.state = "idle" \/ (snap'.state = "ready" /\ snap.state = "capturing")
      BY <1>6 DEF Tick, TypeOK
    <2>3. SnapStays
      BY <2>1, <2>2 DEF SnapStays, CanSend, NextZero
    <2> QED BY <1>1, <2>1, <2>3
  <1>7. CASE MetaSent \/ BurstDone
    <2>1. UNCHANGED <<rows, got, host, inbox, abandoned, down, tx>>
      BY <1>7 DEF MetaSent, BurstDone, SendUnchanged, hostVars, historyVars
    <2>2. /\ pc \in {"meta", "burst"} /\ snap'.job = snap.job /\ snap'.next = snap.next
          /\ snap'.state \in {"sending", "idle"} /\ pc' # "meta"
      BY <1>7 DEF MetaSent, BurstDone, TypeOK, NextZero
    <2>3. SnapStays
      BY <2>2 DEF SnapStays, CanSend
    <2> QED BY <1>1, <2>1, <2>3
  <1>8. CASE Restart
    <2>1. UNCHANGED <<rows, got, host, inbox, abandoned>> /\ down' = << >> /\ tx' = << >>
      BY <1>8 DEF Restart, hostVars
    <2>2. SnapStays
      BY <1>8 DEF Restart, SnapStays, CanSend
    <2>3. SnapsPass(0) /\ BurstsPass(0)
      BY <2>1, EmptySeq DEF SnapsPass, BurstsPass
    <2> QED BY <2>1, <2>2, <2>3
  <1>9. CASE Refuse \/ ClearCompensation \/ SetCompensationChunk \/ CommitCompensation
             \/ SetConfiguration \/ (ArmSnapshot /\ snap.state # "idle")
    <2>1. PICK cmd \in Commands, ok \in BOOLEAN :
            Receives(cmd) /\ Reply(Head(down), ok) /\ UNCHANGED snap
      BY <1>9 DEF Refuse, ClearCompensation, SetCompensationChunk, CommitCompensation,
         SetConfiguration, ArmSnapshot, Commands
    <2>2. /\ Passes(1) /\ UNCHANGED <<pc, inbox, host, rows, got, abandoned>>
          /\ \A i \in DOMAIN tx' : tx'[i] \in Acks \/ (i \in DOMAIN tx /\ tx'[i] = tx[i])
      BY <2>1, Received
    <2>3. BurstsPass(0)
      BY <2>2, BurstAt DEF BurstsPass
    <2> QED BY <1>2, <2>1, <2>2, <2>3, PassSnaps
  <1>10. CASE Lost
    <2>1. UNCHANGED <<rows, got, host, inbox, abandoned, pc, snap>>
      BY <1>10 DEF Lost, hostVars, deviceVars, historyVars
    <2>2. CASE down # << >> /\ down' = Tail(down) /\ UNCHANGED tx
      BY <1>2, <2>1, <2>2, PassOne, PassSnaps, KeepBursts
    <2>3. CASE tx # << >> /\ tx' = Tail(tx) /\ UNCHANGED down
      <3>1. BurstsPass(1)
        BY <2>3, BurstAt, HeadTail DEF BurstsPass
      <3> QED BY <1>2, <2>1, <2>3, <3>1, PassNone, PassSnaps
    <2> QED BY <1>10, <2>2, <2>3 DEF Lost
  <1>11. CASE OtherClient
    <2>1. /\ UNCHANGED <<rows, got, host, inbox, abandoned, pc, snap, tx>>
          /\ down' = Append(down, Frame("conf", 0, 0)) /\ down \in Seq(Frames)
      BY <1>11 DEF OtherClient, hostVars, deviceVars, historyVars, TypeOK
    <2>2. Frame("conf", 0, 0) \in Frames /\ Frame("conf", 0, 0).cmd = "conf"
      BY Sizes DEF Frame, Frames, Commands
    <2>3. \A i \in DOMAIN down' : \/ i \in DOMAIN down /\ down'[i] = down[i]
                                  \/ down'[i] = Frame("conf", 0, 0)
      BY <2>1, <2>2, AppendAt
    <2>4. SnapsPass(0)
      BY <2>2, <2>3, BurstAt DEF SnapsPass
    <2> QED BY <1>2, <2>1, <2>4, KeepBursts
  <1> QED BY <1>3, <1>4, <1>5, <1>6, <1>7, <1>8, <1>9, <1>10, <1>11

LEMMA BurstNext ==
  ASSUME TypeOK, BurstInv, [Next]_vars
  PROVE  BurstInv'
  <1>1. CASE UNCHANGED <<pc, snap>>
    BY <1>1 DEF BurstInv
  <1>2. CASE UNCHANGED vars \/ Lost \/ Arrives \/ OtherClient \/ Server
    BY <1>1, <1>2 DEF vars, Lost, Arrives, OtherClient, Server, Start, SendCommand, UploadAck,
       CaptureAck, TakeMeta, TakeData, TimesOut, TakeAck, ServerOnly, deviceVars
  <1>3. CASE Refuse \/ ClearCompensation \/ SetCompensationChunk \/ CommitCompensation
             \/ SetConfiguration \/ ArmSnapshot
    <2>1. PICK cmd \in Commands : Receives(cmd)
      BY <1>3 DEF Refuse, ClearCompensation, SetCompensationChunk, CommitCompensation,
         SetConfiguration, ArmSnapshot, Commands
    <2> QED BY <2>1 DEF Receives, BurstInv
  <1>4. CASE Persist \/ PersistFails \/ PollDone \/ SendMeta \/ BurstDone \/ SendDone \/ Restart
    BY <1>4 DEF Persist, PersistFails, PollDone, SendMeta, BurstDone, SendDone, Restart, BurstInv
  <1>5. CASE Tick
    BY <1>5 DEF Tick, BurstInv, TypeOK
  <1>6. CASE MetaSent \/ Resume \/ SendData
    BY <1>6 DEF MetaSent, Resume, SendData, BurstInv, TypeOK
  <1> QED BY <1>2, <1>3, <1>4, <1>5, <1>6 DEF Next, Device

LEMMA SeriesNext ==
  ASSUME TypeOK, TypeOK', StepInv, BurstInv, SeriesInv, [Next]_vars
  PROVE  SeriesInv'
  <1> DEFINE capture == host.doing = "capture" /\ host.waiting
  <1> USE DEF SeriesInv
  <1>1. ASSUME ~abandoned
        PROVE  NextZero /\ (capture => Series) /\ (~capture => Quiet)
    BY <1>1 DEF NextZero, Quiet, CanSend, Series, SendInv
  <1>2. CASE \/ UNCHANGED vars
             \/ Persist \/ PersistFails \/ PollDone \/ Tick \/ MetaSent \/ Resume \/ BurstDone \/ SendDone
             \/ Restart \/ Refuse \/ ClearCompensation \/ SetCompensationChunk \/ CommitCompensation
             \/ SetConfiguration \/ (ArmSnapshot /\ snap.state # "idle") \/ Lost \/ OtherClient
    <2>1. abandoned' = abandoned
      <3>1. CASE Refuse \/ ClearCompensation \/ SetCompensationChunk \/ CommitCompensation
                 \/ SetConfiguration \/ (ArmSnapshot /\ snap.state # "idle")
        <4>1. \E cmd \in Commands : Receives(cmd)
          BY <3>1 DEF Refuse, ClearCompensation, SetCompensationChunk, CommitCompensation,
             SetConfiguration, ArmSnapshot, Commands
        <4> QED BY <4>1 DEF Receives
      <3>2. CASE \/ UNCHANGED vars
                 \/ Persist \/ PollDone \/ Tick \/ MetaSent \/ Resume \/ BurstDone \/ SendDone
                 \/ Lost \/ OtherClient
        BY <3>2 DEF vars, Persist, PollDone, Tick, MetaSent, Resume, BurstDone, SendDone,
           SendUnchanged, Lost, OtherClient, historyVars
      <3>3. CASE PersistFails \/ Restart
        BY <3>3 DEF PersistFails, Restart
      <3> QED BY <1>2, <3>1, <3>2, <3>3
    <2> SUFFICES ASSUME ~abandoned PROVE (capture => Series') /\ (~capture => Quiet') /\ host' = host
      BY <2>1 DEF Series
    <2>2. NextZero /\ (capture => Series) /\ (~capture => Quiet)
      BY <1>1
    <2>3. /\ UNCHANGED <<rows, got, host, inbox>> /\ SnapStays
          /\ \E k, l \in Nat : SnapsPass(k) /\ BurstsPass(l)
      BY <1>2, <2>2, NothingBegins
    <2>4. CASE capture
      BY <2>2, <2>3, <2>4, SeriesKept
    <2>5. CASE ~capture
      BY <2>2, <2>3, <2>5, QuietKept DEF SnapStays
    <2> QED BY <2>3, <2>4, <2>5
  <1>3. CASE ArmSnapshot /\ snap.state = "idle"
    <2>1. /\ Receives("snap") /\ Reply(Head(down), TRUE)
          /\ snap' = [state |-> "capturing", job |-> Head(down).job, next |-> 0]
          /\ pc = "poll"
      BY <1>3 DEF ArmSnapshot, Receives
    <2>2. /\ Passes(1) /\ 1 \in DOMAIN down /\ Head(down) = down[1] /\ Head(down).cmd = "snap"
          /\ UNCHANGED <<pc, inbox, host, rows, got, abandoned>>
          /\ \A i \in DOMAIN tx' : tx'[i] \in Acks \/ (i \in DOMAIN tx /\ tx'[i] = tx[i])
      BY <2>1, Received DEF Commands
    <2>3. BurstsPass(0)
      BY <2>2, BurstAt DEF BurstsPass
    <2> SUFFICES ASSUME ~abandoned' PROVE capture /\ Series' /\ host' = host
      BY DEF Series
    <2>4. capture
      BY <1>1, <2>2 DEF Quiet
    <2>5. Series'
      BY <1>1, <2>1, <2>2, <2>3, <2>4, SeriesArmed
    <2> QED BY <2>2, <2>4, <2>5
  <1>4. CASE SendMeta \/ SendData
    <2>1. UNCHANGED <<rows, got, inbox, down, host, abandoned>>
      BY <1>4 DEF SendMeta, SendData, SendUnchanged, hostVars, historyVars
    <2>2. CanSend
      BY <1>4 DEF SendMeta, SendData, CanSend
    <2> SUFFICES ASSUME ~abandoned' PROVE capture /\ Series'
      BY <2>1 DEF Series
    <2>3. capture /\ Series /\ NextZero
      BY <1>1, <2>1, <2>2 DEF Quiet
    <2>4. CASE SendMeta
      <3>1. [job |-> snap.job, index |-> 0] \in Bursts
        BY Counting DEF TypeOK, Bursts
      <3>2. snap' = snap /\ snap.next = 0 /\ pc' = "meta" /\ Sent([job |-> snap.job, index |-> 0])
        BY <2>3, <2>4 DEF SendMeta, NextZero
      <3> QED BY <2>1, <2>2, <2>3, <3>1, <3>2, SeriesGrows DEF CanSend
    <2>5. CASE SendData
      <3>1. [job |-> snap.job, index |-> snap.next + 1] \in Bursts
        BY <2>5, Counting DEF SendData, TypeOK, Bursts
      <3>2. /\ snap'.next = snap.next + 1 /\ snap'.job = snap.job /\ snap'.state = snap.state
            /\ pc = "burst" /\ pc' = "burst" /\ Sent([job |-> snap.job, index |-> snap.next + 1])
        BY <2>5 DEF SendData, TypeOK
      <3> QED BY <2>1, <2>2, <2>3, <3>1, <3>2, SeriesGrows DEF CanSend
    <2> QED BY <1>4, <2>4, <2>5
  <1>5. CASE Arrives
    <2>1. UNCHANGED <<rows, got, host, down, snap, pc, abandoned>>
      BY <1>5 DEF Arrives, deviceVars, historyVars
    <2> SUFFICES ASSUME ~abandoned' PROVE (capture => Series') /\ (~capture => Quiet')
      BY <2>1 DEF Series
    <2>2. ASSUME Quiet PROVE Quiet'
      <3>1. BurstsPass(1)
        BY <1>5, BurstAt, HeadTail DEF Arrives, BurstsPass
      <3> QED BY <2>1, <2>2, <3>1, PassNone, PassSnaps, QuietKept DEF CanSend
    <2> QED BY <1>1, <1>5, <2>1, <2>2, SeriesArrives
  <1>6. ASSUME UNCHANGED <<pc, snap, tx, down>>, Quiet
        PROVE  Quiet'
    BY <1>6 DEF Quiet, CanSend, NoBurst
  <1>7. CASE \E work \in {"upload", "capture"} : Start(work)
    <2>1. /\ UNCHANGED <<pc, snap, tx, down, abandoned>> /\ ~host'.waiting /\ ~capture
      BY <1>7 DEF Start, deviceVars, historyVars
    <2> QED BY <1>1, <1>6, <2>1
  <1>8. CASE SendCommand
    <2>1. UNCHANGED <<pc, snap, tx, abandoned>> /\ ~capture /\ host'.doing = host.doing /\ host'.waiting
      BY <1>8 DEF SendCommand, deviceVars, historyVars, TypeOK
    <2> SUFFICES ASSUME ~abandoned' PROVE (host.doing = "capture" => Series') /\ (host.doing # "capture" => Quiet')
      BY <2>1 DEF Series
    <2>2. ASSUME host.doing # "capture" PROVE Quiet'
      <3>1. /\ down' = Append(down, Command) /\ down \in Seq(Frames)
            /\ Command \in Frames /\ Command.cmd # "snap"
        BY <1>8, <2>2, CommandType DEF SendCommand, TypeOK
      <3>2. \A i \in DOMAIN down' : (i \in DOMAIN down /\ down'[i] = down[i]) \/ down'[i] = Command
        BY <3>1, AppendAt
      <3> QED BY <1>1, <2>1, <3>1, <3>2 DEF Quiet, CanSend, NoBurst
    <2> QED BY <1>1, <1>8, <2>1, <2>2, SeriesBegins
  <1>9. ASSUME NEW o, End(o), UNCHANGED <<pc, snap, tx, down>>
        PROVE  SeriesInv'
    <2>1. host'.doing = "nothing" /\ (~abandoned' => ~abandoned /\ ~UnderWay)
      BY <1>9 DEF End, TypeOK
    <2> SUFFICES ASSUME ~abandoned' PROVE Quiet'
      BY <2>1
    <2> QED BY <1>1, <1>6, <1>9, <2>1, SeriesEnds DEF Series
  <1>10. CASE UploadAck
    <2>1. UNCHANGED <<pc, snap, tx, down>> /\ ~capture
      BY <1>10, AckTaken DEF UploadAck, deviceVars
    <2>2. CASE \E o \in {"ok", "failed"} : End(o)
      BY <1>9, <2>1, <2>2
    <2>3. CASE host' = [host EXCEPT !.step = @ + 1, !.waiting = FALSE] /\ UNCHANGED abandoned
      <3>1. ~host'.waiting
        BY <2>3 DEF TypeOK
      <3> QED BY <1>1, <1>6, <2>1, <2>3, <3>1
    <2> QED BY <1>10, <2>2, <2>3 DEF UploadAck
  <1>11. CASE CaptureAck \/ TakeMeta
    <2>1. UNCHANGED <<pc, snap, tx, down, rows, got>> /\ inbox'.datas = inbox.datas /\ host.doing = "capture"
      BY <1>11, AckTaken DEF CaptureAck, TakeMeta, ServerOnly, deviceVars, TypeOK
    <2>2. CASE End("failed")
      BY <1>9, <2>1, <2>2
    <2>3. CASE UNCHANGED abandoned /\ host'.job = host.job /\ host'.waiting = host.waiting /\ host'.doing = host.doing
      <3>1. SnapsPass(0) /\ BurstsPass(0)
        BY <2>1, PassNone, PassSnaps, KeepBursts
      <3>2. ~abandoned => SnapStays
        BY <1>1, <2>1 DEF SnapStays, CanSend, NextZero
      <3> SUFFICES ASSUME ~abandoned' PROVE (capture => Series') /\ (~capture => Quiet')
        BY <2>3 DEF Series
      <3> QED BY <1>1, <1>6, <2>1, <2>3, <3>1, <3>2, SeriesKept
    <2>4. End("failed") \/ (UNCHANGED abandoned /\ host'.job = host.job /\ host'.waiting = host.waiting
                             /\ host'.doing = host.doing)
      BY <1>11 DEF CaptureAck, TakeMeta, TypeOK
    <2> QED BY <2>2, <2>3, <2>4
  <1>12. CASE TakeData
    <2>1. UNCHANGED <<pc, snap, tx, down>> /\ host.doing = "capture" /\ host.waiting
      BY <1>12 DEF TakeData, ServerOnly, deviceVars, StepInv
    <2>2. CASE End("ok")
      BY <1>9, <2>1, <2>2
    <2>3. CASE UNCHANGED <<host, abandoned>>
      <3> SUFFICES ASSUME ~abandoned' PROVE Series'
        BY <2>1, <2>3 DEF Series
      <3> QED BY <1>1, <1>12, <2>1, <2>3, SeriesTaken
    <2> QED BY <1>12, <2>2, <2>3 DEF TakeData
  <1>13. CASE TimesOut
    BY <1>9, <1>13 DEF TimesOut, ServerOnly, deviceVars
  <1> QED
    BY <1>2, <1>3, <1>4, <1>5, <1>7, <1>8, <1>10, <1>11, <1>12, <1>13 DEF Next, Device, Server

-----------------------------------------------------------------------------
(* Theorems.                                                                *)

LEMMA InitLink == Init => LinkInv
  <1> SUFFICES ASSUME Init PROVE LinkInv
    OBVIOUS
  <1>1. TypeOK /\ StepInv
    BY InitType
  <1>2. /\ down = << >> /\ tx = << >> /\ inbox = EmptyInbox /\ host.doing = "nothing"
        /\ ~host.waiting /\ pc = "persist" /\ snap.state = "idle"
    BY DEF Init
  <1>3. \A a : ~Coming(a)
    BY <1>2, EmptySeq DEF Coming, EmptyInbox
  <1>4. \A f : ~InBus(f)
    BY <1>2, EmptySeq DEF InBus
  <1>5. Exchange
    BY <1>2, <1>3, EmptySeq DEF Exchange, SentInv, OrderInv, AloneInv
  <1>6. TableInv
    <2>1. Whole(table) /\ (record.valid => Whole(record.table))
      <3>1. \A v : Whole(Filled(v))
        BY Sizes DEF Whole, Filled
      <3>2. CASE valid
        BY <3>1, <3>2 DEF Init
      <3>3. CASE ~valid
        BY <3>1, <3>3 DEF Init, NoRecord
      <3> QED BY <3>2, <3>3
    <2> QED BY <1>2, <1>3, <1>4, <2>1 DEF TableInv
  <1>7. SeriesInv
    BY <1>2, EmptySeq DEF SeriesInv, Quiet, CanSend, NoBurst
  <1>8. BurstInv
    BY <1>2 DEF BurstInv
  <1> QED BY <1>1, <1>5, <1>6, <1>7, <1>8 DEF LinkInv, UploadInv, Exchange

LEMMA NextLink ==
  ASSUME LinkInv, [Next]_vars
  PROVE  LinkInv'
  <1>1. TypeOK /\ StepInv /\ BurstInv /\ Exchange /\ TableInv /\ SeriesInv
    BY DEF LinkInv, UploadInv, Exchange
  <1>2. TypeOK' /\ StepInv'
    BY <1>1, LinkType DEF Exchange
  <1>3. Exchange' /\ TableInv' /\ SeriesInv' /\ BurstInv'
    BY <1>1, <1>2, ExchangeNext, TableNext, SeriesNext, BurstNext
  <1> QED BY <1>2, <1>3 DEF LinkInv, UploadInv, Exchange

(* The inductive invariant of the link: types, the exchange of commands and *)
(* answers, the table of an upload and the series of a capture.             *)
THEOREM LinkInductive == Spec => []LinkInv
  <1>1. LinkInv /\ UNCHANGED vars => LinkInv'
    BY NextLink
  <1> QED BY InitLink, NextLink, <1>1, PTL DEF Spec

(* TableInUseIsWhole, for every size of the table and of the queues, and    *)
(* any number of jobs, reloads and restarts: no chunk of another upload is  *)
(* in a table in use (SetCompensationChunk, CommitCompensation).            *)
THEOREM TableIsWhole == Spec => []TableInUseIsWhole
  <1>1. LinkInv => TableInUseIsWhole
    BY DEF LinkInv, UploadInv, TableInv, TableInUseIsWhole, Whole
  <1> QED BY LinkInductive, <1>1, PTL

LEMMA OthersLeaveHost ==
  ASSUME UNCHANGED vars \/ Device \/ Lost \/ Arrives \/ OtherClient
  PROVE  host' = host
  <1>1. CASE Device
    BY <1>1 DEF Device, Persist, PersistFails, Refuse, ClearCompensation,
       SetCompensationChunk, CommitCompensation, SetConfiguration, ArmSnapshot, PollDone,
       Tick, SendMeta, MetaSent, Resume, SendData, BurstDone, SendDone, Restart, Receives,
       SendUnchanged, hostVars
  <1>2. CASE UNCHANGED vars \/ Lost \/ Arrives \/ OtherClient
    BY <1>2 DEF vars, Lost, Arrives, OtherClient, hostVars
  <1> QED BY <1>1, <1>2

(* UploadIsInUse: what the server reports as uploaded is in use.            *)
THEOREM UploadEnds == Spec => UploadIsInUse
  <1>1. ASSUME LinkInv, [Next]_vars, Ends("upload"), ~strayed', ~undone
        PROVE  valid /\ \A c \in 1..Chunks : table[c] = host.job
    <2>1. TypeOK /\ StepInv /\ Exchange /\ TableInv
      BY <1>1 DEF LinkInv, UploadInv, Exchange
    <2>2. UploadAck /\ host.step = Chunks + 2 /\ Head(inbox.acks).ok
      <3>1. host' # host /\ host.doing = "upload" /\ host'.doing = "nothing" /\ host'.outcome = "ok"
        BY <1>1 DEF Ends
      <3>2. ~UNCHANGED vars /\ ~Device /\ ~Lost /\ ~Arrives /\ ~OtherClient
        BY <3>1, OthersLeaveHost
      <3>3. Server
        BY <1>1, <3>2 DEF Next
      <3>4. ASSUME End("failed") PROVE FALSE
        BY <2>1, <3>1, <3>4 DEF End, TypeOK
      <3>5. ~SendCommand
        BY <2>1, <3>1 DEF SendCommand, TypeOK
      <3>6. UploadAck
        BY <3>1, <3>3, <3>4, <3>5 DEF Server, Start, CaptureAck, TakeMeta, TakeData, TimesOut
      <3>7. ASSUME host' = [host EXCEPT !.step = @ + 1, !.waiting = FALSE] PROVE FALSE
        BY <2>1, <3>1, <3>7 DEF TypeOK
      <3> QED BY <3>4, <3>6, <3>7 DEF UploadAck
    <2>3. TakeAck /\ host.doing = "upload" /\ host.waiting
      BY <2>2 DEF UploadAck, TakeAck
    <2>4. /\ ~strayed /\ Head(inbox.acks).of = Command
          /\ Coming(Head(inbox.acks)) /\ Head(inbox.acks) \in Acks
      BY <1>1, <2>1, <2>3, NoneLeft, AckTaken
    <2>5. InUse(host.job)
      BY <1>1, <2>1, <2>2, <2>3, <2>4 DEF TableInv
    <2> QED BY <2>5 DEF InUse
  <1>2. LinkInv /\ [Next]_vars =>
          (Ends("upload") /\ ~strayed' /\ ~undone => valid /\ \A c \in 1..Chunks : table[c] = host.job)
    BY <1>1
  <1> QED BY LinkInductive, <1>2, PTL DEF Spec, UploadIsInUse

(* SeriesIsOneCapture: an accepted series is one capture, every sample of   *)
(* it, for every length of the burst and depth of the FIFOs.                *)
THEOREM SeriesEnded == Spec => SeriesIsOneCapture
  <1>1. ASSUME LinkInv, [Next]_vars, Ends("capture"), ~abandoned
        PROVE  \A i \in 1..DataFrames : rows'[i] = host.job
    <2>1. TypeOK /\ StepInv /\ SeriesInv
      BY <1>1 DEF LinkInv
    <2>2. TakeData /\ got' = DataFrames
      <3>1. host' # host /\ host.doing = "capture" /\ host'.doing = "nothing" /\ host'.outcome = "ok"
        BY <1>1 DEF Ends
      <3>2. ~UNCHANGED vars /\ ~Device /\ ~Lost /\ ~Arrives /\ ~OtherClient
        BY <3>1, OthersLeaveHost
      <3>3. Server
        BY <1>1, <3>2 DEF Next
      <3>4. ASSUME End("failed") PROVE FALSE
        BY <2>1, <3>1, <3>4 DEF End, TypeOK
      <3>5. ASSUME NEW n, host' = [host EXCEPT !.step = n] PROVE FALSE
        BY <2>1, <3>1, <3>5 DEF TypeOK
      <3>6. ASSUME SendCommand PROVE FALSE
        BY <2>1, <3>1, <3>6 DEF SendCommand, TypeOK
      <3>7. ASSUME CaptureAck \/ TakeMeta PROVE FALSE
        BY <3>4, <3>5, <3>7 DEF CaptureAck, TakeMeta
      <3>8. TakeData
        BY <3>1, <3>3, <3>4, <3>6, <3>7 DEF Server, Start, UploadAck, TimesOut
      <3> QED BY <3>1, <3>8 DEF TakeData
    <2>3. Series
      BY <1>1, <2>1, <2>2 DEF SeriesInv, Series, TakeData, StepInv
    <2>4. /\ inbox.datas[1].index \in 1..DataFrames /\ got' = got + 1
          /\ \/ got + 1 < inbox.datas[1].index
             \/ \A i \in 1..got + 1 : rows'[i] = host.job
      BY <2>1, <2>2, <2>3, RowTaken
    <2>5. ~(got + 1 < inbox.datas[1].index)
      BY <2>2, <2>4, Sizes
    <2> QED BY <2>2, <2>4, <2>5
  <1>2. LinkInv /\ [Next]_vars =>
          (Ends("capture") /\ ~abandoned => \A i \in 1..DataFrames : rows'[i] = host.job)
    BY <1>1
  <1> QED BY LinkInductive, <1>2, PTL DEF Spec, SeriesIsOneCapture
=============================================================================
