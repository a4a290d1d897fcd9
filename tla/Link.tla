----------------------------------- MODULE Link -----------------------------------
(***************************************************************************)
(* The web page's server against the firmware over a bus that loses        *)
(* frames: the upload of a compensation table (EncComp Clear, Chunk,       *)
(* Commit), and the capture of a snapshot with its burst of frames.  Each  *)
(* command is answered by one Ack through a transmit FIFO of three; the    *)
(* server empties its queues, sends, and takes the next Ack, whatever it   *)
(* answers, or gives up at a deadline.  Another client may reload the      *)
(* configuration, and the board may restart.                               *)
(*                                                                         *)
(* A table chunk and a sample are the number of the job they belong to.    *)
(***************************************************************************)
EXTENDS Integers, Sequences

CONSTANTS
  Chunks,         \* chunks of a table: 8
  DataFrames,     \* frames of samples in a burst: up to 128
  TxDepth,        \* elements of the transmit FIFO: 3
  FramesPerPoll,  \* frames a Poll serves: 8
  FramesPerBurst, \* frames a PollSend sends: 16
  MaxJobs,        \* bound: uploads and captures of the host
  MaxTrouble      \* bound: reloads by others and restarts

ASSUME SizesAssumption ==
  {Chunks, DataFrames, TxDepth, FramesPerPoll, FramesPerBurst} \subseteq Nat \ {0}
ASSUME BoundsAssumption == MaxJobs \in Nat /\ MaxTrouble \in Nat

VARIABLES
  pc,        \* the pass of the superloop: persist, poll, send, and in send
             \* meta (sent, state_ not yet Sending) and burst
  count,     \* frames this Poll has served, or this PollSend has sent
  table,     \* compensation_: the job each chunk comes from
  valid,     \* compensation_valid_
  mask,      \* compensation_chunk_mask_
  dirty,     \* compensation_dirty_
  record,    \* the table in the calibration flash
  snap,      \* SnapshotService: state_, sequence_, send_index_
  down,      \* frames on their way to the device and in its receive FIFO
  tx,        \* the device's transmit FIFO
  inbox,     \* _acks, _snap_metas, _snap_datas of the server
  host,      \* the job of the server
  rows,      \* the series a capture fills
  got,       \* samples counted for it
  trouble,   \* reloads and restarts so far
  strayed,   \* history: an Ack was taken for the answer to another command
  abandoned, \* history: a job ended while its exchange was under way
  undone     \* history: a reload or restart came ahead of a write

tableVars   == <<table, valid, mask, dirty, record>>
deviceVars  == <<pc, count, tableVars, snap>>
hostVars    == <<inbox, host, rows, got>>
historyVars == <<strayed, abandoned, undone>>
vars == <<deviceVars, down, tx, hostVars, trouble, historyVars>>

Zeros   == 0     \* a chunk of the table that was cleared
Earlier == -1    \* a chunk of the table the board came with
Tables  == [1..Chunks -> {Earlier} \cup 0..MaxJobs]
Filled(v) == [c \in 1..Chunks |-> v]
NoRecord  == [present |-> FALSE, valid |-> FALSE, table |-> Filled(Zeros)]

Frame(cmd, chunk, job) == [cmd |-> cmd, chunk |-> chunk, job |-> job]
Commands == {"clear", "chunk", "commit", "snap", "conf"}
Frames == [cmd : Commands, chunk : 0..Chunks, job : 0..MaxJobs]
Acks   == [of : Frames, ok : BOOLEAN]
Bursts == [job : 0..MaxJobs, index : 0..DataFrames]  \* 0: the meta frame

EmptyInbox == [acks |-> << >>, metas |-> << >>, datas |-> << >>]

TypeOK ==
  /\ pc \in {"persist", "poll", "send", "meta", "burst"}
  /\ count \in 0..(FramesPerPoll + FramesPerBurst)
  /\ table \in Tables /\ valid \in BOOLEAN
  /\ mask \subseteq 1..Chunks /\ dirty \in BOOLEAN
  /\ record \in [present : BOOLEAN, valid : BOOLEAN, table : Tables]
  /\ snap \in [state : {"idle", "capturing", "ready", "sending"},
               job : 0..MaxJobs, next : 0..DataFrames]
  /\ down \in Seq(Frames)
  /\ tx \in Seq(Acks \cup Bursts) /\ Len(tx) <= TxDepth
  /\ inbox \in [acks : Seq(Acks), metas : Seq(Bursts), datas : Seq(Bursts)]
  /\ host \in [job : 0..MaxJobs, doing : {"nothing", "upload", "capture"},
               step : 0..Chunks + 3, waiting : BOOLEAN,
               outcome : {"none", "ok", "failed"}]
  /\ rows \in [1..DataFrames -> 0..MaxJobs] /\ got \in 0..DataFrames
  /\ trouble \in 0..MaxTrouble
  /\ strayed \in BOOLEAN /\ abandoned \in BOOLEAN /\ undone \in BOOLEAN

Init ==
  /\ pc = "persist" /\ count = 0
  /\ valid \in BOOLEAN
  /\ table = Filled(IF valid THEN Earlier ELSE Zeros)
  /\ mask = IF valid THEN 1..Chunks ELSE {}
  /\ dirty = FALSE
  /\ record = IF valid THEN [present |-> TRUE, valid |-> TRUE, table |-> table]
              ELSE NoRecord
  /\ snap = [state |-> "idle", job |-> 0, next |-> 0]
  /\ down = << >> /\ tx = << >> /\ inbox = EmptyInbox
  /\ host = [job |-> 0, doing |-> "nothing", step |-> 0, waiting |-> FALSE,
             outcome |-> "none"]
  /\ rows = [i \in 1..DataFrames |-> 0] /\ got = 0
  /\ trouble = 0
  /\ strayed = FALSE /\ abandoned = FALSE /\ undone = FALSE

-----------------------------------------------------------------------------
(* The device: the superloop around the link.                               *)

(* BinaryLink::SendRaw: a full FIFO takes nothing, and SendAck does not     *)
(* look at the result.                                                      *)
Sent(message) == Len(tx) < TxDepth /\ tx' = Append(tx, message)
Reply(frame, ok) ==
  tx' = IF Len(tx) < TxDepth THEN Append(tx, [of |-> frame, ok |-> ok]) ELSE tx

(* EncoderService::SetCompensation, from LoadPersistentConfig: a record     *)
(* that does not load leaves everything as it is.                           *)
LoadPersistentConfig ==
  IF record.present
  THEN /\ table' = record.table
       /\ valid' = record.valid
       /\ mask' = IF record.valid THEN 1..Chunks ELSE {}
  ELSE UNCHANGED <<table, valid, mask>>

(* An edited table is written ahead of the next Poll; the stop that comes   *)
(* with it aborts a snapshot.                                               *)
Persist ==
  /\ pc = "persist" /\ pc' = "poll" /\ count' = 0
  /\ IF dirty
     THEN /\ record' = [present |-> TRUE, valid |-> valid, table |-> table]
          /\ dirty' = FALSE
          /\ snap' = [snap EXCEPT !.state = "idle"]
     ELSE UNCHANGED <<record, dirty, snap>>
  /\ UNCHANGED <<table, valid, mask, down, tx, hostVars, trouble, historyVars>>

(* Save fails, with the old record there or gone; it is not tried again.    *)
PersistFails ==
  /\ pc = "persist" /\ pc' = "poll" /\ count' = 0
  /\ dirty /\ dirty' = FALSE
  /\ trouble < MaxTrouble /\ trouble' = trouble + 1
  /\ undone' = TRUE
  /\ record' \in {record, NoRecord}
  /\ snap' = [snap EXCEPT !.state = "idle"]
  /\ UNCHANGED <<table, valid, mask, down, tx, hostVars, strayed, abandoned>>

Receives(cmd) ==
  /\ pc = "poll" /\ count < FramesPerPoll
  /\ down # << >> /\ Head(down).cmd = cmd
  /\ down' = Tail(down)
  /\ count' = count + 1
  /\ UNCHANGED <<pc, hostVars, trouble, strayed, abandoned>>

(* NotRun: the loop is not in RUN, or a snapshot is asked of a control      *)
(* interrupt that is off.                                                   *)
Refuse ==
  \E cmd \in Commands \ {"conf"} :
    /\ Receives(cmd)
    /\ Reply(Head(down), FALSE)
    /\ UNCHANGED <<tableVars, snap, undone>>

(* Mutant: the table is cleared, but stays in use. *)
ClearCompensation_StaysValid ==
  /\ Receives("clear")
  /\ table' = Filled(Zeros) /\ mask' = {}
  /\ dirty' = TRUE
  /\ Reply(Head(down), TRUE)
  /\ UNCHANGED <<valid, record, snap, undone>>

ClearCompensation ==
  /\ Receives("clear")
  /\ table' = Filled(Zeros) /\ valid' = FALSE /\ mask' = {}
  /\ dirty' = TRUE
  /\ Reply(Head(down), TRUE)
  /\ UNCHANGED <<record, snap, undone>>

(* A chunk is written into the table whether or not that is in use. *)
SetCompensationChunk ==
  /\ Receives("chunk")
  /\ LET f == Head(down) IN
     /\ table' = [table EXCEPT ![f.chunk] = f.job]
     /\ mask' = mask \cup {f.chunk}
     /\ Reply(f, TRUE)
  /\ UNCHANGED <<valid, dirty, record, snap, undone>>

(* Mutant: a table with chunks missing is put in use. *)
CommitCompensation_Unchecked ==
  /\ Receives("commit")
  /\ valid' = TRUE /\ dirty' = TRUE
  /\ Reply(Head(down), TRUE)
  /\ UNCHANGED <<table, mask, record, snap, undone>>

(* A table with chunks missing is taken out of use, and nothing is written. *)
CommitCompensation ==
  /\ Receives("commit")
  /\ LET complete == mask = 1..Chunks IN
     /\ valid' = complete
     /\ dirty' = (dirty \/ complete)
     /\ Reply(Head(down), complete)
  /\ UNCHANGED <<table, mask, record, snap, undone>>

(* Conf Set of another client: Apply ends in LoadPersistentConfig.          *)
SetConfiguration ==
  /\ Receives("conf")
  /\ LoadPersistentConfig
  /\ undone' = (undone \/ dirty)
  /\ Reply(Head(down), TRUE)
  /\ UNCHANGED <<dirty, record, snap>>

(* SnapshotService::Arm; a snapshot that is under way is not disturbed.     *)
ArmSnapshot ==
  /\ Receives("snap")
  /\ LET f == Head(down)  idle == snap.state = "idle" IN
     /\ snap' = IF idle THEN [state |-> "capturing", job |-> f.job, next |-> 0]
                ELSE snap
     /\ Reply(f, idle)
  /\ UNCHANGED <<tableVars, undone>>

(* Poll ends with the frames, after as many as it serves, or at once when   *)
(* the bus is off, with RecoverBusOff.                                      *)
PollDone ==
  /\ pc = "poll" /\ (down = << >> \/ count \in {0, FramesPerPoll})
  /\ pc' = "send"
  /\ UNCHANGED <<count, tableVars, snap, down, tx, hostVars, trouble, historyVars>>

(* The control interrupt fills the last sample, or a trip or an idle tick   *)
(* aborts whatever is under way.                                            *)
Tick ==
  /\ \/ snap.state = "capturing" /\ snap' = [snap EXCEPT !.state = "ready"]
     \/ snap.state # "idle" /\ snap' = [snap EXCEPT !.state = "idle"]
  /\ UNCHANGED <<pc, count, tableVars, down, tx, hostVars, trouble, historyVars>>

-----------------------------------------------------------------------------
(* SnapshotService::PollSend.                                               *)

SendUnchanged == UNCHANGED <<tableVars, down, hostVars, trouble, historyVars>>

SendMeta ==
  /\ pc = "send" /\ snap.state = "ready"
  /\ Sent([job |-> snap.job, index |-> 0])
  /\ pc' = "meta"
  /\ UNCHANGED <<count, snap>> /\ SendUnchanged

(* An abort since the meta frame is overwritten: the burst goes out.        *)
MetaSent ==
  /\ pc = "meta" /\ pc' = "burst" /\ count' = 0
  /\ snap' = [snap EXCEPT !.state = "sending", !.next = 0]
  /\ UNCHANGED tx /\ SendUnchanged

Resume ==
  /\ pc = "send" /\ snap.state = "sending"
  /\ pc' = "burst" /\ count' = 0
  /\ UNCHANGED <<snap, tx>> /\ SendUnchanged

(* Mutant: the index moves on when the call is over, not with every frame.  *)
SendData_IndexLate ==
  /\ pc = "burst" /\ count < FramesPerBurst /\ snap.next + count < DataFrames
  /\ Sent([job |-> snap.job, index |-> snap.next + count + 1])
  /\ count' = count + 1
  /\ snap' = IF snap.next + count + 1 = DataFrames \/ count + 1 = FramesPerBurst
             THEN [snap EXCEPT !.next = @ + count + 1] ELSE snap
  /\ UNCHANGED pc /\ SendUnchanged

(* The state is not looked at again within the call.                        *)
SendData ==
  /\ pc = "burst" /\ count < FramesPerBurst /\ snap.next < DataFrames
  /\ Sent([job |-> snap.job, index |-> snap.next + 1])
  /\ count' = count + 1
  /\ snap' = [snap EXCEPT !.next = @ + 1]
  /\ UNCHANGED pc /\ SendUnchanged

BurstDone ==
  /\ pc = "burst" /\ count < FramesPerBurst /\ snap.next = DataFrames
  /\ pc' = "persist"
  /\ snap' = [snap EXCEPT !.state = "idle"]
  /\ UNCHANGED <<count, tx>> /\ SendUnchanged

(* Nothing to send, no room for it, or enough sent in this pass.            *)
SendDone ==
  /\ \/ pc = "send" /\ snap.state \in {"idle", "capturing"}
     \/ pc = "send" /\ snap.state = "ready" /\ Len(tx) = TxDepth
     \/ pc = "burst" /\ Len(tx) = TxDepth /\ snap.next < DataFrames
     \/ pc = "burst" /\ count = FramesPerBurst
  /\ pc' = "persist"
  /\ UNCHANGED <<count, snap, tx>> /\ SendUnchanged

(* A restart: the RAM is gone, the table of the record is loaded.           *)
Restart ==
  /\ trouble < MaxTrouble /\ trouble' = trouble + 1
  /\ undone' = (undone \/ dirty)
  /\ pc' = "persist" /\ count' = 0
  /\ table' = record.table /\ valid' = record.valid
  /\ mask' = IF record.valid THEN 1..Chunks ELSE {}
  /\ dirty' = FALSE
  /\ snap' = [state |-> "idle", job |-> 0, next |-> 0]
  /\ down' = << >> /\ tx' = << >>
  /\ UNCHANGED <<record, hostVars, strayed, abandoned>>

Device ==
  \/ Persist \/ PersistFails
  \/ Refuse \/ ClearCompensation \/ SetCompensationChunk \/ CommitCompensation
  \/ SetConfiguration \/ ArmSnapshot \/ PollDone \/ Tick
  \/ SendMeta \/ MetaSent \/ Resume \/ SendData \/ BurstDone \/ SendDone
  \/ Restart

-----------------------------------------------------------------------------
(* The bus loses frames: a full receive FIFO, a host adapter that is late.  *)
Lost ==
  /\ \/ down # << >> /\ down' = Tail(down) /\ UNCHANGED tx
     \/ tx # << >> /\ tx' = Tail(tx) /\ UNCHANGED down
  /\ UNCHANGED <<deviceVars, hostVars, trouble, historyVars>>

(* _rx_loop sorts what arrives into queues.                                 *)
Arrives ==
  /\ tx # << >> /\ tx' = Tail(tx)
  /\ LET m == Head(tx) IN
     inbox' = IF m \in Acks THEN [inbox EXCEPT !.acks = Append(@, m)]
              ELSE IF m.index = 0 THEN [inbox EXCEPT !.metas = Append(@, m)]
              ELSE [inbox EXCEPT !.datas = Append(@, m)]
  /\ UNCHANGED <<deviceVars, down, host, rows, got, trouble, historyVars>>

(* Another client of the same node sets a parameter; its Ack has the same   *)
(* identifier.                                                              *)
OtherClient ==
  /\ trouble < MaxTrouble /\ trouble' = trouble + 1
  /\ down' = Append(down, Frame("conf", 0, 0))
  /\ UNCHANGED <<deviceVars, tx, hostVars, historyVars>>

-----------------------------------------------------------------------------
(* The server, one request at a time.                                       *)

(* upload_with_sender: Clear, the chunks in turn, Commit. *)
Command ==
  IF host.doing = "capture" THEN Frame("snap", 0, host.job)
  ELSE IF host.step = 1 THEN Frame("clear", 0, host.job)
  ELSE IF host.step = Chunks + 2 THEN Frame("commit", 0, host.job)
  ELSE Frame("chunk", host.step - 1, host.job)

Start(work) ==
  /\ host.doing = "nothing" /\ host.job < MaxJobs
  /\ host' = [job |-> host.job + 1, doing |-> work, step |-> 1,
              waiting |-> FALSE, outcome |-> "none"]
  /\ rows' = [i \in 1..DataFrames |-> 0] /\ got' = 0
  /\ UNCHANGED <<deviceVars, down, tx, inbox, trouble, historyVars>>

(* send_cmd, and capture_snap once: empty the queues, send, wait. *)
SendCommand ==
  /\ host.doing # "nothing" /\ ~host.waiting
  /\ inbox' = EmptyInbox
  /\ down' = Append(down, Command)
  /\ host' = [host EXCEPT !.waiting = TRUE]
  /\ UNCHANGED <<deviceVars, tx, rows, got, trouble, historyVars>>

(* Something of the job is still on its way, or to come. *)
UnderWay ==
  \/ \E i \in DOMAIN down : down[i].job = host.job
  \/ \E i \in DOMAIN tx : IF tx[i] \in Acks THEN tx[i].of.job = host.job
                          ELSE tx[i].job = host.job
  \/ snap.state # "idle" /\ snap.job = host.job
  \/ pc \in {"meta", "burst"}

End(outcome) ==
  /\ host' = [host EXCEPT !.doing = "nothing", !.waiting = FALSE,
                          !.outcome = outcome]
  /\ abandoned' = (abandoned \/ UnderWay)

ServerOnly == UNCHANGED <<deviceVars, down, tx, trouble, undone>>

(* Any Ack is taken for the answer. *)
TakeAck ==
  /\ host.waiting /\ inbox.acks # << >>
  /\ inbox' = [inbox EXCEPT !.acks = Tail(@)]
  /\ strayed' = (strayed \/ Head(inbox.acks).of # Command)
  /\ UNCHANGED <<rows, got>> /\ ServerOnly

UploadAck ==
  /\ host.doing = "upload"
  /\ TakeAck
  /\ IF ~Head(inbox.acks).ok THEN End("failed")
     ELSE IF host.step = Chunks + 2 THEN End("ok")
     ELSE /\ host' = [host EXCEPT !.step = @ + 1, !.waiting = FALSE]
          /\ UNCHANGED abandoned

(* capture_snap looks at the command an Ack answers, not at the job. *)
CaptureAck ==
  /\ host.doing = "capture" /\ host.step = 1
  /\ TakeAck
  /\ LET a == Head(inbox.acks) IN
     IF a.of.cmd = "snap" /\ a.ok
     THEN host' = [host EXCEPT !.step = 2] /\ UNCHANGED abandoned
     ELSE End("failed")

TakeMeta ==
  /\ host.doing = "capture" /\ host.step = 2 /\ inbox.metas # << >>
  /\ inbox' = [inbox EXCEPT !.metas = Tail(@)]
  /\ host' = [host EXCEPT !.step = 3]
  /\ UNCHANGED <<rows, got, strayed, abandoned>> /\ ServerOnly

(* Samples are counted until there are as many as the meta frame says. *)
TakeData ==
  /\ host.doing = "capture" /\ host.step = 3 /\ inbox.datas # << >>
  /\ inbox' = [inbox EXCEPT !.datas = Tail(@)]
  /\ LET d == Head(inbox.datas) IN rows' = [rows EXCEPT ![d.index] = d.job]
  /\ got' = got + 1
  /\ IF got' = DataFrames THEN End("ok") ELSE UNCHANGED <<host, abandoned>>
  /\ UNCHANGED strayed /\ ServerOnly

(* A deadline: one second for an Ack, twelve for a capture. *)
TimesOut ==
  /\ host.waiting
  /\ End("failed")
  /\ UNCHANGED <<inbox, rows, got, strayed>> /\ ServerOnly

Server ==
  \/ \E work \in {"upload", "capture"} : Start(work)
  \/ SendCommand \/ UploadAck \/ CaptureAck \/ TakeMeta \/ TakeData \/ TimesOut

Next == Device \/ Lost \/ Arrives \/ OtherClient \/ Server

Spec == Init /\ [][Next]_vars

-----------------------------------------------------------------------------
(* Properties.                                                              *)

Ends(work) == host.doing = work /\ host'.doing = "nothing" /\ host'.outcome = "ok"

(* When the server reports an upload, the table in use is the one it sent,  *)
(* whatever was lost, refused or reloaded in between; unless it took an     *)
(* answer to something else, or the write after Clear or Commit was undone  *)
(* by a reload or restart ahead of it.                                      *)
UploadIsInUse ==
  [][Ends("upload") /\ ~strayed' /\ ~undone
       => valid /\ \A c \in 1..Chunks : table[c] = host.job]_vars

(* Under the same conditions no table in use is part of one and part of     *)
(* another, in the middle of an upload, after one that was given up, or     *)
(* after a restart.                                                         *)
TableInUseIsWhole ==
  valid /\ ~strayed /\ ~undone => \A c \in 1..Chunks : table[c] = table[1]

(* A series the server accepts is one capture, every sample of it, through  *)
(* aborts, full FIFOs and lost frames; unless an earlier job was given up   *)
(* while its frames were still to come.                                     *)
SeriesIsOneCapture ==
  [][Ends("capture") /\ ~abandoned
       => \A i \in 1..DataFrames : rows'[i] = host.job]_vars
=============================================================================
