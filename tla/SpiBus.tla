---------------------------------- MODULE SpiBus ----------------------------------
(***************************************************************************)
(* The bus of the angle sensor: the driver device::Ma600 and the encoder   *)
(* service above hal::Stm32Spi, called from the main loop and from the     *)
(* control interrupt.  A tick is atomic for the main loop, may come        *)
(* between the pieces of a transfer the main loop makes, and leaves a      *)
(* transfer of its own on the way for the next tick to collect.            *)
(*                                                                         *)
(* Of a word only its owner matters, the one who began the transfer.  The  *)
(* write of DR and the enabling of the peripheral after it are one piece.  *)
(***************************************************************************)
EXTENDS Naturals, Sequences

CONSTANT ConfigWords   \* the words of Ma600::WriteConfig: three registers of three

Owners == {"main", "tick"}

VARIABLES
  tx, rx,        \* the FIFOs of the peripheral, each of at most two words
  spi_pending,   \* EncoderService::spi_pending_
  isr,           \* the control interrupt is open
  job,           \* what the main loop uses the bus for, or "none"
  words_left,    \* the words it still has to transfer
  step,          \* where its Transfer16 is
  answer         \* the last FinishTransfer16: who asked, and whose word it got

busVars  == <<tx, rx>>
mainVars == <<job, words_left, step>>
vars     == <<busVars, spi_pending, isr, mainVars, answer>>

Init ==
  /\ tx = << >> /\ rx = << >>
  /\ spi_pending = FALSE
  /\ isr = FALSE
  /\ job = "none" /\ words_left = 0 /\ step = "next"
  /\ answer = [by |-> "main", word |-> "main"]

-----------------------------------------------------------------------------
(* The peripheral clocks a word out and, with it, one in.                    *)

Busy == tx # << >>

Shift ==
  /\ Busy
  /\ rx' = Append(rx, Head(tx)) /\ tx' = Tail(tx)
  /\ UNCHANGED <<spi_pending, isr, mainVars, answer>>

(* Without RXNE, DR reads what it last held. *)
FirstOf(words) == IF words = << >> THEN "stale" ELSE Head(words)

-----------------------------------------------------------------------------
(* The main loop.                                                           *)

Begin(what, words) ==
  /\ job = "none"
  /\ job' = what /\ words_left' = words
  /\ UNCHANGED <<busVars, spi_pending, step, answer>>

(* Conf Set, Load and Defaults apply the encoder group, whether or not the   *)
(* interrupt is open.                                                       *)
SetSensorFilterUs == Begin("conf", ConfigWords) /\ UNCHANGED isr

(* A reply samples the encoder only while no tick does. *)
ReplyControl == ~isr /\ Begin("sample", 1) /\ UNCHANGED isr

(* A start closes the interrupt with Stop, samples, and opens it at the end. *)
StartSession == Begin("start", 1) /\ isr' = FALSE

Stop ==
  /\ job = "none"
  /\ isr' = FALSE
  /\ UNCHANGED <<busVars, spi_pending, mainVars, answer>>

(* BeginTransfer16: wait until not busy, drain, load.  SampleBlocking gives  *)
(* up what a tick left on the way; SetFilterUs does not know of it.          *)
BeginTransfer16 ==
  /\ job # "none" /\ words_left > 0
  /\ step = "next" /\ step' = "read"
  /\ ~Busy
  /\ rx' = << >> /\ tx' = <<"main">>
  /\ spi_pending' = (spi_pending /\ job = "conf")
  /\ UNCHANGED <<isr, job, words_left, answer>>

(* FinishTransfer16: wait for a word, or for the timeout when none can come. *)
ReadWord ==
  /\ step = "read" /\ step' = "finish"
  /\ rx # << >> \/ ~Busy
  /\ answer' = [by |-> "main", word |-> FirstOf(rx)]
  /\ rx' = IF rx = << >> THEN rx ELSE Tail(rx)
  /\ UNCHANGED <<tx, spi_pending, isr, job, words_left>>

FinishTransfer16 ==
  /\ step = "finish" /\ step' = "next"
  /\ ~Busy
  /\ words_left' = words_left - 1
  /\ UNCHANGED <<busVars, spi_pending, isr, job, answer>>

JobDone ==
  /\ job # "none" /\ words_left = 0
  /\ job' = "none"
  /\ isr' = (isr \/ job = "start")
  /\ UNCHANGED <<busVars, spi_pending, words_left, step, answer>>

-----------------------------------------------------------------------------
(* The interrupt: take the word of the transfer the last tick began, or      *)
(* transfer one now, and begin the next.                                    *)

TickAnswer == IF spi_pending THEN FirstOf(rx \o tx) ELSE "tick"

UpdatePwmIsr ==
  /\ isr
  /\ answer' = [by |-> "tick", word |-> TickAnswer]
  /\ rx' = << >> /\ tx' = <<"tick">>
  /\ spi_pending' = TRUE
  /\ UNCHANGED <<isr, mainVars>>

(* The idle tick closes the interrupt. *)
IdleTick ==
  /\ isr /\ isr' = FALSE
  /\ UNCHANGED <<busVars, spi_pending, mainVars, answer>>

Next ==
  \/ Shift
  \/ SetSensorFilterUs \/ ReplyControl \/ StartSession \/ Stop
  \/ BeginTransfer16 \/ ReadWord \/ FinishTransfer16 \/ JobDone
  \/ UpdatePwmIsr \/ IdleTick

Spec == Init /\ [][Next]_vars

-----------------------------------------------------------------------------
(* The header calls the bus master ISR-safe: what a tick takes for an angle  *)
(* is what came in during a transfer that a tick began, and neither the      *)
(* read-back of a register nor what DR last held.                            *)
AngleIsOwn == answer.by = "tick" => answer.word = "tick"
=============================================================================
