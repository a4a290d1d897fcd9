----------------------------- MODULE PowerInterlock -----------------------------
(***************************************************************************)
(* What the firmware promises about the power stage, with no main loop and *)
(* no interrupt in it: torque is commanded only by leave of the lifecycle, *)
(* the flash is written only with the bridge off, and leave is granted     *)
(* only while the bridge is off.  Application implements it.               *)
(***************************************************************************)
VARIABLES
  permitted,  \* the lifecycle lets the host command torque
  powered,    \* the gate driver is out of HIZ
  writing     \* a flash page is being erased and programmed

vars == <<permitted, powered, writing>>

TypeOK == permitted \in BOOLEAN /\ powered \in BOOLEAN /\ writing \in BOOLEAN

Init == permitted = FALSE /\ powered = FALSE /\ writing = FALSE

PowerUp ==
  /\ permitted /\ ~writing
  /\ powered' = TRUE
  /\ UNCHANGED <<permitted, writing>>

PowerDown == powered' = FALSE /\ UNCHANGED <<permitted, writing>>

(* Whoever writes turns the bridge off first. *)
BeginWrite ==
  /\ writing' = TRUE
  /\ powered' = FALSE
  /\ UNCHANGED permitted

EndWrite == writing' = FALSE /\ UNCHANGED <<permitted, powered>>

Grant ==
  /\ ~powered /\ ~writing
  /\ permitted' = TRUE
  /\ UNCHANGED <<powered, writing>>

(* A fault or a bootloader request is noticed before the bridge is stopped. *)
Withdraw ==
  /\ permitted' = FALSE
  /\ writing' = FALSE
  /\ powered' \in {powered, FALSE}

Next == PowerUp \/ PowerDown \/ BeginWrite \/ EndWrite \/ Grant \/ Withdraw

Spec == Init /\ [][Next]_vars
=============================================================================
