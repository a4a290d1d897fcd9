------------------------------ MODULE MCApplication ------------------------------
(* Small instances of Application for TLC.                                    *)
EXTENDS Application

OneRun   == {"Servo"}
TwoRuns  == {"Servo", "Mit"}
SpeedAndEncoderKinds == {"EncoderPhase", "Bemf"}
OneKind  == {"EncoderPhase"}
=============================================================================
