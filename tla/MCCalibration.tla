------------------------------ MODULE MCCalibration ------------------------------
(* Small instances of Calibration for TLC.                                    *)
EXTENDS Calibration

EncoderAndComp == {"Encoder", "Compensation"}
OneParameter   == {"Resistance"}
TwoTables      == {"m1", "m2"}   \* an old table and a new one
OneReading     == {"m1"}
NothingTyped   == {}             \* RestoreDefaults also edits the table
=============================================================================
