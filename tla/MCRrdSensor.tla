---------------------------- MODULE MCRrdSensor ----------------------------
(* Small instances of RrdSensor for TLC.                                    *)
EXTENDS RrdSensor

CONSTANTS d1, d2

Two == <<d1, d2>>
=============================================================================
