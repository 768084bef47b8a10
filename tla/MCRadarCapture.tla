---------------------------- MODULE MCRadarCapture ----------------------------
(***************************************************************************)
(* Instance of RadarCapture for TLC.                                       *)
(***************************************************************************)
EXTENDS RadarCapture, TLC
================================================================================
