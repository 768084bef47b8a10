----------------------------- MODULE MCMissionLog -----------------------------
(***************************************************************************)
(* Instance of MissionLog for TLC.                                         *)
(***************************************************************************)
EXTENDS MissionLog, TLC
================================================================================
