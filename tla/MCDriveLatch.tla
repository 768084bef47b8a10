---------------------------- MODULE MCDriveLatch ----------------------------
(***************************************************************************)
(* Instances of DriveLatch for TLC.                                        *)
(***************************************************************************)
EXTENDS DriveLatch
=============================================================================
