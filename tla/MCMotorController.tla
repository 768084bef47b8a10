-------------------------- MODULE MCMotorController --------------------------
(***************************************************************************)
(* Instances of MotorController for TLC.                                   *)
(***************************************************************************)
EXTENDS MotorController
=============================================================================
