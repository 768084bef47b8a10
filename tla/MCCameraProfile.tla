--------------------------- MODULE MCCameraProfile ---------------------------
(* Instance of CameraProfile for TLC. *)
EXTENDS CameraProfile, TLC
================================================================================
