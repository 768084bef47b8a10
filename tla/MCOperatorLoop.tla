---------------------------- MODULE MCOperatorLoop ----------------------------
(***************************************************************************)
(* Instance of OperatorLoop for TLC: two nodes, the outer one first.       *)
(***************************************************************************)
EXTENDS OperatorLoop, TLC

TwoNodes == <<2, 1>>
================================================================================
