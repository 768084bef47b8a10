------------------------- MODULE MCControlProtocol -------------------------
(***************************************************************************)
(* Instance of ControlProtocol for TLC.                                    *)
(***************************************************************************)
EXTENDS ControlProtocol, TLC

CONSTANTS s1, s2

\* Unrelated clock origins: the receiver is behind the one, before the other.
TwoOrigins == (s1 :> -7 @@ s2 :> 2)

\* The second session pushes the first out of the table and lets it back in.
ThreeAndTwo == (s1 :> 3 @@ s2 :> 2)
=============================================================================
