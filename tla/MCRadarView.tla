----------------------------- MODULE MCRadarView -----------------------------
(***************************************************************************)
(* Instance of RadarView for TLC: an object at 8 cm or at 12 cm, a second  *)
(* one behind it at 20 cm, a near heatmap cell, an empty frame, and a      *)
(* frame that the clutter model does not fit.                              *)
(***************************************************************************)
EXTENDS RadarView, TLC

Sees(points, heat, bound) == [points |-> points, heat |-> heat, bound |-> bound]
NearestFirst ==
  {Sees(<<8>>, <<>>, TRUE), Sees(<<12>>, <<>>, TRUE), Sees(<<8, 20>>, <<>>, TRUE),
   Sees(<<20>>, <<10>>, TRUE), Sees(<<>>, <<>>, TRUE), Sees(<<8>>, <<>>, FALSE)}
================================================================================
