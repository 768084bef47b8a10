--------------------------- MODULE MCRadarSupervisor ---------------------------
(* Three process ids are an orphan of the first run and a pair of the       *)
(* second.  No symmetry: the run checks liveness too.                       *)
EXTENDS RadarSupervisor

=============================================================================
