---------------------------- MODULE MCStatistics ----------------------------
(* Small instances of Statistics for TLC. *)
EXTENDS Statistics, TLC

CONSTANTS a1, a2, a3
=============================================================================
