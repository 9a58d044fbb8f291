-------------------------- MODULE MCStatsPublisher --------------------------
(* Instances of StatsPublisher for TLC. *)
EXTENDS StatsPublisher
=============================================================================
