------------------------------ MODULE MCMetrics ------------------------------
(***************************************************************************)
(* TLC instances of Metrics.                                               *)
(***************************************************************************)
EXTENDS Metrics

\* UTC, and an hour to either side of it.
LocalZones == -1..1
=============================================================================
