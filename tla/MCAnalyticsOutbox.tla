-------------------------- MODULE MCAnalyticsOutbox --------------------------
(* AnalyticsOutbox on small sets.  No symmetry: the run checks liveness.   *)
EXTENDS AnalyticsOutbox
=============================================================================
