------------------------------ MODULE MCScanPool ------------------------------
(* ScanPool on small sets. *)
EXTENDS ScanPool
===============================================================================
