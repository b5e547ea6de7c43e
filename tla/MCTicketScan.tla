---------------------------- MODULE MCTicketScan ----------------------------
(* TicketScan on small sets.  Scan requests are interchangeable, and so    *)
(* are staff members and devices.                                          *)
EXTENDS TicketScan, TLC

Symmetry == Permutations(Scanners) \cup Permutations(Staff) \cup Permutations(Devices)
=============================================================================
