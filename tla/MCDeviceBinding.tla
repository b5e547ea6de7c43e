--------------------------- MODULE MCDeviceBinding ---------------------------
(* DeviceBinding on small sets, whose members are interchangeable. *)
EXTENDS DeviceBinding, TLC

Symmetry == Permutations(Tickets) \cup Permutations(Devices) \cup Permutations(Requests)
=============================================================================
