-------------------------- MODULE MCEventProjections --------------------------
(* EventProjections on small sets; users and handlers are interchangeable. *)
EXTENDS EventProjections, TLC

Symmetry == Permutations(Users) \cup Permutations(Handlers)
===============================================================================
