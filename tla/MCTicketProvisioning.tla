------------------------- MODULE MCTicketProvisioning -------------------------
(* TicketProvisioning with three messages: two that disagree about the     *)
(* guest of an invitation, and one that competes with them for a guest.    *)
EXTENDS TicketProvisioning, TLC

CONSTANTS i1, i2, g1, g2, s1, s2

MCMessages ==
    {[invitation |-> i1, guest |-> g1, seat |-> s1],
     [invitation |-> i1, guest |-> g2, seat |-> s1],
     [invitation |-> i2, guest |-> g2, seat |-> s2]}

MCGuests == {g1, g2}

Symmetry == Permutations(Handlers)
===============================================================================
