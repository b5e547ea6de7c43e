----------------------------- MODULE FactDelivery -----------------------------
(***************************************************************************)
(* What the analytics outbox promises: a fact recorded by a committed      *)
(* transaction is handed to Kafka at least once or given up on; nothing    *)
(* else is handed over, and nothing counts as published that was not.      *)
(***************************************************************************)
CONSTANT Facts

VARIABLES
    recorded,     \* facts whose transaction committed
    delivered,    \* facts Kafka has at least one copy of
    published,    \* facts the service takes for published
    dead          \* facts the service has given up on

vars == <<recorded, delivered, published, dead>>

Init ==
    /\ recorded  = {}
    /\ delivered = {}
    /\ published = {}
    /\ dead      = {}

Record(f) ==
    /\ recorded' = recorded \cup {f}
    /\ UNCHANGED <<delivered, published, dead>>

Deliver(f) ==
    /\ f \in recorded
    /\ delivered' = delivered \cup {f}
    /\ UNCHANGED <<recorded, published, dead>>

Publish(f) ==
    /\ f \in delivered
    /\ published' = published \cup {f}
    /\ UNCHANGED <<recorded, delivered, dead>>

GiveUp(f) ==
    /\ f \in recorded
    /\ dead' = dead \cup {f}
    /\ UNCHANGED <<recorded, delivered, published>>

Next == \E f \in Facts : Record(f) \/ Deliver(f) \/ Publish(f) \/ GiveUp(f)

Spec == Init /\ [][Next]_vars
===============================================================================
