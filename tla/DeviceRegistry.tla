---------------------------- MODULE DeviceRegistry ----------------------------
(***************************************************************************)
(* What the device binding of an event promises: activations and resets    *)
(* take effect one at a time and at once, as if nobody else was there,     *)
(* except that an activation may miss what those it overlapped with did to *)
(* their own tickets.                                                      *)
(***************************************************************************)
CONSTANTS Tickets, Devices, NoDevice, Keys, NoKey

VARIABLES
    device,       \* the deviceId of each ticket
    key,          \* its devicePublicKey
    boundWith     \* tickets of the activations that the one that bound it overlapped with

vars == <<device, key, boundWith>>

Init ==
    /\ device    = [t \in Tickets |-> NoDevice]
    /\ key       = [t \in Tickets |-> NoKey]
    /\ boundWith = [t \in Tickets |-> {}]

Siblings(t, d) == {u \in Tickets \ {t} : device[u] = d}

(* Bind a ticket that is unbound or has the device already, with whatever  *)
(* key the device has now, and take the device from all other tickets -    *)
(* the tickets of peers excepted.                                          *)
Activate(t, d, k, peers) ==
    /\ device[t] \in {NoDevice, d} \/ t \in peers
    /\ \E missed \in SUBSET (Siblings(t, d) \cap peers) :
         LET unbound == Siblings(t, d) \ missed
         IN  /\ device' = [u \in Tickets |->
                  IF u = t THEN d ELSE IF u \in unbound THEN NoDevice ELSE device[u]]
             /\ key' = [u \in Tickets |->
                  IF u = t THEN k ELSE IF u \in unbound THEN NoKey ELSE key[u]]
             /\ boundWith' = [u \in Tickets |->
                  IF u = t THEN peers ELSE IF u \in unbound THEN {} ELSE boundWith[u]]

Reset(t) ==
    /\ device' = [device EXCEPT ![t] = NoDevice]
    /\ key' = [key EXCEPT ![t] = NoKey]
    /\ boundWith' = [boundWith EXCEPT ![t] = {}]

Next ==
    \/ \E t \in Tickets : Reset(t)
    \/ \E t \in Tickets, d \in Devices, k \in Keys :
         \E peers \in SUBSET Tickets : Activate(t, d, k, peers)

Spec == Init /\ [][Next]_vars
===============================================================================
