------------------------------- MODULE Admission -------------------------------
(***************************************************************************)
(* What the gate promises of each ticket, whoever runs at the same time:   *)
(* one step for each committed change of a ticket row.  No scans in        *)
(* flight, no tokens, no snapshots, no replay keys: a guest passes, staff  *)
(* set the presence, a ticket is revoked or deleted.                       *)
(***************************************************************************)
EXTENDS Naturals

CONSTANT Tickets

VARIABLES
    live,         \* the ticket exists
    revoked,
    inside,       \* where the guest is taken to be
    checkedIn,    \* the guest has been inside at some time
    passes,       \* scans accepted; each has spent one nonce
    late,         \* the last of them came after the revocation
    moved         \* someone else has set the presence since the last of them

vars == <<live, revoked, inside, checkedIn, passes, late, moved>>

Init ==
    /\ live      = [t \in Tickets |-> TRUE]
    /\ revoked   = [t \in Tickets |-> FALSE]
    /\ inside    = [t \in Tickets |-> FALSE]
    /\ checkedIn = [t \in Tickets |-> FALSE]
    /\ passes    = [t \in Tickets |-> 0]
    /\ late      = [t \in Tickets |-> FALSE]
    /\ moved     = [t \in Tickets |-> FALSE]

(* A guest goes in or out: the other way than the last time unless someone *)
(* else moved them, and at most once after the revocation.                 *)
Pass(t, in) ==
    /\ live[t]
    /\ ~late[t]
    /\ in # inside[t] \/ moved[t]
    /\ inside'    = [inside EXCEPT ![t] = in]
    /\ checkedIn' = [checkedIn EXCEPT ![t] = TRUE]
    /\ passes'    = [passes EXCEPT ![t] = @ + 1]
    /\ late'      = [late EXCEPT ![t] = revoked[t]]
    /\ moved'     = [moved EXCEPT ![t] = FALSE]
    /\ UNCHANGED <<live, revoked>>

SetPresence(t, in) ==
    /\ live[t]
    /\ inside'    = [inside EXCEPT ![t] = in]
    /\ checkedIn' = [checkedIn EXCEPT ![t] = @ \/ in]
    /\ moved'     = [moved EXCEPT ![t] = TRUE]
    /\ UNCHANGED <<live, revoked, passes, late>>

Revoke(t) ==
    /\ live[t]
    /\ revoked' = [revoked EXCEPT ![t] = TRUE]
    /\ inside'  = [inside EXCEPT ![t] = FALSE]
    /\ moved'   = [moved EXCEPT ![t] = TRUE]
    /\ UNCHANGED <<live, checkedIn, passes, late>>

Delete(t) ==
    /\ live[t]
    /\ live' = [live EXCEPT ![t] = FALSE]
    /\ UNCHANGED <<revoked, inside, checkedIn, passes, late, moved>>

Next ==
    \E t \in Tickets :
        \/ \E in \in BOOLEAN : SetPresence(t, in) \/ Pass(t, in)
        \/ Revoke(t)
        \/ Delete(t)

Spec == Init /\ [][Next]_vars
===============================================================================
