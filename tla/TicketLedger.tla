----------------------------- MODULE TicketLedger -----------------------------
(***************************************************************************)
(* What provisioning promises of the tickets of an event: issued once,     *)
(* announced, and only then made known to the invitation; withdrawn at any *)
(* time; and nothing for a guest who was let go.  No messages, handlers,   *)
(* verification entries or crashes.                                        *)
(***************************************************************************)
CONSTANTS
    Rows,         \* rows there may ever be
    Guests

VARIABLES
    tickets,      \* rows that are valid
    created,      \* rows ever issued
    milestones,   \* rows that were announced
    links,        \* who was linked to which invitation
    gone          \* guests who were let go

vars == <<tickets, created, milestones, links, gone>>

Init ==
    /\ tickets    = {}
    /\ created    = {}
    /\ milestones = {}
    /\ links      = {}
    /\ gone       = {}

(* A new row for a guest who is not gone; nobody has a ticket of the same  *)
(* invitation or seat, nor the guest another one.                          *)
Issue(row) ==
    /\ row.guest \notin gone
    /\ \A other \in created : other.id # row.id
    /\ \A other \in tickets :
         /\ other.invitation # row.invitation
         /\ other.seat # row.seat
         /\ other.guest # row.guest
    /\ tickets' = tickets \cup {row}
    /\ created' = created \cup {row}
    /\ UNCHANGED <<milestones, links, gone>>

(* Also of a ticket that was withdrawn in the meantime.                    *)
Announce(row) ==
    /\ milestones' = milestones \cup {row}
    /\ UNCHANGED <<tickets, created, links, gone>>

Invite(row) ==
    /\ links' = links \cup {[invitation |-> row.invitation, guest |-> row.guest]}
    /\ UNCHANGED <<tickets, created, milestones, gone>>

(* Withdraw tickets, among them all that some guests have.                 *)
LetGo(rows, guests) ==
    /\ \A row \in tickets \ rows : row.guest \notin guests
    /\ tickets' = tickets \ rows
    /\ gone'    = gone \cup guests
    /\ UNCHANGED <<created, milestones, links>>

Next ==
    \/ \E row \in Rows : Issue(row)
    \/ \E row \in created : Announce(row)
    \/ \E row \in milestones : Invite(row)
    \/ \E rows \in SUBSET tickets, guests \in SUBSET Guests : LetGo(rows, guests)

Spec == Init /\ [][Next]_vars
===============================================================================
