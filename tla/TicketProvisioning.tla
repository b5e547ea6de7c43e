-------------------------- MODULE TicketProvisioning --------------------------
(***************************************************************************)
(* Tickets come and go by Kafka: SeatHandler.handleCreateTicket and        *)
(* TicketWriteService.createTicket make the ticket of an invitation,       *)
(* announce it and link the guest; EventHandler and AuthenticationHandler  *)
(* delete the tickets of an event or a guest.  Handlers run on several     *)
(* instances; a message whose handler fails, or whose acknowledgement is   *)
(* lost, is delivered again.  One action per call to Valkey, the database  *)
(* or Kafka.  All tickets are of one event.                                *)
(***************************************************************************)
EXTENDS Naturals, FiniteSets

CONSTANTS
    Messages,     \* ticket.create messages, with the seat their token maps to in Valkey
    Guests,
    Handlers,     \* handlers of ticket.create at work, over all instances
    NoMessage,
    NoTicket,
    MaxTickets,   \* bound: tickets ever created
    MaxDeletions  \* bound: deletion messages handled

ASSUME MessagesAssumption == \A m \in Messages : m.guest \in Guests
ASSUME HandlersAssumption == IsFiniteSet(Handlers)
ASSUME BoundsAssumption   == MaxTickets \in Nat /\ MaxDeletions \in Nat

VARIABLES
    tickets,      \* the rows
    verified,     \* messages whose verification state is still in Valkey
    milestones,   \* TICKET_GENERATED milestones sent: the tickets they name
    links,        \* invitation.addGuestId messages sent
    pc,           \* where each handler stands
    message,      \* the message it handles
    ticket,       \* the ticket it has found or created
    doomed,       \* tickets the deletion at work has read; {} if there is none
    deletions,    \* deletions so far
    created,      \* history: every row ever created
    finished,     \* history: messages whose handler returned
    late,         \* history: how often each id was announced after its row was gone
    closing,      \* history: guests the deletion at work found closed (see Closed)
    gone          \* history: guests a deletion has found closed and has committed

handler == <<pc, message, ticket>>
history == <<created, finished, late, closing, gone>>
vars    == <<tickets, verified, milestones, links, handler, doomed, deletions, history>>

-------------------------------------------------------------------------------
Link(m) == [invitation |-> m.invitation, guest |-> m.guest]

Invitations == {m.invitation : m \in Messages}
Seats       == {m.seat : m \in Messages}

Ticket == [id : Nat, invitation : Invitations, guest : Guests, seat : Seats]

Stages == {"idle", "verify", "find", "create", "milestone", "link"}

NewTicket(m) == [id |-> Cardinality(created) + 1, invitation |-> m.invitation,
                 guest |-> m.guest, seat |-> m.seat]

Matches(row, m) ==
    row.invitation = m.invitation /\ row.guest = m.guest /\ row.seat = m.seat

(* The unique constraints of the table. *)
Unconstrained(m) == TRUE
Unique(m) ==
    \A row \in tickets :
        row.invitation # m.invitation /\ row.seat # m.seat /\ row.guest # m.guest

-------------------------------------------------------------------------------
Init ==
    /\ tickets    = {}
    /\ verified   = Messages
    /\ milestones = {}
    /\ links      = {}
    /\ pc         = [h \in Handlers |-> "idle"]
    /\ message    = [h \in Handlers |-> NoMessage]
    /\ ticket     = [h \in Handlers |-> NoTicket]
    /\ doomed     = {}
    /\ deletions  = 0
    /\ created    = {}
    /\ finished   = {}
    /\ late       = [i \in 1..MaxTickets |-> 0]
    /\ closing    = {}
    /\ gone       = {}

-------------------------------------------------------------------------------
(* handleCreateTicket. *)

Goto(h, stage) == pc' = [pc EXCEPT ![h] = stage]

Rest(h) ==
    /\ Goto(h, "idle")
    /\ message' = [message EXCEPT ![h] = NoMessage]
    /\ ticket'  = [ticket EXCEPT ![h] = NoTicket]

(* Kafka delivers a message, for the first time or again. *)
Deliver(h) ==
    /\ pc[h] = "idle"
    /\ \E m \in Messages : message' = [message EXCEPT ![h] = m]
    /\ Goto(h, "verify")
    /\ UNCHANGED <<tickets, verified, milestones, links, ticket, doomed, deletions, history>>

TrustToken(h) ==               \* the seat is not asked of Valkey
    /\ pc[h] = "verify"
    /\ Goto(h, "find")
    /\ UNCHANGED <<tickets, verified, milestones, links, message, ticket, doomed,
                   deletions, history>>

(* The token's entry in Valkey gives the seat of the invitation. *)
Verify(h) ==
    /\ pc[h] = "verify"
    /\ message[h] \in verified
    /\ Goto(h, "find")
    /\ UNCHANGED <<tickets, verified, milestones, links, message, ticket, doomed,
                   deletions, history>>

RefuseToken(h) ==
    /\ pc[h] = "verify"
    /\ message[h] \notin verified
    /\ Rest(h)
    /\ UNCHANGED <<tickets, verified, milestones, links, doomed, deletions, history>>

(* createTicket: the ticket of the invitation, if there is one. *)
SilentFindExisting(h) ==       \* a found ticket is returned as it is
    /\ pc[h] = "find"
    /\ \E row \in tickets :
         /\ Matches(row, message[h])
         /\ ticket' = [ticket EXCEPT ![h] = row]
    /\ Goto(h, "link")
    /\ UNCHANGED <<tickets, verified, milestones, links, message, doomed, deletions, history>>

FindByInvitation(h) ==         \* without a look at guest and seat
    /\ pc[h] = "find"
    /\ \E row \in tickets :
         /\ row.invitation = message[h].invitation
         /\ ticket' = [ticket EXCEPT ![h] = row]
    /\ Goto(h, "milestone")
    /\ UNCHANGED <<tickets, verified, milestones, links, message, doomed, deletions, history>>

FindCached(h) ==               \* a ticket read before it was deleted
    /\ pc[h] = "find"
    /\ \E row \in created :
         /\ Matches(row, message[h])
         /\ ticket' = [ticket EXCEPT ![h] = row]
    /\ Goto(h, "milestone")
    /\ UNCHANGED <<tickets, verified, milestones, links, message, doomed, deletions, history>>

FindExisting(h) ==
    /\ pc[h] = "find"
    /\ \E row \in tickets :
         /\ Matches(row, message[h])
         /\ ticket' = [ticket EXCEPT ![h] = row]
    /\ Goto(h, "milestone")
    /\ UNCHANGED <<tickets, verified, milestones, links, message, doomed, deletions, history>>

FindNone(h) ==
    /\ pc[h] = "find"
    /\ \A row \in tickets : row.invitation # message[h].invitation
    /\ Goto(h, "create")
    /\ UNCHANGED <<tickets, verified, milestones, links, message, ticket, doomed,
                   deletions, history>>

(* The ticket of the invitation has another guest or seat. *)
RefuseConflict(h) ==
    /\ pc[h] = "find"
    /\ \E row \in tickets : row.invitation = message[h].invitation /\ ~Matches(row, message[h])
    /\ Rest(h)
    /\ UNCHANGED <<tickets, verified, milestones, links, doomed, deletions, history>>

(* The row, with the fact of it in the outbox, in one transaction. *)
Create(h) ==
    LET new == NewTicket(message[h])
    IN  /\ pc[h] = "create"
        /\ Unique(message[h])
        /\ Cardinality(created) < MaxTickets
        /\ tickets' = tickets \cup {new}
        /\ created' = created \cup {new}
        /\ ticket'  = [ticket EXCEPT ![h] = new]
        /\ Goto(h, "milestone")
        /\ UNCHANGED <<verified, milestones, links, message, doomed, deletions,
                       finished, late, closing, gone>>

CreateFails(h) ==
    /\ pc[h] = "create"
    /\ ~Unique(message[h])
    /\ Rest(h)
    /\ UNCHANGED <<tickets, verified, milestones, links, doomed, deletions, history>>

SendMilestone(h) ==
    /\ pc[h] = "milestone"
    /\ milestones' = milestones \cup {ticket[h]}
    /\ late' = IF ticket[h] \in tickets THEN late ELSE [late EXCEPT ![ticket[h].id] = @ + 1]
    /\ Goto(h, "link")
    /\ UNCHANGED <<tickets, verified, links, message, ticket, doomed, deletions,
                   created, finished, closing, gone>>

(* The last call: the handler returns. *)
SendLink(h) ==
    /\ pc[h] = "link"
    /\ links' = links \cup {Link(message[h])}
    /\ finished' = finished \cup {message[h]}
    /\ Rest(h)
    /\ UNCHANGED <<tickets, verified, milestones, doomed, deletions, created, late,
                   closing, gone>>

(* A call fails or the instance stops; Kafka delivers the message again.   *)
Fail(h) ==
    /\ pc[h] # "idle"
    /\ Rest(h)
    /\ UNCHANGED <<tickets, verified, milestones, links, doomed, deletions, history>>

-------------------------------------------------------------------------------
(* deleteByEventIds and deleteByGuestId: one transaction that reads the    *)
(* tickets and then deletes what it has read.                              *)

(* No handler can get past the verification of a guest's messages: none of *)
(* their entries is left and no handler has read one.                      *)
Closed(g) ==
    /\ \A m \in verified : m.guest # g
    /\ \A h \in Handlers : pc[h] \notin {"idle", "verify"} => message[h].guest # g

(* Without tickets to delete the deletion is over at once.                 *)
ReadDoomed ==
    /\ doomed = {}
    /\ deletions < MaxDeletions
    /\ deletions' = deletions + 1
    /\ \E scope \in {Guests} \cup {{g} : g \in Guests} :
         LET found == {row \in tickets : row.guest \in scope}
             shut  == {g \in scope : Closed(g)}
         IN  /\ doomed'  = found
             /\ closing' = IF found = {} THEN {} ELSE shut
             /\ gone'    = IF found = {} THEN gone \cup shut ELSE gone
    /\ UNCHANGED <<tickets, verified, milestones, links, handler, created, finished, late>>

DeleteDoomed ==
    /\ doomed # {}
    /\ tickets' = tickets \ doomed
    /\ doomed' = {}
    /\ gone' = gone \cup closing
    /\ closing' = {}
    /\ UNCHANGED <<verified, milestones, links, handler, deletions, created, finished, late>>

RollbackDeletion ==
    /\ doomed # {}
    /\ doomed' = {}
    /\ closing' = {}
    /\ UNCHANGED <<tickets, verified, milestones, links, handler, deletions, created,
                   finished, late, gone>>

(* Valkey drops the verification state when its time is over. *)
Expire(m) ==
    /\ verified' = verified \ {m}
    /\ UNCHANGED <<tickets, milestones, links, handler, doomed, deletions, history>>

-------------------------------------------------------------------------------
HandlerStep(h) ==
    \/ Deliver(h) \/ Verify(h) \/ RefuseToken(h) \/ FindExisting(h) \/ FindNone(h)
    \/ RefuseConflict(h) \/ Create(h) \/ CreateFails(h) \/ SendMilestone(h)
    \/ SendLink(h) \/ Fail(h)

Next ==
    \/ \E h \in Handlers : HandlerStep(h)
    \/ ReadDoomed \/ DeleteDoomed \/ RollbackDeletion
    \/ \E m \in verified : Expire(m)

Spec == Init /\ [][Next]_vars

-------------------------------------------------------------------------------
(* Properties. *)

(* Every variable holds values of its type; a handler has a message while  *)
(* it runs and a ticket of it from the milestone on; ids are unique.       *)
TypeOK ==
    /\ tickets    \subseteq created
    /\ created    \subseteq Ticket
    /\ verified   \subseteq Messages
    /\ milestones \subseteq created
    /\ links      \subseteq [invitation : Invitations, guest : Guests]
    /\ pc         \in [Handlers -> Stages]
    /\ message    \in [Handlers -> Messages \cup {NoMessage}]
    /\ ticket     \in [Handlers -> created \cup {NoTicket}]
    /\ doomed     \subseteq created
    /\ deletions  \in 0..MaxDeletions
    /\ finished   \subseteq Messages
    /\ late       \in [1..MaxTickets -> Nat]
    /\ closing    \subseteq Guests
    /\ gone       \subseteq Guests
    /\ \A h \in Handlers :
         /\ pc[h] # "idle" => message[h] \in Messages
         /\ pc[h] \in {"milestone", "link"} =>
              ticket[h] \in created /\ Matches(ticket[h], message[h])
    /\ \A a, b \in created : a.id = b.id => a = b

(* At least once, across crashes between commit, milestone and link and    *)
(* across concurrent deliveries: when the handler of a message has         *)
(* returned, a ticket as it asks for was created and announced, and the    *)
(* guest was linked to the invitation.                                     *)
FinishedMeansAnnounced ==
    \A m \in finished :
        /\ \E row \in milestones : Matches(row, m)
        /\ Link(m) \in links

(* Idempotence: one invitation gets a second ticket, and with it another   *)
(* milestone id, only after the first one was deleted.                     *)
OneTicketAtATime ==
    \A a, b \in created :
        a.invitation = b.invitation /\ a # b => a \notin tickets \/ b \notin tickets

(* No guest is linked to an invitation whose ticket went to someone else:  *)
(* of two messages that disagree about an invitation, the second to arrive *)
(* finishes only after the ticket of the first was deleted.                *)
LinkedGuestsHadTheTicket ==
    \A l, k \in links :
        l.invitation = k.invitation /\ l # k =>
            \E row \in created \ tickets :
                row.invitation = l.invitation /\ row.guest \in {l.guest, k.guest}

(* Deletions last: messages come again without end, but a guest whose      *)
(* verification entries were gone, and of whom no handler was at work past *)
(* the verification, when a deletion read their tickets, has no ticket     *)
(* after it - also if the deletion raced with handlers of other guests.    *)
DeletionLasts == \A row \in tickets : row.guest \notin gone

(* A deletion may overtake a handler between its find or create and its    *)
(* milestone, which then announces a ticket that is gone; redelivery does  *)
(* not repeat that: no ticket is announced after its end more often than   *)
(* there are handlers to be overtaken.                                     *)
FewLateMilestones == \A i \in 1..MaxTickets : late[i] <= Cardinality(Handlers)

(* The ledger: whatever is delivered again, raced for or lost, tickets are *)
(* issued, announced, linked and withdrawn as TicketLedger says.           *)
Ledger == INSTANCE TicketLedger WITH
    Rows <- [id : 1..MaxTickets, invitation : Invitations, guest : Guests, seat : Seats]

ImplementsLedger == Ledger!Spec
===============================================================================
