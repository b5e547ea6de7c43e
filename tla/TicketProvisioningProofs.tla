----------------------- MODULE TicketProvisioningProofs -----------------------
(* Theorems of TicketProvisioning for any set of messages, any number of   *)
(* handlers, tickets and deletions.                                        *)
EXTENDS TicketProvisioning, FiniteSetTheorems, TLAPS

-------------------------------------------------------------------------------
(* Type correctness: the next id is a new one because the rows are counted. *)

Counted ==
    /\ IsFiniteSet(created)
    /\ Cardinality(created) <= MaxTickets
    /\ \A row \in created : row.id \in 1..Cardinality(created)

TypeInv == TypeOK /\ Counted

(* The clause of TypeOK about one handler. *)
Busy(h) ==
    /\ pc[h] # "idle" => message[h] \in Messages
    /\ pc[h] \in {"milestone", "link"} =>
         ticket[h] \in created /\ Matches(ticket[h], message[h])

LEMMA LinkTyped ==
    ASSUME NEW m \in Messages
    PROVE  /\ m.invitation \in Invitations /\ m.guest \in Guests /\ m.seat \in Seats
           /\ Link(m) \in [invitation : Invitations, guest : Guests]
  BY MessagesAssumption DEF Link, Invitations, Seats

LEMMA InitTyped == Init => TypeInv
  <1> SUFFICES ASSUME Init PROVE TypeInv
    OBVIOUS
  <1>1. TypeOK
    BY BoundsAssumption DEF Init, TypeOK, Stages
  <1>2. IsFiniteSet(created) /\ Cardinality(created) = 0
    BY FS_EmptySet DEF Init
  <1> QED
    BY <1>1, <1>2, BoundsAssumption DEF Init, TypeInv, Counted

(* What a handler's step that moves to a stage and leaves the rows alone   *)
(* has to show.                                                            *)
LEMMA HandlerTyped ==
    ASSUME TypeInv, NEW h \in Handlers,
           UNCHANGED <<tickets, created, doomed, deletions, closing, gone>>,
           verified' \subseteq Messages, milestones' \subseteq created,
           links' \subseteq [invitation : Invitations, guest : Guests],
           finished' \subseteq Messages, late' \in [1..MaxTickets -> Nat],
           NEW stage \in Stages, pc' = [pc EXCEPT ![h] = stage],
           NEW m \in Messages \cup {NoMessage}, message' = [message EXCEPT ![h] = m],
           NEW row \in created \cup {NoTicket}, ticket' = [ticket EXCEPT ![h] = row],
           stage # "idle" => m \in Messages,
           stage \in {"milestone", "link"} => row \in created /\ Matches(row, m)
    PROVE  TypeInv'
  <1>1. /\ pc'      \in [Handlers -> Stages]
        /\ message' \in [Handlers -> Messages \cup {NoMessage}]
        /\ ticket'  \in [Handlers -> created \cup {NoTicket}]
    BY DEF TypeInv, TypeOK
  <1>2. ASSUME NEW g \in Handlers PROVE Busy(g)'
    <2>1. CASE g = h
      <3>1. pc'[g] = stage /\ message'[g] = m /\ ticket'[g] = row
        BY <2>1 DEF TypeInv, TypeOK
      <3> QED
        BY <3>1 DEF Busy, Matches
    <2>2. CASE g # h
      <3>1. pc'[g] = pc[g] /\ message'[g] = message[g] /\ ticket'[g] = ticket[g]
        BY <2>2 DEF TypeInv, TypeOK
      <3>2. Busy(g)
        BY DEF TypeInv, TypeOK, Busy
      <3> QED
        BY <3>1, <3>2 DEF Busy, Matches
    <2> QED
      BY <2>1, <2>2
  <1>3. Counted'
    BY DEF TypeInv, Counted
  <1> QED
    BY <1>1, <1>2, <1>3 DEF TypeInv, TypeOK, Busy

(* Create: the new row has an id of its own. *)
LEMMA NewRow ==
    ASSUME TypeInv, NEW m \in Messages, Cardinality(created) < MaxTickets
    PROVE  LET new == NewTicket(m)
               all == created \cup {new}
           IN  /\ new \in Ticket /\ new \notin created /\ Matches(new, m)
               /\ new.id = Cardinality(created) + 1
               /\ IsFiniteSet(all) /\ Cardinality(all) = Cardinality(created) + 1
               /\ \A a, b \in all : a.id = b.id => a = b
               /\ \A row \in all : row.id \in 1..Cardinality(all)
  <1> DEFINE new == NewTicket(m)
             all == created \cup {new}
             n   == Cardinality(created)
  <1>1. n \in Nat /\ IsFiniteSet(created)
    BY FS_CardinalityType DEF TypeInv, Counted
  <1>2. new = [id |-> n + 1, invitation |-> m.invitation, guest |-> m.guest, seat |-> m.seat]
    BY DEF NewTicket
  <1>3. new \in Ticket /\ new.id = n + 1 /\ Matches(new, m)
    BY <1>1, <1>2, LinkTyped DEF Ticket, Matches
  <1>4. \A row \in created : row.id \in 1..n
    BY DEF TypeInv, Counted
  <1>5. new \notin created
    BY <1>1, <1>3, <1>4
  <1>6. IsFiniteSet(all) /\ Cardinality(all) = n + 1
    BY <1>1, <1>5, FS_AddElement
  <1>7. \A a, b \in created : a.id = b.id => a = b
    BY DEF TypeInv, TypeOK
  <1>8. \A a, b \in all : a.id = b.id => a = b
    BY <1>1, <1>3, <1>4, <1>7
  <1>9. \A row \in all : row.id \in 1..(n + 1)
    BY <1>1, <1>3, <1>4
  <1> QED
    BY <1>3, <1>5, <1>6, <1>8, <1>9

LEMMA CreateTyped ==
    ASSUME TypeInv, NEW h \in Handlers, Create(h)
    PROVE  TypeInv'
  <1> DEFINE new == NewTicket(message[h])
  <1>1. message[h] \in Messages
    BY DEF Create, TypeInv, TypeOK
  <1>2. /\ created' = created \cup {new} /\ tickets' = tickets \cup {new}
        /\ pc' = [pc EXCEPT ![h] = "milestone"] /\ message' = message
        /\ ticket' = [ticket EXCEPT ![h] = new]
        /\ Cardinality(created) < MaxTickets
        /\ UNCHANGED <<verified, milestones, links, doomed, deletions, finished, late,
                       closing, gone>>
    BY DEF Create, Goto
  <1> HIDE DEF new
  <1>3. /\ new \in Ticket /\ Matches(new, message[h])
        /\ IsFiniteSet(created') /\ Cardinality(created') = Cardinality(created) + 1
        /\ \A a, b \in created' : a.id = b.id => a = b
        /\ \A row \in created' : row.id \in 1..Cardinality(created')
    BY <1>1, <1>2, NewRow DEF new
  <1>4. Cardinality(created) \in Nat
    BY FS_CardinalityType DEF TypeInv, Counted
  <1>5. Counted'
    <2>1. Cardinality(created') <= MaxTickets
      BY <1>2, <1>3, <1>4, BoundsAssumption
    <2> QED
      BY <1>3, <2>1 DEF Counted
  <1>6. /\ pc'      \in [Handlers -> Stages]
        /\ message' \in [Handlers -> Messages \cup {NoMessage}]
        /\ ticket'  \in [Handlers -> created' \cup {NoTicket}]
    BY <1>2 DEF TypeInv, TypeOK, Stages
  <1>7. ASSUME NEW g \in Handlers PROVE Busy(g)'
    <2>1. CASE g = h
      <3>1. pc'[g] = "milestone" /\ message'[g] = message[h] /\ ticket'[g] = new
        BY <1>2, <2>1 DEF TypeInv, TypeOK
      <3> QED
        BY <1>1, <1>2, <1>3, <3>1 DEF Busy, Matches
    <2>2. CASE g # h
      <3>1. pc'[g] = pc[g] /\ message'[g] = message[g] /\ ticket'[g] = ticket[g]
        BY <1>2, <2>2 DEF TypeInv, TypeOK
      <3>2. Busy(g)
        BY DEF TypeInv, TypeOK, Busy
      <3> QED
        BY <1>2, <3>1, <3>2 DEF Busy, Matches
    <2> QED
      BY <2>1, <2>2
  <1>8. /\ tickets' \subseteq created' /\ created' \subseteq Ticket
        /\ milestones' \subseteq created' /\ doomed' \subseteq created'
    BY <1>2, <1>3 DEF TypeInv, TypeOK
  <1> QED
    BY <1>2, <1>3, <1>5, <1>6, <1>7, <1>8 DEF TypeInv, TypeOK, Busy

LEMMA StepTyped == ASSUME TypeInv, [Next]_vars PROVE TypeInv'
  <1> USE DEF Stages
  <1>1. ASSUME NEW h \in Handlers, HandlerStep(h) PROVE TypeInv'
    <2>1. CASE Deliver(h)
      <3>1. PICK m \in Messages : message' = [message EXCEPT ![h] = m]
        BY <2>1 DEF Deliver
      <3>2. ticket' = [ticket EXCEPT ![h] = ticket[h]]
        BY <2>1 DEF Deliver, TypeInv, TypeOK
      <3> QED
        BY <2>1, <3>1, <3>2, HandlerTyped DEF Deliver, Goto, history, TypeInv, TypeOK
    <2>2. CASE Verify(h) \/ FindNone(h)
      <3>1. /\ ticket' = [ticket EXCEPT ![h] = ticket[h]]
            /\ message' = [message EXCEPT ![h] = message[h]]
            /\ message[h] \in Messages
        BY <2>2 DEF Verify, FindNone, TypeInv, TypeOK
      <3>2. PICK stage \in {"find", "create"} : pc' = [pc EXCEPT ![h] = stage]
        BY <2>2 DEF Verify, FindNone, Goto
      <3>3. UNCHANGED <<tickets, verified, milestones, links, doomed, deletions, history>>
        BY <2>2 DEF Verify, FindNone
      <3> QED
        BY <3>1, <3>2, <3>3, HandlerTyped DEF history, TypeInv, TypeOK
    <2>3. CASE FindExisting(h)
      <3>1. PICK row \in tickets :
              Matches(row, message[h]) /\ ticket' = [ticket EXCEPT ![h] = row]
        BY <2>3 DEF FindExisting
      <3>2. message' = [message EXCEPT ![h] = message[h]] /\ message[h] \in Messages
        BY <2>3 DEF FindExisting, TypeInv, TypeOK
      <3>3. row \in created
        BY DEF TypeInv, TypeOK
      <3> QED
        BY <2>3, <3>1, <3>2, <3>3, HandlerTyped DEF FindExisting, Goto, history, TypeInv, TypeOK
    <2>4. CASE RefuseToken(h) \/ RefuseConflict(h) \/ CreateFails(h) \/ Fail(h)
      <3>1. Rest(h) /\ UNCHANGED <<tickets, verified, milestones, links, doomed, deletions, history>>
        BY <2>4 DEF RefuseToken, RefuseConflict, CreateFails, Fail
      <3> QED
        BY <3>1, HandlerTyped DEF Rest, Goto, history, TypeInv, TypeOK
    <2>5. CASE Create(h)
      BY <2>5, CreateTyped
    <2>6. CASE SendMilestone(h)
      <3>1. /\ ticket' = [ticket EXCEPT ![h] = ticket[h]]
            /\ message' = [message EXCEPT ![h] = message[h]]
            /\ message[h] \in Messages /\ ticket[h] \in created /\ Matches(ticket[h], message[h])
        BY <2>6 DEF SendMilestone, TypeInv, TypeOK
      <3>2. late' \in [1..MaxTickets -> Nat]
        <4>1. late \in [1..MaxTickets -> Nat]
          BY DEF TypeInv, TypeOK
        <4>2. ASSUME NEW i \in 1..MaxTickets
              PROVE  [late EXCEPT ![i] = @ + 1] \in [1..MaxTickets -> Nat]
          <5>1. late[i] + 1 \in Nat
            BY <4>1
          <5> QED
            BY <4>1, <5>1
        <4>3. ticket[h].id \in 1..MaxTickets
          <5>1. Cardinality(created) \in Nat
            BY FS_CardinalityType DEF TypeInv, Counted
          <5> QED
            BY <3>1, <5>1, BoundsAssumption DEF TypeInv, Counted
        <4> QED
          BY <2>6, <4>1, <4>2, <4>3 DEF SendMilestone
      <3>3. milestones' \subseteq created
        BY <2>6, <3>1 DEF SendMilestone, TypeInv, TypeOK
      <3> QED
        BY <2>6, <3>1, <3>2, <3>3, HandlerTyped DEF SendMilestone, Goto, TypeInv, TypeOK
    <2>7. CASE SendLink(h)
      <3>1. message[h] \in Messages
        BY <2>7 DEF SendLink, TypeInv, TypeOK
      <3>2. links' \subseteq [invitation : Invitations, guest : Guests]
        BY <2>7, <3>1, LinkTyped DEF SendLink, TypeInv, TypeOK
      <3> QED
        BY <2>7, <3>1, <3>2, HandlerTyped DEF SendLink, Rest, Goto, TypeInv, TypeOK
    <2> QED
      BY <1>1, <2>1, <2>2, <2>3, <2>4, <2>5, <2>6, <2>7 DEF HandlerStep
  <1>2. ASSUME UNCHANGED <<milestones, links, handler, created, finished, late>>,
               tickets' \subseteq tickets, verified' \subseteq verified,
               doomed' \subseteq tickets \cup doomed, deletions' \in 0..MaxDeletions,
               closing' \subseteq Guests, gone' \subseteq Guests
        PROVE  TypeInv'
    <2>1. TypeOK'
      BY <1>2 DEF TypeInv, TypeOK, handler, Matches
    <2>2. Counted'
      BY <1>2 DEF TypeInv, Counted
    <2> QED
      BY <2>1, <2>2 DEF TypeInv
  <1>3. CASE ReadDoomed
    <2>1. PICK scope \in {Guests} \cup {{g} : g \in Guests} :
            LET found == {row \in tickets : row.guest \in scope}
                shut  == {g \in scope : Closed(g)}
            IN  /\ doomed'  = found
                /\ closing' = IF found = {} THEN {} ELSE shut
                /\ gone'    = IF found = {} THEN gone \cup shut ELSE gone
      BY <1>3 DEF ReadDoomed
    <2>2. scope \subseteq Guests
      OBVIOUS
    <2>3. closing' \subseteq Guests /\ gone' \subseteq Guests
      BY <2>1, <2>2 DEF TypeInv, TypeOK
    <2>4. deletions' \in 0..MaxDeletions
      BY <1>3, BoundsAssumption DEF ReadDoomed, TypeInv, TypeOK
    <2>5. doomed' \subseteq tickets
      BY <2>1
    <2> QED
      BY <1>2, <1>3, <2>3, <2>4, <2>5 DEF ReadDoomed
  <1>4. CASE DeleteDoomed
    BY <1>2, <1>4 DEF DeleteDoomed, TypeInv, TypeOK
  <1>5. CASE RollbackDeletion
    BY <1>2, <1>5 DEF RollbackDeletion, TypeInv, TypeOK
  <1>6. ASSUME NEW m \in verified, Expire(m) PROVE TypeInv'
    BY <1>2, <1>6 DEF Expire, history, TypeInv, TypeOK
  <1>7. CASE UNCHANGED vars
    BY <1>2, <1>7 DEF vars, history, TypeInv, TypeOK
  <1> QED
    BY <1>1, <1>3, <1>4, <1>5, <1>6, <1>7 DEF Next

LEMMA Typed == Spec => []TypeInv
  BY InitTyped, StepTyped, PTL DEF Spec

(* Rows, handlers and messages sent keep their types; ids are unique.      *)
THEOREM ProvisioningTypeCorrect == Spec => []TypeOK
  <1>1. TypeInv => TypeOK
    BY DEF TypeInv
  <1> QED
    BY <1>1, Typed, PTL

-------------------------------------------------------------------------------
(* Announcement: a handler at its last call has announced its ticket. *)

AnnouncedBeforeLink == \A h \in Handlers : pc[h] = "link" => ticket[h] \in milestones

AnnounceInv == TypeInv /\ AnnouncedBeforeLink /\ FinishedMeansAnnounced

LEMMA AnnounceInit == Init => AnnouncedBeforeLink /\ FinishedMeansAnnounced
  BY DEF Init, AnnouncedBeforeLink, FinishedMeansAnnounced

LEMMA AnnounceStep == ASSUME AnnounceInv, [Next]_vars PROVE AnnounceInv'
  <1> USE DEF AnnounceInv, TypeInv, TypeOK
  <1>1. TypeInv'
    BY StepTyped
  <1>2. AnnouncedBeforeLink'
    <2> SUFFICES ASSUME NEW g \in Handlers, pc'[g] = "link" PROVE ticket'[g] \in milestones'
      BY DEF AnnouncedBeforeLink
    <2>1. milestones \subseteq milestones'
      BY DEF Next, HandlerStep, Deliver, Verify, RefuseToken, FindExisting, FindNone,
             RefuseConflict, Create, CreateFails, SendMilestone, SendLink, Fail, ReadDoomed,
             DeleteDoomed, RollbackDeletion, Expire, vars
    <2>2. CASE pc'[g] = pc[g] /\ ticket'[g] = ticket[g]
      BY <2>1, <2>2 DEF AnnouncedBeforeLink
    <2>3. ASSUME NEW h \in Handlers, HandlerStep(h) PROVE ticket'[g] \in milestones'
      <3>1. CASE h = g
        <4>1. SendMilestone(h)
          BY <2>3, <3>1 DEF HandlerStep, Deliver, Verify, RefuseToken, FindExisting, FindNone,
             RefuseConflict, Create, CreateFails, SendLink, Fail, Rest, Goto
        <4> QED
          BY <3>1, <4>1 DEF SendMilestone
      <3>2. CASE h # g
        <4>1. pc'[g] = pc[g] /\ ticket'[g] = ticket[g]
          BY <2>3, <3>2 DEF HandlerStep, Deliver, Verify, RefuseToken, FindExisting, FindNone,
             RefuseConflict, Create, CreateFails, SendMilestone, SendLink, Fail, Rest, Goto
        <4> QED
          BY <2>2, <4>1
      <3> QED
        BY <3>1, <3>2
    <2>4. CASE ~\E h \in Handlers : HandlerStep(h)
      <3>1. UNCHANGED handler
        BY <2>4 DEF Next, ReadDoomed, DeleteDoomed, RollbackDeletion, Expire, vars
      <3> QED
        BY <2>2, <3>1 DEF handler
    <2> QED
      BY <2>3, <2>4
  <1>3. FinishedMeansAnnounced'
    <2> SUFFICES ASSUME NEW m \in finished'
                 PROVE  (\E row \in milestones' : Matches(row, m)) /\ Link(m) \in links'
      BY DEF FinishedMeansAnnounced, Matches, Link
    <2>1. milestones \subseteq milestones' /\ links \subseteq links'
      BY DEF Next, HandlerStep, Deliver, Verify, RefuseToken, FindExisting, FindNone,
             RefuseConflict, Create, CreateFails, SendMilestone, SendLink, Fail, ReadDoomed,
             DeleteDoomed, RollbackDeletion, Expire, vars
    <2>2. CASE m \in finished
      BY <2>1, <2>2 DEF FinishedMeansAnnounced
    <2>3. CASE m \notin finished
      <3>1. PICK h \in Handlers : SendLink(h)
        BY <2>3 DEF Next, HandlerStep, Deliver, Verify, RefuseToken, FindExisting, FindNone,
             RefuseConflict, Create, CreateFails, SendMilestone, Fail, ReadDoomed,
             DeleteDoomed, RollbackDeletion, Expire, vars, history
      <3>2. m = message[h]
        BY <2>3, <3>1 DEF SendLink
      <3>3. ticket[h] \in milestones /\ Matches(ticket[h], m)
        BY <3>1, <3>2 DEF SendLink, AnnouncedBeforeLink
      <3> QED
        BY <2>1, <3>1, <3>2, <3>3 DEF SendLink
    <2> QED
      BY <2>2, <2>3
  <1> QED
    BY <1>1, <1>2, <1>3

LEMMA AnnounceHolds == Spec => []AnnounceInv
  <1>1. Init => AnnounceInv
    BY InitTyped, AnnounceInit DEF AnnounceInv
  <1>2. AnnounceInv /\ [Next]_vars => AnnounceInv'
    BY AnnounceStep
  <1> QED
    BY <1>1, <1>2, PTL DEF Spec

(* At least once: whatever is redelivered, crashes or is deleted, the      *)
(* handler of a message returns only when a ticket as it asks for has been *)
(* announced and the guest is linked.                                      *)
THEOREM AnnouncedOnFinish == Spec => []FinishedMeansAnnounced
  <1>1. AnnounceInv => FinishedMeansAnnounced
    BY DEF AnnounceInv
  <1> QED
    BY <1>1, AnnounceHolds, PTL

-------------------------------------------------------------------------------
(* One ticket at a time: the unique constraints keep the row of an         *)
(* invitation alone, and a deleted row never comes back.                   *)

LEMMA RowsStep ==
    ASSUME TypeInv, [Next]_vars
    PROVE  \/ created' = created /\ tickets' \subseteq tickets
           \/ \E h \in Handlers : Create(h)
  BY DEF Next, HandlerStep, Deliver, Verify, RefuseToken, FindExisting, FindNone,
         RefuseConflict, CreateFails, SendMilestone, SendLink, Fail, ReadDoomed,
         DeleteDoomed, RollbackDeletion, Expire, vars, history

LEMMA OneTicketStep ==
    ASSUME TypeInv, OneTicketAtATime, [Next]_vars
    PROVE  OneTicketAtATime'
  <1>1. CASE created' = created /\ tickets' \subseteq tickets
    BY <1>1 DEF OneTicketAtATime
  <1>2. ASSUME NEW h \in Handlers, Create(h) PROVE OneTicketAtATime'
    <2> DEFINE new == NewTicket(message[h])
    <2>1. message[h] \in Messages /\ Cardinality(created) < MaxTickets /\ Unique(message[h])
      BY <1>2 DEF Create, TypeInv, TypeOK
    <2>2. created' = created \cup {new} /\ tickets' = tickets \cup {new}
      BY <1>2 DEF Create
    <2> HIDE DEF new
    <2>3. new \notin created /\ Matches(new, message[h])
      BY <2>1, NewRow DEF new
    <2>4. \A row \in tickets : row.invitation # new.invitation
      BY <2>1, <2>3 DEF Unique, Matches
    <2>5. tickets \subseteq created
      BY DEF TypeInv, TypeOK
    <2> QED
      BY <2>2, <2>3, <2>4, <2>5 DEF OneTicketAtATime
  <1> QED
    BY <1>1, <1>2, RowsStep

(* Concurrent and repeated messages give an invitation a second ticket     *)
(* only after the first one was deleted.                                   *)
THEOREM OneAtATime == Spec => []OneTicketAtATime
  <1>1. Init => OneTicketAtATime
    BY DEF Init, OneTicketAtATime
  <1>2. TypeInv /\ OneTicketAtATime /\ [Next]_vars => OneTicketAtATime'
    BY OneTicketStep
  <1> QED
    BY <1>1, <1>2, Typed, PTL DEF Spec

-------------------------------------------------------------------------------
(* Links: every link goes back to a ticket of its guest, and two guests of *)
(* one invitation had two tickets of it, one after the other.              *)

LinksHadTickets ==
    \A l \in links :
        \E row \in created : row.invitation = l.invitation /\ row.guest = l.guest

LEMMA LinksStep ==
    ASSUME TypeInv, LinksHadTickets, [Next]_vars
    PROVE  LinksHadTickets'
  <1> SUFFICES ASSUME NEW l \in links'
               PROVE  \E row \in created' : row.invitation = l.invitation /\ row.guest = l.guest
    BY DEF LinksHadTickets
  <1>1. created \subseteq created'
    BY RowsStep DEF Create
  <1>2. CASE l \in links
    BY <1>1, <1>2 DEF LinksHadTickets
  <1>3. CASE l \notin links
    <2>1. PICK h \in Handlers : SendLink(h)
      BY <1>3 DEF Next, HandlerStep, Deliver, Verify, RefuseToken, FindExisting, FindNone,
             RefuseConflict, Create, CreateFails, SendMilestone, Fail, ReadDoomed,
             DeleteDoomed, RollbackDeletion, Expire, vars
    <2>2. l = Link(message[h])
      BY <1>3, <2>1 DEF SendLink
    <2>3. ticket[h] \in created /\ Matches(ticket[h], message[h])
      BY <2>1 DEF SendLink, TypeInv, TypeOK
    <2> QED
      BY <1>1, <2>2, <2>3 DEF Link, Matches
  <1> QED
    BY <1>2, <1>3

(* No guest is linked to an invitation whose ticket went to someone else,  *)
(* unless the ticket of one of them was deleted.                           *)
THEOREM LinkedHadTicket == Spec => []LinkedGuestsHadTheTicket
  <1>1. Init => LinksHadTickets
    BY DEF Init, LinksHadTickets
  <1>2. TypeInv /\ LinksHadTickets /\ [Next]_vars => LinksHadTickets'
    BY LinksStep
  <1>3. TypeInv /\ LinksHadTickets /\ OneTicketAtATime => LinkedGuestsHadTheTicket
    <2> SUFFICES ASSUME TypeInv, LinksHadTickets, OneTicketAtATime,
                        NEW l \in links, NEW k \in links,
                        l.invitation = k.invitation, l # k
                 PROVE  \E row \in created \ tickets :
                          row.invitation = l.invitation /\ row.guest \in {l.guest, k.guest}
      BY DEF LinkedGuestsHadTheTicket
    <2>1. PICK a \in created : a.invitation = l.invitation /\ a.guest = l.guest
      BY DEF LinksHadTickets
    <2>2. PICK b \in created : b.invitation = k.invitation /\ b.guest = k.guest
      BY DEF LinksHadTickets
    <2>3. l.guest # k.guest
      BY DEF TypeInv, TypeOK
    <2>4. a # b
      BY <2>1, <2>2, <2>3
    <2>5. a \notin tickets \/ b \notin tickets
      BY <2>1, <2>2, <2>4 DEF OneTicketAtATime
    <2> QED
      BY <2>1, <2>2, <2>5
  <1> QED
    BY <1>1, <1>2, <1>3, Typed, OneAtATime, PTL DEF Spec

-------------------------------------------------------------------------------
(* Deletions: a guest found closed stays closed, and the deletion at work  *)
(* has read all tickets of the guests it found closed.                     *)

StillClosed  == \A g \in gone \cup closing : Closed(g)
ClosedDoomed == \A row \in tickets : row.guest \in closing => row \in doomed

DeletionInv == TypeInv /\ StillClosed /\ ClosedDoomed /\ DeletionLasts

LEMMA ClosedForGood ==
    ASSUME TypeInv, [Next]_vars, NEW g \in Guests, Closed(g)
    PROVE  Closed(g)'
  <1>1. verified' \subseteq verified
    BY DEF Next, HandlerStep, Deliver, Verify, RefuseToken, FindExisting, FindNone,
           RefuseConflict, Create, CreateFails, SendMilestone, SendLink, Fail, ReadDoomed,
           DeleteDoomed, RollbackDeletion, Expire, vars
  <1>2. ASSUME NEW o \in Handlers, pc'[o] \notin {"idle", "verify"}
        PROVE  message'[o].guest # g
    <2>1. CASE pc'[o] = pc[o] /\ message'[o] = message[o]
      BY <1>2, <2>1 DEF Closed
    <2>2. ASSUME NEW h \in Handlers, HandlerStep(h) PROVE message'[o].guest # g
      <3>1. CASE h # o
        <4>1. pc'[o] = pc[o] /\ message'[o] = message[o]
          BY <2>2, <3>1 DEF HandlerStep, Deliver, Verify, RefuseToken, FindExisting, FindNone,
             RefuseConflict, Create, CreateFails, SendMilestone, SendLink, Fail, Rest, Goto,
             TypeInv, TypeOK
        <4> QED
          BY <2>1, <4>1
      <3>2. CASE h = o /\ Verify(h)
        <4>1. message'[o] = message[o] /\ message[o] \in verified
          BY <3>2 DEF Verify
        <4> QED
          BY <4>1 DEF Closed
      <3>3. CASE h = o /\ ~Verify(h)
        <4>1. message'[o] = message[o] /\ pc[o] \notin {"idle", "verify"}
          BY <1>2, <2>2, <3>3 DEF HandlerStep, Deliver, RefuseToken, FindExisting, FindNone,
             RefuseConflict, Create, CreateFails, SendMilestone, SendLink, Fail, Rest, Goto,
             TypeInv, TypeOK
        <4> QED
          BY <4>1 DEF Closed
      <3> QED
        BY <3>1, <3>2, <3>3
    <2>3. CASE ~\E h \in Handlers : HandlerStep(h)
      <3>1. UNCHANGED handler
        BY <2>3 DEF Next, ReadDoomed, DeleteDoomed, RollbackDeletion, Expire, vars
      <3> QED
        BY <2>1, <3>1 DEF handler
    <2> QED
      BY <2>2, <2>3
  <1> QED
    BY <1>1, <1>2 DEF Closed

LEMMA DeletionStep == ASSUME DeletionInv, [Next]_vars PROVE DeletionInv'
  <1> USE DEF DeletionInv
  <1>1. TypeInv'
    BY StepTyped
  <1>2. ASSUME gone' \cup closing' \subseteq gone \cup closing PROVE StillClosed'
    BY <1>2, ClosedForGood DEF StillClosed, TypeInv, TypeOK
  <1>3. CASE ReadDoomed
    <2>1. PICK scope \in {Guests} \cup {{g} : g \in Guests} :
            LET found == {row \in tickets : row.guest \in scope}
                shut  == {g \in scope : Closed(g)}
            IN  /\ doomed'  = found
                /\ closing' = IF found = {} THEN {} ELSE shut
                /\ gone'    = IF found = {} THEN gone \cup shut ELSE gone
      BY <1>3 DEF ReadDoomed
    <2> DEFINE found == {row \in tickets : row.guest \in scope}
               shut  == {g \in scope : Closed(g)}
    <2>2. gone' \subseteq gone \cup shut /\ closing' \subseteq shut /\ tickets' = tickets
      BY <1>3, <2>1 DEF ReadDoomed
    <2>3. shut \subseteq Guests
      OBVIOUS
    <2>4. StillClosed'
      <3> SUFFICES ASSUME NEW g \in gone' \cup closing' PROVE Closed(g)'
        BY DEF StillClosed
      <3>1. g \in Guests /\ Closed(g)
        BY <2>2, <2>3 DEF StillClosed, TypeInv, TypeOK
      <3> QED
        BY <3>1, ClosedForGood
    <2>5. ClosedDoomed'
      BY <2>1, <2>2 DEF ClosedDoomed
    <2>6. DeletionLasts'
      <3> SUFFICES ASSUME NEW row \in tickets' PROVE row.guest \notin gone'
        BY DEF DeletionLasts
      <3>1. row \in tickets /\ row.guest \notin gone
        BY <2>2 DEF DeletionLasts
      <3>2. CASE found = {}
        BY <2>1, <3>1, <3>2
      <3>3. CASE found # {}
        <4>1. gone' = gone
          BY <2>1, <3>3
        <4> QED
          BY <3>1, <4>1
      <3> QED
        BY <3>2, <3>3
    <2> QED
      BY <1>1, <2>4, <2>5, <2>6
  <1>4. CASE DeleteDoomed
    <2>1. tickets' = tickets \ doomed /\ gone' = gone \cup closing /\ closing' = {}
      BY <1>4 DEF DeleteDoomed
    <2>2. StillClosed'
      BY <1>2, <2>1
    <2>3. ClosedDoomed'
      BY <2>1 DEF ClosedDoomed
    <2>4. DeletionLasts'
      BY <2>1 DEF DeletionLasts, ClosedDoomed
    <2> QED
      BY <1>1, <2>2, <2>3, <2>4
  <1>5. CASE RollbackDeletion
    <2>1. tickets' = tickets /\ gone' = gone /\ closing' = {}
      BY <1>5 DEF RollbackDeletion
    <2> QED
      BY <1>1, <1>2, <2>1 DEF ClosedDoomed, DeletionLasts
  <1>6. ASSUME NEW h \in Handlers, Create(h) PROVE DeletionInv'
    <2>1. /\ tickets' = tickets \cup {NewTicket(message[h])}
          /\ UNCHANGED <<doomed, gone, closing>> /\ pc[h] = "create"
      BY <1>6 DEF Create
    <2>2. NewTicket(message[h]).guest \notin gone \cup closing
      BY <2>1 DEF StillClosed, Closed, NewTicket
    <2>3. StillClosed'
      BY <1>2, <2>1
    <2> QED
      BY <1>1, <2>1, <2>2, <2>3 DEF ClosedDoomed, DeletionLasts
  <1>7. CASE UNCHANGED <<tickets, doomed, gone, closing>>
    BY <1>1, <1>2, <1>7 DEF ClosedDoomed, DeletionLasts
  <1>8. \/ ReadDoomed \/ DeleteDoomed \/ RollbackDeletion
        \/ \E h \in Handlers : Create(h)
        \/ UNCHANGED <<tickets, doomed, gone, closing>>
    BY DEF Next, HandlerStep, Deliver, Verify, RefuseToken, FindExisting, FindNone,
           RefuseConflict, CreateFails, SendMilestone, SendLink, Fail, Expire, vars, history
  <1> QED
    BY <1>3, <1>4, <1>5, <1>6, <1>7, <1>8

LEMMA DeletionHolds == Spec => []DeletionInv
  <1>1. Init => DeletionInv
    <2> SUFFICES ASSUME Init PROVE DeletionInv
      OBVIOUS
    <2>1. TypeInv
      BY InitTyped
    <2> QED
      BY <2>1 DEF Init, DeletionInv, StillClosed, ClosedDoomed, DeletionLasts
  <1>2. DeletionInv /\ [Next]_vars => DeletionInv'
    BY DeletionStep
  <1> QED
    BY <1>1, <1>2, PTL DEF Spec

(* A deletion of a guest whose verification entries are gone, and of whom  *)
(* no handler was at work, is final, whatever messages come again.         *)
THEOREM DeletionsLast == Spec => []DeletionLasts
  <1>1. DeletionInv => DeletionLasts
    BY DEF DeletionInv
  <1> QED
    BY <1>1, DeletionHolds, PTL

-------------------------------------------------------------------------------
(* Late milestones: an id has none while its row is there, and afterwards  *)
(* each uses up one of the handlers that were about to announce it.        *)

Announcing(i) == {h \in Handlers : pc[h] = "milestone" /\ ticket[h].id = i}

LateOf(i) ==
    /\ late[i] # 0 => \E row \in created \ tickets : row.id = i
    /\ late[i] + Cardinality(Announcing(i)) <= Cardinality(Handlers)

LateInv == TypeInv /\ \A i \in 1..MaxTickets : LateOf(i)

LEMMA AnnouncingCounted ==
    ASSUME NEW S \in SUBSET Handlers
    PROVE  /\ IsFiniteSet(S) /\ Cardinality(S) \in Nat /\ Cardinality(Handlers) \in Nat
           /\ Cardinality(S) <= Cardinality(Handlers)
  BY HandlersAssumption, FS_Subset, FS_CardinalityType

LEMMA FewerAnnouncing ==
    ASSUME NEW S \in SUBSET Handlers, NEW T \in SUBSET S
    PROVE  Cardinality(T) <= Cardinality(S)
  BY AnnouncingCounted, FS_Subset

(* While nobody has announced it late, any number of handlers is fine. *)
LEMMA NotLate ==
    ASSUME TypeInv', NEW i \in 1..MaxTickets, late'[i] = 0
    PROVE  LateOf(i)'
  <1>1. Announcing(i)' \in SUBSET Handlers
    BY DEF Announcing
  <1>2. Cardinality(Announcing(i)') \in Nat /\ Cardinality(Announcing(i)') <= Cardinality(Handlers)
    BY <1>1, AnnouncingCounted
  <1>3. Cardinality(Announcing(i)') = Cardinality(Announcing(i))'
    OBVIOUS
  <1> QED
    BY <1>2, <1>3 DEF LateOf

LEMMA LateStep == ASSUME LateInv, [Next]_vars PROVE LateInv'
  <1>1. TypeInv'
    BY StepTyped DEF LateInv
  <1>2. ASSUME NEW i \in 1..MaxTickets PROVE LateOf(i)'
    <2> DEFINE S == Announcing(i)
               T == Announcing(i)'
    <2>1. S \in SUBSET Handlers /\ T \in SUBSET Handlers
      BY DEF Announcing
    <2>2. /\ Cardinality(S) \in Nat /\ Cardinality(T) \in Nat /\ Cardinality(Handlers) \in Nat
          /\ IsFiniteSet(S)
      BY <2>1, AnnouncingCounted
    <2>3. late[i] \in Nat /\ late'[i] \in Nat
      BY <1>1 DEF LateInv, TypeInv, TypeOK
    <2>4. LateOf(i)
      BY DEF LateInv
    <2>5. created \subseteq created' /\ \A row \in created \ tickets : row \notin tickets'
      <3>1. CASE created' = created /\ tickets' \subseteq tickets
        BY <3>1
      <3>2. ASSUME NEW h \in Handlers, Create(h)
            PROVE  created \subseteq created' /\ \A row \in created \ tickets : row \notin tickets'
        <4>1. message[h] \in Messages /\ Cardinality(created) < MaxTickets
          BY <3>2 DEF Create, LateInv, TypeInv, TypeOK
        <4>2. NewTicket(message[h]) \notin created
          BY <4>1, NewRow DEF LateInv
        <4> QED
          BY <3>2, <4>2 DEF Create
      <3> QED
        BY <3>1, <3>2, RowsStep DEF LateInv
    <2>6. CASE late'[i] = late[i]
      <3>1. CASE late[i] = 0
        BY <1>1, <2>6, <3>1, NotLate
      <3>2. CASE late[i] # 0
        <4>1. PICK dead \in created \ tickets : dead.id = i
          BY <2>4, <3>2 DEF LateOf
        <4>2. ASSUME NEW row \in created', row.id = i PROVE row = dead
          BY <1>1, <2>5, <4>1, <4>2 DEF TypeInv, TypeOK
        <4>3. T \subseteq S
          <5> SUFFICES ASSUME NEW h \in Handlers, pc'[h] = "milestone", ticket'[h].id = i
                       PROVE  pc[h] = "milestone" /\ ticket[h].id = i
            BY DEF Announcing
          <5>1. ticket'[h] \in created'
            BY <1>1 DEF TypeInv, TypeOK
          <5>2. ticket'[h] = dead
            BY <4>2, <5>1
          <5>3. ticket'[h] \notin tickets'
            BY <2>5, <4>1, <5>2
          <5>4. ~FindExisting(h) /\ ~Create(h)
            BY <4>1, <5>2, <5>3 DEF FindExisting, Create, LateInv, TypeInv, TypeOK
          <5>5. pc'[h] = pc[h] /\ ticket'[h] = ticket[h]
            <6>1. ASSUME NEW g \in Handlers, HandlerStep(g), g # h
                  PROVE  pc'[h] = pc[h] /\ ticket'[h] = ticket[h]
              BY <6>1 DEF HandlerStep, Deliver, Verify, RefuseToken, FindExisting, FindNone,
                 RefuseConflict, Create, CreateFails, SendMilestone, SendLink, Fail, Rest, Goto,
                 LateInv, TypeInv, TypeOK
            <6>2. ~HandlerStep(h)
              BY <5>4 DEF HandlerStep, Deliver, Verify, RefuseToken, FindNone,
                 RefuseConflict, CreateFails, SendMilestone, SendLink, Fail, Rest, Goto,
                 LateInv, TypeInv, TypeOK
            <6>3. CASE ~\E g \in Handlers : HandlerStep(g)
              BY <6>3 DEF Next, ReadDoomed, DeleteDoomed, RollbackDeletion, Expire, vars, handler
            <6> QED
              BY <6>1, <6>2, <6>3
          <5> QED
            BY <5>5
        <4>4. Cardinality(T) <= Cardinality(S)
          BY <2>1, <4>3, FewerAnnouncing
        <4>5. late'[i] + Cardinality(T) <= Cardinality(Handlers)
          BY <2>2, <2>3, <2>4, <2>6, <4>4 DEF LateOf
        <4>6. \E row \in created' \ tickets' : row.id = i
          BY <2>5, <4>1
        <4> QED
          BY <4>5, <4>6 DEF LateOf
      <3> QED
        BY <3>1, <3>2
    <2>7. CASE late'[i] # late[i]
      <3>1. PICK h \in Handlers : SendMilestone(h)
        BY <2>7 DEF Next, HandlerStep, Deliver, Verify, RefuseToken, FindExisting, FindNone,
           RefuseConflict, Create, CreateFails, SendLink, Fail, ReadDoomed,
           DeleteDoomed, RollbackDeletion, Expire, vars, history
      <3>2. /\ ticket[h] \notin tickets /\ ticket[h].id = i /\ late'[i] = late[i] + 1
            /\ ticket[h] \in created
        BY <2>7, <3>1 DEF SendMilestone, LateInv, TypeInv, TypeOK
      <3>3. h \in S
        BY <3>1, <3>2 DEF SendMilestone, Announcing
      <3>4. T \subseteq S \ {h}
        BY <3>1 DEF SendMilestone, Goto, Announcing, LateInv, TypeInv, TypeOK
      <3>5. Cardinality(S \ {h}) = Cardinality(S) - 1
        BY <2>2, <3>3, FS_RemoveElement
      <3>6. S \ {h} \in SUBSET Handlers
        BY <2>1
      <3>7. Cardinality(T) <= Cardinality(S) - 1
        BY <3>4, <3>5, <3>6, FewerAnnouncing
      <3>8. late'[i] + Cardinality(T) <= Cardinality(Handlers)
        BY <2>2, <2>3, <2>4, <3>2, <3>7 DEF LateOf
      <3>9. \E row \in created' \ tickets' : row.id = i
        BY <2>5, <3>2
      <3> QED
        BY <3>8, <3>9 DEF LateOf
    <2> QED
      BY <2>6, <2>7
  <1> QED
    BY <1>1, <1>2 DEF LateInv

(* Of a ticket that is gone there are no more milestones than handlers     *)
(* that can have been overtaken by its deletion.                           *)
THEOREM LateMilestonesFew == Spec => []FewLateMilestones
  <1>1. Init => LateInv
    <2> SUFFICES ASSUME Init, NEW i \in 1..MaxTickets PROVE LateOf(i)
      BY InitTyped DEF LateInv
    <2>1. late[i] = 0
      BY DEF Init
    <2>2. /\ Cardinality(Announcing(i)) \in Nat
          /\ Cardinality(Announcing(i)) <= Cardinality(Handlers)
      BY AnnouncingCounted DEF Announcing
    <2> QED
      BY <2>1, <2>2 DEF LateOf
  <1>2. LateInv /\ [Next]_vars => LateInv'
    BY LateStep
  <1>3. LateInv => FewLateMilestones
    <2> SUFFICES ASSUME LateInv, NEW i \in 1..MaxTickets
                 PROVE  late[i] <= Cardinality(Handlers)
      BY DEF FewLateMilestones
    <2>1. Announcing(i) \in SUBSET Handlers
      BY DEF Announcing
    <2>2. Cardinality(Announcing(i)) \in Nat /\ Cardinality(Handlers) \in Nat
      BY <2>1, AnnouncingCounted
    <2>3. late[i] \in Nat /\ late[i] + Cardinality(Announcing(i)) <= Cardinality(Handlers)
      BY DEF LateInv, LateOf, TypeInv, TypeOK
    <2> QED
      BY <2>2, <2>3
  <1> QED
    BY <1>1, <1>2, <1>3, PTL DEF Spec

-------------------------------------------------------------------------------
(* The ledger: each step of provisioning is one of TicketLedger, or none.  *)

LedgerInv == AnnounceInv /\ DeletionInv

(* Create issues: the id is new because rows are counted, the constraints  *)
(* keep invitation, seat and guest unique, and a guest who is gone has no  *)
(* handler past the verification.                                          *)
LEMMA CreateIssues ==
    ASSUME LedgerInv, NEW h \in Handlers, Create(h)
    PROVE  Ledger!Next
  <1> DEFINE new  == NewTicket(message[h])
             rows == [id : 1..MaxTickets, invitation : Invitations,
                      guest : Guests, seat : Seats]
  <1>1. /\ message[h] \in Messages /\ Cardinality(created) < MaxTickets
        /\ Unique(message[h]) /\ pc[h] = "create"
        /\ tickets' = tickets \cup {new} /\ created' = created \cup {new}
        /\ UNCHANGED <<milestones, links, gone>>
    BY DEF Create, LedgerInv, DeletionInv, TypeInv, TypeOK
  <1>2. new.guest \notin gone
    BY <1>1 DEF NewTicket, LedgerInv, DeletionInv, StillClosed, Closed
  <1>3. /\ Matches(new, message[h]) /\ new \in Ticket
        /\ new.id = Cardinality(created) + 1
    BY <1>1, NewRow DEF LedgerInv, DeletionInv
  <1>4. Cardinality(created) \in Nat
    BY FS_CardinalityType DEF LedgerInv, DeletionInv, TypeInv, Counted
  <1> HIDE DEF new
  <1>5. new \in rows
    <2>1. new.id \in 1..MaxTickets
      BY <1>1, <1>3, <1>4, BoundsAssumption
    <2> QED
      BY <1>3, <2>1 DEF Ticket
  <1>6. \A other \in created : other.id # new.id
    <2>1. \A other \in created : other.id \in 1..Cardinality(created)
      BY DEF LedgerInv, DeletionInv, TypeInv, Counted
    <2> QED
      BY <1>3, <1>4, <2>1
  <1>7. \A other \in tickets :
          other.invitation # new.invitation /\ other.seat # new.seat /\ other.guest # new.guest
    BY <1>1, <1>3 DEF Unique, Matches
  <1>8. Ledger!Issue(new)
    BY <1>1, <1>2, <1>6, <1>7 DEF Ledger!Issue
  <1> QED
    BY <1>5, <1>8 DEF Ledger!Next

(* SendLink invites: the handler has announced the ticket it names.        *)
LEMMA LinkInvites ==
    ASSUME LedgerInv, NEW h \in Handlers, SendLink(h)
    PROVE  Ledger!Next
  <1>1. ticket[h] \in milestones
    BY DEF SendLink, LedgerInv, AnnounceInv, AnnouncedBeforeLink
  <1>2. Matches(ticket[h], message[h])
    BY DEF SendLink, LedgerInv, DeletionInv, TypeInv, TypeOK
  <1>3. Link(message[h]) = [invitation |-> ticket[h].invitation, guest |-> ticket[h].guest]
    BY <1>2 DEF Link, Matches
  <1>4. Ledger!Invite(ticket[h])
    BY <1>3 DEF SendLink, Ledger!Invite
  <1> QED
    BY <1>1, <1>4 DEF Ledger!Next

(* A deletion lets go of the guests it found closed: at once if there is   *)
(* nothing to delete, at its commit otherwise.                             *)
LEMMA ReadLetsGo ==
    ASSUME LedgerInv, ReadDoomed
    PROVE  [Ledger!Next]_(Ledger!vars)
  <1>1. PICK scope \in {Guests} \cup {{g} : g \in Guests} :
          LET found == {row \in tickets : row.guest \in scope}
              shut  == {g \in scope : Closed(g)}
          IN  gone' = IF found = {} THEN gone \cup shut ELSE gone
    BY DEF ReadDoomed
  <1> DEFINE found == {row \in tickets : row.guest \in scope}
             shut  == {g \in scope : Closed(g)}
  <1>2. UNCHANGED <<tickets, created, milestones, links>>
    BY DEF ReadDoomed
  <1>3. CASE found # {}
    BY <1>1, <1>2, <1>3 DEF Ledger!vars
  <1>4. CASE found = {}
    <2>1. Ledger!LetGo({}, shut)
      BY <1>1, <1>2, <1>4 DEF Ledger!LetGo
    <2>2. shut \in SUBSET Guests /\ {} \in SUBSET tickets
      OBVIOUS
    <2> HIDE DEF shut
    <2> QED
      BY <2>1, <2>2 DEF Ledger!Next
  <1> QED
    BY <1>3, <1>4

LEMMA DeleteLetsGo ==
    ASSUME LedgerInv, DeleteDoomed
    PROVE  Ledger!Next
  <1> DEFINE rows == doomed \cap tickets
  <1>1. \A row \in tickets \ rows : row.guest \notin closing
    BY DEF LedgerInv, DeletionInv, ClosedDoomed
  <1>2. tickets' = tickets \ rows
    BY DEF DeleteDoomed
  <1>3. Ledger!LetGo(rows, closing)
    BY <1>1, <1>2 DEF DeleteDoomed, Ledger!LetGo
  <1>4. closing \in SUBSET Guests /\ rows \in SUBSET tickets
    BY DEF LedgerInv, DeletionInv, TypeInv, TypeOK
  <1> HIDE DEF rows
  <1> QED
    BY <1>3, <1>4 DEF Ledger!Next

LEMMA LedgerStep ==
    ASSUME LedgerInv, [Next]_vars
    PROVE  [Ledger!Next]_(Ledger!vars)
  <1>1. ASSUME NEW h \in Handlers, HandlerStep(h)
        PROVE  [Ledger!Next]_(Ledger!vars)
    <2>1. CASE Create(h)
      BY <2>1, CreateIssues
    <2>2. CASE SendMilestone(h)
      <3>1. ticket[h] \in created
        BY <2>2 DEF SendMilestone, LedgerInv, DeletionInv, TypeInv, TypeOK
      <3>2. Ledger!Announce(ticket[h])
        BY <2>2 DEF SendMilestone, Ledger!Announce
      <3> QED
        BY <3>1, <3>2 DEF Ledger!Next
    <2>3. CASE SendLink(h)
      BY <2>3, LinkInvites
    <2>4. CASE UNCHANGED <<tickets, created, milestones, links, gone>>
      BY <2>4 DEF Ledger!vars
    <2> QED
      BY <1>1, <2>1, <2>2, <2>3, <2>4 DEF HandlerStep, Deliver, Verify, RefuseToken,
         FindExisting, FindNone, RefuseConflict, CreateFails, Fail, history
  <1>2. CASE ReadDoomed
    BY <1>2, ReadLetsGo
  <1>3. CASE DeleteDoomed
    BY <1>3, DeleteLetsGo
  <1>4. CASE RollbackDeletion \/ (\E m \in verified : Expire(m)) \/ UNCHANGED vars
    BY <1>4 DEF RollbackDeletion, Expire, vars, history, Ledger!vars
  <1> QED
    BY <1>1, <1>2, <1>3, <1>4 DEF Next

(* Whatever messages, repetitions, crashes and deletions do: a ticket is   *)
(* issued once and never to a guest who is gone, an invitation hears of a  *)
(* guest only after a ticket of theirs was announced (TicketLedger).       *)
THEOREM LedgerKept == Spec => ImplementsLedger
  <1>1. Init => Ledger!Init
    BY DEF Init, Ledger!Init
  <1>2. LedgerInv /\ [Next]_vars => [Ledger!Next]_(Ledger!vars)
    BY LedgerStep
  <1>3. AnnounceInv /\ DeletionInv => LedgerInv
    BY DEF LedgerInv
  <1> QED
    BY <1>1, <1>2, <1>3, AnnounceHolds, DeletionHolds, PTL DEF Spec, ImplementsLedger, Ledger!Spec
===============================================================================
