--------------------------- MODULE EventProjections ---------------------------
(***************************************************************************)
(* The local projections of one event: access and legacy role of each      *)
(* user, and the event's settings.  EventRoleHandler and                   *)
(* EventSettingsHandler keep them from Kafka messages of the event         *)
(* service, on several instances.  Kafka delivers a message at least once, *)
(* and messages of different topics or after a retry in any order.  A      *)
(* handler reads the row, compares time stamps and then writes, in         *)
(* separate statements; there is no transaction.                           *)
(***************************************************************************)
EXTENDS Naturals, Sequences, FiniteSets

CONSTANTS
    Users,
    NoUser,       \* no old owner; no user in a message about the event itself
    Handlers,     \* handlers at work, over all instances
    NoMessage,
    MaxClock,     \* bound: ticks of the clock
    MaxMessages,  \* bound: messages of the event service
    MaxSkew       \* how far apart the clocks of two machines may be

ASSUME NoUserAssumption == NoUser \notin Users
ASSUME ClockAssumption  == MaxClock \in Nat /\ MaxSkew \in Nat

VARIABLES
    clock,     \* the slowest clock of the machines of both services
    sent,      \* messages in Kafka; any of them may be delivered, again and again
    rows,      \* the rows of the three projection tables
    pc,        \* where each handler stands
    message,   \* the message it handles
    todo,      \* the statements it has left
    raced,     \* history: another handler wrote the row since this one read it
    handled,   \* history: the newest access message handled, for each user
    disturbed  \* history: the user's access row was raced for, or deleted with the
               \* event, and no newest access message was handled since

handler == <<pc, message, todo>>
history == <<raced, handled, disturbed>>
vars    == <<clock, sent, rows, handler, history>>

(* What a machine takes for the time.  Its clock may drift and be set back *)
(* within MaxSkew, so that a reading says nothing about the next one.      *)
Readings(t) == t..(t + MaxSkew)

-------------------------------------------------------------------------------
(* Rows.  A row is known by the message its content comes from. *)

Keys == {<<"access", u>> : u \in Users} \cup {<<"role", u>> : u \in Users}
        \cup {<<"settings", NoUser>>}

Row == [from  : Nat,     \* occurredAt of the message behind the content; 0: no row
        stamp : Nat]     \* what later messages are compared with
NoRow == [from |-> 0, stamp |-> 0]

Of(table) == {k \in Keys : k[1] = table}

(* Messages of the event service. *)
Kinds == {"userAccessChanged", "roleAssigned", "roleRemoved", "ownerChanged",
          "created", "updated", "deleted"}
AboutEvent == {"created", "updated", "deleted"}

Message == [kind : Kinds, user : Users \cup {NoUser}, old : Users \cup {NoUser}, at : Nat]

Meant(m) ==
    /\ (m.kind \in AboutEvent) <=> (m.user = NoUser)
    /\ m.kind # "ownerChanged" => m.old = NoUser
    /\ m.old # NoUser => m.old # m.user

(* The statements a handler runs: upserts and deletes, each but those of   *)
(* created and deleted behind a comparison of time stamps.                 *)
Upsert(k)     == [op |-> "upsert", keys |-> {k}, checked |-> TRUE]
Remove(k)     == [op |-> "delete", keys |-> {k}, checked |-> TRUE]
Overwrite(k)  == [op |-> "upsert", keys |-> {k}, checked |-> FALSE]
Clear(table)  == [op |-> "delete", keys |-> Of(table), checked |-> FALSE]

Statement == [op : {"upsert", "delete"}, keys : SUBSET Keys, checked : BOOLEAN]

RoleRemoved(m)     == <<Remove(<<"role", m.user>>)>>
AlwaysOldOwner(m)  == <<Remove(<<"role", m.old>>), Upsert(<<"role", m.user>>)>>
OwnerChanged(m)    ==
    (IF m.old = NoUser THEN <<>> ELSE <<Remove(<<"role", m.old>>)>>)
    \o <<Upsert(<<"role", m.user>>)>>

(* Promise.all: the three tables are cleared in any order. *)
EventDeleted ==
    {<<Clear(a), Clear(b), Clear(c)>> : a, b, c \in {"access", "role", "settings"}}

Plans(m) ==
    CASE m.kind = "userAccessChanged" -> {<<Upsert(<<"access", m.user>>)>>}
      [] m.kind = "roleAssigned"      -> {<<Upsert(<<"role", m.user>>)>>}
      [] m.kind = "roleRemoved"       -> {RoleRemoved(m)}
      [] m.kind = "ownerChanged"      -> {OwnerChanged(m)}
      [] m.kind = "created"           -> {<<Overwrite(<<"settings", NoUser>>)>>}
      [] m.kind = "updated"           -> {<<Upsert(<<"settings", NoUser>>)>>}
      [] m.kind = "deleted"           ->
           {p \in EventDeleted : \A i, j \in 1..3 : p[i] = p[j] => i = j}

-------------------------------------------------------------------------------
Init ==
    /\ clock     = 0
    /\ sent      = {}
    /\ rows      = [k \in Keys |-> NoRow]
    /\ pc        = [h \in Handlers |-> "idle"]
    /\ message   = [h \in Handlers |-> NoMessage]
    /\ todo      = [h \in Handlers |-> <<>>]
    /\ raced     = [h \in Handlers |-> FALSE]
    /\ handled   = [u \in Users |-> 0]
    /\ disturbed = [u \in Users |-> FALSE]

Tick ==
    /\ clock < MaxClock
    /\ clock' = clock + 1
    /\ UNCHANGED <<sent, rows, handler, history>>

(* The event service: a message bears the time of the machine it comes     *)
(* from; no two messages bear the same time.                               *)
Emit ==
    /\ clock < MaxClock
    /\ Cardinality(sent) < MaxMessages
    /\ clock' = clock + 1
    /\ \E m \in [kind : Kinds, user : Users \cup {NoUser}, old : Users \cup {NoUser},
                 at : Readings(clock + 1)] :
         /\ Meant(m)
         /\ \A n \in sent : n.at # m.at
         /\ sent' = sent \cup {m}
    /\ UNCHANGED <<rows, handler, history>>

-------------------------------------------------------------------------------
(* A handler. *)

Current(h) == Head(todo[h])
Key(h)     == CHOOSE k \in Current(h).keys : TRUE     \* of a statement with one row

Start(h, plan) ==
    /\ todo' = [todo EXCEPT ![h] = plan]
    /\ pc' = [pc EXCEPT ![h] = IF Head(plan).checked THEN "read" ELSE "write"]

(* The statement is done with: the next one, or the end of the message. *)
Continue(h) ==
    LET rest == Tail(todo[h])
        m    == message[h]
    IN  IF rest # <<>>
        THEN Start(h, rest) /\ UNCHANGED <<message, handled>>
        ELSE /\ todo'    = [todo EXCEPT ![h] = <<>>]
             /\ pc'      = [pc EXCEPT ![h] = "idle"]
             /\ message' = [message EXCEPT ![h] = NoMessage]
             /\ handled' = IF m.kind = "userAccessChanged" /\ m.at > handled[m.user]
                           THEN [handled EXCEPT ![m.user] = m.at]
                           ELSE handled

Deliver(h) ==
    /\ pc[h] = "idle"
    /\ \E m \in sent : \E plan \in Plans(m) :
         /\ message' = [message EXCEPT ![h] = m]
         /\ Start(h, plan)
    /\ UNCHANGED <<clock, sent, rows, history>>

NeverStale(h) == FALSE
Stale(h)      == rows[Key(h)].from # 0 /\ message[h].at < rows[Key(h)].stamp

(* findUnique, and the skip of a stale message. *)
Skip(h) ==
    /\ pc[h] = "read"
    /\ Stale(h)
    /\ Continue(h)
    /\ UNCHANGED <<clock, sent, rows, raced, disturbed>>

Read(h) ==
    /\ pc[h] = "read"
    /\ ~Stale(h)
    /\ pc' = [pc EXCEPT ![h] = "write"]
    /\ UNCHANGED <<clock, sent, rows, message, todo, history>>

(* What a later message is compared with: the access handler stores        *)
(* occurredAt, the others rely on the updatedAt the database client sets   *)
(* by the clock of its own machine.                                        *)
LocalTime(k, m, now) == now
Stamp(k, m, now)     == IF k[1] = "access" THEN m.at ELSE now

Write(h) ==
    LET s == Current(h)
        m == message[h]
    IN  /\ pc[h] = "write"
        /\ \E now \in Readings(clock) :
             rows' = [k \in Keys |->
               IF k \notin s.keys THEN rows[k]
               ELSE IF s.op = "delete" THEN NoRow
               ELSE [from |-> m.at, stamp |-> Stamp(k, m, now)]]
        /\ raced' = [o \in Handlers |->
             o # h /\ (raced[o] \/ (pc[o] = "write" /\ Current(o).keys \cap s.keys # {}))]
        /\ disturbed' = [u \in Users |->
             IF <<"access", u>> \notin s.keys THEN disturbed[u]
             ELSE \/ s.op = "delete" \/ raced[h]
                  \/ disturbed[u] /\ m.at < handled[u]]
        /\ Continue(h)
        /\ UNCHANGED <<clock, sent>>

(* A statement fails or the instance stops: the message is delivered again. *)
Fail(h) ==
    /\ pc[h] # "idle"
    /\ pc'      = [pc EXCEPT ![h] = "idle"]
    /\ message' = [message EXCEPT ![h] = NoMessage]
    /\ todo'    = [todo EXCEPT ![h] = <<>>]
    /\ raced'   = [raced EXCEPT ![h] = FALSE]
    /\ UNCHANGED <<clock, sent, rows, handled, disturbed>>

-------------------------------------------------------------------------------
(* The permission resolver.  The row the permissions of u come from; both  *)
(* reads are taken together here: an access row is never deleted but with  *)
(* its event.                                                              *)

RoleFirst(u) ==            \* the legacy role before the access
    IF rows[<<"role", u>>].from # 0 THEN <<"role", u>> ELSE <<"access", u>>

DecidingRow(u) == IF rows[<<"access", u>>].from # 0 THEN <<"access", u>> ELSE <<"role", u>>

-------------------------------------------------------------------------------
Next ==
    \/ Tick
    \/ Emit
    \/ \E h \in Handlers : Deliver(h) \/ Skip(h) \/ Read(h) \/ Write(h) \/ Fail(h)

Spec == Init /\ [][Next]_vars

-------------------------------------------------------------------------------
(* Properties. *)

(* Every variable holds values of its type, a handler has a message and    *)
(* statements exactly while it runs, and the stamp of a row is not more    *)
(* than the clocks are apart in the future or behind its message.          *)
TypeOK ==
    /\ clock     \in 0..MaxClock
    /\ sent      \subseteq Message
    /\ rows      \in [Keys -> Row]
    /\ pc        \in [Handlers -> {"idle", "read", "write"}]
    /\ message   \in [Handlers -> Message \cup {NoMessage}]
    /\ todo      \in [Handlers -> Seq(Statement)]
    /\ raced     \in [Handlers -> BOOLEAN]
    /\ handled   \in [Users -> Nat]
    /\ disturbed \in [Users -> BOOLEAN]
    /\ \A h \in Handlers : pc[h] # "idle" => message[h] \in sent /\ todo[h] # <<>>
    /\ \A k \in Keys : /\ rows[k].from <= rows[k].stamp + MaxSkew
                       /\ rows[k].stamp <= clock + MaxSkew

(* Reordered and redelivered messages do bounded harm: a row goes back to  *)
(* an older message only if two handlers raced for it, by event.created,   *)
(* which compares nothing, or - a role or settings row, whose stamp is of  *)
(* another clock than its messages - by as much as clocks are apart.  An   *)
(* access row, compared by the times of its messages, never does.          *)
NeverBack ==
    [][\A k \in Keys :
         rows'[k].from # 0 /\ rows'[k].from < rows[k].from =>
            \/ k[1] # "access" /\ rows[k].from - rows'[k].from <= MaxSkew
            \/ \E h \in Handlers :
                 /\ pc[h] = "write" /\ k \in Current(h).keys
                 /\ raced[h] \/ message[h].kind = "created"]_vars

(* Access changes are not lost, removals in particular: the permissions of *)
(* a user come from the newest access message handled, or a newer one,     *)
(* whatever legacy role message is delivered late and brings a role back.  *)
(* Where handlers raced for the row, or the event was deleted, it holds    *)
(* again from the next newest access message on that meets no race.        *)
AccessNotLost ==
    \A u \in Users : ~disturbed[u] /\ handled[u] > 0 =>
        /\ DecidingRow(u) = <<"access", u>>
        /\ rows[DecidingRow(u)].from >= handled[u]

-------------------------------------------------------------------------------
(* What the repository says and the code does not do. *)

(* src/handlers/event-settings.handler.ts:90, 'Skipping stale              *)
(* event.updated', and event-role.handler.ts:116, 'Skipping stale          *)
(* event.roleAssigned': a message that is about to be skipped is no newer  *)
(* than the one the row comes from.                                        *)
SkippedIsStale ==
    \A h \in Handlers :
        pc[h] = "read" /\ Stale(h) => message[h].at <= rows[Key(h)].from
===============================================================================
