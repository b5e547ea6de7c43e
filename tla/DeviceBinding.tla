---------------------------- MODULE DeviceBinding ----------------------------
(***************************************************************************)
(* Binding of guests' devices to the tickets of one event, statement by    *)
(* statement: TicketWriteService.activateDevice is an interactive          *)
(* transaction (read, update, updateMany, commit) at PostgreSQL's default  *)
(* isolation level, read committed, and resetDeviceBinding is a read       *)
(* followed by a transaction.  A statement sees what is committed when it  *)
(* starts; an update waits for the lock of a row and then looks at the     *)
(* committed row again.  TicketScan takes an activation as one step.       *)
(***************************************************************************)
EXTENDS Integers, FiniteSets

CONSTANTS
    Tickets,      \* the tickets of the event, of different guests
    Devices,      \* device ids, as the clients report them
    NoDevice,     \* deviceId is NULL
    Requests,     \* clients, each with a key pair of its own, that call activateDevice
    Staff,        \* concurrent calls of resetDeviceBinding
    NoTask        \* a client or staff member at rest; an unlocked row; no devicePublicKey

ASSUME NoDeviceAssumption == NoDevice \notin Devices
ASSUME NoTaskAssumption   == NoTask \notin Requests \cup Tickets

VARIABLES
    device,       \* the committed deviceId of each ticket
    key,          \* the client whose public key each ticket has committed
    lock,         \* the transaction that holds the lock of each row
    pc,           \* where each activation stands
    tx,           \* the ticket and device of each activation, and its statement's rows
    resetting,    \* the ticket each staff member is about to reset
    peers,        \* history: tickets of the activations an activation overlapped with
    boundWith     \* history: the peers of the activation that made a ticket's binding, if bound

store   == <<device, key, lock>>
history == <<peers, boundWith>>
vars    == <<store, pc, tx, resetting, history>>

-------------------------------------------------------------------------------
Stages == {"idle", "bind", "find", "unbind", "commit"}

Activation == [ticket  : Tickets,
               device  : Devices,
               todo    : SUBSET Tickets,    \* rows the updateMany has yet to visit
               unbound : SUBSET Tickets]    \* rows it has set to NULL, uncommitted

Active == {r \in Requests : pc[r] # "idle"}

Init ==
    /\ device    = [t \in Tickets |-> NoDevice]
    /\ key       = [t \in Tickets |-> NoTask]
    /\ lock      = [t \in Tickets |-> NoTask]
    /\ pc        = [r \in Requests |-> "idle"]
    /\ tx        = [r \in Requests |-> NoTask]
    /\ resetting = [p \in Staff |-> NoTask]
    /\ peers     = [r \in Requests |-> {}]
    /\ boundWith = [t \in Tickets |-> {}]

-------------------------------------------------------------------------------
(* activateDevice. *)

Goto(r, stage) == pc' = [pc EXCEPT ![r] = stage]

AnyBinding(t, d) == TRUE
MayBind(t, d)    == device[t] = NoDevice \/ key[t] = NoTask \/ device[t] = d

(* The transaction reads the ticket of its owner and refuses another       *)
(* device, but not another key; a refusal, of the owner or of an ill-      *)
(* formed key too, leaves no trace.                                        *)
Read(r) ==
    /\ pc[r] = "idle"
    /\ \E t \in Tickets, d \in Devices :
         /\ MayBind(t, d)
         /\ tx' = [tx EXCEPT ![r] = [ticket |-> t, device |-> d, todo |-> {}, unbound |-> {}]]
         /\ peers' = [q \in Requests |->
              CASE q = r          -> {tx[o].ticket : o \in Active}
                [] q \in Active   -> peers[q] \cup {t}
                [] OTHER          -> peers[q]]
    /\ Goto(r, "bind")
    /\ UNCHANGED <<store, resetting, boundWith>>

(* update WHERE id. *)
Bind(r) ==
    /\ pc[r] = "bind"
    /\ lock[tx[r].ticket] = NoTask
    /\ lock' = [lock EXCEPT ![tx[r].ticket] = r]
    /\ Goto(r, "find")
    /\ UNCHANGED <<device, key, tx, resetting, history>>

NoSiblings(r) == {}
Siblings(r)   == {u \in Tickets \ {tx[r].ticket} : device[u] = tx[r].device}

(* updateMany WHERE deviceId AND id NOT: the rows its snapshot shows. *)
FindSiblings(r) ==
    /\ pc[r] = "find"
    /\ tx' = [tx EXCEPT ![r] = [@ EXCEPT !.todo = Siblings(r)]]
    /\ Goto(r, IF Siblings(r) = {} THEN "commit" ELSE "unbind")
    /\ UNCHANGED <<store, resetting, history>>

UnbindOne(r) ==             \* updateMany as an update of one row
    /\ pc[r] = "unbind"
    /\ \E u \in tx[r].todo :
         /\ lock[u] = NoTask
         /\ lock' = [lock EXCEPT ![u] = r]
         /\ tx' = [tx EXCEPT ![r] = [@ EXCEPT !.todo = {}, !.unbound = {u}]]
    /\ Goto(r, "commit")
    /\ UNCHANGED <<device, key, resetting, history>>

Visited(a, u) == [a EXCEPT !.todo = @ \ {u}]
Unbound(a, u) == [a EXCEPT !.todo = @ \ {u}, !.unbound = @ \cup {u}]

StillListed(r, u)    == TRUE
StillQualifies(r, u) == device[u] = tx[r].device

(* A row is locked and, if it still qualifies, updated. *)
UnbindSibling(r) ==
    /\ pc[r] = "unbind"
    /\ \E u \in tx[r].todo :
         /\ lock[u] = NoTask
         /\ IF StillQualifies(r, u)
            THEN /\ lock' = [lock EXCEPT ![u] = r]
                 /\ tx' = [tx EXCEPT ![r] = Unbound(tx[r], u)]
            ELSE /\ tx' = [tx EXCEPT ![r] = Visited(tx[r], u)]
                 /\ UNCHANGED lock
         /\ Goto(r, IF tx[r].todo = {u} THEN "commit" ELSE "unbind")
    /\ UNCHANGED <<device, key, resetting, history>>

ReleaseOwn(r)  == lock' = [lock EXCEPT ![tx[r].ticket] = NoTask]
Release(r)     == lock' = [t \in Tickets |-> IF lock[t] = r THEN NoTask ELSE lock[t]]

End(r) ==
    /\ Goto(r, "idle")
    /\ tx' = [tx EXCEPT ![r] = NoTask]
    /\ Release(r)
    /\ peers' = [peers EXCEPT ![r] = {}]

Commit(r) ==
    /\ pc[r] = "commit"
    /\ device' = [t \in Tickets |->
                    IF t = tx[r].ticket THEN tx[r].device
                    ELSE IF t \in tx[r].unbound THEN NoDevice
                    ELSE device[t]]
    /\ key' = [t \in Tickets |->
                 IF t = tx[r].ticket THEN r
                 ELSE IF t \in tx[r].unbound THEN NoTask
                 ELSE key[t]]
    /\ boundWith' = [t \in Tickets |->
                       IF t = tx[r].ticket THEN peers[r]
                       ELSE IF t \in tx[r].unbound THEN {}
                       ELSE boundWith[t]]
    /\ End(r)
    /\ UNCHANGED resetting

(* A statement fails, the transaction's 5 s are over, the instance stops,  *)
(* or PostgreSQL breaks a deadlock: nothing was written.                   *)
Rollback(r) ==
    /\ pc[r] # "idle"
    /\ End(r)
    /\ UNCHANGED <<device, key, resetting, boundWith>>

-------------------------------------------------------------------------------
(* resetDeviceBinding. *)

ReadForReset(p) ==
    /\ resetting[p] = NoTask
    /\ \E t \in Tickets :
         /\ device[t] # NoDevice
         /\ resetting' = [resetting EXCEPT ![p] = t]
    /\ UNCHANGED <<store, pc, tx, history>>

(* The update waits for the row and keys on the id alone. *)
Reset(p) ==
    /\ resetting[p] # NoTask
    /\ lock[resetting[p]] = NoTask
    /\ device' = [device EXCEPT ![resetting[p]] = NoDevice]
    /\ key' = [key EXCEPT ![resetting[p]] = NoTask]
    /\ boundWith' = [boundWith EXCEPT ![resetting[p]] = {}]
    /\ resetting' = [resetting EXCEPT ![p] = NoTask]
    /\ UNCHANGED <<lock, pc, tx, peers>>

AbandonReset(p) ==
    /\ resetting[p] # NoTask
    /\ resetting' = [resetting EXCEPT ![p] = NoTask]
    /\ UNCHANGED <<store, pc, tx, history>>

-------------------------------------------------------------------------------
Next ==
    \/ \E r \in Requests : \/ Read(r) \/ Bind(r) \/ FindSiblings(r) \/ UnbindSibling(r)
                           \/ Commit(r) \/ Rollback(r)
    \/ \E p \in Staff : ReadForReset(p) \/ Reset(p) \/ AbandonReset(p)

Spec == Init /\ [][Next]_vars

-------------------------------------------------------------------------------
(* Properties. *)

(* The rows an activation has locked are exactly those it is writing: its  *)
(* own ticket from the update on, and the siblings it has unbound.         *)
Locked(r) == {t \in Tickets : lock[t] = r}

LocksMatchWrites ==
    \A r \in Requests :
        Locked(r) = IF pc[r] \in {"idle", "bind"} THEN {}
                    ELSE {tx[r].ticket} \cup tx[r].unbound

(* Every variable holds values of its type, an activation has a record     *)
(* exactly while it runs, rows are locked exactly for pending writes, and  *)
(* a ticket has a device and its key or neither of them.                   *)
TypeOK ==
    /\ device    \in [Tickets -> Devices \cup {NoDevice}]
    /\ key       \in [Tickets -> Requests \cup {NoTask}]
    /\ lock      \in [Tickets -> Requests \cup {NoTask}]
    /\ pc        \in [Requests -> Stages]
    /\ tx        \in [Requests -> Activation \cup {NoTask}]
    /\ resetting \in [Staff -> Tickets \cup {NoTask}]
    /\ peers     \in [Requests -> SUBSET Tickets]
    /\ boundWith \in [Tickets -> SUBSET Tickets]
    /\ \A r \in Requests : pc[r] # "idle" => tx[r] \in Activation
    /\ LocksMatchWrites
    /\ \A t \in Tickets : device[t] = NoDevice <=> key[t] = NoTask

(* Siblings are unbound: two tickets of an event share a device only if    *)
(* the activation behind one of the bindings overlapped with an activation *)
(* of the other ticket (neither saw the other's uncommitted row).          *)
SharedOnlyByOverlap ==
    \A t, u \in Tickets :
        t # u /\ device[t] # NoDevice /\ device[t] = device[u] =>
            u \in boundWith[t] \/ t \in boundWith[u]

(* The device of a binding is immutable: it changes to another one only if *)
(* the activation that does it overlapped with one of the same ticket      *)
(* (both had read an unbound row).  The key is not: another client that    *)
(* reports the same device replaces it at any time.                        *)
RebindOnlyByOverlap ==
    [][\A t \in Tickets :
         device[t] # NoDevice /\ device'[t] \notin {NoDevice, device[t]}
            => t \in boundWith'[t]]_vars

(* An activation that ends alone heals: the device of a ticket whose       *)
(* activation overlapped with none is bound to no other ticket afterwards. *)
ActivationAloneIsExclusive ==
    [][\A r \in Requests :
         pc[r] = "commit" /\ pc'[r] = "idle" /\ device' # device /\ peers[r] = {} =>
            \A u \in Tickets \ {tx[r].ticket} : device'[u] # tx[r].device]_vars

(* Serialisation: read by read and update by update, activations and       *)
(* resets change devices and keys as if they ran one at a time, but for    *)
(* what overlapping activations of other tickets miss of each other.       *)
Registry == INSTANCE DeviceRegistry WITH Keys <- Requests, NoKey <- NoTask

ImplementsRegistry == Registry!Spec

-------------------------------------------------------------------------------
(* What the repository says and the code does not do. *)

(* src/ticket/resolvers/ticket-mutation.resolver.ts:128, 'sibling tickets  *)
(* of the same event are unbound'.                                         *)
SiblingsUnbound ==
    \A t, u \in Tickets : t # u /\ device[t] # NoDevice => device[t] # device[u]

(* README.md:54, 'Device binding is owner-only and immutable after the     *)
(* first successful binding': only a reset or the activation of a sibling  *)
(* ends a binding, no activation of the ticket puts another device in its  *)
(* place.                                                                  *)
BindingImmutable ==
    [][\A t \in Tickets :
         device[t] # NoDevice => device'[t] \in {device[t], NoDevice}]_vars
===============================================================================
