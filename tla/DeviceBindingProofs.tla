-------------------------- MODULE DeviceBindingProofs --------------------------
(* Theorems of DeviceBinding for any number of tickets, devices, activations *)
(* and staff.                                                                *)
EXTENDS DeviceBinding, TLAPS

-------------------------------------------------------------------------------
(* Type correctness, and the locks of each activation. *)

Fields ==
    /\ device    \in [Tickets -> Devices \cup {NoDevice}]
    /\ key       \in [Tickets -> Requests \cup {NoTask}]
    /\ lock      \in [Tickets -> Requests \cup {NoTask}]
    /\ pc        \in [Requests -> Stages]
    /\ tx        \in [Requests -> Activation \cup {NoTask}]
    /\ resetting \in [Staff -> Tickets \cup {NoTask}]
    /\ peers     \in [Requests -> SUBSET Tickets]
    /\ boundWith \in [Tickets -> SUBSET Tickets]
    /\ \A r \in Requests : pc[r] # "idle" => tx[r] \in Activation

Holds(r) ==
    Locked(r) = IF pc[r] \in {"idle", "bind"} THEN {} ELSE {tx[r].ticket} \cup tx[r].unbound

(* An activation that has not looked for siblings has not unbound any. *)
Fresh(r) == pc[r] \in {"bind", "find"} => tx[r].unbound = {}

(* A ticket has a device and its key or neither. *)
Paired == \A t \in Tickets : device[t] = NoDevice <=> key[t] = NoTask

TypeInv == Fields /\ Paired /\ \A r \in Requests : Holds(r) /\ Fresh(r)

LEMMA TypeParts == TypeInv => TypeOK
  BY DEF TypeInv, TypeOK, Fields, Paired, LocksMatchWrites, Holds

LEMMA ActivationFields ==
    ASSUME NEW a \in Activation
    PROVE  /\ a.ticket \in Tickets /\ a.device \in Devices
           /\ a.todo \subseteq Tickets /\ a.unbound \subseteq Tickets
  BY DEF Activation

LEMMA InitTyped == Init => TypeInv
  <1> SUFFICES ASSUME Init PROVE TypeInv
    OBVIOUS
  <1>1. Fields /\ Paired
    BY DEF Init, Fields, Paired, Stages
  <1>2. \A r \in Requests : Holds(r) /\ Fresh(r)
    BY NoTaskAssumption DEF Init, Holds, Fresh, Locked
  <1> QED
    BY <1>1, <1>2 DEF TypeInv

(* An activation that goes on with a record and, maybe, a new lock. *)
LEMMA GoesOn ==
    ASSUME TypeInv, NEW r \in Requests, NEW stage \in Stages \ {"idle"}, NEW a \in Activation,
           pc' = [pc EXCEPT ![r] = stage], tx' = [tx EXCEPT ![r] = a],
           UNCHANGED <<device, key, resetting, boundWith>>,
           peers' \in [Requests -> SUBSET Tickets],
           lock' \in [Tickets -> Requests \cup {NoTask}],
           \A q \in Requests \ {r} : Locked(q)' = Locked(q),
           stage = "bind" => Locked(r)' = {},
           stage # "bind" => Locked(r)' = {a.ticket} \cup a.unbound,
           stage \in {"bind", "find"} => a.unbound = {}
    PROVE  TypeInv'
  <1>1. Fields' /\ Paired'
    BY DEF TypeInv, Fields, Paired
  <1>2. ASSUME NEW q \in Requests PROVE Holds(q)' /\ Fresh(q)'
    <2>1. CASE q = r
      <3>1. pc'[q] = stage /\ tx'[q] = a
        BY <2>1 DEF TypeInv, Fields
      <3> QED
        BY <2>1, <3>1 DEF Holds, Fresh
    <2>2. CASE q # r
      <3>1. pc'[q] = pc[q] /\ tx'[q] = tx[q]
        BY <2>2 DEF TypeInv, Fields
      <3>2. Locked(q)' = Locked(q)
        BY <2>2
      <3> QED
        BY <3>1, <3>2 DEF TypeInv, Holds, Fresh
    <2> QED
      BY <2>1, <2>2
  <1> QED
    BY <1>1, <1>2 DEF TypeInv

LEMMA LocksNothing ==
    ASSUME TypeInv, NEW r \in Requests, UNCHANGED lock
    PROVE  /\ lock' \in [Tickets -> Requests \cup {NoTask}]
           /\ \A q \in Requests : Locked(q)' = Locked(q)
  BY DEF TypeInv, Fields, Locked

LEMMA LocksOne ==
    ASSUME TypeInv, NEW r \in Requests, NEW u \in Tickets,
           lock[u] = NoTask, lock' = [lock EXCEPT ![u] = r]
    PROVE  /\ lock' \in [Tickets -> Requests \cup {NoTask}]
           /\ \A q \in Requests \ {r} : Locked(q)' = Locked(q)
           /\ Locked(r)' = Locked(r) \cup {u}
  BY NoTaskAssumption DEF TypeInv, Fields, Locked

(* updateMany goes over one row. *)
LEMMA Updated ==
    ASSUME NEW a \in Activation, NEW u \in Tickets
    PROVE  /\ Visited(a, u) \in Activation
           /\ Visited(a, u).ticket = a.ticket   /\ Visited(a, u).device = a.device
           /\ Visited(a, u).todo = a.todo \ {u} /\ Visited(a, u).unbound = a.unbound
           /\ Unbound(a, u) \in Activation
           /\ Unbound(a, u).ticket = a.ticket   /\ Unbound(a, u).device = a.device
           /\ Unbound(a, u).todo = a.todo \ {u} /\ Unbound(a, u).unbound = a.unbound \cup {u}
  BY DEF Activation, Visited, Unbound

LEMMA EndTyped ==
    ASSUME TypeInv, NEW r \in Requests, End(r), UNCHANGED resetting,
           device' \in [Tickets -> Devices \cup {NoDevice}],
           key' \in [Tickets -> Requests \cup {NoTask}], Paired',
           boundWith' \in [Tickets -> SUBSET Tickets]
    PROVE  TypeInv'
  <1>1. Fields'
    BY DEF TypeInv, Fields, End, Goto, Release, Stages
  <1>2. ASSUME NEW q \in Requests PROVE Holds(q)' /\ Fresh(q)'
    <2>1. CASE q = r
      <3>1. pc'[q] = "idle"
        BY <2>1 DEF TypeInv, Fields, End, Goto
      <3>2. Locked(q)' = {}
        BY <2>1, NoTaskAssumption DEF Locked, End, Release
      <3> QED
        BY <3>1, <3>2 DEF Holds, Fresh
    <2>2. CASE q # r
      <3>1. pc'[q] = pc[q] /\ tx'[q] = tx[q]
        BY <2>2 DEF TypeInv, Fields, End, Goto
      <3>2. Locked(q)' = Locked(q)
        BY <2>2, NoTaskAssumption DEF Locked, End, Release
      <3> QED
        BY <3>1, <3>2 DEF TypeInv, Holds, Fresh
    <2> QED
      BY <2>1, <2>2
  <1> QED
    BY <1>1, <1>2 DEF TypeInv

LEMMA CommitTyped ==
    ASSUME TypeInv, NEW r \in Requests, Commit(r)
    PROVE  TypeInv'
  <1>1. tx[r].ticket \in Tickets /\ tx[r].device \in Devices
    BY ActivationFields DEF TypeInv, Commit, Fields
  <1>2. device' \in [Tickets -> Devices \cup {NoDevice}]
    BY <1>1 DEF TypeInv, Commit, Fields
  <1>3. boundWith' \in [Tickets -> SUBSET Tickets]
    BY <1>1 DEF TypeInv, Commit, Fields
  <1>4. key' \in [Tickets -> Requests \cup {NoTask}] /\ Paired'
    BY <1>1, NoDeviceAssumption, NoTaskAssumption DEF TypeInv, Commit, Fields, Paired
  <1> QED
    BY <1>2, <1>3, <1>4, EndTyped DEF Commit

LEMMA StaffTyped ==
    ASSUME TypeInv, UNCHANGED <<lock, pc, tx, peers>>,
           device' \in [Tickets -> Devices \cup {NoDevice}],
           key' \in [Tickets -> Requests \cup {NoTask}], Paired',
           boundWith' \in [Tickets -> SUBSET Tickets],
           resetting' \in [Staff -> Tickets \cup {NoTask}]
    PROVE  TypeInv'
  <1>1. Fields'
    BY DEF TypeInv, Fields
  <1>2. \A q \in Requests : Holds(q)' /\ Fresh(q)'
    BY DEF TypeInv, Holds, Fresh, Locked
  <1> QED
    BY <1>1, <1>2 DEF TypeInv

LEMMA StepTyped == ASSUME TypeInv, [Next]_vars PROVE TypeInv'
  <1> USE DEF TypeInv
  <1>1. ASSUME NEW r \in Requests, Read(r) PROVE TypeInv'
    <2>1. \E a \in Activation : a.unbound = {} /\ tx' = [tx EXCEPT ![r] = a]
      <3>1. PICK t \in Tickets :
              \E d \in Devices :
                tx' = [tx EXCEPT ![r] = [ticket |-> t, device |-> d, todo |-> {}, unbound |-> {}]]
        BY <1>1 DEF Read
      <3>2. PICK d \in Devices :
              tx' = [tx EXCEPT ![r] = [ticket |-> t, device |-> d, todo |-> {}, unbound |-> {}]]
        BY <3>1
      <3> DEFINE a == [ticket |-> t, device |-> d, todo |-> {}, unbound |-> {}]
      <3>3. a \in Activation /\ a.unbound = {}
        BY DEF Activation
      <3> QED
        BY <3>2, <3>3
    <2>2. PICK a \in Activation : a.unbound = {} /\ tx' = [tx EXCEPT ![r] = a]
      BY <2>1
    <2>3. peers' \in [Requests -> SUBSET Tickets]
      <3>1. \A o \in Active : tx[o].ticket \in Tickets
        BY ActivationFields DEF Active, Fields
      <3> QED
        BY <1>1, <3>1 DEF Read, Fields
    <2>4. pc' = [pc EXCEPT ![r] = "bind"] /\ UNCHANGED <<device, key, lock, resetting, boundWith>>
      BY <1>1 DEF Read, Goto, store
    <2>5. Locked(r) = {}
      BY <1>1 DEF Read, Holds
    <2> QED
      BY <2>2, <2>3, <2>4, <2>5, LocksNothing, GoesOn DEF Stages
  <1>2. ASSUME NEW r \in Requests, Bind(r) PROVE TypeInv'
    <2>1. tx[r] \in Activation /\ Locked(r) = {} /\ tx[r].unbound = {}
      BY <1>2 DEF Bind, Fields, Holds, Fresh
    <2>2. tx[r].ticket \in Tickets
      BY <2>1, ActivationFields
    <2>3. tx' = [tx EXCEPT ![r] = tx[r]] /\ peers' \in [Requests -> SUBSET Tickets]
      BY <1>2 DEF Bind, history, Fields
    <2>4. /\ pc' = [pc EXCEPT ![r] = "find"] /\ UNCHANGED <<device, key, resetting, boundWith>>
          /\ lock' = [lock EXCEPT ![tx[r].ticket] = r] /\ lock[tx[r].ticket] = NoTask
      BY <1>2 DEF Bind, Goto, history
    <2> QED
      <3>1. /\ lock' \in [Tickets -> Requests \cup {NoTask}]
            /\ \A q \in Requests \ {r} : Locked(q)' = Locked(q)
            /\ Locked(r)' = {tx[r].ticket} \cup tx[r].unbound
        BY <2>1, <2>2, <2>4, LocksOne
      <3> QED
        BY <2>1, <2>3, <2>4, <3>1, GoesOn DEF Stages
  <1>3. ASSUME NEW r \in Requests, FindSiblings(r) PROVE TypeInv'
    <2> DEFINE a == [tx[r] EXCEPT !.todo = Siblings(r)]
               stage == IF Siblings(r) = {} THEN "commit" ELSE "unbind"
    <2>1. tx[r] \in Activation /\ Locked(r) = {tx[r].ticket} \cup tx[r].unbound
      BY <1>3 DEF FindSiblings, Fields, Holds
    <2>2. a \in Activation /\ a.ticket = tx[r].ticket /\ a.unbound = tx[r].unbound
      BY <2>1 DEF Activation, Siblings
    <2>3. tx' = [tx EXCEPT ![r] = a] /\ pc' = [pc EXCEPT ![r] = stage]
      BY <1>3 DEF FindSiblings, Goto
    <2>4. stage \in Stages \ {"idle", "bind", "find"}
      BY DEF Stages
    <2>5. UNCHANGED <<device, key, lock, resetting, boundWith, peers>>
      BY <1>3 DEF FindSiblings, store, history
    <2> HIDE DEF a, stage
    <2>6. peers' \in [Requests -> SUBSET Tickets]
      BY <2>5 DEF Fields
    <2> QED
      BY <2>1, <2>2, <2>3, <2>4, <2>5, <2>6, LocksNothing, GoesOn
  <1>4. ASSUME NEW r \in Requests, UnbindSibling(r) PROVE TypeInv'
    <2>1. tx[r] \in Activation /\ Locked(r) = {tx[r].ticket} \cup tx[r].unbound
      BY <1>4 DEF UnbindSibling, Fields, Holds
    <2>2. UNCHANGED <<device, key, resetting, peers, boundWith>> /\ peers' \in [Requests -> SUBSET Tickets]
      BY <1>4 DEF UnbindSibling, history, Fields
    <2>3. PICK u \in tx[r].todo :
            /\ lock[u] = NoTask
            /\ IF device[u] = tx[r].device
               THEN lock' = [lock EXCEPT ![u] = r] /\ tx' = [tx EXCEPT ![r] = Unbound(tx[r], u)]
               ELSE tx' = [tx EXCEPT ![r] = Visited(tx[r], u)] /\ UNCHANGED lock
            /\ Goto(r, IF tx[r].todo = {u} THEN "commit" ELSE "unbind")
      BY <1>4 DEF UnbindSibling, StillQualifies
    <2>4. u \in Tickets
      BY <2>1, <2>3, ActivationFields
    <2>5. PICK stage \in Stages \ {"idle", "bind", "find"} : pc' = [pc EXCEPT ![r] = stage]
      BY <2>3 DEF Goto, Stages
    <2>6. CASE device[u] = tx[r].device
      <3> DEFINE a == Unbound(tx[r], u)
      <3>1. tx' = [tx EXCEPT ![r] = a] /\ lock' = [lock EXCEPT ![u] = r]
        BY <2>3, <2>6
      <3>2. a \in Activation /\ a.ticket = tx[r].ticket /\ a.unbound = tx[r].unbound \cup {u}
        BY <2>1, <2>4, Updated
      <3> HIDE DEF a
      <3>3. Locked(r) \cup {u} = {a.ticket} \cup a.unbound
        BY <2>1, <3>2
      <3>4. /\ lock' \in [Tickets -> Requests \cup {NoTask}]
            /\ \A q \in Requests \ {r} : Locked(q)' = Locked(q)
            /\ Locked(r)' = {a.ticket} \cup a.unbound
        BY <2>3, <2>4, <3>1, <3>3, LocksOne
      <3> QED
        BY <2>2, <2>5, <3>1, <3>2, <3>4, GoesOn
    <2>7. CASE device[u] # tx[r].device
      <3> DEFINE a == Visited(tx[r], u)
      <3>1. tx' = [tx EXCEPT ![r] = a] /\ lock' = lock
        BY <2>3, <2>7
      <3>2. a \in Activation /\ a.ticket = tx[r].ticket /\ a.unbound = tx[r].unbound
        BY <2>1, <2>4, Updated
      <3> HIDE DEF a
      <3> QED
        BY <2>1, <2>2, <2>5, <3>1, <3>2, LocksNothing, GoesOn
    <2> QED
      BY <2>6, <2>7
  <1>5. ASSUME NEW r \in Requests, Commit(r) PROVE TypeInv'
    BY <1>5, CommitTyped
  <1>6. ASSUME NEW r \in Requests, Rollback(r) PROVE TypeInv'
    BY <1>6, EndTyped DEF Rollback, Fields, Paired
  <1>7. ASSUME NEW p \in Staff, ReadForReset(p) \/ AbandonReset(p) PROVE TypeInv'
    <2>1. UNCHANGED <<device, key, lock, pc, tx, peers, boundWith>>
      BY <1>7 DEF ReadForReset, AbandonReset, store, history
    <2>2. resetting' \in [Staff -> Tickets \cup {NoTask}]
      BY <1>7 DEF ReadForReset, AbandonReset, Fields
    <2> QED
      BY <2>1, <2>2, StaffTyped DEF Fields, Paired
  <1>8. ASSUME NEW p \in Staff, Reset(p) PROVE TypeInv'
    <2>1. /\ UNCHANGED <<lock, pc, tx, peers>> /\ device' \in [Tickets -> Devices \cup {NoDevice}]
          /\ key' \in [Tickets -> Requests \cup {NoTask}] /\ Paired'
          /\ boundWith' \in [Tickets -> SUBSET Tickets]
      BY <1>8 DEF Reset, Fields, Paired
    <2>2. resetting' \in [Staff -> Tickets \cup {NoTask}]
      BY <1>8 DEF Reset, Fields
    <2> QED
      BY <2>1, <2>2, StaffTyped
  <1>9. CASE UNCHANGED vars
    BY <1>9, StaffTyped DEF vars, store, history, Fields, Paired
  <1> QED
    BY <1>1, <1>2, <1>3, <1>4, <1>5, <1>6, <1>7, <1>8, <1>9 DEF Next

LEMMA Typed == Spec => []TypeInv
  BY InitTyped, StepTyped, PTL DEF Spec

(* Types, and the locks: whatever activations commit, fail or abort each   *)
(* other, a row is locked exactly for a pending write.                     *)
THEOREM BindingTypeCorrect == Spec => []TypeOK
  BY Typed, TypeParts, PTL

-------------------------------------------------------------------------------
(* Sharing and rebinding.  Activations that run at the same time know each *)
(* other's tickets; what an activation has read of a binding still holds   *)
(* unless a peer changed it; and it has found every other ticket of its    *)
(* device but those its peers have bound.                                  *)

PeersKnown ==
    \A r, q \in Active : r # q => tx[q].ticket \in peers[r]

OwnAsRead ==
    \A r \in Active :
        LET t == tx[r].ticket
        IN  device[t] \in {NoDevice, tx[r].device} \/ t \in peers[r]

SiblingsFound ==
    \A r \in Requests : pc[r] \in {"unbind", "commit"} =>
        \A u \in Tickets \ {tx[r].ticket} :
            device[u] = tx[r].device =>
                u \in peers[r] \cup tx[r].todo \cup tx[r].unbound

AllVisited == \A r \in Requests : pc[r] = "commit" => tx[r].todo = {}

Overlap == TypeInv /\ PeersKnown /\ OwnAsRead /\ SiblingsFound /\ AllVisited

(* What a step does to the bindings. *)
Unchanged == device' = device /\ key' = key /\ boundWith' = boundWith

LEMMA Bindings ==
    ASSUME TypeInv, [Next]_vars
    PROVE  \/ Unchanged
           \/ \E r \in Requests : Commit(r)
           \/ \E p \in Staff : Reset(p)
  BY DEF Next, Read, Bind, FindSiblings, UnbindSibling, Rollback, ReadForReset,
         AbandonReset, vars, store, history, Unchanged

LEMMA Committed ==
    ASSUME TypeInv, NEW r \in Requests, Commit(r)
    PROVE  /\ r \in Active /\ tx[r].ticket \in Tickets /\ tx[r].device \in Devices
           /\ tx[r].unbound \subseteq Tickets
           /\ device'[tx[r].ticket] = tx[r].device
           /\ \A u \in Tickets \ {tx[r].ticket} :
                device'[u] = IF u \in tx[r].unbound THEN NoDevice ELSE device[u]
           /\ boundWith'[tx[r].ticket] = peers[r]
           /\ \A u \in Tickets \ {tx[r].ticket} :
                boundWith'[u] = IF u \in tx[r].unbound THEN {} ELSE boundWith[u]
           /\ Active' = Active \ {r}
           /\ \A q \in Requests \ {r} :
                pc'[q] = pc[q] /\ tx'[q] = tx[q] /\ peers'[q] = peers[q]
  <1>1. tx[r] \in Activation /\ pc[r] = "commit"
    BY DEF Commit, TypeInv, Fields
  <1>2. /\ tx[r].ticket \in Tickets /\ tx[r].device \in Devices /\ tx[r].unbound \subseteq Tickets
    BY <1>1, ActivationFields
  <1>3. /\ device' = [t \in Tickets |->
                        IF t = tx[r].ticket THEN tx[r].device
                        ELSE IF t \in tx[r].unbound THEN NoDevice
                        ELSE device[t]]
        /\ boundWith' = [t \in Tickets |->
                           IF t = tx[r].ticket THEN peers[r]
                           ELSE IF t \in tx[r].unbound THEN {}
                           ELSE boundWith[t]]
        /\ pc' = [pc EXCEPT ![r] = "idle"] /\ tx' = [tx EXCEPT ![r] = NoTask]
        /\ peers' = [peers EXCEPT ![r] = {}]
    BY DEF Commit, End, Goto
  <1>4. pc \in [Requests -> Stages] /\ tx \in [Requests -> Activation \cup {NoTask}]
        /\ peers \in [Requests -> SUBSET Tickets] /\ boundWith \in [Tickets -> SUBSET Tickets]
    BY DEF TypeInv, Fields
  <1>5. Active' = Active \ {r} /\ r \in Active
    BY <1>1, <1>3, <1>4 DEF Active
  <1> QED
    BY <1>2, <1>3, <1>4, <1>5

(* A commit or reset binds no ticket to a device but that of the commit.   *)
LEMMA OnlyCommitBinds ==
    ASSUME TypeInv, [Next]_vars, NEW u \in Tickets, device'[u] # NoDevice,
           device'[u] # device[u]
    PROVE  \E r \in Requests : Commit(r) /\ u = tx[r].ticket
  <1>1. ~Unchanged
    BY DEF Unchanged
  <1>2. ~\E p \in Staff : Reset(p)
    BY DEF Reset, TypeInv, Fields
  <1>3. PICK r \in Requests : Commit(r)
    BY <1>1, <1>2, Bindings
  <1>4. u = tx[r].ticket
    BY <1>3, Committed
  <1> QED
    BY <1>3, <1>4

(* An activation that goes on keeps its ticket, device and peers.          *)
LEMMA StaysActive ==
    ASSUME TypeInv, [Next]_vars, NEW r \in Active, r \in Active'
    PROVE  /\ tx'[r].ticket = tx[r].ticket /\ tx'[r].device = tx[r].device
           /\ peers[r] \subseteq peers'[r]
  <1>0. r \in Requests /\ tx[r] \in Activation /\ pc[r] # "idle" /\ pc'[r] # "idle"
    BY DEF Active, TypeInv, Fields
  <1>1. CASE UNCHANGED <<tx, peers>>
    BY <1>1
  <1>2. ASSUME NEW q \in Requests, Read(q)
        PROVE  tx'[r] = tx[r] /\ peers[r] \subseteq peers'[r]
    BY <1>0, <1>2 DEF Read, Active, TypeInv, Fields
  <1>3. ASSUME NEW q \in Requests, FindSiblings(q)
        PROVE  /\ tx'[r].ticket = tx[r].ticket /\ tx'[r].device = tx[r].device
               /\ peers'[r] = peers[r]
    <2>1. tx' = [tx EXCEPT ![q] = [tx[q] EXCEPT !.todo = Siblings(q)]] /\ peers' = peers
      BY <1>3 DEF FindSiblings, history
    <2>2. \A S : \A a \in Activation : /\ [a EXCEPT !.todo = S].ticket = a.ticket
                                     /\ [a EXCEPT !.todo = S].device = a.device
      BY DEF Activation
    <2> QED
      BY <1>0, <2>1, <2>2 DEF TypeInv, Fields
  <1>4. ASSUME NEW q \in Requests, UnbindSibling(q)
        PROVE  /\ tx'[r].ticket = tx[r].ticket /\ tx'[r].device = tx[r].device
               /\ peers'[r] = peers[r]
    <2>1. PICK u \in tx[q].todo :
            \/ tx' = [tx EXCEPT ![q] = Unbound(tx[q], u)]
            \/ tx' = [tx EXCEPT ![q] = Visited(tx[q], u)]
      BY <1>4 DEF UnbindSibling
    <2>2. tx[q] \in Activation /\ peers' = peers
      BY <1>4 DEF UnbindSibling, history, TypeInv, Fields
    <2>3. u \in Tickets
      BY <2>1, <2>2, ActivationFields
    <2>4. CASE r = q
      <3>1. tx'[r] = Unbound(tx[r], u) \/ tx'[r] = Visited(tx[r], u)
        BY <1>0, <2>1, <2>4 DEF TypeInv, Fields
      <3> QED
        BY <1>0, <2>2, <2>3, <3>1, Updated
    <2>5. CASE r # q
      <3>1. tx'[r] = tx[r]
        BY <1>0, <2>1, <2>5 DEF TypeInv, Fields
      <3> QED
        BY <2>2, <3>1
    <2> QED
      BY <2>4, <2>5
  <1>5. ASSUME NEW q \in Requests, Commit(q) \/ Rollback(q)
        PROVE  tx'[r] = tx[r] /\ peers'[r] = peers[r]
    BY <1>0, <1>5 DEF Commit, Rollback, End, Goto, TypeInv, Fields
  <1> QED
    BY <1>1, <1>2, <1>3, <1>4, <1>5 DEF Next, Bind, ReadForReset, Reset, AbandonReset,
       history, vars

LEMMA PeersStep == ASSUME Overlap, [Next]_vars PROVE PeersKnown'
  <1> SUFFICES ASSUME NEW r \in Active', NEW q \in Active', r # q
               PROVE  tx'[q].ticket \in peers'[r]
    BY DEF PeersKnown
  <1>0. r \in Requests /\ q \in Requests
    BY DEF Active
  <1>1. CASE r \in Active /\ q \in Active
    <2>1. tx[q].ticket \in peers[r]
      BY <1>1 DEF Overlap, PeersKnown
    <2> QED
      BY <1>1, <2>1, StaysActive DEF Overlap
  <1>2. CASE ~(r \in Active /\ q \in Active)
    <2>1. PICK o \in Requests : Read(o) /\ o \notin Active
      <3>1. \A o \in Requests : Bind(o) \/ FindSiblings(o) \/ UnbindSibling(o) \/ Commit(o)
                                \/ Rollback(o) => Active' \subseteq Active
        BY DEF Bind, FindSiblings, UnbindSibling, Commit, Rollback, End, Goto, Active,
               Overlap, TypeInv, Fields
      <3>2. \A p \in Staff : ReadForReset(p) \/ Reset(p) \/ AbandonReset(p) => Active' = Active
        BY DEF ReadForReset, Reset, AbandonReset, Active
      <3>3. UNCHANGED vars => Active' = Active
        BY DEF vars, Active
      <3>4. \A o \in Requests : Read(o) => o \notin Active
        BY DEF Read, Active
      <3> QED
        BY <1>2, <3>1, <3>2, <3>3, <3>4 DEF Next
    <2>2. PICK t \in Tickets :
            \E d \in Devices :
              tx' = [tx EXCEPT ![o] = [ticket |-> t, device |-> d, todo |-> {}, unbound |-> {}]]
              /\ peers' = [x \in Requests |->
                             CASE x = o        -> {tx[y].ticket : y \in Active}
                               [] x \in Active -> peers[x] \cup {t}
                               [] OTHER        -> peers[x]]
      BY <2>1 DEF Read
    <2>3. PICK d \in Devices :
              tx' = [tx EXCEPT ![o] = [ticket |-> t, device |-> d, todo |-> {}, unbound |-> {}]]
              /\ peers' = [x \in Requests |->
                             CASE x = o        -> {tx[y].ticket : y \in Active}
                               [] x \in Active -> peers[x] \cup {t}
                               [] OTHER        -> peers[x]]
      BY <2>2
    <2>4. \A x \in Requests \ {o} : tx'[x] = tx[x] /\ (x \in Active' <=> x \in Active)
      BY <2>1, <2>3 DEF Read, Goto, Active, Overlap, TypeInv, Fields
    <2>5. tx'[o].ticket = t
      BY <2>1, <2>3 DEF Overlap, TypeInv, Fields
    <2>6. CASE r = o
      <3>1. q \in Active /\ tx'[q] = tx[q]
        BY <1>0, <2>4, <2>6
      <3> DEFINE tickets == {tx[y].ticket : y \in Active}
      <3>2. tx[q].ticket \in tickets
        BY <3>1
      <3>3. peers'[o] = tickets
        <4> HIDE DEF tickets
        <4>1. peers' = [x \in Requests |->
                          CASE x = o        -> tickets
                            [] x \in Active -> peers[x] \cup {t}
                            [] OTHER        -> peers[x]]
          BY <2>3 DEF tickets
        <4> QED
          BY <2>1, <4>1
      <3> QED
        BY <2>6, <3>1, <3>2, <3>3
    <2>7. CASE q = o
      <3>1. r \in Active /\ r # o
        BY <1>0, <2>4, <2>7
      <3>2. peers'[r] = peers[r] \cup {t}
        BY <1>0, <2>3, <3>1
      <3> QED
        BY <2>5, <2>7, <3>2
    <2> QED
      BY <1>0, <1>2, <2>4, <2>6, <2>7
  <1> QED
    BY <1>1, <1>2

LEMMA OwnStep == ASSUME Overlap, [Next]_vars PROVE OwnAsRead'
  <1> SUFFICES ASSUME NEW r \in Active',
                      device'[tx'[r].ticket] \notin {NoDevice, tx'[r].device}
               PROVE  tx'[r].ticket \in peers'[r]
    BY DEF OwnAsRead
  <1>0. r \in Requests /\ tx'[r] \in Activation /\ tx'[r].ticket \in Tickets
    <2>1. TypeInv'
      BY StepTyped DEF Overlap
    <2> QED
      BY <2>1, ActivationFields DEF Active, TypeInv, Fields
  <1>1. CASE r \in Active
    <2> DEFINE t == tx[r].ticket
    <2>1. tx'[r].ticket = t /\ tx'[r].device = tx[r].device /\ peers[r] \subseteq peers'[r]
      BY <1>1, StaysActive DEF Overlap
    <2>2. CASE device'[t] = device[t]
      BY <1>1, <2>1, <2>2 DEF Overlap, OwnAsRead
    <2>3. CASE device'[t] # device[t]
      <3>1. PICK q \in Requests : Commit(q) /\ t = tx[q].ticket
        BY <1>0, <2>1, <2>3, OnlyCommitBinds DEF Overlap
      <3>2. q # r /\ q \in Active
        BY <3>1, Committed DEF Overlap
      <3>3. t \in peers[r]
        BY <1>1, <3>1, <3>2 DEF Overlap, PeersKnown
      <3> QED
        BY <2>1, <3>3
    <2> QED
      BY <2>2, <2>3
  <1>2. CASE r \notin Active
    <2>1. Read(r)
      <3>1. \A o \in Requests : Bind(o) \/ FindSiblings(o) \/ UnbindSibling(o) \/ Commit(o)
                                \/ Rollback(o) => Active' \subseteq Active
        BY DEF Bind, FindSiblings, UnbindSibling, Commit, Rollback, End, Goto, Active,
               Overlap, TypeInv, Fields
      <3>2. \A p \in Staff : ReadForReset(p) \/ Reset(p) \/ AbandonReset(p) => Active' = Active
        BY DEF ReadForReset, Reset, AbandonReset, Active
      <3>3. UNCHANGED vars => Active' = Active
        BY DEF vars, Active
      <3>4. \A o \in Requests \ {r} : Read(o) => (r \in Active' => r \in Active)
        BY <1>0 DEF Read, Goto, Active, Overlap, TypeInv, Fields
      <3> QED
        BY <1>2, <3>1, <3>2, <3>3, <3>4 DEF Next
    <2>2. PICK t \in Tickets :
            \E d \in Devices :
              MayBind(t, d)
              /\ tx' = [tx EXCEPT ![r] = [ticket |-> t, device |-> d, todo |-> {}, unbound |-> {}]]
      BY <2>1 DEF Read
    <2>3. PICK d \in Devices :
              MayBind(t, d)
              /\ tx' = [tx EXCEPT ![r] = [ticket |-> t, device |-> d, todo |-> {}, unbound |-> {}]]
      BY <2>2
    <2>4. tx'[r].ticket = t /\ tx'[r].device = d
      BY <1>0, <2>3 DEF Overlap, TypeInv, Fields
    <2>5. device' = device
      BY <2>1 DEF Read, store
    <2> QED
      BY <2>3, <2>4, <2>5 DEF MayBind, Overlap, TypeInv, Paired
  <1> QED
    BY <1>1, <1>2

LEMMA VisitedStep == ASSUME Overlap, [Next]_vars PROVE AllVisited'
  <1> SUFFICES ASSUME NEW r \in Requests, pc'[r] = "commit" PROVE tx'[r].todo = {}
    BY DEF AllVisited
  <1>0. pc \in [Requests -> Stages] /\ tx \in [Requests -> Activation \cup {NoTask}]
    BY DEF Overlap, TypeInv, Fields
  <1>1. CASE pc'[r] = pc[r] /\ tx'[r] = tx[r]
    BY <1>1 DEF Overlap, AllVisited
  <1>2. CASE FindSiblings(r)
    <2>1. tx[r] \in Activation /\ Siblings(r) = {}
      BY <1>0, <1>2 DEF FindSiblings, Goto, Overlap, TypeInv, Fields
    <2>2. tx'[r] = [tx[r] EXCEPT !.todo = {}]
      BY <1>0, <1>2, <2>1 DEF FindSiblings
    <2> QED
      BY <2>1, <2>2 DEF Activation
  <1>3. CASE UnbindSibling(r)
    <2>1. tx[r] \in Activation
      BY <1>3 DEF UnbindSibling, Overlap, TypeInv, Fields
    <2>2. PICK u \in tx[r].todo :
            /\ \/ tx' = [tx EXCEPT ![r] = Unbound(tx[r], u)]
               \/ tx' = [tx EXCEPT ![r] = Visited(tx[r], u)]
            /\ Goto(r, IF tx[r].todo = {u} THEN "commit" ELSE "unbind")
      BY <1>3 DEF UnbindSibling
    <2>3. tx[r].todo = {u}
      BY <1>0, <2>2 DEF Goto
    <2>4. u \in Tickets /\ (tx'[r] = Unbound(tx[r], u) \/ tx'[r] = Visited(tx[r], u))
      BY <1>0, <2>1, <2>2, ActivationFields
    <2>5. tx'[r].todo = tx[r].todo \ {u}
      BY <2>1, <2>4, Updated
    <2> QED
      BY <2>3, <2>5
  <1>4. CASE ~FindSiblings(r) /\ ~UnbindSibling(r)
    <2>1. pc'[r] = pc[r] /\ tx'[r] = tx[r]
      BY <1>0, <1>4 DEF Next, Read, Bind, FindSiblings, UnbindSibling, Commit, Rollback, End,
         Goto, ReadForReset, Reset, AbandonReset, vars
    <2> QED
      BY <1>1, <2>1
  <1> QED
    BY <1>2, <1>3, <1>4

LEMMA SiblingsStep == ASSUME Overlap, [Next]_vars PROVE SiblingsFound'
  <1> SUFFICES ASSUME NEW r \in Requests, pc'[r] \in {"unbind", "commit"},
                      NEW u \in Tickets, u # tx'[r].ticket, device'[u] = tx'[r].device
               PROVE  u \in peers'[r] \cup tx'[r].todo \cup tx'[r].unbound
    BY DEF SiblingsFound
  <1>0. pc \in [Requests -> Stages] /\ tx \in [Requests -> Activation \cup {NoTask}]
    BY DEF Overlap, TypeInv, Fields
  <1>1. r \in Active /\ r \in Active'
    BY <1>0 DEF Next, Read, Bind, FindSiblings, UnbindSibling, Commit, Rollback, End,
         Goto, ReadForReset, Reset, AbandonReset, vars, Active
  <1>2. tx'[r].ticket = tx[r].ticket /\ tx'[r].device = tx[r].device /\ peers[r] \subseteq peers'[r]
    BY <1>1, StaysActive DEF Overlap
  <1>3. tx[r] \in Activation /\ tx[r].device \in Devices
    BY <1>1, ActivationFields DEF Active, Overlap, TypeInv, Fields
  <1>4. CASE device'[u] # device[u]
    <2>1. device'[u] # NoDevice
      BY <1>2, <1>3, NoDeviceAssumption
    <2>2. PICK q \in Requests : Commit(q) /\ u = tx[q].ticket
      BY <1>4, <2>1, OnlyCommitBinds DEF Overlap
    <2>3. q # r /\ q \in Active
      BY <1>2, <2>2, Committed DEF Overlap
    <2>4. u \in peers[r]
      BY <1>1, <2>2, <2>3 DEF Overlap, PeersKnown
    <2> QED
      BY <1>2, <2>4
  <1>5. CASE device'[u] = device[u] /\ pc[r] \in {"unbind", "commit"}
    <2>1. u \in peers[r] \cup tx[r].todo \cup tx[r].unbound
      BY <1>2, <1>5 DEF Overlap, SiblingsFound
    <2>2. CASE UnbindSibling(r)
      <3>1. PICK v \in tx[r].todo :
              IF device[v] = tx[r].device
              THEN tx' = [tx EXCEPT ![r] = Unbound(tx[r], v)]
              ELSE tx' = [tx EXCEPT ![r] = Visited(tx[r], v)]
        BY <2>2 DEF UnbindSibling, StillQualifies
      <3>2. v \in Tickets
        BY <1>3, <3>1, ActivationFields
      <3>3. CASE device[v] = tx[r].device
        <4>1. tx'[r] = Unbound(tx[r], v)
          BY <1>0, <3>1, <3>3
        <4>2. /\ Unbound(tx[r], v).todo = tx[r].todo \ {v}
              /\ Unbound(tx[r], v).unbound = tx[r].unbound \cup {v}
          BY <1>3, <3>2, Updated
        <4> QED
          BY <1>2, <2>1, <4>1, <4>2
      <3>4. CASE device[v] # tx[r].device
        <4>1. tx'[r] = Visited(tx[r], v)
          BY <1>0, <3>1, <3>4
        <4>2. /\ Visited(tx[r], v).todo = tx[r].todo \ {v}
              /\ Visited(tx[r], v).unbound = tx[r].unbound
          BY <1>3, <3>2, Updated
        <4>3. u # v
          BY <1>2, <1>5, <3>4
        <4> QED
          BY <1>2, <2>1, <4>1, <4>2, <4>3
      <3> QED
        BY <3>3, <3>4
    <2>3. CASE ~UnbindSibling(r)
      <3>1. tx'[r] = tx[r]
        BY <1>0, <1>5, <2>3 DEF Next, Read, Bind, FindSiblings, UnbindSibling, Commit, Rollback,
         End, Goto, ReadForReset, Reset, AbandonReset, vars
      <3> QED
        BY <1>2, <2>1, <3>1
    <2> QED
      BY <2>2, <2>3
  <1>6. CASE device'[u] = device[u] /\ pc[r] \notin {"unbind", "commit"}
    <2>1. FindSiblings(r)
      BY <1>0, <1>6 DEF Next, Read, Bind, FindSiblings, UnbindSibling, Commit, Rollback, End,
         Goto, ReadForReset, Reset, AbandonReset, vars
    <2>2. tx'[r] = [tx[r] EXCEPT !.todo = Siblings(r)]
      BY <1>0, <2>1 DEF FindSiblings
    <2>3. tx'[r].todo = Siblings(r)
      BY <1>3, <2>2 DEF Activation
    <2> QED
      BY <1>2, <1>6, <2>3 DEF Siblings
  <1> QED
    BY <1>4, <1>5, <1>6

LEMMA OverlapHolds == Spec => []Overlap
  <1>1. Init => Overlap
    <2> SUFFICES ASSUME Init PROVE Overlap
      OBVIOUS
    <2>1. TypeInv
      BY InitTyped
    <2>2. Active = {}
      BY DEF Init, Active
    <2> QED
      BY <2>1, <2>2 DEF Init, Overlap, PeersKnown, OwnAsRead, SiblingsFound, AllVisited
  <1>2. Overlap /\ [Next]_vars => Overlap'
    <2> SUFFICES ASSUME Overlap, [Next]_vars PROVE Overlap'
      OBVIOUS
    <2>1. TypeInv'
      BY StepTyped DEF Overlap
    <2> QED
      BY <2>1, PeersStep, OwnStep, SiblingsStep, VisitedStep DEF Overlap
  <1> QED
    BY <1>1, <1>2, PTL DEF Spec

-------------------------------------------------------------------------------
(* The commit of an activation leaves its device with no other ticket that *)
(* is not one of its peers'.                                               *)
LEMMA Exclusive ==
    ASSUME Overlap, NEW r \in Requests, Commit(r),
           NEW u \in Tickets, u # tx[r].ticket, device'[u] = tx[r].device
    PROVE  u \in peers[r]
  <1>1. /\ tx[r].device # NoDevice
        /\ device'[u] = IF u \in tx[r].unbound THEN NoDevice ELSE device[u]
    BY Committed, NoDeviceAssumption DEF Overlap
  <1>2. device[u] = tx[r].device /\ u \notin tx[r].unbound
    BY <1>1
  <1>3. pc[r] = "commit"
    BY DEF Commit
  <1>4. tx[r].todo = {}
    BY <1>3 DEF Overlap, AllVisited
  <1> QED
    BY <1>2, <1>3, <1>4 DEF Overlap, SiblingsFound

LEMMA SharedStep ==
    ASSUME Overlap, SharedOnlyByOverlap, [Next]_vars
    PROVE  SharedOnlyByOverlap'
  <1> SUFFICES ASSUME NEW t \in Tickets, NEW u \in Tickets,
                      t # u, device'[t] # NoDevice, device'[t] = device'[u]
               PROVE  u \in boundWith'[t] \/ t \in boundWith'[u]
    BY DEF SharedOnlyByOverlap
  <1>1. CASE Unchanged
    BY <1>1 DEF Unchanged, SharedOnlyByOverlap
  <1>2. ASSUME NEW p \in Staff, Reset(p) PROVE u \in boundWith'[t] \/ t \in boundWith'[u]
    <2>1. /\ device'[t] = device[t] /\ device'[u] = device[u]
          /\ boundWith'[t] = boundWith[t] /\ boundWith'[u] = boundWith[u]
      BY <1>2 DEF Reset, Overlap, TypeInv, Fields
    <2> QED
      BY <2>1 DEF SharedOnlyByOverlap
  <1>3. ASSUME NEW r \in Requests, Commit(r) PROVE u \in boundWith'[t] \/ t \in boundWith'[u]
    <2>1. CASE t = tx[r].ticket
      BY <1>3, <2>1, Committed, Exclusive DEF Overlap
    <2>2. CASE u = tx[r].ticket
      BY <1>3, <2>2, Committed, Exclusive DEF Overlap
    <2>3. CASE t # tx[r].ticket /\ u # tx[r].ticket
      <3>1. device'[t] = device[t] /\ device'[u] = device[u]
        BY <1>3, <2>3, Committed DEF Overlap
      <3>2. boundWith'[t] = boundWith[t] /\ boundWith'[u] = boundWith[u]
        BY <1>3, <2>3, Committed DEF Overlap
      <3> QED
        BY <3>1, <3>2 DEF SharedOnlyByOverlap
    <2> QED
      BY <2>1, <2>2, <2>3
  <1> QED
    BY <1>1, <1>2, <1>3, Bindings DEF Overlap

(* Two tickets of an event share a device only if activations of both      *)
(* overlapped, whatever else happened to them.                             *)
THEOREM SharingNeedsOverlap == Spec => []SharedOnlyByOverlap
  <1>1. Init => SharedOnlyByOverlap
    BY DEF Init, SharedOnlyByOverlap
  <1>2. Overlap /\ SharedOnlyByOverlap /\ [Next]_vars => SharedOnlyByOverlap'
    BY SharedStep
  <1> QED
    BY <1>1, <1>2, OverlapHolds, PTL DEF Spec

(* A binding is replaced only by an activation that overlapped with one of *)
(* the same ticket.                                                        *)
THEOREM RebindingNeedsOverlap == Spec => RebindOnlyByOverlap
  <1> DEFINE Step ==
        \A t \in Tickets :
          device[t] # NoDevice /\ device'[t] \notin {NoDevice, device[t]} => t \in boundWith'[t]
  <1>1. Overlap /\ [Next]_vars => [Step]_vars
    <2> SUFFICES ASSUME Overlap, [Next]_vars, NEW t \in Tickets,
                        device[t] # NoDevice, device'[t] \notin {NoDevice, device[t]}
                 PROVE  t \in boundWith'[t]
      OBVIOUS
    <2>1. PICK r \in Requests : Commit(r) /\ t = tx[r].ticket
      BY OnlyCommitBinds DEF Overlap
    <2>2. r \in Active /\ device'[t] = tx[r].device /\ boundWith'[t] = peers[r]
      BY <2>1, Committed DEF Overlap
    <2> QED
      BY <2>1, <2>2 DEF Overlap, OwnAsRead
  <1> QED
    BY <1>1, OverlapHolds, PTL DEF Spec, RebindOnlyByOverlap

(* An activation that overlaps with no other one leaves its device with    *)
(* its own ticket alone, however many siblings shared it before.           *)
THEOREM AloneIsExclusive == Spec => ActivationAloneIsExclusive
  <1> DEFINE Step ==
        \A r \in Requests :
          pc[r] = "commit" /\ pc'[r] = "idle" /\ device' # device /\ peers[r] = {} =>
            \A u \in Tickets \ {tx[r].ticket} : device'[u] # tx[r].device
  <1>1. Overlap /\ [Next]_vars => [Step]_vars
    <2> SUFFICES ASSUME Overlap, [Next]_vars, NEW r \in Requests,
                        pc[r] = "commit", pc'[r] = "idle", device' # device, peers[r] = {},
                        NEW u \in Tickets, u # tx[r].ticket
                 PROVE  device'[u] # tx[r].device
      OBVIOUS
    <2>1. Commit(r)
      <3>1. ~Unchanged /\ \A p \in Staff : ~Reset(p)
        BY DEF Unchanged, Reset
      <3>2. PICK q \in Requests : Commit(q)
        BY <3>1, Bindings DEF Overlap
      <3>3. q = r
        BY <3>2, Committed DEF Overlap
      <3> QED
        BY <3>2, <3>3
    <2> QED
      BY <2>1, Exclusive
  <1> QED
    BY <1>1, OverlapHolds, PTL DEF Spec, ActivationAloneIsExclusive
-------------------------------------------------------------------------------
(* Refinement of DeviceRegistry.  A commit writes all it has to at once:   *)
(* the rows an activation has unbound are siblings of its ticket until     *)
(* then, since nobody else writes a row it has locked.                     *)

UnboundKept ==
    \A r \in Requests : \A u \in tx[r].unbound :
        pc[r] # "idle" => u # tx[r].ticket /\ device[u] = tx[r].device

RegistryInv == Overlap /\ UnboundKept

(* The lock on a row keeps its binding for the activation that has it.     *)
LEMMA LockKeeps ==
    ASSUME TypeInv, [Next]_vars, NEW r \in Requests, NEW u \in Tickets,
           lock[u] = r, ~Commit(r)
    PROVE  device'[u] = device[u]
  <1>1. CASE Unchanged
    BY <1>1 DEF Unchanged
  <1>2. ASSUME NEW p \in Staff, Reset(p) PROVE device'[u] = device[u]
    <2>1. resetting[p] # u
      BY <1>2, NoTaskAssumption DEF Reset
    <2> QED
      BY <1>2, <2>1 DEF Reset, TypeInv, Fields
  <1>3. ASSUME NEW q \in Requests, Commit(q) PROVE device'[u] = device[u]
    <2>1. q # r /\ u \notin Locked(q)
      BY <1>3 DEF Locked
    <2>2. Locked(q) = {tx[q].ticket} \cup tx[q].unbound
      BY <1>3 DEF Commit, TypeInv, Holds
    <2> QED
      BY <1>3, <2>1, <2>2, Committed
  <1> QED
    BY <1>1, <1>2, <1>3, Bindings

LEMMA UnboundStep ==
    ASSUME TypeInv, UnboundKept, [Next]_vars
    PROVE  UnboundKept'
  <1> SUFFICES ASSUME NEW r \in Requests, pc'[r] # "idle", NEW u \in tx'[r].unbound
               PROVE  u # tx'[r].ticket /\ device'[u] = tx'[r].device
    BY DEF UnboundKept
  <1>0. pc \in [Requests -> Stages] /\ tx \in [Requests -> Activation \cup {NoTask}]
    BY DEF TypeInv, Fields
  <1>1. ~Commit(r) /\ ~Rollback(r)
    BY <1>0 DEF Commit, Rollback, End, Goto
  <1>2. CASE pc[r] = "idle"
    <2>1. Read(r)
      BY <1>0, <1>2 DEF Next, Read, Bind, FindSiblings, UnbindSibling, Commit, Rollback, End,
         Goto, ReadForReset, Reset, AbandonReset, vars
    <2>2. \E t \in Tickets, d \in Devices :
            tx' = [tx EXCEPT ![r] = [ticket |-> t, device |-> d, todo |-> {}, unbound |-> {}]]
      BY <2>1 DEF Read
    <2>3. tx'[r].unbound = {}
      BY <1>0, <2>2
    <2> QED
      BY <2>3
  <1>3. CASE pc[r] # "idle"
    <2>0. tx[r] \in Activation
      BY <1>3 DEF TypeInv, Fields
    <2>1. r \in Active /\ r \in Active'
      BY <1>3 DEF Active
    <2>2. tx'[r].ticket = tx[r].ticket /\ tx'[r].device = tx[r].device
      BY <2>1, StaysActive
    <2>3. ASSUME u \in tx[r].unbound
          PROVE  u # tx'[r].ticket /\ device'[u] = tx'[r].device
      <3>1. u # tx[r].ticket /\ device[u] = tx[r].device /\ u \in Tickets
        BY <1>3, <2>0, <2>3, ActivationFields DEF UnboundKept
      <3>2. Locked(r) = {tx[r].ticket} \cup tx[r].unbound
        BY <1>3, <2>3 DEF TypeInv, Holds, Fresh, Fields, Stages
      <3>3. lock[u] = r
        BY <2>3, <3>2 DEF Locked
      <3>4. device'[u] = device[u]
        BY <1>1, <3>1, <3>3, LockKeeps
      <3> QED
        BY <2>2, <3>1, <3>4
    <2>4. ASSUME u \notin tx[r].unbound
          PROVE  u # tx'[r].ticket /\ device'[u] = tx'[r].device
      <3>1. tx'[r].unbound # tx[r].unbound
        BY <2>4
      <3>2. CASE FindSiblings(r)
        <4>1. tx'[r] = [tx[r] EXCEPT !.todo = Siblings(r)]
          BY <1>0, <3>2 DEF FindSiblings
        <4>2. tx'[r].unbound = tx[r].unbound
          BY <2>0, <4>1 DEF Activation
        <4> QED
          BY <3>1, <4>2
      <3>3. CASE UnbindSibling(r)
        <4>1. PICK v \in tx[r].todo :
                /\ lock[v] = NoTask
                /\ IF device[v] = tx[r].device
                   THEN tx' = [tx EXCEPT ![r] = Unbound(tx[r], v)]
                   ELSE tx' = [tx EXCEPT ![r] = Visited(tx[r], v)]
          BY <3>3 DEF UnbindSibling, StillQualifies
        <4>2. v \in Tickets
          BY <2>0, <4>1, ActivationFields
        <4>3. device[v] = tx[r].device
          <5> SUFFICES ASSUME device[v] # tx[r].device PROVE FALSE
            OBVIOUS
          <5>1. tx'[r] = Visited(tx[r], v)
            BY <1>0, <4>1
          <5> QED
            BY <2>0, <3>1, <4>2, <5>1, Updated
        <4>4. tx'[r] = Unbound(tx[r], v)
          BY <1>0, <4>1, <4>3
        <4>5. u = v
          BY <2>0, <2>4, <4>2, <4>4, Updated
        <4>6. Locked(r) = {tx[r].ticket} \cup tx[r].unbound
          BY <3>3 DEF UnbindSibling, TypeInv, Holds
        <4>7. v # tx[r].ticket
          BY <4>1, <4>6, NoTaskAssumption DEF Locked
        <4>8. device' = device
          BY <3>3 DEF UnbindSibling
        <4> QED
          BY <2>2, <4>3, <4>5, <4>7, <4>8
      <3>4. CASE ~FindSiblings(r) /\ ~UnbindSibling(r)
        <4>1. tx'[r] = tx[r]
          BY <1>0, <1>1, <1>3, <3>4 DEF Next, Read, Bind, FindSiblings, UnbindSibling, Commit,
             Rollback, End, Goto, ReadForReset, Reset, AbandonReset, vars
        <4> QED
          BY <3>1, <4>1
      <3> QED
        BY <3>2, <3>3, <3>4
    <2> QED
      BY <2>3, <2>4
  <1> QED
    BY <1>2, <1>3

(* A commit is an activation of the registry that misses, of the siblings, *)
(* only what is bound to tickets of its peers.                             *)
LEMMA CommitActivates ==
    ASSUME RegistryInv, NEW r \in Requests, Commit(r)
    PROVE  Registry!Next
  <1> DEFINE t == tx[r].ticket
             d == tx[r].device
             missed == Registry!Siblings(t, d) \ tx[r].unbound
  <1>0. TypeInv /\ r \in Active /\ pc[r] = "commit"
    BY Committed DEF RegistryInv, Overlap, Commit
  <1>1. t \in Tickets /\ d \in Devices /\ peers[r] \in SUBSET Tickets
    BY <1>0, Committed DEF TypeInv, Fields
  <1>3. device[t] \in {NoDevice, d} \/ t \in peers[r]
    BY <1>0 DEF RegistryInv, Overlap, OwnAsRead
  <1>4. tx[r].unbound \subseteq Registry!Siblings(t, d)
    BY <1>0, <1>1, Committed DEF RegistryInv, UnboundKept, Registry!Siblings
  <1>5. missed \subseteq Registry!Siblings(t, d) \cap peers[r]
    <2> SUFFICES ASSUME NEW u \in missed PROVE u \in peers[r]
      OBVIOUS
    <2>1. u \in Tickets \ {t} /\ device[u] = d /\ u \notin tx[r].unbound
      BY DEF Registry!Siblings
    <2> QED
      BY <1>0, <2>1 DEF RegistryInv, Overlap, SiblingsFound, AllVisited
  <1>6. LET unbound == Registry!Siblings(t, d) \ missed
        IN  /\ device' = [u \in Tickets |->
                 IF u = t THEN d ELSE IF u \in unbound THEN NoDevice ELSE device[u]]
            /\ key' = [u \in Tickets |->
                 IF u = t THEN r ELSE IF u \in unbound THEN NoTask ELSE key[u]]
            /\ boundWith' = [u \in Tickets |->
                 IF u = t THEN peers[r] ELSE IF u \in unbound THEN {} ELSE boundWith[u]]
    <2>1. Registry!Siblings(t, d) \ missed = tx[r].unbound
      BY <1>4
    <2> QED
      BY <2>1 DEF Commit
  <1> HIDE DEF t, d, missed
  <1>7. Registry!Activate(t, d, r, peers[r])
    BY <1>3, <1>5, <1>6 DEF Registry!Activate
  <1> QED
    BY <1>1, <1>7 DEF Registry!Next

LEMMA RegistryStep == RegistryInv /\ [Next]_vars => [Registry!Next]_(Registry!vars)
  <1> SUFFICES ASSUME RegistryInv, [Next]_vars
               PROVE  Registry!Next \/ UNCHANGED Registry!vars
    OBVIOUS
  <1>1. CASE Unchanged
    BY <1>1 DEF Unchanged, Registry!vars
  <1>2. ASSUME NEW p \in Staff, Reset(p) PROVE Registry!Next
    <2>1. resetting[p] \in Tickets
      BY <1>2 DEF Reset, RegistryInv, Overlap, TypeInv, Fields
    <2>2. Registry!Reset(resetting[p])
      BY <1>2 DEF Reset, Registry!Reset
    <2> QED
      BY <2>1, <2>2 DEF Registry!Next
  <1> QED
    BY <1>1, <1>2, CommitActivates, Bindings DEF RegistryInv, Overlap

(* Whatever activations and resets run at the same time, the bindings      *)
(* change as if they ran one at a time, each at its commit, but that an    *)
(* activation misses what its peers did to their own tickets.              *)
THEOREM BindingsSerialize == Spec => ImplementsRegistry
  <1>1. Init => Registry!Init
    BY DEF Init, Registry!Init
  <1>2. Init => UnboundKept
    BY DEF Init, UnboundKept
  <1>3. Overlap /\ UnboundKept /\ [Next]_vars => UnboundKept'
    BY UnboundStep DEF Overlap
  <1>4. Overlap /\ UnboundKept /\ [Next]_vars => [Registry!Next]_(Registry!vars)
    BY RegistryStep DEF RegistryInv
  <1> QED
    BY <1>1, <1>2, <1>3, <1>4, OverlapHolds, PTL DEF Spec, ImplementsRegistry, Registry!Spec
================================================================================
