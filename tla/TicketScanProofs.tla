--------------------------- MODULE TicketScanProofs ---------------------------
(* Theorems of TicketScan for every set of tickets, devices, scan requests *)
(* and staff members.                                                      *)
EXTENDS TicketScan, SequenceTheorems, FiniteSetTheorems, TLAPS

-------------------------------------------------------------------------------
(* Type correctness. *)

(* The part of TypeOK about the local state of scan requests. *)
LocalsOK ==
    /\ pc   \in [Scanners -> Stages]
    /\ scan \in [Scanners -> Scan \cup {NoTask}]
    /\ \A s \in Scanners : pc[s] # "idle" => scan[s] \in Scan

(* The checks answer with one of the causes. *)
LEMMA CheckType ==
    ASSUME NEW row, NEW nonce, NEW signer, NEW device, NEW direction
    PROVE  Check(row, nonce, signer, device, direction) \in Causes
  BY DEF Check, CheckUnrevoked, NonceCheck, PolicyCheck, Causes, Risky, Policy

(* A request that moves on with a well-typed record keeps the locals typed. *)
LEMMA MoveType ==
    ASSUME TypeOK, NEW s \in Scanners, NEW stage \in Stages, NEW r \in Scan,
           Goto(s, stage), scan' = [scan EXCEPT ![s] = r]
    PROVE  LocalsOK'
  BY DEF TypeOK, LocalsOK, Goto

(* A request that moves on and leaves its record as it is. *)
LEMMA StayType ==
    ASSUME TypeOK, NEW s \in Scanners, NEW stage \in Stages, pc[s] # "idle",
           Goto(s, stage), scan' = scan
    PROVE  LocalsOK'
  BY DEF TypeOK, LocalsOK, Goto

(* A request that ends. *)
LEMMA EndType ==
    ASSUME TypeOK, NEW s \in Scanners, Goto(s, "idle"), scan' = [scan EXCEPT ![s] = NoTask]
    PROVE  LocalsOK'
  BY DEF TypeOK, LocalsOK, Goto, Stages

(* Rejecting a scan in progress, and sending it to applyDecision. *)
LEMMA RejectType ==
    ASSUME TypeOK, NEW s \in Scanners, NEW c \in Causes, pc[s] # "idle", Reject(s, c)
    PROVE  LocalsOK'
  <1>1. [scan[s] EXCEPT !.cause = c, !.failCount = 0] \in Scan
    BY DEF TypeOK, Scan
  <1>2. scan' = [scan EXCEPT ![s] = [scan[s] EXCEPT !.cause = c, !.failCount = 0]]
    BY DEF Reject
  <1> QED
    BY <1>1, <1>2, MoveType DEF Reject, Stages

LEMMA SuspectType ==
    ASSUME TypeOK, NEW s \in Scanners, NEW c \in Causes, pc[s] # "idle", Suspect(s, c)
    PROVE  TypeOK'
  <1>1. [scan[s] EXCEPT !.cause = c] \in Scan
    BY DEF TypeOK, Scan
  <1>2. scan' = [scan EXCEPT ![s] = [scan[s] EXCEPT !.cause = c]]
    BY DEF Suspect
  <1>3. LocalsOK'
    BY <1>1, <1>2, MoveType DEF Suspect, Stages
  <1>4. failures' \in [Tickets -> Nat]
    BY DEF Suspect, TypeOK, Scan
  <1> QED
    BY <1>3, <1>4 DEF Suspect, TypeOK, LocalsOK, store

LEMMA MarkType ==
    ASSUME TypeOK, NEW t \in Tickets, MarkOverridden(t)
    PROVE  overridden' \in [Tickets -> SUBSET Nat]
  <1>1. Len(accepted[t]) \in Nat
    BY LenProperties DEF TypeOK
  <1> QED
    BY <1>1 DEF TypeOK, MarkOverridden

(* The row an accepted scan and a revocation write. *)
LEMMA AcceptedRowType ==
    ASSUME NEW row \in Ticket, NEW state \in Presence, NEW n \in Nat, NEW in \in BOOLEAN
    PROVE  [row EXCEPT !.state = state, !.lastNonce = n, !.nextNonce = n + 1,
                       !.checkedIn = in] \in Ticket
  <1> DEFINE a == [row EXCEPT !.state = state]
             b == [a EXCEPT !.lastNonce = n]
             c == [b EXCEPT !.nextNonce = n + 1]
             d == [c EXCEPT !.checkedIn = in]
  <1>1. a \in Ticket
    BY DEF Ticket
  <1>2. b \in Ticket
    <2> HIDE DEF a
    <2> QED BY <1>1 DEF Ticket
  <1>3. c \in Ticket
    <2> HIDE DEF b
    <2> QED BY <1>2 DEF Ticket
  <1>4. d \in Ticket
    <2> HIDE DEF c
    <2> QED BY <1>3 DEF Ticket
  <1> QED
    BY <1>4

LEMMA RevokedRowType ==
    ASSUME TypeOK, NEW t \in Tickets, NEW by \in {"staff", "shareGuard"},
           tickets' = [tickets EXCEPT ![t] = RevokedRow(@, by)]
    PROVE  tickets' \in [Tickets -> Ticket]
  <1> DEFINE row == tickets[t]
  <1>1. row \in Ticket
    BY DEF TypeOK
  <1> HIDE DEF row
  <1>2. RevokedRow(row, by) \in Ticket
    BY <1>1 DEF RevokedRow, Ticket, Presence
  <1> QED
    BY <1>2 DEF TypeOK, row

LEMMA InitType == Init => TypeOK
  BY DEF Init, TypeOK, NewTicket, Ticket, NoGuard, ShareGuard, Presence, Stages, Nobody

(* One step of a scan request keeps the types. *)
LEMMA ScanStepType ==
    ASSUME TypeOK, NEW s \in Scanners, ScanStep(s)
    PROVE  TypeOK'
  <1> DEFINE r == scan[s]
  <1>0. pc[s] # "idle" => r \in Scan /\ r.ticket \in Tickets /\ r.nonce \in Nat /\ r.cause \in Causes
    BY DEF TypeOK, Scan
  <1>a. "answer" \in Stages /\ "idle" \in Stages
    BY DEF Stages
  <1>1. CASE ReadTicket(s)
    <2>1. PICK k \in tokens, signer \in Devices, device \in Devices, direction \in Directions :
             /\ scan' = [scan EXCEPT ![s] =
                  [ticket |-> k[1], nonce |-> k[2], direction |-> direction,
                   cause |-> Check(tickets[k[1]], k[2], signer, device, direction),
                   wasCheckedIn |-> tickets[k[1]].checkedIn, failCount |-> 0]]
             /\ Goto(s, IF Check(tickets[k[1]], k[2], signer, device, direction) = "revoked"
                        THEN "answer" ELSE "isBlocked")
      BY <1>1 DEF ReadTicket
    <2> DEFINE n == [ticket |-> k[1], nonce |-> k[2], direction |-> direction,
                     cause |-> Check(tickets[k[1]], k[2], signer, device, direction),
                     wasCheckedIn |-> tickets[k[1]].checkedIn, failCount |-> 0]
               stage == IF Check(tickets[k[1]], k[2], signer, device, direction) = "revoked"
                        THEN "answer" ELSE "isBlocked"
    <2>2. k[1] \in Tickets /\ k[2] \in Nat /\ tickets[k[1]].checkedIn \in BOOLEAN
      BY DEF TypeOK, Ticket
    <2>3. Check(tickets[k[1]], k[2], signer, device, direction) \in Causes
      BY CheckType
    <2>4. n \in Scan /\ stage \in Stages
      BY <2>2, <2>3 DEF Scan, Stages
    <2>5. Goto(s, stage) /\ scan' = [scan EXCEPT ![s] = n]
      BY <2>1
    <2>6. LocalsOK'
      <3> HIDE DEF n, stage
      <3> QED BY <2>4, <2>5, MoveType
    <2> QED
      BY <1>1, <2>6 DEF ReadTicket, TypeOK, LocalsOK, store, history
  <1>2. CASE AnswerBlocked(s)
    <2>1. LocalsOK'
      BY <1>2, RejectType DEF AnswerBlocked, Causes
    <2> QED
      BY <1>2, <2>1 DEF AnswerBlocked, TypeOK, LocalsOK, store, history
  <1>3. CASE RejectHarmless(s)
    <2>1. LocalsOK'
      BY <1>3, <1>a, StayType DEF RejectHarmless, Unblocked
    <2> QED
      BY <1>3, <2>1 DEF RejectHarmless, TypeOK, LocalsOK, store, history
  <1>4. CASE RejectRisky(s)
    BY <1>4, <1>0, SuspectType DEF RejectRisky, Unblocked
  <1>5. CASE RejectEnded(s)
    <2>1. LocalsOK'
      BY <1>5, RejectType DEF RejectEnded, Unblocked, Causes, Policy
    <2> QED
      BY <1>5, <2>1 DEF RejectEnded, TypeOK, LocalsOK, store, history
  <1>6. CASE PassChecks(s)
    <2>1. LocalsOK'
      BY <1>6, StayType DEF PassChecks, Unblocked, Stages
    <2> QED
      BY <1>6, <2>1 DEF PassChecks, TypeOK, LocalsOK, store, history
  <1>7. CASE AcquireReplayKey(s)
    <2>1. LocalsOK'
      BY <1>7, StayType DEF AcquireReplayKey, Stages
    <2>2. replayKeys' \subseteq Tickets \X Nat
      BY <1>7, <1>0 DEF AcquireReplayKey, TypeOK
    <2>3. cleared' \subseteq Tickets \X Nat
      BY <1>7, <1>0 DEF AcquireReplayKey, TypeOK
    <2> QED
      BY <1>7, <2>1, <2>2, <2>3 DEF AcquireReplayKey, TypeOK, LocalsOK
  <1>8. CASE ReplayKeyTaken(s)
    BY <1>8, SuspectType DEF ReplayKeyTaken, Causes, Risky
  <1>9. CASE ResetFind(s)
    <2>1. LocalsOK'
      BY <1>9, StayType DEF ResetFind, Stages
    <2> QED
      BY <1>9, <2>1 DEF ResetFind, TypeOK, LocalsOK, store, history
  <1>10. CASE ResetUpdate(s)
    <2>1. LocalsOK'
      BY <1>10, StayType DEF ResetUpdate, Stages
    <2>2. guards' \in [Tickets -> ShareGuard]
      <3>1. \A g \in ShareGuard :
              [g EXCEPT !.failCount = 0, !.blocked = FALSE] \in ShareGuard
        BY DEF ShareGuard
      <3> QED
        BY <1>10, <1>0, <3>1 DEF ResetUpdate, TypeOK
    <2> QED
      BY <1>10, <2>1, <2>2 DEF ResetUpdate, TypeOK, LocalsOK, history
  <1>11. CASE Accept(s)
    <2> DEFINE t == r.ticket
               e == [nonce |-> r.nonce, state |-> intendedState(r.direction),
                     late |-> Revoked(tickets[t])]
    <2>1. r \in Scan /\ t \in Tickets /\ r.nonce \in Nat /\ r.wasCheckedIn \in BOOLEAN
      BY <1>11 DEF Accept, TypeOK, Scan
    <2>2. intendedState(r.direction) \in Presence
      BY DEF intendedState, Presence
    <2>3. e \in Entry
      BY <2>1, <2>2 DEF Entry, Revoked
    <2>4. tickets' \in [Tickets -> Ticket]
      <3> DEFINE in  == CheckedInAt(r)
                 row == [tickets[t] EXCEPT !.state     = intendedState(r.direction),
                                           !.lastNonce = r.nonce,
                                           !.nextNonce = r.nonce + 1,
                                           !.checkedIn = in]
      <3>1. in \in BOOLEAN
        BY <2>1 DEF CheckedInAt
      <3>2. tickets[t] \in Ticket
        BY <2>1 DEF TypeOK
      <3>3. tickets' = [tickets EXCEPT ![t] = row]
        BY <1>11 DEF Accept
      <3> HIDE DEF in
      <3>4. row \in Ticket
        BY <2>1, <2>2, <3>1, <3>2, AcceptedRowType
      <3> HIDE DEF row
      <3> QED
        BY <2>1, <3>3, <3>4 DEF TypeOK
    <2>5. accepted' = [accepted EXCEPT ![t] = Append(accepted[t], e)]
      BY <1>11 DEF Accept
    <2>6. accepted' \in [Tickets -> Seq(Entry)]
      <3>1. Append(accepted[t], e) \in Seq(Entry)
        BY <2>1, <2>3, AppendProperties DEF TypeOK
      <3> QED
        BY <3>1, <2>5 DEF TypeOK
    <2>7. LocalsOK'
      BY <1>11, EndType DEF Accept
    <2> QED
      BY <1>11, <2>4, <2>6, <2>7 DEF Accept, TypeOK, LocalsOK
  <1>12. CASE LoseNonceRace(s)
    <2>1. LocalsOK'
      BY <1>12, RejectType DEF LoseNonceRace, Causes
    <2> QED
      BY <1>12, <2>1 DEF LoseNonceRace, TypeOK, LocalsOK, store, history
  <1>13. CASE GuardUpsert(s)
    <2> DEFINE n == [r EXCEPT !.failCount = guards[r.ticket].failCount + 1]
    <2>1. guards[r.ticket] \in ShareGuard /\ guards[r.ticket].failCount + 1 \in Nat
      BY <1>13, <1>0 DEF GuardUpsert, TypeOK, ShareGuard
    <2>2. n \in Scan
      BY <1>13, <1>0, <2>1 DEF GuardUpsert, Scan
    <2>3. scan' = [scan EXCEPT ![s] = n] /\ Goto(s, "guardWrite")
      BY <1>13 DEF GuardUpsert
    <2>4. LocalsOK'
      BY <2>2, <2>3, MoveType DEF Stages
    <2>5. guards' \in [Tickets -> ShareGuard]
      BY <1>13, <1>0, <2>1 DEF GuardUpsert, TypeOK, ShareGuard
    <2> QED
      BY <1>13, <2>4, <2>5 DEF GuardUpsert, TypeOK, LocalsOK, history
  <1>14. CASE AutoRevoke(s)
    <2>1. LocalsOK'
      BY <1>14, <1>0, RejectType DEF AutoRevoke
    <2>2. overridden' \in [Tickets -> SUBSET Nat]
      BY <1>14, <1>0, MarkType DEF AutoRevoke
    <2>3. tickets' \in [Tickets -> Ticket]
      BY <1>14, <1>0, RevokedRowType DEF AutoRevoke
    <2> QED
      BY <1>14, <2>1, <2>2, <2>3 DEF AutoRevoke, TypeOK, LocalsOK
  <1>15. CASE RecordFailure(s)
    <2>1. LocalsOK'
      BY <1>15, <1>0, RejectType DEF RecordFailure
    <2>2. r.failCount \in Nat
      BY <1>15 DEF RecordFailure, TypeOK, Scan
    <2>3. guards' \in [Tickets -> ShareGuard]
      <3>1. guards[r.ticket] \in ShareGuard
        BY <1>15, <1>0 DEF RecordFailure, TypeOK
      <3>2. CASE ReachesBlock(r)
        BY <1>15, <1>0, <2>2, <3>1, <3>2 DEF RecordFailure, TypeOK, ShareGuard
      <3>3. CASE ~ReachesBlock(r)
        BY <1>15, <1>0, <2>2, <3>1, <3>3 DEF RecordFailure, TypeOK, ShareGuard
      <3> QED
        BY <3>2, <3>3
    <2> QED
      BY <1>15, <2>1, <2>3 DEF RecordFailure, TypeOK, LocalsOK, history
  <1>16. CASE Answer(s)
    <2>1. LocalsOK'
      BY <1>16, EndType DEF Answer
    <2> QED
      BY <1>16, <2>1 DEF Answer, TypeOK, LocalsOK, store, history
  <1>17. CASE Abandon(s)
    <2>1. LocalsOK'
      BY <1>17, EndType DEF Abandon
    <2> QED
      BY <1>17, <2>1 DEF Abandon, TypeOK, LocalsOK, store, history
  <1> QED
    BY <1>1, <1>2, <1>3, <1>4, <1>5, <1>6, <1>7, <1>8, <1>9, <1>10, <1>11,
       <1>12, <1>13, <1>14, <1>15, <1>16, <1>17 DEF ScanStep

(* One step of a staff member keeps the types. *)
LEMMA StaffStepType ==
    ASSUME TypeOK, NEW p \in Staff, StaffStep(p)
    PROVE  TypeOK'
  <1> DEFINE r == staff[p]
  <1>0. InProgress(p) => /\ r \in StaffTask
                         /\ r.ticket \in Tickets
                         /\ r.state \in Presence
                         /\ r.wasCheckedIn \in BOOLEAN
                         /\ tickets[r.ticket] \in Ticket
    BY DEF InProgress, TypeOK, StaffTask
  <1>1. CASE StaffRead(p)
    <2>1. PICK op \in Operations, t \in Tickets, state \in Presence :
            staff' = [staff EXCEPT ![p] =
                        [op |-> op, ticket |-> t, state |-> state,
                         wasCheckedIn |-> op = "updatePresence" /\ tickets[t].checkedIn]]
      BY <1>1 DEF StaffRead
    <2>2. [op |-> op, ticket |-> t, state |-> state,
           wasCheckedIn |-> op = "updatePresence" /\ tickets[t].checkedIn] \in StaffTask
      BY DEF TypeOK, Ticket, StaffTask
    <2>3. staff' \in [Staff -> StaffTask \cup {NoTask, Done}]
      BY <2>1, <2>2 DEF TypeOK
    <2> QED
      BY <1>1, <2>3 DEF StaffRead, TypeOK, store, history
  <1>2. CASE Revoke(p)
    <2>1. overridden' \in [Tickets -> SUBSET Nat]
      BY <1>2, <1>0, MarkType DEF Revoke, AtTransaction
    <2>2. tickets' \in [Tickets -> Ticket]
      BY <1>2, <1>0, RevokedRowType DEF Revoke, AtTransaction
    <2> QED
      BY <1>2, <2>1, <2>2 DEF Revoke, AtTransaction, TypeOK
  <1>3. CASE UpdatePresence(p)
    <2>1. overridden' \in [Tickets -> SUBSET Nat]
      BY <1>3, <1>0, MarkType DEF UpdatePresence, AtTransaction
    <2>2. tickets' \in [Tickets -> Ticket]
      BY <1>3, <1>0 DEF UpdatePresence, AtTransaction, TypeOK, Ticket
    <2> QED
      BY <1>3, <2>1, <2>2 DEF UpdatePresence, AtTransaction, TypeOK
  <1>4. CASE ResetDeviceBinding(p)
    <2>1. tickets' \in [Tickets -> Ticket]
      BY <1>4, <1>0 DEF ResetDeviceBinding, AtTransaction, TypeOK, Ticket
    <2> QED
      BY <1>4, <2>1 DEF ResetDeviceBinding, AtTransaction, TypeOK
  <1>5. CASE Delete(p)
    <2>1. tickets' \in [Tickets -> Ticket]
      BY <1>5, <1>0 DEF Delete, AtTransaction, TypeOK, Ticket
    <2>2. guards' \in [Tickets -> ShareGuard]
      BY <1>5, <1>0 DEF Delete, AtTransaction, TypeOK, NoGuard, ShareGuard
    <2> QED
      BY <1>5, <2>1, <2>2 DEF Delete, AtTransaction, TypeOK
  <1>6. CASE StaffAbandon(p)
    BY <1>6 DEF StaffAbandon, TypeOK, store, history
  <1> QED
    BY <1>1, <1>2, <1>3, <1>4, <1>5, <1>6 DEF StaffStep

LEMMA NextType == TypeOK /\ [Next]_vars => TypeOK'
  <1> SUFFICES ASSUME TypeOK, [Next]_vars PROVE TypeOK'
    OBVIOUS
  <1>1. ASSUME NEW t \in Tickets, GenerateToken(t) PROVE TypeOK'
    BY <1>1, SMTT(30) DEF TypeOK, GenerateToken, TokenNonce, store, history, Ticket
  <1>2. ASSUME NEW t \in Tickets, BlockExpires(t) PROVE TypeOK'
    BY <1>2 DEF TypeOK, BlockExpires, history, ShareGuard
  <1>3. ASSUME NEW t \in Tickets, NEW d \in Devices, ActivateDevice(t, d) PROVE TypeOK'
    <2>1. tickets' \in [Tickets -> Ticket]
      <3>1. \A row \in Ticket, e \in Devices \cup {NoDevice} :
              [row EXCEPT !.device = e] \in Ticket
        BY DEF Ticket
      <3> QED
        BY <1>3, <3>1 DEF TypeOK, ActivateDevice
    <2> QED
      BY <1>3, <2>1 DEF TypeOK, ActivateDevice, history
  <1>4. ASSUME NEW k \in replayKeys, ReplayKeyExpires(k) PROVE TypeOK'
    BY <1>4 DEF TypeOK, ReplayKeyExpires, history
  <1>5. CASE UNCHANGED vars
    BY <1>5 DEF TypeOK, vars, store, history
  <1> QED
    BY <1>1, <1>2, <1>3, <1>4, <1>5, ScanStepType, StaffStepType DEF Next

(* Every reachable state has values of the declared types, and a request   *)
(* in progress has its local record (TypeOK).                              *)
THEOREM TypeCorrect == Spec => []TypeOK
  <1>1. Init => TypeOK
    BY InitType
  <1>2. TypeOK /\ [Next]_vars => TypeOK'
    BY NextType
  <1> QED
    BY <1>1, <1>2, PTL DEF Spec

-------------------------------------------------------------------------------
(* What the steps leave alone. *)

Rows == <<tickets, accepted, overridden>>

SameRequest(r, q) ==
    /\ r.ticket = q.ticket
    /\ r.nonce = q.nonce
    /\ r.direction = q.direction
    /\ r.wasCheckedIn = q.wasCheckedIn

(* A step of a scan request that does not read the ticket ends the request *)
(* or goes on with the same token, direction and check-in snapshot; a cause*)
(* of rejection is never withdrawn, and none but the read finds a nonce    *)
(* invalid.                                                                *)
Continues(s) ==
    \/ pc'[s] = "idle"
    \/ /\ pc[s] # "idle"
       /\ SameRequest(scan'[s], scan[s])
       /\ \A cause \in {"none", "invalidNonce"} :
            scan'[s].cause = cause => scan[s].cause = cause

LEMMA ScanFrame ==
    ASSUME TypeOK, NEW s \in Scanners, ScanStep(s)
    PROVE  /\ \A o \in Scanners \ {s} : pc'[o] = pc[o] /\ scan'[o] = scan[o]
           /\ tokens' = tokens /\ staff' = staff
           /\ ReadTicket(s) \/ Continues(s)
           /\ UNCHANGED Rows \/ Accept(s) \/ AutoRevoke(s)
  <1> USE DEF TypeOK, Goto, Rows, Continues, SameRequest, store, history
  <1>0. pc[s] # "idle" => scan[s] \in Scan
    OBVIOUS
  <1>1. CASE ReadTicket(s)
    BY <1>1 DEF ReadTicket
  <1>2. CASE AnswerBlocked(s) \/ RejectEnded(s) \/ LoseNonceRace(s)
    <2>1. CASE AnswerBlocked(s)
      BY <1>0, <2>1 DEF AnswerBlocked, Reject, Scan
    <2>2. CASE RejectEnded(s)
      BY <1>0, <2>2 DEF RejectEnded, Unblocked, Reject, Scan
    <2>3. CASE LoseNonceRace(s)
      BY <1>0, <2>3 DEF LoseNonceRace, Reject, Scan
    <2> QED
      BY <1>2, <2>1, <2>2, <2>3
  <1>3. CASE RejectHarmless(s) \/ PassChecks(s)
    BY <1>3 DEF RejectHarmless, PassChecks, Unblocked
  <1>4. CASE RejectRisky(s) \/ ReplayKeyTaken(s)
    BY <1>0, <1>4 DEF RejectRisky, ReplayKeyTaken, Unblocked, Suspect, Scan, Risky
  <1>5. CASE AcquireReplayKey(s) \/ ResetFind(s) \/ ResetUpdate(s)
    BY <1>5 DEF AcquireReplayKey, ResetFind, ResetUpdate
  <1>6. CASE Accept(s)
    BY <1>6 DEF Accept
  <1>7. CASE GuardUpsert(s)
    BY <1>0, <1>7 DEF GuardUpsert, Scan
  <1>8. CASE AutoRevoke(s)
    BY <1>0, <1>8 DEF AutoRevoke, Reject, Scan
  <1>9. CASE RecordFailure(s)
    BY <1>0, <1>9 DEF RecordFailure, Reject, Scan
  <1>10. CASE Answer(s) \/ Abandon(s)
    BY <1>10 DEF Answer, Abandon
  <1> QED
    BY <1>1, <1>2, <1>3, <1>4, <1>5, <1>6, <1>7, <1>8, <1>9, <1>10 DEF ScanStep

(* The steps that write a row of a ticket, or append to the accepted scans. *)
LEMMA RowWriters ==
    ASSUME TypeOK, [Next]_vars
    PROVE  \/ UNCHANGED Rows
           \/ \E s \in Scanners : Accept(s) \/ AutoRevoke(s)
           \/ \E p \in Staff : StaffStep(p)
           \/ \E t \in Tickets, d \in Devices : ActivateDevice(t, d)
  <1>1. ASSUME NEW t \in Tickets, GenerateToken(t) \/ BlockExpires(t) PROVE UNCHANGED Rows
    BY <1>1 DEF GenerateToken, BlockExpires, Rows, store, history
  <1>2. ASSUME NEW k \in replayKeys, ReplayKeyExpires(k) PROVE UNCHANGED Rows
    BY <1>2 DEF ReplayKeyExpires, Rows, history
  <1>3. UNCHANGED vars => UNCHANGED Rows
    BY DEF Rows, vars, store, history
  <1>4. ASSUME NEW s \in Scanners, ScanStep(s)
        PROVE  UNCHANGED Rows \/ Accept(s) \/ AutoRevoke(s)
    BY <1>4, ScanFrame
  <1> QED
    BY <1>1, <1>2, <1>3, <1>4 DEF Next

(* Only an accepted scan moves the nonces or appends to the accepted scans; *)
(* no step withdraws a revocation.                                          *)
NoncesKept(t) ==
    /\ tickets'[t].lastNonce = tickets[t].lastNonce
    /\ tickets'[t].nextNonce = tickets[t].nextNonce

RevocationKept(t) == Revoked(tickets[t]) => Revoked(tickets'[t])

LEMMA RowFrame ==
    ASSUME TypeOK, [Next]_vars
    PROVE  /\ \A t \in Tickets : RevocationKept(t)
           /\ \/ \E s \in Scanners : Accept(s)
              \/ accepted' = accepted /\ \A t \in Tickets : NoncesKept(t)
  <1> USE DEF TypeOK, NoncesKept, RevocationKept, Revoked, Nobody, Ticket
  <1> DEFINE Kept == accepted' = accepted /\ \A t \in Tickets : RevocationKept(t) /\ NoncesKept(t)
  <1>1. UNCHANGED Rows => Kept
    BY DEF Rows
  <1>2. ASSUME NEW s \in Scanners, Accept(s) PROVE \A t \in Tickets : RevocationKept(t)
    BY <1>2 DEF Accept
  <1>3. ASSUME NEW s \in Scanners, AutoRevoke(s)
        PROVE  accepted' = accepted /\ \A t \in Tickets : RevocationKept(t) /\ NoncesKept(t)
    BY <1>3 DEF AutoRevoke, RevokedRow
  <1>4. ASSUME NEW p \in Staff, StaffStep(p)
        PROVE  accepted' = accepted /\ \A t \in Tickets : RevocationKept(t) /\ NoncesKept(t)
    <2>1. CASE StaffRead(p) \/ StaffAbandon(p)
      BY <1>4, <2>1 DEF StaffRead, StaffAbandon, store, history
    <2>2. CASE Revoke(p)
      BY <2>2 DEF Revoke, AtTransaction, RevokedRow
    <2>3. CASE UpdatePresence(p)
      BY <2>3 DEF UpdatePresence, AtTransaction
    <2>4. CASE ResetDeviceBinding(p)
      BY <2>4 DEF ResetDeviceBinding, AtTransaction
    <2>5. CASE Delete(p)
      BY <2>5 DEF Delete, AtTransaction
    <2> QED
      BY <1>4, <2>1, <2>2, <2>3, <2>4, <2>5 DEF StaffStep
  <1>5. ASSUME NEW t \in Tickets, NEW d \in Devices, ActivateDevice(t, d)
        PROVE  accepted' = accepted /\ \A u \in Tickets : RevocationKept(u) /\ NoncesKept(u)
    BY <1>5 DEF ActivateDevice, history
  <1>6. Kept \/ \E s \in Scanners : Accept(s)
    BY <1>1, <1>3, <1>4, <1>5, RowWriters
  <1> QED
    BY <1>2, <1>6

-------------------------------------------------------------------------------
(* Nonce rotation.  AcceptedOnceInOrder is inductive: the compare-and-set   *)
(* accepts only the next nonce, and nothing else moves it.                  *)

(* Accepting scan s extends the n accepted scans of its ticket t by one.   *)
Extends(s, t, n) ==
    /\ t \in Tickets
    /\ n \in Nat
    /\ n = Len(accepted[t])
    /\ scan[s] \in Scan
    /\ scan[s].ticket = t
    /\ tickets[t].nextNonce = scan[s].nonce
    /\ tickets'[t].lastNonce = scan[s].nonce
    /\ tickets'[t].nextNonce = scan[s].nonce + 1
    /\ Len(accepted'[t]) = n + 1
    /\ \A i \in 1..n : accepted'[t][i] = accepted[t][i]
    /\ accepted'[t][n + 1] = [nonce |-> scan[s].nonce,
                              state |-> intendedState(scan[s].direction),
                              late  |-> Revoked(tickets[t])]
    /\ \A u \in Tickets \ {t} : tickets'[u] = tickets[u] /\ accepted'[u] = accepted[u]

LEMMA AcceptEffect ==
    ASSUME TypeOK, NEW s \in Scanners, Accept(s)
    PROVE  Extends(s, scan[s].ticket, Len(accepted[scan[s].ticket]))
  <1> DEFINE t == scan[s].ticket
             e == [nonce |-> scan[s].nonce, state |-> intendedState(scan[s].direction),
                   late  |-> Revoked(tickets[t])]
  <1>1. scan[s] \in Scan /\ t \in Tickets
    BY DEF Accept, TypeOK, Scan
  <1>2. e \in Entry
    BY <1>1 DEF Entry, Scan, Presence, intendedState, Revoked
  <1>3. accepted[t] \in Seq(Entry)
    BY <1>1 DEF TypeOK
  <1>4. accepted'[t] = Append(accepted[t], e)
    BY <1>1 DEF Accept, TypeOK
  <1>5. /\ Len(accepted[t]) \in Nat
        /\ Len(accepted'[t]) = Len(accepted[t]) + 1
        /\ \A i \in 1..Len(accepted[t]) : accepted'[t][i] = accepted[t][i]
        /\ accepted'[t][Len(accepted[t]) + 1] = e
    <2> HIDE DEF e
    <2> QED BY <1>2, <1>3, <1>4, AppendProperties, LenProperties
  <1>6. /\ tickets[t].nextNonce = scan[s].nonce
        /\ tickets'[t].lastNonce = scan[s].nonce
        /\ tickets'[t].nextNonce = scan[s].nonce + 1
        /\ \A u \in Tickets \ {t} : tickets'[u] = tickets[u] /\ accepted'[u] = accepted[u]
    BY <1>1 DEF Accept, NonceIsNext, TypeOK, Ticket
  <1> QED
    BY <1>1, <1>5, <1>6 DEF Extends

LEMMA OrderStep == TypeOK /\ AcceptedOnceInOrder /\ [Next]_vars => AcceptedOnceInOrder'
  <1> SUFFICES ASSUME TypeOK, AcceptedOnceInOrder, [Next]_vars, NEW t \in Tickets
               PROVE  /\ tickets'[t].lastNonce = Len(accepted'[t])
                      /\ tickets'[t].nextNonce = Len(accepted'[t]) + 1
                      /\ \A i \in 1..Len(accepted'[t]) : accepted'[t][i].nonce = i
    BY DEF AcceptedOnceInOrder
  <1>1. CASE accepted' = accepted /\ NoncesKept(t)
    BY <1>1 DEF AcceptedOnceInOrder, NoncesKept
  <1>2. ASSUME NEW s \in Scanners, Accept(s)
        PROVE  /\ tickets'[t].lastNonce = Len(accepted'[t])
               /\ tickets'[t].nextNonce = Len(accepted'[t]) + 1
               /\ \A i \in 1..Len(accepted'[t]) : accepted'[t][i].nonce = i
    <2> DEFINE n == Len(accepted[scan[s].ticket])
    <2>0. Extends(s, scan[s].ticket, n)
      BY <1>2, AcceptEffect
    <2>1. CASE t # scan[s].ticket
      BY <2>0, <2>1 DEF AcceptedOnceInOrder, Extends
    <2>2. CASE t = scan[s].ticket
      <3>1. n \in Nat /\ scan[s].nonce = n + 1 /\ Len(accepted'[t]) = n + 1
        BY <2>0, <2>2 DEF AcceptedOnceInOrder, Extends
      <3>2. tickets'[t].lastNonce = n + 1 /\ tickets'[t].nextNonce = n + 1 + 1
        BY <2>0, <2>2, <3>1 DEF Extends
      <3>3. ASSUME NEW i \in 1..(n + 1) PROVE accepted'[t][i].nonce = i
        <4>1. CASE i \in 1..n
          <5>1. accepted'[t][i] = accepted[t][i] /\ accepted[t][i].nonce = i
            BY <2>0, <2>2, <4>1 DEF AcceptedOnceInOrder, Extends
          <5> QED
            BY <5>1
        <4>2. CASE i = n + 1
          BY <2>0, <2>2, <3>1, <4>2 DEF Extends
        <4> QED
          BY <3>1, <4>1, <4>2
      <3> QED
        BY <3>1, <3>2, <3>3
    <2> QED
      BY <2>1, <2>2
  <1> QED
    BY <1>1, <1>2, RowFrame

(* At-most-once admission per nonce, for any number of concurrent scans of  *)
(* any tokens and any loss of replay keys (AcceptedOnceInOrder).            *)
THEOREM AcceptedOnce == Spec => []AcceptedOnceInOrder
  <1>1. Init => AcceptedOnceInOrder
    <2> SUFFICES ASSUME Init, NEW t \in Tickets
                 PROVE  /\ tickets[t].lastNonce = Len(accepted[t])
                        /\ tickets[t].nextNonce = Len(accepted[t]) + 1
                        /\ \A i \in 1..Len(accepted[t]) : accepted[t][i].nonce = i
      BY DEF AcceptedOnceInOrder
    <2>1. Len(accepted[t]) = 0
      BY EmptySeq DEF Init
    <2>2. tickets[t].lastNonce = 0 /\ tickets[t].nextNonce = 1
      BY DEF Init, NewTicket
    <2> QED
      BY <2>1, <2>2
  <1>2. TypeOK /\ AcceptedOnceInOrder /\ [Next]_vars => AcceptedOnceInOrder'
    BY OrderStep
  <1> QED
    BY <1>1, <1>2, TypeCorrect, PTL DEF Spec

-------------------------------------------------------------------------------
(* Revocation. *)

(* A revocation is never withdrawn (RevocationIsFinal). *)
THEOREM RevocationFinal == Spec => RevocationIsFinal
  <1>1. TypeOK /\ [Next]_vars => \A t \in Tickets : Revoked(tickets[t]) => Revoked(tickets'[t])
    BY RowFrame DEF RevocationKept
  <1>2. TypeOK /\ [Next]_vars
          => [\A t \in Tickets : Revoked(tickets[t]) => Revoked(tickets'[t])]_vars
    BY <1>1
  <1> QED
    BY <1>2, TypeCorrect, PTL DEF Spec, RevocationIsFinal

(* Scans that may still be accepted: unrejected and not yet ended. *)
MayAccept(s) == pc[s] # "idle" /\ scan[s].cause = "none"

(* No token is ahead of its ticket, and no scan carries such a token.      *)
TokensBehind ==
    /\ \A k \in tokens : k[2] <= tickets[k[1]].nextNonce
    /\ \A s \in Scanners : pc[s] # "idle" => scan[s].nonce <= tickets[scan[s].ticket].nextNonce

(* Only the commit step of an unrejected scan accepts it.                  *)
CommitsUnrejected ==
    \A s \in Scanners :
        pc[s] \in {"replayKey", "resetFind", "resetUpdate", "commit"} => scan[s].cause = "none"

(* After a late acceptance the ticket stays revoked and its nonce has      *)
(* passed every scan that was in flight.                                   *)
LateIsLast ==
    \A t \in Tickets : \A i \in 1..Len(accepted[t]) : accepted[t][i].late =>
        /\ Revoked(tickets[t])
        /\ \A s \in Scanners :
             MayAccept(s) /\ scan[s].ticket = t => scan[s].nonce < tickets[t].nextNonce

LateInv == TokensBehind /\ CommitsUnrejected /\ LateIsLast /\ AtMostOneLateAccept

LEMMA NonceGrows ==
    ASSUME TypeOK, [Next]_vars, NEW t \in Tickets
    PROVE  tickets[t].nextNonce \in Nat /\ tickets'[t].nextNonce >= tickets[t].nextNonce
  <1>0. tickets[t].nextNonce \in Nat
    BY DEF TypeOK, Ticket
  <1>1. CASE NoncesKept(t)
    BY <1>0, <1>1 DEF NoncesKept
  <1>2. ASSUME NEW s \in Scanners, Accept(s)
        PROVE  tickets'[t].nextNonce >= tickets[t].nextNonce
    <2>1. Extends(s, scan[s].ticket, Len(accepted[scan[s].ticket]))
      BY <1>2, AcceptEffect
    <2>2. CASE t = scan[s].ticket
      BY <1>0, <2>1, <2>2 DEF Extends
    <2>3. CASE t # scan[s].ticket
      BY <1>0, <2>1, <2>3 DEF Extends
    <2> QED
      BY <2>2, <2>3
  <1> QED
    BY <1>0, <1>1, <1>2, RowFrame

(* Steps of others than s leave the local state of s alone.                *)
LEMMA OthersKeep ==
    ASSUME TypeOK, [Next]_vars, NEW s \in Scanners, ~ScanStep(s)
    PROVE  pc'[s] = pc[s] /\ scan'[s] = scan[s]
  <1>1. ASSUME NEW o \in Scanners, ScanStep(o) PROVE pc'[s] = pc[s] /\ scan'[s] = scan[s]
    BY <1>1, ScanFrame
  <1>2. ASSUME NEW p \in Staff, StaffStep(p) PROVE UNCHANGED <<pc, scan>>
    BY <1>2 DEF StaffStep, StaffRead, Revoke, UpdatePresence, ResetDeviceBinding, Delete,
                StaffAbandon, AtTransaction
  <1> QED
    BY <1>1, <1>2 DEF Next, vars, GenerateToken, BlockExpires, ActivateDevice, ReplayKeyExpires

LEMMA LocalFrame ==
    ASSUME TypeOK, [Next]_vars, NEW s \in Scanners
    PROVE  \/ pc'[s] = pc[s] /\ scan'[s] = scan[s]
           \/ ReadTicket(s)
           \/ Continues(s)
  BY ScanFrame, OthersKeep

(* What a scan knows of the row it has just read. *)
LEMMA ReadEffect ==
    ASSUME TypeOK, NEW s \in Scanners, ReadTicket(s)
    PROVE  \E k \in tokens :
             /\ scan'[s].ticket = k[1] /\ scan'[s].nonce = k[2]
             /\ scan'[s].wasCheckedIn = tickets[k[1]].checkedIn
             /\ k[1] \in Tickets /\ k[2] \in Nat
             /\ scan'[s].cause = "none" =>
                  /\ ~Revoked(tickets[k[1]])
                  /\ tickets[k[1]].state # intendedState(scan'[s].direction)
             /\ scan'[s].cause = "replay" => k[2] <= tickets[k[1]].lastNonce
             /\ scan'[s].cause = "invalidNonce" =>
                  ~(k[2] <= tickets[k[1]].lastNonce) /\ k[2] # tickets[k[1]].nextNonce
             /\ scan'[s].cause # "nonceRace"
             /\ pc'[s] \in {"isBlocked", "answer"}
             /\ UNCHANGED <<tickets, accepted, overridden, tokens, staff>>
  <1>1. PICK k \in tokens, signer \in Devices, device \in Devices, direction \in Directions :
             /\ scan' = [scan EXCEPT ![s] =
                  [ticket |-> k[1], nonce |-> k[2], direction |-> direction,
                   cause |-> Check(tickets[k[1]], k[2], signer, device, direction),
                   wasCheckedIn |-> tickets[k[1]].checkedIn, failCount |-> 0]]
             /\ Goto(s, IF Check(tickets[k[1]], k[2], signer, device, direction) = "revoked"
                        THEN "answer" ELSE "isBlocked")
    BY DEF ReadTicket
  <1>2. k[1] \in Tickets /\ k[2] \in Nat
    BY DEF TypeOK
  <1> DEFINE cause == Check(tickets[k[1]], k[2], signer, device, direction)
  <1>3. /\ cause = "none" =>
             ~Revoked(tickets[k[1]]) /\ tickets[k[1]].state # intendedState(direction)
        /\ cause = "replay" => k[2] <= tickets[k[1]].lastNonce
        /\ cause = "invalidNonce" =>
             ~(k[2] <= tickets[k[1]].lastNonce) /\ k[2] # tickets[k[1]].nextNonce
        /\ cause # "nonceRace"
    BY DEF Check, CheckUnrevoked, NonceCheck, PolicyCheck
  <1>4. UNCHANGED <<tickets, accepted, overridden, tokens, staff>>
    BY DEF ReadTicket, store, history
  <1>5. scan'[s] = [ticket |-> k[1], nonce |-> k[2], direction |-> direction,
                    cause |-> Check(tickets[k[1]], k[2], signer, device, direction),
                    wasCheckedIn |-> tickets[k[1]].checkedIn, failCount |-> 0]
    BY <1>1 DEF TypeOK
  <1>6. pc'[s] \in {"isBlocked", "answer"}
    BY <1>1 DEF TypeOK, Goto
  <1> QED
    BY <1>2, <1>3, <1>4, <1>5, <1>6

LEMMA BehindStep == TypeOK /\ TokensBehind /\ [Next]_vars => TokensBehind'
  <1> SUFFICES ASSUME TypeOK, TokensBehind, [Next]_vars PROVE TokensBehind'
    OBVIOUS
  <1>1. ASSUME NEW k \in tokens' PROVE k[2] <= tickets'[k[1]].nextNonce
    <2>1. CASE k \in tokens
      <3>1. k[1] \in Tickets /\ k[2] \in Nat
        BY <2>1 DEF TypeOK
      <3>2. k[2] <= tickets[k[1]].nextNonce
        BY <2>1 DEF TokensBehind
      <3>3. TypeOK'
        BY NextType
      <3>4. tickets'[k[1]].nextNonce \in Nat
        BY <3>1, <3>3 DEF TypeOK, Ticket
      <3> QED
        BY <3>1, <3>2, <3>4, NonceGrows
    <2>2. CASE k \notin tokens
      <3>1. PICK t \in Tickets : GenerateToken(t)
        <4>1. ASSUME NEW s \in Scanners, ScanStep(s) PROVE FALSE
          BY <2>2, <4>1, ScanFrame
        <4>2. ASSUME NEW p \in Staff, StaffStep(p) PROVE FALSE
          BY <2>2, <4>2 DEF StaffStep, StaffRead, Revoke, UpdatePresence, ResetDeviceBinding,
                            Delete, StaffAbandon, AtTransaction
        <4> QED
          BY <2>2, <4>1, <4>2 DEF Next, vars, BlockExpires, ActivateDevice, ReplayKeyExpires
      <3>2. k = <<t, tickets[t].nextNonce>> /\ tickets' = tickets
        BY <2>2, <3>1 DEF GenerateToken, TokenNonce, store
      <3> QED
        BY <3>2 DEF TypeOK, Ticket
    <2> QED
      BY <2>1, <2>2
  <1>2. ASSUME NEW s \in Scanners, pc'[s] # "idle"
        PROVE  scan'[s].nonce <= tickets'[scan'[s].ticket].nextNonce
    <2>1. CASE ReadTicket(s)
      BY <2>1, ReadEffect DEF TokensBehind
    <2>2. CASE pc[s] # "idle" /\ scan'[s].ticket = scan[s].ticket /\ scan'[s].nonce = scan[s].nonce
      <3> DEFINE t == scan[s].ticket
      <3>1. t \in Tickets /\ scan[s].nonce \in Nat
        BY <2>2 DEF TypeOK, Scan
      <3>2. scan[s].nonce <= tickets[t].nextNonce
        BY <2>2 DEF TokensBehind
      <3>3. TypeOK'
        BY NextType
      <3>4. tickets'[t].nextNonce \in Nat
        BY <3>1, <3>3 DEF TypeOK, Ticket
      <3> QED
        BY <2>2, <3>1, <3>2, <3>4, NonceGrows
    <2> QED
      BY <1>2, <2>1, <2>2, LocalFrame DEF Continues, SameRequest
  <1> QED
    BY <1>1, <1>2 DEF TokensBehind

LEMMA UnrejectedStep == TypeOK /\ CommitsUnrejected /\ [Next]_vars => CommitsUnrejected'
  <1> DEFINE Committing == {"replayKey", "resetFind", "resetUpdate", "commit"}
  <1> SUFFICES ASSUME TypeOK, CommitsUnrejected, [Next]_vars, NEW s \in Scanners,
                      pc'[s] \in Committing
               PROVE  scan'[s].cause = "none"
    BY DEF CommitsUnrejected
  <1>1. CASE pc'[s] = pc[s] /\ scan'[s] = scan[s]
    BY <1>1 DEF CommitsUnrejected
  <1>2. CASE ScanStep(s)
    <2> USE DEF TypeOK, Goto, CommitsUnrejected
    <2>1. CASE ReadTicket(s)
      BY <2>1, ReadEffect
    <2>2. CASE PassChecks(s)
      BY <2>2 DEF PassChecks, Unblocked
    <2>3. CASE AcquireReplayKey(s) \/ ResetFind(s) \/ ResetUpdate(s)
      BY <2>3 DEF AcquireReplayKey, ResetFind, ResetUpdate
    <2>4. CASE \/ AnswerBlocked(s) \/ RejectHarmless(s) \/ RejectRisky(s) \/ RejectEnded(s)
               \/ ReplayKeyTaken(s) \/ Accept(s) \/ LoseNonceRace(s) \/ GuardUpsert(s)
               \/ AutoRevoke(s) \/ RecordFailure(s) \/ Answer(s) \/ Abandon(s)
      <3>1. pc'[s] \in {"answer", "guardUpsert", "guardWrite", "idle"}
        BY <2>4 DEF AnswerBlocked, RejectHarmless, RejectRisky, RejectEnded, ReplayKeyTaken,
             Accept, LoseNonceRace, GuardUpsert, AutoRevoke, RecordFailure, Answer, Abandon,
             Reject, Suspect
      <3> QED
        BY <3>1
    <2> QED
      BY <1>2, <2>1, <2>2, <2>3, <2>4 DEF ScanStep
  <1>3. CASE ~ScanStep(s)
    BY <1>1, <1>3, OthersKeep
  <1> QED
    BY <1>2, <1>3

(* A scan that may be accepted after a step either was in flight before it, *)
(* with the same token, or has just read a ticket that is not revoked.      *)
LEMMA MayAcceptBefore ==
    ASSUME TypeOK, [Next]_vars, NEW s \in Scanners, MayAccept(s)', scan'[s].ticket \in Tickets
    PROVE  \/ /\ MayAccept(s)
              /\ SameRequest(scan'[s], scan[s])
           \/ ReadTicket(s) /\ ~Revoked(tickets[scan'[s].ticket])
  <1>1. CASE pc'[s] = pc[s] /\ scan'[s] = scan[s]
    BY <1>1 DEF MayAccept, SameRequest
  <1>2. CASE ReadTicket(s)
    BY <1>2, ReadEffect DEF MayAccept
  <1>3. CASE Continues(s)
    BY <1>3 DEF MayAccept, Continues
  <1> QED
    BY <1>1, <1>2, <1>3, LocalFrame

LEMMA LateStep ==
    TypeOK /\ TypeOK' /\ AcceptedOnceInOrder /\ LateInv /\ [Next]_vars
        => LateIsLast' /\ AtMostOneLateAccept'
  <1> SUFFICES ASSUME TypeOK, TypeOK', AcceptedOnceInOrder, LateInv, [Next]_vars,
                      NEW t \in Tickets
               PROVE  /\ \A i \in 1..Len(accepted'[t]) : accepted'[t][i].late =>
                           /\ Revoked(tickets'[t])
                           /\ \A s \in Scanners : MayAccept(s)' /\ scan'[s].ticket = t
                                => scan'[s].nonce < tickets'[t].nextNonce
                      /\ \A i, j \in 1..Len(accepted'[t]) :
                           accepted'[t][i].late /\ accepted'[t][j].late => i = j
    BY DEF LateIsLast, AtMostOneLateAccept, MayAccept
  <1> USE DEF LateInv
  <1>0. /\ tickets[t].nextNonce \in Nat
        /\ tickets'[t].nextNonce \in Nat
        /\ tickets'[t].nextNonce >= tickets[t].nextNonce
    BY NonceGrows DEF TypeOK, Ticket
  <1>1. CASE accepted'[t] = accepted[t]
    <2>1. ASSUME NEW i \in 1..Len(accepted'[t]), accepted'[t][i].late,
                 NEW s \in Scanners, MayAccept(s)', scan'[s].ticket = t
          PROVE  scan'[s].nonce < tickets'[t].nextNonce
      <3>1. Revoked(tickets[t])
        BY <1>1, <2>1 DEF LateIsLast
      <3>2. MayAccept(s) /\ SameRequest(scan'[s], scan[s])
        BY <2>1, <3>1, MayAcceptBefore
      <3>3. scan[s].nonce < tickets[t].nextNonce /\ scan[s].nonce \in Nat
        BY <1>1, <2>1, <3>2 DEF LateIsLast, SameRequest, TypeOK, Scan, MayAccept
      <3> QED
        BY <1>0, <3>2, <3>3 DEF SameRequest
    <2>2. \A i \in 1..Len(accepted'[t]) : accepted'[t][i].late => Revoked(tickets'[t])
      BY <1>1, RowFrame DEF LateIsLast, RevocationKept
    <2> QED
      BY <1>1, <2>1, <2>2 DEF AtMostOneLateAccept
  <1>2. ASSUME NEW a \in Scanners, Accept(a), scan[a].ticket = t
        PROVE  /\ \A i \in 1..Len(accepted'[t]) : accepted'[t][i].late =>
                    /\ Revoked(tickets'[t])
                    /\ \A s \in Scanners : MayAccept(s)' /\ scan'[s].ticket = t
                         => scan'[s].nonce < tickets'[t].nextNonce
               /\ \A i, j \in 1..Len(accepted'[t]) :
                    accepted'[t][i].late /\ accepted'[t][j].late => i = j
    <2> DEFINE n == Len(accepted[t])
    <2>1. Extends(a, t, n)
      BY <1>2, AcceptEffect
    <2>2. MayAccept(a) /\ scan[a].nonce = tickets[t].nextNonce
      BY <1>2, <2>1 DEF Accept, MayAccept, CommitsUnrejected, Extends
    <2>3. \A i \in 1..n : ~accepted[t][i].late
      BY <1>0, <1>2, <2>2 DEF LateIsLast
    <2>4. \A i \in 1..Len(accepted'[t]) : accepted'[t][i].late => i = n + 1 /\ Revoked(tickets[t])
      BY <2>1, <2>3, SMTT(30) DEF Extends
    <2>5. ASSUME NEW s \in Scanners, MayAccept(s)', scan'[s].ticket = t
          PROVE  scan'[s].nonce < tickets'[t].nextNonce
      <3>1. s # a /\ pc'[s] = pc[s] /\ scan'[s] = scan[s]
        <4>1. pc'[a] = "idle"
          BY <1>2 DEF Accept, Goto, TypeOK
        <4>2. s # a
          BY <2>5, <4>1 DEF MayAccept
        <4> QED
          BY <1>2, <4>2, ScanFrame DEF ScanStep
      <3>2. scan[s].nonce <= tickets[t].nextNonce /\ scan[s].nonce \in Nat
        BY <2>5, <3>1 DEF TokensBehind, MayAccept, TypeOK, Scan
      <3>3. tickets'[t].nextNonce = tickets[t].nextNonce + 1
        BY <2>1, <2>2 DEF Extends
      <3> QED
        BY <1>0, <3>1, <3>2, <3>3
    <2> QED
      BY <2>4, <2>5, RowFrame DEF RevocationKept
  <1>3. ASSUME NEW a \in Scanners, Accept(a), scan[a].ticket # t PROVE accepted'[t] = accepted[t]
    BY <1>3, AcceptEffect DEF Extends
  <1> QED
    BY <1>1, <1>2, <1>3, RowFrame

LEMMA LateHolds == Spec => []LateInv
  <1>1. Init => LateInv
    <2> SUFFICES ASSUME Init PROVE LateInv
      OBVIOUS
    <2>1. \A t \in Tickets : Len(accepted[t]) = 0
      BY EmptySeq DEF Init
    <2> QED
      BY <2>1 DEF Init, LateInv, TokensBehind, CommitsUnrejected, LateIsLast, AtMostOneLateAccept
  <1>2. TypeOK /\ TypeOK' /\ AcceptedOnceInOrder /\ LateInv /\ [Next]_vars => LateInv'
    BY BehindStep, UnrejectedStep, LateStep DEF LateInv
  <1> QED
    BY <1>1, <1>2, TypeCorrect, AcceptedOnce, PTL DEF Spec

(* At most one of the scans in flight at a revocation is accepted after it, *)
(* for any number of concurrent scans (AtMostOneLateAccept).                *)
THEOREM OneLateAccept == Spec => []AtMostOneLateAccept
  <1>1. LateInv => AtMostOneLateAccept
    BY DEF LateInv
  <1> QED
    BY <1>1, LateHolds, PTL

-------------------------------------------------------------------------------
(* Check-in. *)

(* A scan on its way to be accepted at an exit has read a checked-in row:   *)
(* the direction policy has seen the guest inside.                         *)
ExitsCheckedIn ==
    \A s \in Scanners :
        MayAccept(s) /\ scan[s].direction = "EXIT" => scan[s].wasCheckedIn

(* What a staff member has read of a check-in still holds. *)
StaffSawCheckIn ==
    \A p \in Staff :
        InProgress(p) /\ staff[p].wasCheckedIn => tickets[staff[p].ticket].checkedIn

CheckInInv == InsideWasCheckedIn /\ ExitsCheckedIn /\ StaffSawCheckIn

(* No write clears a check-in, or moves somebody inside without one. *)
CheckInRespected(t) ==
    /\ tickets[t].checkedIn => tickets'[t].checkedIn
    /\ tickets'[t].state = "INSIDE" => tickets'[t].checkedIn

LEMMA CheckInRows ==
    ASSUME TypeOK, CommitsUnrejected, CheckInInv, [Next]_vars, NEW t \in Tickets
    PROVE  CheckInRespected(t)
  <1> USE DEF TypeOK, Ticket, CheckInRespected
  <1>0. tickets[t].state = "INSIDE" => tickets[t].checkedIn
    BY DEF CheckInInv, InsideWasCheckedIn
  <1>1. CASE UNCHANGED Rows
    BY <1>0, <1>1 DEF Rows
  <1>2. ASSUME NEW s \in Scanners, Accept(s) PROVE CheckInRespected(t)
    <2>1. CASE scan[s].ticket # t
      BY <1>0, <1>2, <2>1 DEF Accept
    <2>2. CASE scan[s].ticket = t
      <3>1. MayAccept(s) /\ scan[s] \in Scan
        BY <1>2 DEF Accept, MayAccept, CommitsUnrejected
      <3>2. CheckedInAt(scan[s])
        BY <3>1 DEF CheckedInAt, CheckInInv, ExitsCheckedIn, Scan, Directions
      <3>3. tickets'[t].checkedIn = CheckedInAt(scan[s])
        BY <1>2, <2>2 DEF Accept
      <3> QED
        BY <3>2, <3>3
    <2> QED
      BY <2>1, <2>2
  <1>3. ASSUME NEW s \in Scanners, AutoRevoke(s) PROVE CheckInRespected(t)
    BY <1>0, <1>3 DEF AutoRevoke, RevokedRow
  <1>4. ASSUME NEW p \in Staff, StaffStep(p) PROVE CheckInRespected(t)
    <2>1. CASE StaffRead(p) \/ StaffAbandon(p)
      BY <1>0, <2>1 DEF StaffRead, StaffAbandon, store
    <2>2. CASE Revoke(p)
      BY <1>0, <2>2 DEF Revoke, RevokedRow
    <2>3. CASE UpdatePresence(p)
      <3>1. CASE staff[p].ticket # t
        BY <1>0, <2>3, <3>1 DEF UpdatePresence
      <3>2. CASE staff[p].ticket = t
        <4>1. InProgress(p) /\ staff[p] \in StaffTask
          BY <2>3 DEF UpdatePresence, AtTransaction, InProgress
        <4>2. staff[p].wasCheckedIn => tickets[t].checkedIn
          BY <3>2, <4>1 DEF CheckInInv, StaffSawCheckIn
        <4> DEFINE row == tickets[t]
                   seen == row.checkedIn \/ FirstCheckIn(staff[p])
        <4>3. tickets'[t] = [row EXCEPT !.state = staff[p].state, !.checkedIn = seen]
          BY <2>3, <3>2 DEF UpdatePresence
        <4>4. row \in Ticket
          OBVIOUS
        <4> HIDE DEF seen, row
        <4>5. tickets'[t].state = staff[p].state
          BY <4>3, <4>4
        <4>6. tickets'[t].checkedIn = seen
          BY <4>3, <4>4
        <4>7. FirstCheckIn(staff[p]) => seen
          BY DEF seen
        <4>8. row.checkedIn => seen
          BY DEF seen
        <4>9. tickets'[t].state = "INSIDE" => seen
          BY <4>1, <4>2, <4>5, <4>7, <4>8 DEF FirstCheckIn, row
        <4> QED
          BY <4>6, <4>8, <4>9 DEF row
      <3> QED
        BY <3>1, <3>2
    <2>4. CASE ResetDeviceBinding(p)
      BY <1>0, <2>4 DEF ResetDeviceBinding
    <2>5. CASE Delete(p)
      BY <1>0, <2>5 DEF Delete
    <2> QED
      BY <1>4, <2>1, <2>2, <2>3, <2>4, <2>5 DEF StaffStep
  <1>5. ASSUME NEW u \in Tickets, NEW d \in Devices, ActivateDevice(u, d)
        PROVE  CheckInRespected(t)
    BY <1>0, <1>5 DEF ActivateDevice
  <1> QED
    BY <1>1, <1>2, <1>3, <1>4, <1>5, RowWriters

LEMMA ExitsStep ==
    ASSUME TypeOK, CheckInInv, [Next]_vars
    PROVE  ExitsCheckedIn'
  <1> SUFFICES ASSUME NEW s \in Scanners, MayAccept(s)', scan'[s].direction = "EXIT"
               PROVE  scan'[s].wasCheckedIn
    BY DEF ExitsCheckedIn, MayAccept
  <1>1. CASE pc'[s] = pc[s] /\ scan'[s] = scan[s]
    BY <1>1 DEF CheckInInv, ExitsCheckedIn, MayAccept
  <1>2. CASE ReadTicket(s)
    <2>1. PICK k \in tokens :
             /\ scan'[s].wasCheckedIn = tickets[k[1]].checkedIn
             /\ k[1] \in Tickets
             /\ tickets[k[1]].state # intendedState(scan'[s].direction)
      BY <1>2, ReadEffect DEF MayAccept
    <2>2. tickets[k[1]].state = "INSIDE"
      BY <2>1 DEF TypeOK, Ticket, Presence, intendedState
    <2> QED
      BY <2>1, <2>2 DEF CheckInInv, InsideWasCheckedIn
  <1>3. CASE Continues(s)
    BY <1>3 DEF Continues, SameRequest, MayAccept, CheckInInv, ExitsCheckedIn
  <1> QED
    BY <1>1, <1>2, <1>3, LocalFrame

LEMMA StaffSawStep ==
    ASSUME TypeOK, CommitsUnrejected, CheckInInv, [Next]_vars
    PROVE  StaffSawCheckIn'
  <1> SUFFICES ASSUME NEW p \in Staff, InProgress(p)', staff'[p].wasCheckedIn
               PROVE  tickets'[staff'[p].ticket].checkedIn
    BY DEF StaffSawCheckIn
  <1>1. CASE staff'[p] = staff[p]
    <2>1. staff[p].ticket \in Tickets
      BY <1>1 DEF InProgress, TypeOK, StaffTask
    <2> QED
      BY <1>1, <2>1, CheckInRows DEF CheckInRespected, CheckInInv, StaffSawCheckIn, InProgress
  <1>2. CASE StaffRead(p)
    <2>1. PICK op \in Operations, t \in Tickets, state \in Presence :
            staff'[p] = [op |-> op, ticket |-> t, state |-> state,
                         wasCheckedIn |-> op = "updatePresence" /\ tickets[t].checkedIn]
      BY <1>2 DEF StaffRead, TypeOK
    <2> DEFINE seen == op = "updatePresence" /\ tickets[t].checkedIn
    <2>2. staff'[p] = [op |-> op, ticket |-> t, state |-> state, wasCheckedIn |-> seen]
      BY <2>1, Zenon
    <2> HIDE DEF seen
    <2>3. staff'[p].ticket = t /\ staff'[p].wasCheckedIn = seen
      BY <2>2
    <2>4. seen
      BY <2>3, Zenon
    <2>5. tickets[t].checkedIn
      BY <2>4 DEF seen
    <2> QED
      BY <1>2, <2>3, <2>5 DEF StaffRead, store
  <1>3. staff'[p] = staff[p] \/ ~InProgress(p)' \/ StaffRead(p)
    <2>1. ASSUME NEW s \in Scanners, ScanStep(s) PROVE staff' = staff
      BY <2>1, ScanFrame
    <2>2. ASSUME NEW q \in Staff, StaffStep(q)
          PROVE  staff'[p] = staff[p] \/ ~InProgress(p)' \/ StaffRead(p)
      <3>1. staff'[q] \in {NoTask, Done} \/ StaffRead(q)
        BY <2>2 DEF StaffStep, Revoke, UpdatePresence, ResetDeviceBinding, Delete,
                    StaffAbandon, AtTransaction, TypeOK
      <3>2. q # p => staff'[p] = staff[p]
        BY <2>2 DEF StaffStep, StaffRead, Revoke, UpdatePresence, ResetDeviceBinding, Delete,
                    StaffAbandon, AtTransaction, TypeOK
      <3> QED
        BY <3>1, <3>2 DEF InProgress
    <2> QED
      BY <2>1, <2>2 DEF Next, vars, GenerateToken, BlockExpires, ActivateDevice, ReplayKeyExpires
  <1> QED
    BY <1>1, <1>2, <1>3

LEMMA CheckInStart ==
    Init => CommitsUnrejected /\ CheckInInv
  BY DEF Init, NewTicket, CommitsUnrejected, CheckInInv, InsideWasCheckedIn, ExitsCheckedIn,
         InProgress, StaffSawCheckIn, MayAccept

LEMMA CheckInStep ==
    TypeOK /\ CommitsUnrejected /\ CheckInInv /\ [Next]_vars => CommitsUnrejected' /\ CheckInInv'
  <1> SUFFICES ASSUME TypeOK, CommitsUnrejected, CheckInInv, [Next]_vars
               PROVE  CommitsUnrejected' /\ CheckInInv'
    OBVIOUS
  <1>1. InsideWasCheckedIn'
    BY CheckInRows DEF CheckInRespected, InsideWasCheckedIn
  <1> QED
    BY <1>1, UnrejectedStep, ExitsStep, StaffSawStep DEF CheckInInv

LEMMA CheckInHolds == Spec => [](CommitsUnrejected /\ CheckInInv)
  BY CheckInStart, CheckInStep, TypeCorrect, PTL DEF Spec

(* Whoever is inside has been checked in, for any number of scans and staff *)
(* members that write what they read before (InsideWasCheckedIn).           *)
THEOREM InsideCheckedIn == Spec => []InsideWasCheckedIn
  <1>1. CheckInInv => InsideWasCheckedIn
    BY DEF CheckInInv
  <1> QED
    BY <1>1, CheckInHolds, PTL

(* No write of any actor forgets a check-in, the stale write of an exit     *)
(* scan included (CheckInKept).                                             *)
THEOREM CheckInsKept == Spec => CheckInKept
  <1>1. TypeOK /\ CommitsUnrejected /\ CheckInInv /\ [Next]_vars
          => \A t \in Tickets : tickets[t].checkedIn => tickets'[t].checkedIn
    BY CheckInRows DEF CheckInRespected
  <1>2. TypeOK /\ CommitsUnrejected /\ CheckInInv /\ [Next]_vars
          => [\A t \in Tickets : tickets[t].checkedIn => tickets'[t].checkedIn]_vars
    BY <1>1
  <1> QED
    BY <1>2, CheckInHolds, TypeCorrect, PTL DEF Spec, CheckInKept

-------------------------------------------------------------------------------
(* The answers. *)

NeverAhead == \A s \in Scanners : pc[s] # "idle" => scan[s].cause # "invalidNonce"

(* A nonce that is not the next one has been accepted: no token is ahead.   *)
LEMMA AheadStep ==
    ASSUME TypeOK, AcceptedOnceInOrder, TokensBehind, NeverAhead, [Next]_vars
    PROVE  NeverAhead'
  <1> SUFFICES ASSUME NEW s \in Scanners, pc'[s] # "idle", scan'[s].cause = "invalidNonce"
               PROVE  FALSE
    BY DEF NeverAhead
  <1>1. CASE pc'[s] = pc[s] /\ scan'[s] = scan[s]
    BY <1>1 DEF NeverAhead
  <1>2. CASE ReadTicket(s)
    <2>1. PICK k \in tokens :
             /\ k[1] \in Tickets /\ k[2] \in Nat
             /\ ~(k[2] <= tickets[k[1]].lastNonce)
             /\ k[2] # tickets[k[1]].nextNonce
      BY <1>2, ReadEffect
    <2>2. PICK n \in Nat : n = Len(accepted[k[1]])
      BY <2>1, LenProperties DEF TypeOK
    <2>3. tickets[k[1]].lastNonce = n /\ tickets[k[1]].nextNonce = n + 1
      BY <2>1, <2>2 DEF AcceptedOnceInOrder
    <2>4. k[2] <= n + 1
      BY <2>3 DEF TokensBehind
    <2> QED
      BY <2>1, <2>2, <2>3, <2>4
  <1>3. CASE Continues(s)
    BY <1>3 DEF Continues, NeverAhead
  <1> QED
    BY <1>1, <1>2, <1>3, LocalFrame

(* No token runs ahead of its ticket, and INVALID_NONCE is never answered   *)
(* for a token of this service (NoTokenAhead).                              *)
THEOREM TokensNotAhead == Spec => []NoTokenAhead
  <1>1. Init => TokensBehind /\ NeverAhead
    BY DEF Init, TokensBehind, NeverAhead
  <1>2. TypeOK /\ AcceptedOnceInOrder /\ (TokensBehind /\ NeverAhead) /\ [Next]_vars
          => (TokensBehind /\ NeverAhead)'
    BY BehindStep, AheadStep
  <1>3. TokensBehind /\ NeverAhead => NoTokenAhead
    BY DEF TokensBehind, NeverAhead, NoTokenAhead, Verdict
  <1> QED
    BY <1>1, <1>2, <1>3, TypeCorrect, AcceptedOnce, PTL DEF Spec

(* Replay keys are taken by scans that passed every check. *)
KeysCleared == replayKeys \subseteq cleared

Explained(s) ==
    \/ scan[s].nonce < tickets[scan[s].ticket].nextNonce
    \/ <<scan[s].ticket, scan[s].nonce>> \in cleared

ReplayExplained ==
    \A s \in Scanners : pc[s] # "idle" /\ scan[s].cause \in {"replay", "nonceRace"} => Explained(s)

LEMMA ClearedFrame ==
    ASSUME [Next]_vars
    PROVE  cleared \subseteq cleared' /\ replayKeys' \subseteq replayKeys \cup cleared'
  <1> USE DEF store, history
  <1>1. ASSUME NEW s \in Scanners, ScanStep(s)
        PROVE  cleared \subseteq cleared' /\ replayKeys' \subseteq replayKeys \cup cleared'
    <2>1. CASE \/ ReadTicket(s) \/ AnswerBlocked(s) \/ RejectHarmless(s) \/ RejectEnded(s)
               \/ PassChecks(s) \/ ResetFind(s) \/ ResetUpdate(s) \/ Accept(s)
               \/ LoseNonceRace(s) \/ GuardUpsert(s)
      BY <2>1 DEF ReadTicket, AnswerBlocked, RejectHarmless, RejectEnded, PassChecks, ResetFind,
                  ResetUpdate, Accept, LoseNonceRace, GuardUpsert
    <2>2. CASE RejectRisky(s) \/ ReplayKeyTaken(s) \/ AutoRevoke(s) \/ RecordFailure(s)
               \/ Answer(s) \/ Abandon(s)
      BY <2>2 DEF RejectRisky, ReplayKeyTaken, Suspect, AutoRevoke, RecordFailure, Answer, Abandon
    <2>3. CASE AcquireReplayKey(s)
      BY <2>3 DEF AcquireReplayKey
    <2> QED
      BY <1>1, <2>1, <2>2, <2>3 DEF ScanStep
  <1>2. ASSUME NEW p \in Staff, StaffStep(p) PROVE UNCHANGED <<cleared, replayKeys>>
    BY <1>2 DEF StaffStep, StaffRead, Revoke, UpdatePresence, ResetDeviceBinding, Delete,
                StaffAbandon, AtTransaction
  <1>3. ASSUME NEW t \in Tickets, GenerateToken(t) \/ BlockExpires(t)
        PROVE  UNCHANGED <<cleared, replayKeys>>
    BY <1>3 DEF GenerateToken, BlockExpires
  <1>4. ASSUME NEW t \in Tickets, NEW d \in Devices, ActivateDevice(t, d)
        PROVE  UNCHANGED <<cleared, replayKeys>>
    BY <1>4 DEF ActivateDevice
  <1>5. ASSUME NEW k \in replayKeys, ReplayKeyExpires(k)
        PROVE  cleared' = cleared /\ replayKeys' \subseteq replayKeys
    BY <1>5 DEF ReplayKeyExpires
  <1>6. CASE UNCHANGED vars
    BY <1>6 DEF vars
  <1> QED
    BY <1>1, <1>2, <1>3, <1>4, <1>5, <1>6 DEF Next

(* What explains an answer goes on to explain it. *)
LEMMA ExplainedKept ==
    ASSUME TypeOK, [Next]_vars, NEW s \in Scanners, Explained(s), scan[s] \in Scan,
           scan'[s].ticket = scan[s].ticket, scan'[s].nonce = scan[s].nonce
    PROVE  Explained(s)'
  <1>1. PICK t \in Tickets, n \in Nat : t = scan[s].ticket /\ n = scan[s].nonce
    BY DEF Scan
  <1>2. CASE n < tickets[t].nextNonce
    <2>1. tickets'[t].nextNonce \in Nat
      BY NextType DEF TypeOK, Ticket
    <2> QED
      BY <1>1, <1>2, <2>1, NonceGrows DEF Explained
  <1>3. CASE <<t, n>> \in cleared
    BY <1>1, <1>3, ClearedFrame DEF Explained
  <1> QED
    BY <1>1, <1>2, <1>3 DEF Explained

LEMMA ReplayStep ==
    ASSUME TypeOK, AcceptedOnceInOrder, TokensBehind, KeysCleared, ReplayExplained, [Next]_vars
    PROVE  ReplayExplained'
  <1> DEFINE IsReplay(cause) == cause \in {"replay", "nonceRace"}
  <1> SUFFICES ASSUME NEW s \in Scanners, pc'[s] # "idle", IsReplay(scan'[s].cause)
               PROVE  Explained(s)'
    BY DEF ReplayExplained
  <1>0. pc[s] # "idle" => scan[s] \in Scan
    BY DEF TypeOK
  <1>1. ASSUME pc[s] # "idle", IsReplay(scan[s].cause),
               scan'[s].ticket = scan[s].ticket, scan'[s].nonce = scan[s].nonce
        PROVE  Explained(s)'
    BY <1>0, <1>1, ExplainedKept DEF ReplayExplained
  <1>2. CASE pc'[s] = pc[s] /\ scan'[s] = scan[s]
    BY <1>1, <1>2
  <1>3. CASE ReadTicket(s)
    <2>1. PICK k \in tokens :
             /\ scan'[s].ticket = k[1] /\ scan'[s].nonce = k[2]
             /\ k[1] \in Tickets /\ k[2] \in Nat
             /\ k[2] <= tickets[k[1]].lastNonce
             /\ tickets' = tickets
      BY <1>3, ReadEffect
    <2>2. PICK n \in Nat : n = Len(accepted[k[1]])
      BY <2>1, LenProperties DEF TypeOK
    <2>3. tickets[k[1]].lastNonce = n /\ tickets[k[1]].nextNonce = n + 1
      BY <2>1, <2>2 DEF AcceptedOnceInOrder
    <2>4. k[2] < tickets'[k[1]].nextNonce
      BY <2>1, <2>3
    <2> QED
      BY <2>1, <2>4 DEF Explained
  <1>4. CASE ReplayKeyTaken(s)
    <2>1. /\ scan'[s].ticket = scan[s].ticket /\ scan'[s].nonce = scan[s].nonce
          /\ scan[s] \in Scan
      BY <1>0, <1>4 DEF ReplayKeyTaken, Suspect, TypeOK, Scan
    <2>2. <<scan[s].ticket, scan[s].nonce>> \in cleared
      BY <1>4 DEF ReplayKeyTaken, KeysCleared
    <2> QED
      BY <2>1, <2>2, ExplainedKept DEF Explained
  <1>5. CASE LoseNonceRace(s)
    <2>1. /\ scan'[s].ticket = scan[s].ticket /\ scan'[s].nonce = scan[s].nonce
          /\ scan[s] \in Scan /\ pc[s] # "idle"
      BY <1>0, <1>5 DEF LoseNonceRace, Reject, TypeOK, Scan
    <2>2. PICK t \in Tickets, n \in Nat : t = scan[s].ticket /\ n = scan[s].nonce
      BY <2>1 DEF Scan
    <2>3. n <= tickets[t].nextNonce /\ n # tickets[t].nextNonce /\ tickets[t].nextNonce \in Nat
      BY <1>5, <2>1, <2>2 DEF TokensBehind, LoseNonceRace, NonceIsNext, TypeOK, Ticket
    <2>4. n < tickets[t].nextNonce
      BY <2>3
    <2> QED
      BY <2>1, <2>2, <2>4, ExplainedKept DEF Explained
  <1>6. CASE AnswerBlocked(s) \/ RejectEnded(s) \/ AutoRevoke(s) \/ RecordFailure(s)
    <2>0. ASSUME NEW cause, Reject(s, cause), pc[s] # "idle"
          PROVE  /\ scan'[s].ticket = scan[s].ticket /\ scan'[s].nonce = scan[s].nonce
                 /\ scan'[s].cause = cause
      BY <1>0, <2>0 DEF Reject, TypeOK, Scan
    <2>1. CASE AnswerBlocked(s)
      BY <2>0, <2>1 DEF AnswerBlocked
    <2>2. CASE RejectEnded(s)
      BY <2>0, <2>2 DEF RejectEnded, Unblocked
    <2>3. CASE AutoRevoke(s) \/ RecordFailure(s)
      <3>1. Reject(s, scan[s].cause) /\ pc[s] # "idle"
        BY <2>3 DEF AutoRevoke, RecordFailure
      <3> QED
        BY <1>1, <2>0, <3>1
    <2> QED
      BY <1>6, <2>1, <2>2, <2>3
  <1>7. CASE \/ RejectHarmless(s) \/ RejectRisky(s) \/ PassChecks(s) \/ AcquireReplayKey(s)
             \/ ResetFind(s) \/ ResetUpdate(s) \/ GuardUpsert(s)
    <2>1. CASE RejectRisky(s)
      <3>1. scan' = [scan EXCEPT ![s] = [scan[s] EXCEPT !.cause = scan[s].cause]]
            /\ pc[s] # "idle"
        BY <2>1 DEF RejectRisky, Unblocked, Suspect
      <3>2. /\ scan'[s].ticket = scan[s].ticket /\ scan'[s].nonce = scan[s].nonce
            /\ scan'[s].cause = scan[s].cause
        BY <1>0, <3>1 DEF TypeOK, Scan
      <3> QED
        BY <1>1, <3>1, <3>2
    <2>2. CASE GuardUpsert(s)
      <3>1. PICK n : scan' = [scan EXCEPT ![s] = [scan[s] EXCEPT !.failCount = n]]
        BY <2>2 DEF GuardUpsert
      <3>2. /\ scan'[s].ticket = scan[s].ticket /\ scan'[s].nonce = scan[s].nonce
            /\ scan'[s].cause = scan[s].cause /\ pc[s] # "idle"
        BY <1>0, <2>2, <3>1 DEF GuardUpsert, TypeOK, Scan
      <3> QED
        BY <1>1, <3>2
    <2>3. CASE RejectHarmless(s) \/ PassChecks(s)
      BY <1>1, <2>3 DEF RejectHarmless, PassChecks, Unblocked
    <2>4. CASE AcquireReplayKey(s) \/ ResetFind(s) \/ ResetUpdate(s)
      BY <1>1, <2>4 DEF AcquireReplayKey, ResetFind, ResetUpdate
    <2> QED
      BY <1>7, <2>1, <2>2, <2>3, <2>4
  <1>8. CASE Accept(s) \/ Answer(s) \/ Abandon(s)
    BY <1>8 DEF Accept, Answer, Abandon, Goto, TypeOK
  <1>9. CASE ~ScanStep(s)
    BY <1>2, <1>9, OthersKeep
  <1> QED
    BY <1>3, <1>4, <1>5, <1>6, <1>7, <1>8, <1>9 DEF ScanStep

(* Policy rejections make no later scan a replay: whatever keys expire and  *)
(* however scans interleave, a REPLAY goes back to an acceptance or to a    *)
(* scan that passed every check (PolicyRejectionsCauseNoReplay).            *)
THEOREM ReplayEarned == Spec => []PolicyRejectionsCauseNoReplay
  <1> DEFINE Inv == TokensBehind /\ KeysCleared /\ ReplayExplained
  <1>1. Init => Inv
    BY DEF Init, TokensBehind, KeysCleared, ReplayExplained
  <1>2. TypeOK /\ AcceptedOnceInOrder /\ Inv /\ [Next]_vars => Inv'
    <2>1. TypeOK /\ KeysCleared /\ [Next]_vars => KeysCleared'
      BY ClearedFrame DEF KeysCleared
    <2> QED
      BY <2>1, BehindStep, ReplayStep
  <1>3. Inv => PolicyRejectionsCauseNoReplay
    BY DEF ReplayExplained, Explained, PolicyRejectionsCauseNoReplay, Verdict
  <1> QED
    BY <1>1, <1>2, <1>3, TypeCorrect, AcceptedOnce, PTL DEF Spec
-------------------------------------------------------------------------------
(* Entries and exits. *)

(* Where the accepted scans of t have left the guest. *)
LastState(t) ==
    IF accepted[t] = <<>> THEN "OUTSIDE" ELSE accepted[t][Len(accepted[t])].state

(* Somebody else has set the presence of t since its last accepted scan. *)
Overruled(t) == Len(accepted[t]) \in overridden[t]

StateExplained == \A t \in Tickets : tickets[t].state = LastState(t) \/ Overruled(t)

(* A scan that may still be accepted and can win the compare-and-set goes   *)
(* the other way than the last accepted one.                               *)
ScansTurn ==
    \A s \in Scanners :
        MayAccept(s) /\ scan[s].nonce = tickets[scan[s].ticket].nextNonce =>
            \/ intendedState(scan[s].direction) # LastState(scan[s].ticket)
            \/ Overruled(scan[s].ticket)

TurnInv == TokensBehind /\ CommitsUnrejected /\ StateExplained /\ ScansTurn
           /\ EntriesAndExitsAlternate

(* A step that accepts no scan keeps the presence of t or records that it   *)
(* has been set.                                                           *)
PresenceExplained(t) ==
    /\ accepted'[t] = accepted[t]
    /\ overridden[t] \subseteq overridden'[t]
    /\ tickets'[t].nextNonce = tickets[t].nextNonce
    /\ tickets'[t].state = tickets[t].state \/ Len(accepted[t]) \in overridden'[t]

LEMMA MarkEffect ==
    ASSUME TypeOK, NEW t \in Tickets, NEW u \in Tickets, MarkOverridden(t)
    PROVE  /\ overridden[u] \subseteq overridden'[u]
           /\ Len(accepted[t]) \in overridden'[t]
  BY DEF MarkOverridden, TypeOK

LEMMA PresenceFrame ==
    ASSUME TypeOK, [Next]_vars, NEW t \in Tickets
    PROVE  \/ \E s \in Scanners : Accept(s)
           \/ PresenceExplained(t)
  <1> USE DEF PresenceExplained
  <1>0. tickets \in [Tickets -> Ticket]
    BY DEF TypeOK
  <1>1. CASE UNCHANGED Rows
    BY <1>1 DEF Rows
  <1>2. ASSUME NEW s \in Scanners, AutoRevoke(s) PROVE PresenceExplained(t)
    <2>1. scan[s].ticket \in Tickets /\ MarkOverridden(scan[s].ticket) /\ accepted' = accepted
      BY <1>2 DEF AutoRevoke, TypeOK, Scan
    <2>2. overridden[t] \subseteq overridden'[t]
      BY <2>1, MarkEffect
    <2>3. CASE t = scan[s].ticket
      <3>1. Len(accepted[t]) \in overridden'[t]
        BY <2>1, <2>3, MarkEffect
      <3>2. tickets'[t].nextNonce = tickets[t].nextNonce
        BY <1>0, <1>2, <2>3 DEF AutoRevoke, RevokedRow, Ticket
      <3> QED
        BY <2>1, <2>2, <3>1, <3>2
    <2>4. CASE t # scan[s].ticket
      BY <1>0, <1>2, <2>1, <2>2, <2>4 DEF AutoRevoke
    <2> QED
      BY <2>3, <2>4
  <1>3. ASSUME NEW p \in Staff, StaffStep(p) PROVE PresenceExplained(t)
    <2>0. InProgress(p) => staff[p].ticket \in Tickets
      BY DEF InProgress, TypeOK, StaffTask
    <2>1. CASE StaffRead(p) \/ StaffAbandon(p)
      BY <2>1 DEF StaffRead, StaffAbandon, store, history
    <2>2. CASE Revoke(p) \/ UpdatePresence(p)
      <3> DEFINE u == staff[p].ticket
      <3>1. u \in Tickets /\ MarkOverridden(u) /\ accepted' = accepted
        BY <2>0, <2>2 DEF Revoke, UpdatePresence, AtTransaction
      <3>2. overridden[t] \subseteq overridden'[t]
        BY <3>1, MarkEffect
      <3>3. tickets'[t].nextNonce = tickets[t].nextNonce
        <4>1. CASE Revoke(p)
          BY <1>0, <4>1 DEF Revoke, RevokedRow, Ticket
        <4>2. CASE UpdatePresence(p)
          BY <1>0, <4>2 DEF UpdatePresence, Ticket
        <4> QED
          BY <2>2, <4>1, <4>2
      <3>4. CASE t = u
        BY <3>1, <3>2, <3>3, <3>4, MarkEffect
      <3>5. CASE t # u
        BY <1>0, <2>2, <3>1, <3>2, <3>3, <3>5 DEF Revoke, UpdatePresence
      <3> QED
        BY <3>4, <3>5
    <2>3. CASE ResetDeviceBinding(p)
      BY <1>0, <2>3 DEF ResetDeviceBinding, AtTransaction, Ticket
    <2>4. CASE Delete(p)
      BY <1>0, <2>4 DEF Delete, AtTransaction, Ticket
    <2> QED
      BY <1>3, <2>1, <2>2, <2>3, <2>4 DEF StaffStep
  <1>4. ASSUME NEW u \in Tickets, NEW d \in Devices, ActivateDevice(u, d)
        PROVE  PresenceExplained(t)
    BY <1>0, <1>4 DEF ActivateDevice, history, Ticket
  <1> QED
    BY <1>1, <1>2, <1>3, <1>4, RowWriters

(* What a step that does not touch the accepted scans of t keeps. *)
LEMMA UntouchedKept ==
    ASSUME NEW t \in Tickets, PresenceExplained(t)
    PROVE  /\ LastState(t)' = LastState(t)
           /\ Overruled(t) => Overruled(t)'
           /\ tickets'[t].state = tickets[t].state \/ Overruled(t)'
  BY DEF PresenceExplained, LastState, Overruled

LEMMA TurnEffect ==
    ASSUME TypeOK, TurnInv, AcceptedOnceInOrder, NEW s \in Scanners, Accept(s),
           NEW t \in Tickets, t = scan[s].ticket
    PROVE  LET n == Len(accepted[t])
           IN  /\ n \in Nat /\ Len(accepted'[t]) = n + 1
               /\ \A i \in 1..n : accepted'[t][i] = accepted[t][i]
               /\ accepted'[t][n + 1].state = intendedState(scan[s].direction)
               /\ LastState(t)' = intendedState(scan[s].direction)
               /\ tickets'[t].state = intendedState(scan[s].direction)
               /\ tickets'[t].nextNonce = tickets[t].nextNonce + 1
               /\ overridden' = overridden
               /\ intendedState(scan[s].direction) # LastState(t) \/ n \in overridden[t]
  <1> DEFINE n == Len(accepted[t])
             d == intendedState(scan[s].direction)
  <1>1. Extends(s, t, n)
    BY AcceptEffect
  <1>2. /\ n \in Nat /\ Len(accepted'[t]) = n + 1
        /\ \A i \in 1..n : accepted'[t][i] = accepted[t][i]
        /\ accepted'[t][n + 1].state = d
        /\ tickets'[t].nextNonce = tickets[t].nextNonce + 1
    BY <1>1 DEF Extends
  <1>3. accepted'[t] # <<>>
    BY <1>2, EmptySeq
  <1>4. LastState(t)' = d
    BY <1>2, <1>3 DEF LastState
  <1>5. tickets'[t].state = d
    BY <1>2 DEF Accept, TypeOK, Ticket
  <1>6. MayAccept(s) /\ scan[s].nonce = tickets[t].nextNonce
    BY <1>1 DEF Accept, MayAccept, TurnInv, CommitsUnrejected, Extends
  <1>7. d # LastState(t) \/ n \in overridden[t]
    BY <1>6 DEF TurnInv, ScansTurn, Overruled
  <1>8. overridden' = overridden
    BY DEF Accept
  <1> QED
    BY <1>2, <1>4, <1>5, <1>7, <1>8

Alternates(t, i) ==
    LET before == IF i = 1 THEN "OUTSIDE" ELSE accepted[t][i - 1].state
    IN  accepted[t][i].state = before => i - 1 \in overridden[t]

LEMMA AlternateStep ==
    ASSUME TypeOK, AcceptedOnceInOrder, TurnInv, [Next]_vars
    PROVE  EntriesAndExitsAlternate' /\ StateExplained'
  <1> SUFFICES ASSUME NEW t \in Tickets
               PROVE  /\ \A i \in 1..Len(accepted'[t]) : Alternates(t, i)'
                      /\ tickets'[t].state = LastState(t)' \/ Overruled(t)'
    BY DEF EntriesAndExitsAlternate, StateExplained, Alternates
  <1>0. /\ \A i \in 1..Len(accepted[t]) : Alternates(t, i)
        /\ tickets[t].state = LastState(t) \/ Overruled(t)
    BY DEF TurnInv, EntriesAndExitsAlternate, StateExplained, Alternates
  <1>1. CASE PresenceExplained(t)
    <2>1. tickets'[t].state = LastState(t)' \/ Overruled(t)'
      BY <1>0, <1>1, UntouchedKept
    <2>2. \A i \in 1..Len(accepted'[t]) : Alternates(t, i)'
      BY <1>0, <1>1 DEF PresenceExplained, Alternates
    <2> QED
      BY <2>1, <2>2
  <1>2. ASSUME NEW s \in Scanners, Accept(s)
        PROVE  /\ \A i \in 1..Len(accepted'[t]) : Alternates(t, i)'
               /\ tickets'[t].state = LastState(t)' \/ Overruled(t)'
    <2>1. CASE t # scan[s].ticket
      <3>1. tickets'[t] = tickets[t] /\ accepted'[t] = accepted[t] /\ overridden' = overridden
        <4>1. Extends(s, scan[s].ticket, Len(accepted[scan[s].ticket]))
          BY <1>2, AcceptEffect
        <4>2. overridden' = overridden
          BY <1>2 DEF Accept
        <4> QED
          BY <2>1, <4>1, <4>2 DEF Extends
      <3> QED
        BY <1>0, <3>1 DEF Alternates, LastState, Overruled
    <2>2. CASE t = scan[s].ticket
      <3> DEFINE d == intendedState(scan[s].direction)
      <3>1. PICK n \in Nat :
               /\ n = Len(accepted[t]) /\ Len(accepted'[t]) = n + 1
               /\ \A i \in 1..n : accepted'[t][i] = accepted[t][i]
               /\ accepted'[t][n + 1].state = d
               /\ LastState(t)' = d /\ tickets'[t].state = d
               /\ overridden' = overridden
               /\ d # LastState(t) \/ n \in overridden[t]
        BY <1>2, <2>2, TurnEffect
      <3> HIDE DEF d
      <3>2. ASSUME NEW i \in 1..n PROVE Alternates(t, i)'
        <4>0. i # 1 => i - 1 \in 1..n
          BY <3>1
        <4>1. accepted'[t][i] = accepted[t][i] /\ (i # 1 => accepted'[t][i - 1] = accepted[t][i - 1])
          BY <3>1, <4>0
        <4>2. Alternates(t, i)
          BY <1>0, <3>1
        <4> QED
          BY <3>1, <4>1, <4>2 DEF Alternates
      <3>3. Alternates(t, n + 1)'
        <4>1. CASE n \in overridden[t]
          BY <3>1, <4>1 DEF Alternates
        <4>2. CASE d # LastState(t)
          <5>1. CASE n = 0
            <6>1. accepted[t] = <<>>
              BY <3>1, <5>1, EmptySeq DEF TypeOK
            <6> QED
              BY <3>1, <4>2, <5>1, <6>1 DEF Alternates, LastState
          <5>2. CASE n # 0
            <6>1. accepted[t] # <<>>
              BY <3>1, <5>2, EmptySeq
            <6>2. accepted'[t][n].state = LastState(t)
              BY <3>1, <5>2, <6>1 DEF LastState
            <6> QED
              BY <3>1, <4>2, <5>2, <6>2 DEF Alternates
          <5> QED
            BY <5>1, <5>2
        <4> QED
          BY <3>1, <4>1, <4>2
      <3>4. \A i \in 1..(n + 1) : i \in 1..n \/ i = n + 1
        OBVIOUS
      <3> QED
        BY <3>1, <3>2, <3>3, <3>4
    <2> QED
      BY <2>1, <2>2
  <1> QED
    BY <1>1, <1>2, PresenceFrame

LEMMA TurnStep ==
    ASSUME TypeOK, TypeOK', AcceptedOnceInOrder, TurnInv, [Next]_vars
    PROVE  ScansTurn'
  <1> SUFFICES ASSUME NEW s \in Scanners, MayAccept(s)', NEW t \in Tickets, NEW d,
                      t = scan'[s].ticket, d = intendedState(scan'[s].direction),
                      scan'[s].nonce = tickets'[t].nextNonce
               PROVE  d # LastState(t)' \/ Overruled(t)'
    <2>1. \A s \in Scanners : MayAccept(s)' => scan'[s].ticket \in Tickets
      BY DEF MayAccept, TypeOK, Scan
    <2> QED
      BY <2>1 DEF ScansTurn
  <1>1. scan'[s].nonce \in Nat
    BY DEF MayAccept, TypeOK, Scan
  <1>2. CASE ReadTicket(s)
    <2>1. /\ tickets[t].state # d
          /\ UNCHANGED <<tickets, accepted, overridden>>
      BY <1>2, ReadEffect DEF MayAccept
    <2>2. tickets[t].state = LastState(t) \/ Overruled(t)
      BY <1>1 DEF TurnInv, StateExplained
    <2>3. LastState(t)' = LastState(t) /\ Overruled(t)' = Overruled(t)
      BY <2>1 DEF LastState, Overruled
    <2> QED
      BY <2>1, <2>2, <2>3
  <1>3. CASE MayAccept(s) /\ SameRequest(scan'[s], scan[s])
    <2>1. scan[s].ticket = t /\ scan[s].nonce = scan'[s].nonce /\ intendedState(scan[s].direction) = d
      BY <1>3 DEF SameRequest
    <2>2. CASE PresenceExplained(t)
      <3>1. scan[s].nonce = tickets[t].nextNonce
        BY <2>1, <2>2 DEF PresenceExplained
      <3>2. d # LastState(t) \/ Overruled(t)
        BY <1>3, <2>1, <3>1 DEF TurnInv, ScansTurn
      <3> QED
        BY <1>1, <2>2, <3>2, UntouchedKept
    <2>3. ASSUME NEW a \in Scanners, Accept(a), scan[a].ticket = t PROVE FALSE
      <3>1. tickets'[t].nextNonce = tickets[t].nextNonce + 1
        BY <2>3, TurnEffect
      <3>2. scan[s].nonce <= tickets[t].nextNonce
        BY <1>3, <2>1 DEF TurnInv, TokensBehind, MayAccept
      <3>3. tickets[t].nextNonce \in Nat
        BY <1>1 DEF TypeOK, Ticket
      <3> QED
        BY <1>1, <2>1, <3>1, <3>2, <3>3
    <2>4. ASSUME NEW a \in Scanners, Accept(a), scan[a].ticket # t PROVE PresenceExplained(t)
      <3>1. tickets'[t] = tickets[t] /\ accepted'[t] = accepted[t] /\ overridden' = overridden
        <4>1. Extends(a, scan[a].ticket, Len(accepted[scan[a].ticket]))
          BY <2>4, AcceptEffect
        <4>2. overridden' = overridden
          BY <2>4 DEF Accept
        <4> QED
          BY <2>4, <4>1, <4>2 DEF Extends
      <3> QED
        BY <3>1 DEF PresenceExplained
    <2> QED
      BY <1>1, <2>2, <2>3, <2>4, PresenceFrame
  <1> QED
    BY <1>1, <1>2, <1>3, MayAcceptBefore

LEMMA TurnHolds == Spec => []TurnInv
  <1>1. Init => TurnInv
    <2> SUFFICES ASSUME Init PROVE TurnInv
      OBVIOUS
    <2>1. \A t \in Tickets : accepted[t] = <<>> /\ Len(accepted[t]) = 0
      BY EmptySeq DEF Init
    <2>2. EntriesAndExitsAlternate
      BY <2>1 DEF EntriesAndExitsAlternate
    <2>3. StateExplained
      BY <2>1 DEF Init, NewTicket, StateExplained, LastState
    <2> QED
      BY <2>2, <2>3 DEF Init, TurnInv, TokensBehind, CommitsUnrejected, ScansTurn, MayAccept
  <1>2. TypeOK /\ TypeOK' /\ AcceptedOnceInOrder /\ TurnInv /\ [Next]_vars => TurnInv'
    BY BehindStep, UnrejectedStep, AlternateStep, TurnStep DEF TurnInv
  <1> QED
    BY <1>1, <1>2, TypeCorrect, AcceptedOnce, PTL DEF Spec

(* Accepted scans of a ticket alternate between entry and exit unless       *)
(* somebody else set the presence in between, for any number of concurrent  *)
(* scans and staff members (EntriesAndExitsAlternate).                      *)
THEOREM ScansAlternate == Spec => []EntriesAndExitsAlternate
  <1>1. TurnInv => EntriesAndExitsAlternate
    BY DEF TurnInv
  <1> QED
    BY <1>1, TurnHolds, PTL

-------------------------------------------------------------------------------
(* Automatic revocation.  A risky scan is counted in failures before it     *)
(* reads the guard; until then it is pending.  What the guard holds, and    *)
(* what a scan is about to write to it, leaves room for the pending ones.   *)

Pending(t) == {s \in Scanners : pc[s] = "guardUpsert" /\ scan[s].ticket = t}

Covered(n, t) == n + Cardinality(Pending(t)) <= failures[t]

GuardCovered(t) == Covered(guards[t].failCount, t)
WriteCovered(s) == Covered(scan[s].failCount, scan[s].ticket)

GuardsCovered == \A t \in Tickets : GuardCovered(t)

WritesCovered == \A s \in Scanners : pc[s] = "guardWrite" => WriteCovered(s)

RevocationsEarned ==
    \A t \in Tickets : tickets[t].revokedBy = "shareGuard" => failures[t] >= RevokeThreshold

EarnedInv == GuardsCovered /\ WritesCovered /\ RevocationsEarned

LEMMA PendingFinite ==
    ASSUME NEW S, S \subseteq Scanners
    PROVE  IsFiniteSet(S) /\ Cardinality(S) \in Nat
  BY ScannersAssumption, FS_Subset, FS_CardinalityType

LEMMA PendingShrinks ==
    ASSUME NEW S, NEW T, S \subseteq T, T \subseteq Scanners
    PROVE  Cardinality(S) <= Cardinality(T)
  BY PendingFinite, FS_Subset

(* No risk score reaches the threshold by itself: the counter has to. *)
LEMMA RevocationCounted ==
    ASSUME NEW r, r.failCount \in Nat, ReachesRevocation(r)
    PROVE  r.failCount >= RevokeThreshold
  BY DEF ReachesRevocation, ShouldRevoke, calculateRisk, RevokeThreshold

(* A step that puts no scan before its guard and no uncovered count into a  *)
(* guard or a request.                                                     *)
Quiet ==
    /\ \A t \in Tickets :
         /\ failures'[t] = failures[t]
         /\ \/ guards'[t].failCount \in {0, guards[t].failCount}
            \/ \E s \in Scanners :
                 /\ pc[s] = "guardWrite" /\ scan[s].ticket = t
                 /\ guards'[t].failCount = scan[s].failCount
    /\ \A s \in Scanners :
         /\ pc'[s] = "guardUpsert" =>
              pc[s] = "guardUpsert" /\ scan'[s].ticket = scan[s].ticket
         /\ pc'[s] = "guardWrite" =>
              /\ pc[s] = "guardWrite" /\ scan'[s].ticket = scan[s].ticket
              /\ scan'[s].failCount = scan[s].failCount

LEMMA CoveredKept ==
    ASSUME TypeOK, NEW t \in Tickets, NEW n \in Nat, Covered(n, t),
           Pending(t)' \subseteq Pending(t), failures'[t] = failures[t]
    PROVE  Covered(n, t)'
  <1> DEFINE S == Pending(t)
             T == Pending(t)'
  <1>1. Cardinality(T) <= Cardinality(S)
    BY PendingShrinks DEF Pending
  <1>2. Cardinality(T) \in Nat /\ Cardinality(S) \in Nat
    BY PendingFinite DEF Pending
  <1>3. failures[t] \in Nat
    BY DEF TypeOK
  <1>4. n + Cardinality(S) <= failures[t]
    BY DEF Covered
  <1>5. n + Cardinality(T) <= failures'[t]
    <2> HIDE DEF S, T
    <2> QED BY <1>1, <1>2, <1>3, <1>4
  <1>6. Covered(n, t)' <=> n + Cardinality(T) <= failures'[t]
    BY DEF Covered
  <1> QED
    BY <1>5, <1>6

LEMMA QuietStep ==
    ASSUME TypeOK, EarnedInv, Quiet
    PROVE  GuardsCovered' /\ WritesCovered'
  <1>1. ASSUME NEW t \in Tickets PROVE Pending(t)' \subseteq Pending(t)
    BY DEF Quiet, Pending
  <1>2. ASSUME NEW t \in Tickets PROVE GuardCovered(t)'
    <2>0. guards[t].failCount \in Nat /\ Covered(guards[t].failCount, t)
      BY DEF TypeOK, ShareGuard, EarnedInv, GuardsCovered, GuardCovered
    <2>1. Covered(0, t)
      <3>1. Cardinality(Pending(t)) \in Nat /\ failures[t] \in Nat
        BY PendingFinite DEF Pending, TypeOK
      <3>2. guards[t].failCount + Cardinality(Pending(t)) <= failures[t]
        BY <2>0 DEF Covered, GuardCovered
      <3> QED
        BY <2>0, <3>1, <3>2 DEF Covered
    <2>2. ASSUME NEW s \in Scanners, pc[s] = "guardWrite", scan[s].ticket = t
          PROVE  scan[s].failCount \in Nat /\ Covered(scan[s].failCount, t)
      BY <2>2 DEF TypeOK, Scan, EarnedInv, WritesCovered, WriteCovered
    <2>3. PICK n \in Nat : n = guards'[t].failCount /\ Covered(n, t)
      BY <2>0, <2>1, <2>2 DEF Quiet
    <2>4. Covered(n, t)'
      BY <1>1, <2>3, CoveredKept DEF Quiet
    <2> QED
      BY <2>3, <2>4 DEF Covered, GuardCovered
  <1>3. ASSUME NEW s \in Scanners, pc'[s] = "guardWrite"
        PROVE  WriteCovered(s)'
    <2>1. PICK t \in Tickets, n \in Nat : t = scan[s].ticket /\ n = scan[s].failCount
      BY <1>3 DEF Quiet, TypeOK, Scan
    <2>2. Covered(n, t) /\ scan'[s].ticket = t /\ scan'[s].failCount = n
      BY <1>3, <2>1 DEF Quiet, EarnedInv, WritesCovered, WriteCovered
    <2>3. Covered(n, t)'
      BY <1>1, <2>1, <2>2, CoveredKept DEF Quiet
    <2> QED
      BY <2>2, <2>3 DEF Covered, WriteCovered
  <1> QED
    BY <1>2, <1>3 DEF GuardsCovered, WritesCovered

(* A scan that becomes pending is a failure more. *)
LEMMA SuspectCovered ==
    ASSUME TypeOK, EarnedInv, NEW s \in Scanners, NEW cause, Suspect(s, cause),
           pc[s] \in {"isBlocked", "replayKey"}
    PROVE  GuardsCovered' /\ WritesCovered'
  <1>1. scan[s] \in Scan /\ scan[s].ticket \in Tickets
    BY DEF TypeOK, Scan
  <1> DEFINE u == scan[s].ticket
  <1>2. /\ \A o \in Scanners \ {s} : pc'[o] = pc[o] /\ scan'[o] = scan[o]
        /\ pc'[s] = "guardUpsert" /\ scan'[s].ticket = scan[s].ticket /\ guards' = guards
    BY <1>1 DEF Suspect, Goto, TypeOK, Scan, store
  <1>3. failures' = [failures EXCEPT ![u] = failures[u] + 1]
    BY DEF Suspect
  <1>4. ASSUME NEW t \in Tickets, NEW n \in Nat, Covered(n, t) PROVE Covered(n, t)'
    <2> DEFINE S == Pending(t)
               T == Pending(t)'
    <2>1. CASE t # u
      <3>1. T \subseteq S /\ failures'[t] = failures[t]
        BY <1>2, <1>3, <2>1 DEF Pending, TypeOK
      <3> QED
        BY <1>4, <3>1, CoveredKept
    <2>2. CASE t = u
      <3>1. T = S \cup {s} /\ s \notin S
        BY <1>2, <2>2 DEF Pending
      <3>2. IsFiniteSet(S) /\ Cardinality(S) \in Nat
        BY PendingFinite DEF Pending
      <3>3. n + Cardinality(S) <= failures[t] /\ failures[t] \in Nat
        BY <1>4 DEF Covered, TypeOK
      <3>4. failures'[t] = failures[t] + 1
        BY <1>1, <1>3, <2>2 DEF TypeOK
      <3>5. Covered(n, t)' <=> n + Cardinality(T) <= failures'[t]
        BY DEF Covered
      <3> HIDE DEF S, T
      <3>6. Cardinality(T) = Cardinality(S) + 1
        BY <3>1, <3>2, FS_AddElement
      <3> QED
        BY <3>2, <3>3, <3>4, <3>5, <3>6
    <2> QED
      BY <2>1, <2>2
  <1>5. GuardsCovered'
    <2> SUFFICES ASSUME NEW t \in Tickets PROVE GuardCovered(t)'
      BY DEF GuardsCovered
    <2>1. PICK n \in Nat : n = guards[t].failCount
      BY DEF TypeOK, ShareGuard
    <2>2. Covered(n, t)'
      BY <1>4, <2>1 DEF EarnedInv, GuardsCovered, GuardCovered
    <2> QED
      BY <1>2, <2>1, <2>2 DEF Covered, GuardCovered
  <1>6. WritesCovered'
    <2> SUFFICES ASSUME NEW o \in Scanners, pc'[o] = "guardWrite"
                 PROVE  WriteCovered(o)'
      BY DEF WritesCovered
    <2>1. o # s /\ pc[o] = "guardWrite" /\ scan'[o] = scan[o]
      BY <1>2
    <2>2. PICK t \in Tickets, n \in Nat : t = scan[o].ticket /\ n = scan[o].failCount
      BY <2>1 DEF TypeOK, Scan
    <2>3. Covered(n, t)'
      BY <1>4, <2>1, <2>2 DEF EarnedInv, WritesCovered, WriteCovered
    <2> QED
      BY <2>1, <2>2, <2>3 DEF Covered, WriteCovered
  <1> QED
    BY <1>5, <1>6

(* A scan that reads the guard is no longer pending; what it will write     *)
(* counts it instead.                                                      *)
LEMMA UpsertCovered ==
    ASSUME TypeOK, EarnedInv, NEW s \in Scanners, GuardUpsert(s)
    PROVE  GuardsCovered' /\ WritesCovered'
  <1>1. PICK u \in Tickets : u = scan[s].ticket
    BY DEF GuardUpsert, TypeOK, Scan
  <1>2. scan[s] \in Scan /\ guards[u] \in ShareGuard /\ guards[u].failCount \in Nat
    BY DEF GuardUpsert, TypeOK, ShareGuard
  <1>3. /\ \A o \in Scanners \ {s} : pc'[o] = pc[o] /\ scan'[o] = scan[o]
        /\ pc[s] = "guardUpsert" /\ pc'[s] = "guardWrite" /\ scan'[s].ticket = u
        /\ scan'[s].failCount = guards[u].failCount + 1
    BY <1>1, <1>2 DEF GuardUpsert, Goto, TypeOK, Scan
  <1>4. /\ \A t \in Tickets : guards'[t].failCount = guards[t].failCount
        /\ failures' = failures
    BY <1>1, <1>2 DEF GuardUpsert, TypeOK, ShareGuard, history
  <1>5. ASSUME NEW t \in Tickets PROVE Pending(t)' \subseteq Pending(t)
    BY <1>3 DEF Pending
  <1>6. GuardsCovered'
    <2> SUFFICES ASSUME NEW t \in Tickets PROVE GuardCovered(t)'
      BY DEF GuardsCovered
    <2>1. PICK n \in Nat : n = guards[t].failCount
      BY DEF TypeOK, ShareGuard
    <2>2. Covered(n, t)'
      BY <1>4, <1>5, <2>1, CoveredKept DEF EarnedInv, GuardsCovered, GuardCovered
    <2> QED
      BY <1>4, <2>1, <2>2 DEF Covered, GuardCovered
  <1>7. ASSUME NEW o \in Scanners, o # s, pc'[o] = "guardWrite"
        PROVE  WriteCovered(o)'
    <2>1. pc[o] = "guardWrite" /\ scan'[o] = scan[o]
      BY <1>3, <1>7
    <2>2. PICK t \in Tickets, n \in Nat : t = scan[o].ticket /\ n = scan[o].failCount
      BY <2>1 DEF TypeOK, Scan
    <2>3. Covered(n, t)'
      BY <1>4, <1>5, <2>1, <2>2, CoveredKept DEF EarnedInv, WritesCovered, WriteCovered
    <2> QED
      BY <2>1, <2>2, <2>3 DEF Covered, WriteCovered
  <1>8. WriteCovered(s)'
    <2> DEFINE S == Pending(u)
               T == Pending(u)'
    <2>1. s \in S /\ T \subseteq S \ {s}
      BY <1>1, <1>3 DEF Pending
    <2>2. IsFiniteSet(S) /\ Cardinality(S) \in Nat /\ Cardinality(T) \in Nat /\ S \subseteq Scanners
      BY PendingFinite DEF Pending
    <2>3. guards[u].failCount + Cardinality(S) <= failures[u] /\ failures[u] \in Nat
      BY DEF EarnedInv, GuardsCovered, GuardCovered, Covered, TypeOK
    <2>4. WriteCovered(s)'
             <=> scan'[s].failCount + Cardinality(T) <= failures'[u]
      BY <1>3 DEF Covered, WriteCovered
    <2> HIDE DEF S, T
    <2>5. Cardinality(S \ {s}) = Cardinality(S) - 1
      BY <2>1, <2>2, FS_RemoveElement
    <2>6. Cardinality(T) <= Cardinality(S) - 1
      BY <2>1, <2>2, <2>5, PendingShrinks
    <2>7. guards[u].failCount + 1 + Cardinality(T) <= failures[u]
      BY <1>2, <2>2, <2>3, <2>6
    <2> QED
      BY <1>3, <1>4, <2>4, <2>7
  <1> QED
    BY <1>6, <1>7, <1>8 DEF WritesCovered

LEMMA QuietScans ==
    ASSUME TypeOK, NEW s \in Scanners, ScanStep(s)
    PROVE  \/ Quiet
           \/ GuardUpsert(s)
           \/ \E cause \in Causes : Suspect(s, cause) /\ pc[s] \in {"isBlocked", "replayKey"}
  <1>0. /\ \A o \in Scanners \ {s} : pc'[o] = pc[o] /\ scan'[o] = scan[o]
        /\ pc[s] # "idle" => scan[s] \in Scan /\ scan[s].ticket \in Tickets
    BY ScanFrame DEF TypeOK, Scan
  <1> DEFINE Calm == pc'[s] \notin {"guardUpsert", "guardWrite"} /\ failures' = failures
  <1>1. ASSUME Calm, guards' = guards PROVE Quiet
    BY <1>0, <1>1 DEF Quiet
  <1>2. CASE ReadTicket(s)
    BY <1>1, <1>2, ReadEffect DEF ReadTicket, store, history
  <1>3. CASE \/ AnswerBlocked(s) \/ RejectHarmless(s) \/ RejectEnded(s) \/ PassChecks(s)
             \/ ResetFind(s) \/ LoseNonceRace(s) \/ Answer(s) \/ Abandon(s)
    <2>1. Calm /\ guards' = guards
      BY <1>3 DEF AnswerBlocked, RejectHarmless, RejectEnded, PassChecks, ResetFind, LoseNonceRace,
                  Answer, Abandon, Reject, Goto, TypeOK, store, history
    <2> QED
      BY <1>1, <2>1
  <1>4. CASE AcquireReplayKey(s) \/ Accept(s) \/ AutoRevoke(s)
    <2>1. Calm /\ guards' = guards
      BY <1>4 DEF AcquireReplayKey, Accept, AutoRevoke, Reject, Goto, TypeOK
    <2> QED
      BY <1>1, <2>1
  <1>5. CASE RejectRisky(s) \/ ReplayKeyTaken(s)
    BY <1>0, <1>5 DEF RejectRisky, ReplayKeyTaken, Unblocked, Risky, Causes
  <1>6. CASE ResetUpdate(s)
    <2>1. Calm
      BY <1>6 DEF ResetUpdate, Goto, TypeOK, history
    <2>2. \A t \in Tickets : guards'[t].failCount \in {0, guards[t].failCount}
      BY <1>0, <1>6 DEF ResetUpdate, TypeOK, ShareGuard
    <2> QED
      BY <1>0, <2>1, <2>2 DEF Quiet
  <1>7. CASE RecordFailure(s)
    <2>1. Calm /\ pc[s] = "guardWrite"
      BY <1>7 DEF RecordFailure, Reject, Goto, TypeOK, history
    <2>2. \A t \in Tickets \ {scan[s].ticket} : guards'[t] = guards[t]
      BY <1>0, <1>7 DEF RecordFailure, TypeOK
    <2>3. guards'[scan[s].ticket].failCount = scan[s].failCount
      <3>1. guards[scan[s].ticket] \in ShareGuard
        BY <1>0, <2>1 DEF TypeOK
      <3> QED
        BY <1>0, <1>7, <3>1 DEF RecordFailure, TypeOK, ShareGuard
    <2> QED
      BY <1>0, <2>1, <2>2, <2>3 DEF Quiet
  <1> QED
    BY <1>2, <1>3, <1>4, <1>5, <1>6, <1>7 DEF ScanStep

LEMMA QuietOthers ==
    ASSUME TypeOK, [Next]_vars, \A s \in Scanners : ~ScanStep(s)
    PROVE  Quiet
  <1> USE DEF store, history
  <1>1. failures' = failures /\ pc' = pc /\ scan' = scan
    BY DEF Next, vars, GenerateToken, BlockExpires, ActivateDevice, ReplayKeyExpires, StaffStep,
           StaffRead, Revoke, UpdatePresence, ResetDeviceBinding, Delete, StaffAbandon,
           AtTransaction
  <1>2. ASSUME NEW t \in Tickets PROVE guards'[t].failCount \in {0, guards[t].failCount}
    <2>1. ASSUME NEW p \in Staff, StaffStep(p) PROVE guards'[t].failCount \in {0, guards[t].failCount}
      <3>1. CASE Delete(p)
        BY <3>1 DEF Delete, TypeOK, NoGuard
      <3>2. CASE ~Delete(p)
        BY <2>1, <3>2 DEF StaffStep, StaffRead, Revoke, UpdatePresence, ResetDeviceBinding,
                          StaffAbandon
      <3> QED
        BY <3>1, <3>2
    <2>2. ASSUME NEW u \in Tickets, BlockExpires(u) PROVE guards'[t].failCount = guards[t].failCount
      BY <2>2 DEF BlockExpires, TypeOK, ShareGuard
    <2> QED
      BY <2>1, <2>2 DEF Next, vars, GenerateToken, ActivateDevice, ReplayKeyExpires
  <1> QED
    BY <1>1, <1>2 DEF Quiet

LEMMA RevocationStep ==
    ASSUME TypeOK, TypeOK', EarnedInv, [Next]_vars
    PROVE  RevocationsEarned'
  <1> SUFFICES ASSUME NEW t \in Tickets, tickets'[t].revokedBy = "shareGuard"
               PROVE  failures'[t] >= RevokeThreshold
    BY DEF RevocationsEarned
  <1> USE DEF RevokeThreshold
  <1>1. failures[t] \in Nat /\ failures'[t] \in Nat /\ failures'[t] >= failures[t]
    <2>1. failures[t] \in Nat /\ failures'[t] \in Nat
      BY DEF TypeOK
    <2>2. Quiet => failures'[t] = failures[t]
      BY DEF Quiet
    <2>3. ASSUME NEW s \in Scanners, GuardUpsert(s) PROVE failures'[t] = failures[t]
      BY <2>3 DEF GuardUpsert, history
    <2>4. ASSUME NEW s \in Scanners, NEW cause, Suspect(s, cause) PROVE failures'[t] >= failures[t]
      BY <2>1, <2>4 DEF Suspect, TypeOK
    <2> QED
      BY <2>1, <2>2, <2>3, <2>4, QuietScans, QuietOthers
  <1>2. CASE tickets[t].revokedBy = "shareGuard"
    BY <1>1, <1>2 DEF EarnedInv, RevocationsEarned
  <1>3. ASSUME NEW s \in Scanners, AutoRevoke(s), scan[s].ticket = t
        PROVE  failures[t] >= RevokeThreshold
    <2>1. scan[s].failCount \in Nat /\ pc[s] = "guardWrite" /\ ReachesRevocation(scan[s])
      BY <1>3 DEF AutoRevoke, TypeOK, Scan
    <2>2. scan[s].failCount >= 10
      BY <2>1, RevocationCounted
    <2>3. scan[s].failCount + Cardinality(Pending(t)) <= failures[t]
      BY <1>3, <2>1 DEF EarnedInv, WritesCovered, WriteCovered, Covered
    <2>4. Cardinality(Pending(t)) \in Nat
      BY PendingFinite DEF Pending
    <2> QED
      BY <1>1, <2>1, <2>2, <2>3, <2>4
  <1>4. \/ tickets'[t].revokedBy = tickets[t].revokedBy
        \/ tickets'[t].revokedBy = "staff"
        \/ \E s \in Scanners : AutoRevoke(s) /\ scan[s].ticket = t
    <2> USE DEF TypeOK, Ticket
    <2>1. ASSUME NEW s \in Scanners, Accept(s) PROVE tickets'[t].revokedBy = tickets[t].revokedBy
      BY <2>1 DEF Accept
    <2>2. ASSUME NEW s \in Scanners, AutoRevoke(s), scan[s].ticket # t
          PROVE  tickets'[t] = tickets[t]
      BY <2>2 DEF AutoRevoke
    <2>3. ASSUME NEW p \in Staff, StaffStep(p)
          PROVE  tickets'[t].revokedBy \in {"staff", tickets[t].revokedBy}
      <3>1. CASE Revoke(p)
        BY <3>1 DEF Revoke, RevokedRow
      <3>2. CASE UpdatePresence(p)
        BY <3>2 DEF UpdatePresence
      <3>3. CASE ResetDeviceBinding(p)
        BY <3>3 DEF ResetDeviceBinding
      <3>4. CASE Delete(p)
        BY <3>4 DEF Delete
      <3>5. CASE StaffRead(p) \/ StaffAbandon(p)
        BY <3>5 DEF StaffRead, StaffAbandon, store
      <3> QED
        BY <2>3, <3>1, <3>2, <3>3, <3>4, <3>5 DEF StaffStep
    <2>4. ASSUME NEW u \in Tickets, NEW d \in Devices, ActivateDevice(u, d)
          PROVE  tickets'[t].revokedBy = tickets[t].revokedBy
      BY <2>4 DEF ActivateDevice
    <2>5. UNCHANGED Rows => tickets'[t].revokedBy = tickets[t].revokedBy
      BY DEF Rows
    <2> QED
      BY <2>1, <2>2, <2>3, <2>4, <2>5, RowWriters
  <1> QED
    BY <1>1, <1>2, <1>3, <1>4

(* The share guard revokes a ticket only after ten risky scans of it, for   *)
(* any number of scans that race for the counter (AutoRevokeEarned).        *)
THEOREM RevocationEarned == Spec => []AutoRevokeEarned
  <1>1. Init => EarnedInv
    <2> SUFFICES ASSUME Init PROVE EarnedInv
      OBVIOUS
    <2>1. ASSUME NEW t \in Tickets PROVE GuardCovered(t)
      <3>1. Pending(t) = {}
        BY DEF Init, Pending
      <3>2. Cardinality(Pending(t)) = 0
        BY <3>1, FS_EmptySet
      <3> QED
        BY <3>2 DEF Init, NoGuard, GuardCovered, Covered
    <2> QED
      BY <2>1 DEF Init, NewTicket, Nobody, EarnedInv, GuardsCovered, GuardCovered, WritesCovered, RevocationsEarned
  <1>2. TypeOK /\ TypeOK' /\ EarnedInv /\ [Next]_vars => EarnedInv'
    <2> SUFFICES ASSUME TypeOK, TypeOK', EarnedInv, [Next]_vars PROVE EarnedInv'
      OBVIOUS
    <2>1. GuardsCovered' /\ WritesCovered'
      BY QuietScans, QuietOthers, QuietStep, SuspectCovered, UpsertCovered
    <2> QED
      BY <2>1, RevocationStep DEF EarnedInv
  <1>3. TypeOK /\ EarnedInv => AutoRevokeEarned
    <2> SUFFICES ASSUME TypeOK, EarnedInv, NEW t \in Tickets
                 PROVE  guards[t].failCount <= failures[t]
      BY DEF EarnedInv, RevocationsEarned, AutoRevokeEarned
    <2>1. guards[t].failCount \in Nat /\ failures[t] \in Nat /\ Cardinality(Pending(t)) \in Nat
      BY PendingFinite DEF TypeOK, ShareGuard, Pending
    <2> QED
      BY <2>1 DEF EarnedInv, GuardsCovered, GuardCovered, Covered
  <1> QED
    BY <1>1, <1>2, <1>3, TypeCorrect, PTL DEF Spec
===============================================================================
