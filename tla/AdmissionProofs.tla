---------------------------- MODULE AdmissionProofs ----------------------------
(* The refinement of Admission by TicketScan, and the fate of overrides that *)
(* a revocation overtakes, for any number of tickets, scans and staff.       *)
EXTENDS TicketScanProofs

-------------------------------------------------------------------------------
(* What Admission sees of one ticket. *)

Live(t)      == tickets[t].live
IsRevoked(t) == Revoked(tickets[t])
Inside(t)    == tickets[t].state = "INSIDE"
CheckedIn(t) == tickets[t].checkedIn
Passed(t)    == tickets[t].lastNonce
Late(t)      == \E i \in 1..Len(accepted[t]) : accepted[t][i].late

SameRow(t) ==
    /\ Live(t)' = Live(t)
    /\ IsRevoked(t)' = IsRevoked(t)
    /\ Inside(t)' = Inside(t)
    /\ CheckedIn(t)' = CheckedIn(t)
    /\ Passed(t)' = Passed(t)
    /\ Late(t)' = Late(t)
    /\ Overruled(t)' = Overruled(t)


LEMMA Stutters ==
    ASSUME \A t \in Tickets : SameRow(t)
    PROVE  UNCHANGED Gate!vars
  <1>1. [t \in Tickets |-> Live(t)'] = [t \in Tickets |-> Live(t)]
    BY Zenon DEF SameRow
  <1>2. [t \in Tickets |-> IsRevoked(t)'] = [t \in Tickets |-> IsRevoked(t)]
    BY Zenon DEF SameRow
  <1>3. [t \in Tickets |-> Inside(t)'] = [t \in Tickets |-> Inside(t)]
    BY Zenon DEF SameRow
  <1>4. [t \in Tickets |-> CheckedIn(t)'] = [t \in Tickets |-> CheckedIn(t)]
    BY Zenon DEF SameRow
  <1>5. [t \in Tickets |-> Passed(t)'] = [t \in Tickets |-> Passed(t)]
    BY Zenon DEF SameRow
  <1>6. [t \in Tickets |-> Late(t)'] = [t \in Tickets |-> Late(t)]
    BY Zenon DEF SameRow
  <1>7. [t \in Tickets |-> Overruled(t)'] = [t \in Tickets |-> Overruled(t)]
    BY Zenon DEF SameRow
  <1> QED
    BY <1>1, <1>2, <1>3, <1>4, <1>5, <1>6, <1>7, Zenon
    DEF Live, IsRevoked, Inside, CheckedIn, Passed, Late, Overruled, Gate!vars
(* A step that changes what Admission sees of ticket t alone. *)
Only(t) == \A u \in Tickets \ {t} : SameRow(u)

LEMMA OneChanged ==
    ASSUME NEW t \in Tickets, Only(t)
    PROVE
      /\ [u \in Tickets |-> Live(u)'] = [[u \in Tickets |-> Live(u)] EXCEPT ![t] = Live(t)']
      /\ [u \in Tickets |-> IsRevoked(u)'] = [[u \in Tickets |-> IsRevoked(u)] EXCEPT ![t] = IsRevoked(t)']
      /\ [u \in Tickets |-> Inside(u)'] = [[u \in Tickets |-> Inside(u)] EXCEPT ![t] = Inside(t)']
      /\ [u \in Tickets |-> CheckedIn(u)'] = [[u \in Tickets |-> CheckedIn(u)] EXCEPT ![t] = CheckedIn(t)']
      /\ [u \in Tickets |-> Passed(u)'] = [[u \in Tickets |-> Passed(u)] EXCEPT ![t] = Passed(t)']
      /\ [u \in Tickets |-> Late(u)'] = [[u \in Tickets |-> Late(u)] EXCEPT ![t] = Late(t)']
      /\ [u \in Tickets |-> Overruled(u)'] = [[u \in Tickets |-> Overruled(u)] EXCEPT ![t] = Overruled(t)']
  <1>1. [u \in Tickets |-> Live(u)'] = [[u \in Tickets |-> Live(u)] EXCEPT ![t] = Live(t)']
    BY Zenon DEF Only, SameRow
  <1>2. [u \in Tickets |-> IsRevoked(u)'] = [[u \in Tickets |-> IsRevoked(u)] EXCEPT ![t] = IsRevoked(t)']
    BY Zenon DEF Only, SameRow
  <1>3. [u \in Tickets |-> Inside(u)'] = [[u \in Tickets |-> Inside(u)] EXCEPT ![t] = Inside(t)']
    BY Zenon DEF Only, SameRow
  <1>4. [u \in Tickets |-> CheckedIn(u)'] = [[u \in Tickets |-> CheckedIn(u)] EXCEPT ![t] = CheckedIn(t)']
    BY Zenon DEF Only, SameRow
  <1>5. [u \in Tickets |-> Passed(u)'] = [[u \in Tickets |-> Passed(u)] EXCEPT ![t] = Passed(t)']
    BY Zenon DEF Only, SameRow
  <1>6. [u \in Tickets |-> Late(u)'] = [[u \in Tickets |-> Late(u)] EXCEPT ![t] = Late(t)']
    BY Zenon DEF Only, SameRow
  <1>7. [u \in Tickets |-> Overruled(u)'] = [[u \in Tickets |-> Overruled(u)] EXCEPT ![t] = Overruled(t)']
    BY Zenon DEF Only, SameRow
  <1> QED
    BY <1>1, <1>2, <1>3, <1>4, <1>5, <1>6, <1>7

LEMMA OneKept ==
    ASSUME NEW t \in Tickets, Only(t)
    PROVE
      /\ Live(t)' = Live(t) => [u \in Tickets |-> Live(u)'] = [u \in Tickets |-> Live(u)]
      /\ IsRevoked(t)' = IsRevoked(t) => [u \in Tickets |-> IsRevoked(u)'] = [u \in Tickets |-> IsRevoked(u)]
      /\ Inside(t)' = Inside(t) => [u \in Tickets |-> Inside(u)'] = [u \in Tickets |-> Inside(u)]
      /\ CheckedIn(t)' = CheckedIn(t) => [u \in Tickets |-> CheckedIn(u)'] = [u \in Tickets |-> CheckedIn(u)]
      /\ Passed(t)' = Passed(t) => [u \in Tickets |-> Passed(u)'] = [u \in Tickets |-> Passed(u)]
      /\ Late(t)' = Late(t) => [u \in Tickets |-> Late(u)'] = [u \in Tickets |-> Late(u)]
      /\ Overruled(t)' = Overruled(t) => [u \in Tickets |-> Overruled(u)'] = [u \in Tickets |-> Overruled(u)]
  BY Zenon DEF Only, SameRow

LEMMA Passes ==
    ASSUME NEW t \in Tickets, NEW in \in BOOLEAN, Only(t),
           Live(t), ~Late(t), in # Inside(t) \/ Overruled(t),
           Live(t)' = Live(t), IsRevoked(t)' = IsRevoked(t), Inside(t)' = in,
           CheckedIn(t)' = TRUE, Passed(t)' = Passed(t) + 1, Late(t)' = IsRevoked(t),
           Overruled(t)' = FALSE
    PROVE  Gate!Pass(t, in)
  BY OneChanged, OneKept, Zenon
  DEF Live, IsRevoked, Inside, CheckedIn, Passed, Late, Overruled, Gate!Pass

LEMMA SetsPresence ==
    ASSUME NEW t \in Tickets, NEW in \in BOOLEAN, Only(t),
           Live(t),
           Live(t)' = Live(t), IsRevoked(t)' = IsRevoked(t), Inside(t)' = in,
           CheckedIn(t)' = (CheckedIn(t) \/ in), Passed(t)' = Passed(t), Late(t)' = Late(t),
           Overruled(t)' = TRUE
    PROVE  Gate!SetPresence(t, in)
  BY OneChanged, OneKept, Zenon
  DEF Live, IsRevoked, Inside, CheckedIn, Passed, Late, Overruled, Gate!SetPresence

LEMMA Revokes ==
    ASSUME NEW t \in Tickets, Only(t),
           Live(t),
           Live(t)' = Live(t), IsRevoked(t)' = TRUE, Inside(t)' = FALSE,
           CheckedIn(t)' = CheckedIn(t), Passed(t)' = Passed(t), Late(t)' = Late(t),
           Overruled(t)' = TRUE
    PROVE  Gate!Revoke(t)
  BY OneChanged, OneKept, Zenon
  DEF Live, IsRevoked, Inside, CheckedIn, Passed, Late, Overruled, Gate!Revoke

LEMMA Deletes ==
    ASSUME NEW t \in Tickets, Only(t),
           Live(t),
           Live(t)' = FALSE, IsRevoked(t)' = IsRevoked(t), Inside(t)' = Inside(t),
           CheckedIn(t)' = CheckedIn(t), Passed(t)' = Passed(t), Late(t)' = Late(t),
           Overruled(t)' = Overruled(t)
    PROVE  Gate!Delete(t)
  BY OneChanged, OneKept, Zenon
  DEF Live, IsRevoked, Inside, CheckedIn, Passed, Late, Overruled, Gate!Delete

(* Admission sees the lifetime, the revocation, the presence, the check-in  *)
(* and the last nonce of a row, and the history of its ticket.              *)
SameFields(t) ==
    /\ tickets'[t].live = tickets[t].live
    /\ tickets'[t].revokedBy = tickets[t].revokedBy
    /\ tickets'[t].state = tickets[t].state
    /\ tickets'[t].checkedIn = tickets[t].checkedIn
    /\ tickets'[t].lastNonce = tickets[t].lastNonce

SameHistory(t) == accepted'[t] = accepted[t] /\ overridden'[t] = overridden[t]

LEMMA Unseen ==
    ASSUME NEW t \in Tickets, SameFields(t), SameHistory(t)
    PROVE  SameRow(t)
  <1>1. Live(t)' = Live(t) /\ CheckedIn(t)' = CheckedIn(t) /\ Passed(t)' = Passed(t)
    BY Zenon DEF SameFields, Live, CheckedIn, Passed
  <1>2. IsRevoked(t)' = IsRevoked(t)
    BY Zenon DEF SameFields, IsRevoked, Revoked
  <1>3. Inside(t)' = Inside(t)
    BY Zenon DEF SameFields, Inside
  <1>4. Late(t)' = Late(t) /\ Overruled(t)' = Overruled(t)
    BY DEF SameHistory, Late, Overruled
  <1> QED
    BY <1>1, <1>2, <1>3, <1>4 DEF SameRow

-------------------------------------------------------------------------------
(* The presence was set by others only between scans that were accepted, or *)
(* after the last of them: a scan that is accepted has the presence to itself. *)

OverridesPast == \A t \in Tickets : overridden[t] \subseteq 0..Len(accepted[t])

LEMMA PastStep == TypeOK /\ OverridesPast /\ [Next]_vars => OverridesPast'
  <1> SUFFICES ASSUME TypeOK, OverridesPast, [Next]_vars, NEW t \in Tickets
               PROVE  overridden'[t] \subseteq 0..Len(accepted'[t])
    BY DEF OverridesPast
  <1>0. overridden[t] \subseteq 0..Len(accepted[t]) /\ Len(accepted[t]) \in Nat
    BY LenProperties DEF OverridesPast, TypeOK
  <1>1. CASE SameHistory(t)
    BY <1>0, <1>1 DEF SameHistory
  <1>2. ASSUME NEW u \in Tickets, MarkOverridden(u), accepted' = accepted
        PROVE  overridden'[t] \subseteq 0..Len(accepted'[t])
    BY <1>0, <1>2 DEF MarkOverridden, TypeOK
  <1>3. ASSUME NEW s \in Scanners, Accept(s)
        PROVE  overridden'[t] \subseteq 0..Len(accepted'[t])
    <2>1. Extends(s, scan[s].ticket, Len(accepted[scan[s].ticket])) /\ overridden' = overridden
      BY <1>3, AcceptEffect DEF Accept
    <2>2. Len(accepted'[t]) \in {Len(accepted[t]), Len(accepted[t]) + 1}
      BY <2>1 DEF Extends
    <2> QED
      BY <1>0, <2>1, <2>2
  <1>4. ASSUME NEW s \in Scanners, AutoRevoke(s)
        PROVE  overridden'[t] \subseteq 0..Len(accepted'[t])
    <2>1. scan[s].ticket \in Tickets
      BY <1>4 DEF AutoRevoke, TypeOK, Scan
    <2> QED
      BY <1>2, <1>4, <2>1 DEF AutoRevoke
  <1>5. ASSUME NEW p \in Staff, StaffStep(p)
        PROVE  overridden'[t] \subseteq 0..Len(accepted'[t])
    <2>1. CASE StaffRead(p) \/ StaffAbandon(p) \/ ResetDeviceBinding(p) \/ Delete(p)
      BY <1>1, <2>1 DEF StaffRead, StaffAbandon, ResetDeviceBinding, Delete, AtTransaction,
         history, SameHistory
    <2>2. CASE Revoke(p) \/ UpdatePresence(p)
      <3>1. staff[p].ticket \in Tickets
        BY <2>2 DEF Revoke, UpdatePresence, AtTransaction, InProgress, TypeOK, StaffTask
      <3> QED
        BY <1>2, <2>2, <3>1 DEF Revoke, UpdatePresence, AtTransaction
    <2> QED
      BY <1>5, <2>1, <2>2 DEF StaffStep
  <1>6. ASSUME NEW u \in Tickets, NEW d \in Devices, ActivateDevice(u, d)
        PROVE  overridden'[t] \subseteq 0..Len(accepted'[t])
    BY <1>1, <1>6 DEF ActivateDevice, history, SameHistory
  <1> QED
    BY <1>1, <1>3, <1>4, <1>5, <1>6, RowWriters DEF Rows, SameHistory

-------------------------------------------------------------------------------
(* Every committed change of a ticket is one that Admission allows.         *)

AdmissionInv ==
    /\ TypeOK
    /\ AcceptedOnceInOrder
    /\ LateInv
    /\ CheckInInv
    /\ TurnInv
    /\ OverridesPast

LEMMA AcceptPasses ==
    ASSUME AdmissionInv, NEW s \in Scanners, Accept(s), [Next]_vars
    PROVE  \E t \in Tickets : \E in \in BOOLEAN : Gate!Pass(t, in)
  <1> DEFINE direction == scan[s].direction
             d == intendedState(direction)
  <1>0. TypeOK /\ AcceptedOnceInOrder /\ LateInv /\ CheckInInv /\ TurnInv
    BY DEF AdmissionInv
  <1>1. PICK t \in Tickets : t = scan[s].ticket
    BY DEF Accept, AdmissionInv, TypeOK, Scan
  <1>2. PICK in \in BOOLEAN : in = (d = "INSIDE")
    OBVIOUS
  <1>3. PICK n \in Nat : n = Len(accepted[t]) /\ Extends(s, t, n)
    BY <1>0, <1>1, AcceptEffect DEF Extends
  <1>4. Only(t)
    <2>1. overridden' = overridden
      BY DEF Accept
    <2>2. \A u \in Tickets \ {t} : SameFields(u) /\ SameHistory(u)
      BY <1>3, <2>1 DEF Extends, SameFields, SameHistory
    <2> QED
      BY <2>2, Unseen DEF Only
  <1>5. Live(t)' = Live(t) /\ Live(t) /\ IsRevoked(t)' = IsRevoked(t)
    <2>1. tickets[t].live /\ tickets'[t].live = tickets[t].live
      BY <1>0, <1>1 DEF Accept, TypeOK, Ticket
    <2>2. tickets'[t].revokedBy = tickets[t].revokedBy
      BY <1>0, <1>1 DEF Accept, TypeOK, Ticket
    <2>3. IsRevoked(t)' = IsRevoked(t)
      BY <2>2, Zenon DEF IsRevoked, Revoked
    <2> QED
      BY <2>1, <2>3, Zenon DEF Live
  <1>6. Inside(t)' = in
    <2>1. tickets'[t].state = d
      BY <1>0, <1>1 DEF Accept, TypeOK, Ticket
    <2> QED
      BY <2>1, <1>2, Zenon DEF Inside
  <1>7. in # Inside(t) \/ Overruled(t)
    <2>1. d # LastState(t) \/ Overruled(t)
      BY <1>0, <1>1, TurnEffect DEF Overruled
    <2>2. tickets[t].state = LastState(t) \/ Overruled(t)
      BY <1>0 DEF TurnInv, StateExplained
    <2>3. tickets[t].state \in Presence /\ d \in Presence
      BY <1>0 DEF TypeOK, Ticket, Presence, intendedState
    <2>4. ASSUME d # tickets[t].state PROVE in # Inside(t)
      BY <1>2, <2>3, <2>4 DEF Inside, Presence
    <2> QED
      BY <2>1, <2>2, <2>4
  <1>8. CheckedIn(t)' = TRUE
    <2>1. MayAccept(s) /\ scan[s] \in Scan
      BY <1>0 DEF Accept, MayAccept, LateInv, CommitsUnrejected, TypeOK
    <2>2. CheckedInAt(scan[s]) = TRUE
      BY <2>1, <1>0 DEF CheckedInAt, CheckInInv, ExitsCheckedIn, Scan, Directions
    <2>3. tickets'[t].checkedIn = CheckedInAt(scan[s])
      BY <1>0, <1>1 DEF Accept, TypeOK, Ticket
    <2> QED
      BY <2>2, <2>3, Zenon DEF CheckedIn
  <1>9. Passed(t)' = Passed(t) + 1
    BY <1>0, <1>3 DEF Passed, Extends, AcceptedOnceInOrder
  <1>10. ~Late(t)
    <2>1. MayAccept(s)
      BY <1>0 DEF Accept, MayAccept, LateInv, CommitsUnrejected
    <2>2. scan[s].nonce = tickets[t].nextNonce /\ tickets[t].nextNonce \in Nat
      BY <1>0, <1>3 DEF Extends, TypeOK, Ticket
    <2> QED
      BY <1>0, <1>1, <2>1, <2>2 DEF LateInv, LateIsLast, Late
  <1>11. Late(t)' = IsRevoked(t)
    <2>1. Len(accepted'[t]) = n + 1 /\ \A i \in 1..n : ~accepted'[t][i].late
      BY <1>3, <1>10 DEF Extends, Late
    <2>2. accepted'[t][n + 1].late <=> Revoked(tickets[t])
      BY <1>3 DEF Extends
    <2>3. Late(t)' <=> IsRevoked(t)
      BY <2>1, <2>2 DEF Late, IsRevoked
    <2> QED
      BY <2>3, Zenon DEF Late, IsRevoked, Revoked
  <1>12. Overruled(t)' = FALSE
    <2>1. Len(accepted'[t]) = n + 1 /\ overridden' = overridden
      BY <1>3 DEF Extends, Accept
    <2>2. overridden[t] \subseteq 0..n
      BY <1>3 DEF AdmissionInv, OverridesPast
    <2>3. ~Overruled(t)'
      BY <2>1, <2>2 DEF Overruled
    <2> QED
      BY <2>3
  <1>13. Gate!Pass(t, in)
    BY <1>4, <1>5, <1>6, <1>7, <1>8, <1>9, <1>10, <1>11, <1>12, Passes
  <1> QED
    BY <1>13

(* A revocation, by staff or by the share guard. *)
LEMMA RowRevoked ==
    ASSUME TypeOK, NEW t \in Tickets, NEW by \in {"staff", "shareGuard"}, tickets[t].live,
           tickets' = [tickets EXCEPT ![t] = RevokedRow(@, by)], MarkOverridden(t),
           accepted' = accepted
    PROVE  Gate!Revoke(t)
  <1>1. Only(t)
    <2>1. \A u \in Tickets \ {t} : SameFields(u) /\ SameHistory(u)
      BY DEF MarkOverridden, SameFields, SameHistory, TypeOK
    <2> QED
      BY <2>1, Unseen DEF Only
  <1>2. /\ tickets'[t].live = tickets[t].live /\ tickets'[t].revokedBy # Nobody
        /\ tickets'[t].state = "OUTSIDE" /\ tickets'[t].checkedIn = tickets[t].checkedIn
        /\ tickets'[t].lastNonce = tickets[t].lastNonce
    BY DEF RevokedRow, TypeOK, Ticket, Nobody
  <1>3. Live(t) /\ Live(t)' = Live(t) /\ CheckedIn(t)' = CheckedIn(t) /\ Passed(t)' = Passed(t)
    BY <1>2, Zenon DEF Live, CheckedIn, Passed
  <1>4. IsRevoked(t)' = TRUE /\ Inside(t)' = FALSE
    BY <1>2 DEF IsRevoked, Revoked, Inside
  <1>5. Late(t)' = Late(t)
    BY Zenon DEF Late
  <1>6. Overruled(t)' = TRUE
    BY MarkEffect DEF Overruled
  <1> QED
    BY <1>1, <1>3, <1>4, <1>5, <1>6, Revokes

LEMMA PresenceSet ==
    ASSUME AdmissionInv, NEW p \in Staff, UpdatePresence(p)
    PROVE  \E t \in Tickets : \E in \in BOOLEAN : Gate!SetPresence(t, in)
  <1>0. TypeOK /\ CheckInInv
    BY DEF AdmissionInv
  <1>1. staff[p] \in StaffTask /\ InProgress(p)
    BY <1>0 DEF UpdatePresence, AtTransaction, InProgress, TypeOK
  <1>2. PICK t \in Tickets : t = staff[p].ticket
    BY <1>1 DEF StaffTask
  <1>3. PICK in \in BOOLEAN : in = (staff[p].state = "INSIDE")
    OBVIOUS
  <1>4. MarkOverridden(t) /\ accepted' = accepted
    BY <1>2 DEF UpdatePresence, AtTransaction
  <1>5. Only(t)
    <2>1. \A u \in Tickets \ {t} : SameFields(u) /\ SameHistory(u)
      BY <1>0, <1>2, <1>4 DEF UpdatePresence, MarkOverridden, SameFields, SameHistory, TypeOK
    <2> QED
      BY <2>1, Unseen DEF Only
  <1> DEFINE row  == tickets[t]
             seen == row.checkedIn \/ FirstCheckIn(staff[p])
  <1>6. tickets'[t] = [row EXCEPT !.state = staff[p].state, !.checkedIn = seen]
    BY <1>0, <1>2 DEF UpdatePresence, TypeOK
  <1>7. row \in Ticket
    BY <1>0 DEF TypeOK
  <1>8. seen <=> row.checkedIn \/ in
    <2>1. staff[p].wasCheckedIn => row.checkedIn
      BY <1>0, <1>1, <1>2 DEF CheckInInv, StaffSawCheckIn
    <2> QED
      BY <1>3, <2>1 DEF FirstCheckIn
  <1> HIDE DEF seen
  <1>9. /\ tickets'[t].live = row.live /\ tickets'[t].revokedBy = row.revokedBy
        /\ tickets'[t].state = staff[p].state /\ tickets'[t].lastNonce = row.lastNonce
        /\ tickets'[t].checkedIn = seen
    BY <1>6, <1>7 DEF Ticket
  <1>10. Live(t) /\ Live(t)' = Live(t) /\ Passed(t)' = Passed(t)
    BY <1>2, <1>9 DEF UpdatePresence, AtTransaction, Live, Passed
  <1>11. IsRevoked(t)' = IsRevoked(t)
    BY <1>9, Zenon DEF IsRevoked, Revoked
  <1>12. Inside(t)' = in
    BY <1>3, <1>9, Zenon DEF Inside
  <1>13. CheckedIn(t)' = (CheckedIn(t) \/ in)
    BY <1>8, <1>9, Zenon DEF CheckedIn, seen
  <1>14. Late(t)' = Late(t)
    BY <1>4, Zenon DEF Late
  <1>15. Overruled(t)' = TRUE
    BY <1>0, <1>4, MarkEffect DEF Overruled
  <1>16. Gate!SetPresence(t, in)
    BY <1>5, <1>10, <1>11, <1>12, <1>13, <1>14, <1>15, SetsPresence
  <1> QED
    BY <1>16

LEMMA RowDeleted ==
    ASSUME TypeOK, NEW p \in Staff, Delete(p)
    PROVE  \E t \in Tickets : Gate!Delete(t)
  <1>1. PICK t \in Tickets : t = staff[p].ticket
    BY DEF Delete, AtTransaction, InProgress, TypeOK, StaffTask
  <1>2. \A u \in Tickets : SameHistory(u)
    BY DEF Delete, AtTransaction, SameHistory
  <1>3. Only(t)
    <2>1. \A u \in Tickets \ {t} : SameFields(u)
      BY <1>1 DEF Delete, SameFields, TypeOK
    <2> QED
      BY <1>2, <2>1, Unseen DEF Only
  <1>4. /\ tickets[t].live /\ tickets'[t].live = FALSE
        /\ tickets'[t].revokedBy = tickets[t].revokedBy /\ tickets'[t].state = tickets[t].state
        /\ tickets'[t].checkedIn = tickets[t].checkedIn
        /\ tickets'[t].lastNonce = tickets[t].lastNonce
    BY <1>1 DEF Delete, AtTransaction, TypeOK, Ticket
  <1>5. /\ Live(t) /\ Live(t)' = FALSE
        /\ CheckedIn(t)' = CheckedIn(t) /\ Passed(t)' = Passed(t)
    BY <1>4, Zenon DEF Live, CheckedIn, Passed
  <1>6. IsRevoked(t)' = IsRevoked(t) /\ Inside(t)' = Inside(t)
    BY <1>4, Zenon DEF IsRevoked, Revoked, Inside
  <1>7. Late(t)' = Late(t) /\ Overruled(t)' = Overruled(t)
    BY <1>2, Zenon DEF SameHistory, Late, Overruled
  <1> QED
    BY <1>3, <1>5, <1>6, <1>7, Deletes

LEMMA AdmissionStep == AdmissionInv /\ [Next]_vars => [Gate!Next]_(Gate!vars)
  <1> SUFFICES ASSUME AdmissionInv, [Next]_vars
               PROVE  Gate!Next \/ UNCHANGED Gate!vars
    OBVIOUS
  <1>0. TypeOK
    BY DEF AdmissionInv
  <1>1. CASE \A t \in Tickets : SameFields(t) /\ SameHistory(t)
    BY <1>1, Unseen, Stutters
  <1>2. ASSUME NEW s \in Scanners, Accept(s) PROVE Gate!Next
    BY <1>2, AcceptPasses DEF Gate!Next
  <1>3. ASSUME NEW s \in Scanners, AutoRevoke(s) PROVE Gate!Next
    <2>1. PICK t \in Tickets : t = scan[s].ticket
      BY <1>0, <1>3 DEF AutoRevoke, TypeOK, Scan
    <2>2. Gate!Revoke(t)
      BY <1>0, <1>3, <2>1, RowRevoked DEF AutoRevoke
    <2> QED
      BY <2>2 DEF Gate!Next
  <1>4. ASSUME NEW p \in Staff, StaffStep(p)
        PROVE  Gate!Next \/ UNCHANGED Gate!vars
    <2>1. CASE StaffRead(p) \/ StaffAbandon(p)
      BY <1>1, <2>1 DEF StaffRead, StaffAbandon, store, history, SameFields, SameHistory
    <2>2. CASE ResetDeviceBinding(p)
      BY <1>0, <1>1, <2>2 DEF ResetDeviceBinding, AtTransaction, SameFields, SameHistory,
         TypeOK, Ticket
    <2>3. CASE Revoke(p)
      <3>1. PICK t \in Tickets : t = staff[p].ticket
        BY <1>0, <2>3 DEF Revoke, AtTransaction, InProgress, TypeOK, StaffTask
      <3>2. Gate!Revoke(t)
        BY <1>0, <2>3, <3>1, RowRevoked DEF Revoke, AtTransaction
      <3> QED
        BY <3>2 DEF Gate!Next
    <2>4. CASE UpdatePresence(p)
      BY <2>4, PresenceSet DEF Gate!Next
    <2>5. CASE Delete(p)
      BY <1>0, <2>5, RowDeleted DEF Gate!Next
    <2> QED
      BY <1>4, <2>1, <2>2, <2>3, <2>4, <2>5 DEF StaffStep
  <1>5. ASSUME NEW t \in Tickets, NEW d \in Devices, ActivateDevice(t, d)
        PROVE  UNCHANGED Gate!vars
    <2>1. \A u \in Tickets : SameFields(u) /\ SameHistory(u)
      BY <1>0, <1>5 DEF ActivateDevice, history, SameFields, SameHistory, TypeOK, Ticket
    <2> QED
      BY <2>1, Unseen, Stutters
  <1>6. UNCHANGED Rows => \A t \in Tickets : SameFields(t) /\ SameHistory(t)
    BY DEF Rows, SameFields, SameHistory
  <1> QED
    BY <1>0, <1>1, <1>2, <1>3, <1>4, <1>5, <1>6, RowWriters

LEMMA InitAdmission == Init => Gate!Init
  <1> SUFFICES ASSUME Init PROVE Gate!Init
    OBVIOUS
  <1>1. \A t \in Tickets : accepted[t] = <<>> /\ overridden[t] = {} /\ tickets[t] = NewTicket
    BY DEF Init
  <1>2. ASSUME NEW t \in Tickets
        PROVE  /\ Live(t) = TRUE /\ CheckedIn(t) = FALSE /\ Passed(t) = 0
               /\ ~IsRevoked(t) /\ ~Inside(t) /\ ~Late(t) /\ ~Overruled(t)
    <2>1. NewTicket.live = TRUE /\ NewTicket.checkedIn = FALSE /\ NewTicket.lastNonce = 0
      BY DEF NewTicket
    <2>2. ~Revoked(NewTicket) /\ NewTicket.state # "INSIDE"
      BY DEF NewTicket, Revoked
    <2>3. ~Late(t) /\ ~Overruled(t)
      BY <1>1, EmptySeq DEF Late, Overruled
    <2>4. ~IsRevoked(t) /\ ~Inside(t)
      BY <1>1, <2>2 DEF IsRevoked, Inside
    <2>5. Live(t) = TRUE /\ CheckedIn(t) = FALSE /\ Passed(t) = 0
      BY <1>1, <2>1 DEF Live, CheckedIn, Passed
    <2> QED
      BY <2>3, <2>4, <2>5
  <1>3. [t \in Tickets |-> Live(t)] = [t \in Tickets |-> TRUE]
    BY <1>2, Zenon
  <1>4. [t \in Tickets |-> IsRevoked(t)] = [t \in Tickets |-> FALSE]
    BY <1>2, Zenon DEF IsRevoked, Revoked
  <1>5. [t \in Tickets |-> Inside(t)] = [t \in Tickets |-> FALSE]
    BY <1>2, Zenon DEF Inside
  <1>6. [t \in Tickets |-> CheckedIn(t)] = [t \in Tickets |-> FALSE]
    BY <1>2, Zenon
  <1>7. [t \in Tickets |-> Passed(t)] = [t \in Tickets |-> 0]
    BY <1>2, Zenon
  <1>8. [t \in Tickets |-> Late(t)] = [t \in Tickets |-> FALSE]
    BY <1>2, Zenon DEF Late
  <1>9. [t \in Tickets |-> Overruled(t)] = [t \in Tickets |-> FALSE]
    <2>1. ASSUME NEW t \in Tickets PROVE Overruled(t) = FALSE
      <3>1. ~Overruled(t)
        BY <1>2
      <3> QED
        BY <3>1 DEF Overruled
    <2> QED
      BY <2>1, Zenon
  <1> QED
    BY <1>3, <1>4, <1>5, <1>6, <1>7, <1>8, <1>9, Zenon
    DEF Gate!Init, Live, IsRevoked, Inside, CheckedIn, Passed, Late, Overruled

(* Whatever requests, snapshots, tokens and replay keys are in between,     *)
(* each committed change of a ticket is a step of Admission                 *)
(* (ImplementsAdmission).                                                   *)
THEOREM GateAdmits == Spec => ImplementsAdmission
  <1>1. Init => OverridesPast
    BY DEF Init, OverridesPast
  <1>2. TypeOK /\ AcceptedOnceInOrder /\ LateInv /\ CheckInInv /\ TurnInv /\ OverridesPast
          => AdmissionInv
    BY DEF AdmissionInv
  <1> QED
    BY <1>1, <1>2, AdmissionStep, PastStep, InitAdmission, TypeCorrect, AcceptedOnce, LateHolds, CheckInHolds,
       TurnHolds, PTL
    DEF Spec, ImplementsAdmission, Gate!Spec

-------------------------------------------------------------------------------
(* Overrides that a revocation overtakes. *)

(* The tasks of staff change one at a time: taken up by a read, given up    *)
(* in a transaction.                                                        *)
LEMMA StaffFrame ==
    ASSUME TypeOK, [Next]_vars, NEW p \in Staff, staff'[p] # staff[p]
    PROVE  StaffStep(p) /\ (staff'[p] \in {NoTask, Done} \/ StaffRead(p))
  <1>1. ASSUME NEW s \in Scanners, ScanStep(s) PROVE staff' = staff
    BY <1>1, ScanFrame
  <1>2. ASSUME NEW q \in Staff, StaffStep(q), q # p PROVE staff'[p] = staff[p]
    BY <1>2 DEF StaffStep, StaffRead, Revoke, UpdatePresence, ResetDeviceBinding, Delete,
                StaffAbandon, AtTransaction, TypeOK
  <1>3. StaffStep(p)
    BY <1>1, <1>2 DEF Next, vars, GenerateToken, BlockExpires, ActivateDevice, ReplayKeyExpires
  <1>4. staff'[p] \in {NoTask, Done} \/ StaffRead(p)
    BY <1>3 DEF StaffStep, Revoke, UpdatePresence, ResetDeviceBinding, Delete, StaffAbandon,
                AtTransaction, TypeOK
  <1> QED
    BY <1>3, <1>4

LEMMA OverrideStep ==
    ASSUME TypeOK, [Next]_vars, NEW t \in Tickets, Revoked(tickets[t])
    PROVE  /\ Overriding(t)' \subseteq Overriding(t)
           /\ \/ tickets'[t].state = "OUTSIDE"
              \/ tickets'[t].state = tickets[t].state
              \/ accepted'[t] # accepted[t]
              \/ Overriding(t)' # Overriding(t)
  <1>1. ASSUME NEW p \in Staff, p \in Overriding(t)' PROVE p \in Overriding(t)
    <2>1. CASE staff'[p] = staff[p]
      BY <1>1, <2>1 DEF Overriding, InProgress
    <2>2. CASE staff'[p] # staff[p]
      <3>1. StaffRead(p)
        BY <1>1, <2>2, StaffFrame DEF Overriding, InProgress
      <3>2. staff'[p].op = "updatePresence" /\ staff'[p].ticket = t
        BY <1>1 DEF Overriding
      <3>3. \E op \in Operations, u \in Tickets, state \in Presence :
              /\ Proceeds(op, tickets[u], state)
              /\ staff'[p] = [op |-> op, ticket |-> u, state |-> state,
                              wasCheckedIn |-> op = "updatePresence" /\ tickets[u].checkedIn]
        BY <3>1 DEF StaffRead, TypeOK
      <3>4. \E state \in Presence : Proceeds("updatePresence", tickets[t], state)
        BY <3>2, <3>3
      <3> QED
        BY <3>4 DEF Proceeds
    <2> QED
      BY <2>1, <2>2
  <1>2. ASSUME tickets'[t].state # "OUTSIDE", tickets'[t].state # tickets[t].state,
               accepted'[t] = accepted[t]
        PROVE  Overriding(t)' # Overriding(t)
    <2>1. ~UNCHANGED Rows
      BY <1>2 DEF Rows
    <2>2. \A s \in Scanners : ~Accept(s)
      <3> SUFFICES ASSUME NEW s \in Scanners, Accept(s) PROVE FALSE
        OBVIOUS
      <3>1. Extends(s, scan[s].ticket, Len(accepted[scan[s].ticket]))
        BY AcceptEffect
      <3> QED
        BY <1>2, <3>1 DEF Extends
    <2>0. tickets \in [Tickets -> Ticket] /\ tickets[t] \in Ticket
      BY DEF TypeOK
    <2>3. ASSUME NEW s \in Scanners, AutoRevoke(s) PROVE FALSE
      <3>1. tickets'[t] \in {tickets[t], RevokedRow(tickets[t], "shareGuard")}
        BY <2>0, <2>3 DEF AutoRevoke
      <3> QED
        BY <1>2, <2>0, <3>1 DEF RevokedRow, Ticket
    <2>4. ASSUME NEW u \in Tickets, NEW d \in Devices, ActivateDevice(u, d) PROVE FALSE
      <3>1. \E e \in Devices \cup {NoDevice} :
              tickets'[t] \in {tickets[t], [tickets[t] EXCEPT !.device = e]}
        BY <2>0, <2>4 DEF ActivateDevice
      <3> QED
        BY <1>2, <2>0, <3>1 DEF Ticket
    <2>5. PICK p \in Staff : StaffStep(p)
      BY <2>1, <2>2, <2>3, <2>4, RowWriters
    <2>6. UpdatePresence(p) /\ staff[p].ticket = t
      <3>1. ASSUME Revoke(p) PROVE FALSE
        <4>1. tickets'[t] \in {tickets[t], RevokedRow(tickets[t], "staff")}
          BY <2>0, <3>1 DEF Revoke
        <4> QED
          BY <1>2, <2>0, <4>1 DEF RevokedRow, Ticket
      <3>2. ~StaffRead(p) /\ ~StaffAbandon(p)
        BY <1>2 DEF StaffRead, StaffAbandon, store
      <3>3. ASSUME ResetDeviceBinding(p) \/ Delete(p) PROVE FALSE
        <4>1. tickets'[t] \in {tickets[t], [tickets[t] EXCEPT !.device = NoDevice],
                               [tickets[t] EXCEPT !.live = FALSE]}
          BY <2>0, <3>3 DEF ResetDeviceBinding, Delete, AtTransaction
        <4> QED
          BY <1>2, <2>0, <4>1 DEF Ticket
      <3>4. UpdatePresence(p)
        BY <2>5, <3>1, <3>2, <3>3 DEF StaffStep
      <3> QED
        BY <1>2, <3>4 DEF UpdatePresence, TypeOK, Ticket
    <2>7. p \in Overriding(t) /\ p \notin Overriding(t)'
      BY <2>6 DEF UpdatePresence, AtTransaction, Overriding, InProgress, TypeOK
    <2> QED
      BY <2>7
  <1>3. Overriding(t)' \subseteq Staff
    BY DEF Overriding
  <1> QED
    BY <1>1, <1>2, <1>3

(* No override of a revoked ticket is taken up, and each of those that were *)
(* in flight at the revocation moves the guest inside at most once, for any *)
(* number of staff members (LateOverridesRunOut).                           *)
THEOREM OverridesRunOut == Spec => LateOverridesRunOut
  <1>1. TypeOK /\ [Next]_vars
          => [\A t \in Tickets : Revoked(tickets[t]) =>
                /\ Overriding(t)' \subseteq Overriding(t)
                /\ \/ tickets'[t].state = "OUTSIDE"
                   \/ tickets'[t].state = tickets[t].state
                   \/ accepted'[t] # accepted[t]
                   \/ Overriding(t)' # Overriding(t)]_vars
    BY OverrideStep
  <1> QED
    BY <1>1, TypeCorrect, PTL DEF Spec, LateOverridesRunOut

===============================================================================
