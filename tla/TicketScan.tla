------------------------------ MODULE TicketScan ------------------------------
(***************************************************************************)
(* Admission of a guest at the gate: ScanService.scan, VerifyService and   *)
(* ShareGuardService, interleaved with the other writers of a ticket row   *)
(* (revoke, updatePresence, resetDeviceBinding, delete, activateDevice).   *)
(*                                                                         *)
(* A scan runs in one database transaction, but its share-guard accesses   *)
(* use another connection (autocommit) and its replay key lives in Valkey: *)
(* both outlive a rollback.  One action per access to a shared store.  The *)
(* compare-and-set on the nonce holds the row lock until the transaction   *)
(* commits and nothing visible happens in between, so the compare-and-set, *)
(* the permission check, the log row, the outbox rows and the commit are   *)
(* one action; the rollback of that transaction is Abandon.                *)
(***************************************************************************)
EXTENDS Naturals, Sequences, FiniteSets

CONSTANTS
    Tickets,      \* ticket ids
    Devices,      \* guests' devices, each with its key (DeviceBinding tells them apart)
    NoDevice,     \* deviceId and devicePublicKey are NULL
    Scanners,     \* concurrent scan requests
    Staff,        \* staff mutations, each committed once (a bound on their number)
    NoTask,       \* an idle scanner, a mutation not asked for
    Done,         \* a mutation that has committed
    MaxNonce,     \* bound: nonces for which tokens are issued
    MaxFailures   \* bound: risky scans per ticket

ASSUME NoDeviceAssumption == NoDevice \notin Devices
ASSUME ScannersAssumption == IsFiniteSet(Scanners)
ASSUME BoundsAssumption   == MaxNonce \in Nat /\ MaxFailures \in Nat

VARIABLES
    tickets,      \* the Ticket rows
    guards,       \* the ShareGuard rows
    replayKeys,   \* Valkey: the <<ticket, nonce>> pairs whose replay key is set
    tokens,       \* the <<ticket, nonce>> pairs of the signed QR tokens handed out
    pc,           \* where each scan request stands
    scan,         \* the local state of each scan request
    staff,        \* the local state of each staff mutation
    accepted,     \* OK rows of the scan log that carry a nonce, in commit order
    overridden,   \* history: how many scans were accepted when another writer set the presence
    failures,     \* history: risky scans so far
    cleared       \* history: <<ticket, nonce>> pairs of scans that passed every check

store   == <<tickets, guards, replayKeys>>
history == <<accepted, overridden, failures, cleared>>
vars    == <<store, tokens, pc, scan, staff, history>>

-------------------------------------------------------------------------------
(* Rows, requests and verdicts. *)

Presence   == {"INSIDE", "OUTSIDE"}
Directions == {"ENTRY", "EXIT"}
Nobody     == "nobody"

Ticket == [live      : BOOLEAN,                       \* the row exists
           revokedBy : {Nobody, "staff", "shareGuard"},
           state     : Presence,                      \* currentState
           checkedIn : BOOLEAN,                       \* checkedInAt is not NULL
           lastNonce : Nat,                           \* 0 stands for NULL
           nextNonce : Nat,
           device    : Devices \cup {NoDevice}]

NewTicket == [live |-> TRUE, revokedBy |-> Nobody, state |-> "OUTSIDE", checkedIn |-> FALSE,
              lastNonce |-> 0, nextNonce |-> 1, device |-> NoDevice]

ShareGuard == [exists : BOOLEAN, failCount : Nat, blocked : BOOLEAN]
NoGuard    == [exists |-> FALSE, failCount |-> 0, blocked |-> FALSE]

Revoked(row) == row.revokedBy # Nobody

Stages == {"idle", "isBlocked", "replayKey", "resetFind", "resetUpdate",
           "guardUpsert", "guardWrite", "commit", "answer"}

Risky  == {"invalidSignature", "deviceMismatch", "replay", "invalidNonce"}
Policy == {"alreadyThere", "eventEnded"}
Causes == Risky \cup Policy
          \cup {"none", "revoked", "blocked", "noKey", "nonceRace"}

(* What a scan keeps of its request and of the row it read. *)
Scan == [ticket : Tickets, nonce : Nat, direction : Directions,
         cause        : Causes,     \* why it is rejected, "none" as long as it is not
         wasCheckedIn : BOOLEAN,    \* ticket.checkedInAt as read
         failCount    : Nat]        \* local of applyDecision

Operations == {"revoke", "updatePresence", "resetDeviceBinding", "delete"}
StaffTask  == [op : Operations, ticket : Tickets, state : Presence, wasCheckedIn : BOOLEAN]

intendedState(direction) == IF direction = "ENTRY" THEN "INSIDE" ELSE "OUTSIDE"

(* The verdict stored and answered for a rejected scan. *)
Verdict(r) ==
    CASE r.cause = "revoked"                                           -> "REVOKED"
      [] r.cause = "blocked"                                           -> "BLOCKED"
      [] r.cause \in {"noKey", "invalidSignature", "deviceMismatch"}   -> "DEVICE_MISMATCH"
      [] r.cause \in {"replay", "nonceRace"}                           -> "REPLAY"
      [] r.cause = "invalidNonce"                                      -> "INVALID_NONCE"
      [] r.cause = "eventEnded"                                        -> "EXPIRED_EVENT"
      [] r.cause = "alreadyThere" -> IF r.direction = "ENTRY" THEN "ALREADY_INSIDE" ELSE "NOT_INSIDE"
      [] OTHER                                                         -> "UNKNOWN"

NonceCheck(row, nonce) ==
    IF nonce <= row.lastNonce     THEN "replay"
    ELSE IF nonce # row.nextNonce THEN "invalidNonce"
    ELSE "none"

NoPolicyCheck(row, direction) == "none"
PolicyCheck(row, direction) ==
    IF row.state = intendedState(direction) THEN "alreadyThere" ELSE "none"

(* The checks of verifyToken on the row it read, in the code's order, for  *)
(* a token signed with the key of one device and sent with a device id.    *)
CheckUnrevoked(row, nonce, signer, device, direction) ==
    IF row.device = NoDevice                   THEN "noKey"
    ELSE IF signer # row.device                THEN "invalidSignature"
    ELSE IF device # row.device                THEN "deviceMismatch"
    ELSE IF NonceCheck(row, nonce) # "none"    THEN NonceCheck(row, nonce)
    ELSE PolicyCheck(row, direction)

(* isBlocked follows the first of them but reads no more of the row. *)
Check(row, nonce, signer, device, direction) ==
    IF Revoked(row) THEN "revoked"
    ELSE CheckUnrevoked(row, nonce, signer, device, direction)

-------------------------------------------------------------------------------
(* Share guard: risk scores and the decision applied to a failure. *)

BaseThreshold   == 3
RevokeThreshold == 10

calculateRisk(cause) ==
    CASE cause = "invalidSignature" -> 5
      [] cause = "deviceMismatch"   -> 4
      [] cause = "replay"           -> 3
      [] OTHER                      -> 2

ShouldBlock(cause)  == calculateRisk(cause) >= BaseThreshold
ShouldRevoke(cause) == calculateRisk(cause) >= RevokeThreshold

RevokedRowToggled(row, by) ==
    [row EXCEPT !.revokedBy = IF Revoked(row) THEN Nobody ELSE by, !.state = "OUTSIDE"]
RevokedRowInside(row, by) == [row EXCEPT !.revokedBy = by]
RevokedRow(row, by) == [row EXCEPT !.revokedBy = by, !.state = "OUTSIDE"]

(* Another writer than an accepted scan sets the presence of t. *)
MarkOverridden(t) ==
    overridden' = [overridden EXCEPT ![t] = @ \cup {Len(accepted[t])}]

-------------------------------------------------------------------------------
Init ==
    /\ tickets    = [t \in Tickets |-> NewTicket]
    /\ guards     = [t \in Tickets |-> NoGuard]
    /\ replayKeys = {}
    /\ tokens     = {}
    /\ pc         = [s \in Scanners |-> "idle"]
    /\ scan       = [s \in Scanners |-> NoTask]
    /\ staff      = [p \in Staff |-> NoTask]
    /\ accepted   = [t \in Tickets |-> <<>>]
    /\ overridden = [t \in Tickets |-> {}]
    /\ failures   = [t \in Tickets |-> 0]
    /\ cleared    = {}

-------------------------------------------------------------------------------
(* The guest. *)

TokenNonceRotated(t) == tickets[t].nextNonce + 1
TokenNonce(t)        == tickets[t].nextNonce

(* generateToken: the token carries the next nonce, which is left as it is. *)
(* Tokens never expire here; in the code, 60 s after they were signed.      *)
GenerateToken(t) ==
    /\ tickets[t].live
    /\ tickets[t].nextNonce <= MaxNonce
    /\ tokens' = tokens \cup {<<t, TokenNonce(t)>>}
    /\ UNCHANGED <<store, pc, scan, staff, history>>

(* activateDevice: binds the device and unbinds it from every other ticket *)
(* of the event that has it (all of Tickets belong to one event; a guest   *)
(* has one ticket of it, so these are other guests' tickets).  Overlapping *)
(* activations are DeviceBinding's subject: to a scan, a binding that one  *)
(* of them replaces looks like a reset followed by an activation.          *)
ActivateDevice(t, d) ==
    /\ tickets[t].live
    /\ tickets[t].device \in {NoDevice, d}
    /\ tickets' = [u \in Tickets |->
                     IF u = t THEN [tickets[u] EXCEPT !.device = d]
                     ELSE IF tickets[u].device = d THEN [tickets[u] EXCEPT !.device = NoDevice]
                     ELSE tickets[u]]
    /\ UNCHANGED <<guards, replayKeys, tokens, pc, scan, staff, history>>

-------------------------------------------------------------------------------
(* A scan request. *)

Goto(s, stage) == pc' = [pc EXCEPT ![s] = stage]

RejectForgotten(s, cause) ==
    /\ Goto(s, "answer")
    /\ scan' = [scan EXCEPT ![s] = NoTask]

Reject(s, cause) ==
    /\ Goto(s, "answer")
    /\ scan' = [scan EXCEPT ![s] = [@ EXCEPT !.cause = cause, !.failCount = 0]]

(* A risky rejection goes through applyDecision before it is answered. *)
Suspect(s, cause) ==
    /\ failures[scan[s].ticket] < MaxFailures
    /\ Goto(s, "guardUpsert")
    /\ scan' = [scan EXCEPT ![s] = [@ EXCEPT !.cause = cause]]
    /\ failures' = [failures EXCEPT ![scan[s].ticket] = @ + 1]
    /\ UNCHANGED <<store, tokens, staff, accepted, overridden, cleared>>

(* The transaction reads the ticket of the token. *)
ReadTicket(s) ==
    /\ pc[s] = "idle"
    /\ \E k \in tokens, signer, device \in Devices, direction \in Directions :
         LET row   == tickets[k[1]]
             cause == Check(row, k[2], signer, device, direction)
         IN  /\ row.live
             /\ scan' = [scan EXCEPT ![s] =
                  [ticket |-> k[1], nonce |-> k[2], direction |-> direction, cause |-> cause,
                   wasCheckedIn |-> row.checkedIn, failCount |-> 0]]
             /\ Goto(s, IF cause = "revoked" THEN "answer" ELSE "isBlocked")
    /\ UNCHANGED <<store, tokens, staff, history>>

(* isBlocked, and then the answer the checks on the row call for. *)
AnswerBlocked(s) ==
    /\ pc[s] = "isBlocked"
    /\ guards[scan[s].ticket].blocked
    /\ Reject(s, "blocked")
    /\ UNCHANGED <<store, tokens, staff, history>>

Unblocked(s) == pc[s] = "isBlocked" /\ ~guards[scan[s].ticket].blocked

RejectHarmlessLate(s) ==      \* the replay key is taken before the policy check
    /\ Unblocked(s)
    /\ scan[s].cause \in {"noKey", "alreadyThere"}
    /\ replayKeys' = replayKeys \cup {<<scan[s].ticket, scan[s].nonce>>}
    /\ Goto(s, "answer")
    /\ UNCHANGED <<tickets, guards, tokens, scan, staff, history>>

RejectHarmless(s) ==
    /\ Unblocked(s)
    /\ scan[s].cause \in {"noKey", "alreadyThere"}
    /\ Goto(s, "answer")
    /\ UNCHANGED <<store, tokens, scan, staff, history>>

RejectRisky(s) ==
    /\ Unblocked(s)
    /\ scan[s].cause \in Risky
    /\ Suspect(s, scan[s].cause)

(* The projected end of the event can be anything: it is set by messages.  *)
RejectEnded(s) ==
    /\ Unblocked(s)
    /\ scan[s].cause = "none"
    /\ scan[s].direction = "ENTRY"
    /\ Reject(s, "eventEnded")
    /\ UNCHANGED <<store, tokens, staff, history>>

PassChecks(s) ==
    /\ Unblocked(s)
    /\ scan[s].cause = "none"
    /\ Goto(s, "replayKey")
    /\ UNCHANGED <<store, tokens, scan, staff, history>>

(* Valkey SET NX EX. *)
AcquireReplayKey(s) ==
    /\ pc[s] = "replayKey"
    /\ <<scan[s].ticket, scan[s].nonce>> \notin replayKeys
    /\ replayKeys' = replayKeys \cup {<<scan[s].ticket, scan[s].nonce>>}
    /\ cleared' = cleared \cup {<<scan[s].ticket, scan[s].nonce>>}
    /\ Goto(s, "resetFind")
    /\ UNCHANGED <<tickets, guards, tokens, scan, staff, accepted, overridden, failures>>

ReplayKeyTaken(s) ==
    /\ pc[s] = "replayKey"
    /\ <<scan[s].ticket, scan[s].nonce>> \in replayKeys
    /\ Suspect(s, "replay")

(* resetShareGuard: find, then update. *)
ResetFind(s) ==
    /\ pc[s] = "resetFind"
    /\ Goto(s, IF guards[scan[s].ticket].exists THEN "resetUpdate" ELSE "commit")
    /\ UNCHANGED <<store, tokens, scan, staff, history>>

ResetUpdate(s) ==
    /\ pc[s] = "resetUpdate"
    /\ guards[scan[s].ticket].exists
    /\ guards' = [guards EXCEPT ![scan[s].ticket] = [@ EXCEPT !.failCount = 0, !.blocked = FALSE]]
    /\ Goto(s, "commit")
    /\ UNCHANGED <<tickets, replayKeys, tokens, scan, staff, history>>

AnyNonce(s)    == TRUE
NonceIsNext(s) == tickets[scan[s].ticket].nextNonce = scan[s].nonce

CheckInCleared(r) == r.direction = "ENTRY"
CheckedInAt(r)    == IF r.direction = "ENTRY" THEN TRUE ELSE r.wasCheckedIn

(* updateMany WHERE id AND nextNonce, permission granted, log row, commit. *)
Accept(s) ==
    LET r == scan[s]
        t == r.ticket
    IN  /\ pc[s] = "commit"
        /\ tickets[t].live
        /\ NonceIsNext(s)
        /\ tickets' = [tickets EXCEPT ![t] =
             [@ EXCEPT !.state     = intendedState(r.direction),
                       !.lastNonce = r.nonce,
                       !.nextNonce = r.nonce + 1,
                       !.checkedIn = CheckedInAt(r)]]
        /\ accepted' = [accepted EXCEPT ![t] =
             Append(@, [nonce |-> r.nonce, state |-> intendedState(r.direction),
                        late  |-> Revoked(tickets[t])])]
        /\ Goto(s, "idle")
        /\ scan' = [scan EXCEPT ![s] = NoTask]
        /\ UNCHANGED <<guards, replayKeys, tokens, staff, overridden, failures, cleared>>

LoseNonceRace(s) ==
    /\ pc[s] = "commit"
    /\ tickets[scan[s].ticket].live
    /\ ~NonceIsNext(s)
    /\ Reject(s, "nonceRace")
    /\ UNCHANGED <<store, tokens, staff, history>>

(* applyDecision: upsert (a foreign key to the ticket), then one update    *)
(* computed from the counter read before.                                  *)
GuardUpsert(s) ==
    LET t == scan[s].ticket
    IN  /\ pc[s] = "guardUpsert"
        /\ tickets[t].live
        /\ guards' = [guards EXCEPT ![t] = [@ EXCEPT !.exists = TRUE]]
        /\ scan' = [scan EXCEPT ![s] = [@ EXCEPT !.failCount = guards[t].failCount + 1]]
        /\ Goto(s, "guardWrite")
        /\ UNCHANGED <<tickets, replayKeys, tokens, staff, history>>

RevokesEarly(r)      == ShouldRevoke(r.cause) \/ r.failCount + 1 >= RevokeThreshold
ReachesRevocation(r) == ShouldRevoke(r.cause) \/ r.failCount >= RevokeThreshold
ReachesBlock(r)      == ShouldBlock(r.cause)  \/ r.failCount >= BaseThreshold

AutoRevoke(s) ==
    LET t == scan[s].ticket
    IN  /\ pc[s] = "guardWrite"
        /\ tickets[t].live
        /\ ReachesRevocation(scan[s])
        /\ tickets' = [tickets EXCEPT ![t] = RevokedRow(@, "shareGuard")]
        /\ MarkOverridden(t)
        /\ Reject(s, scan[s].cause)
        /\ UNCHANGED <<guards, replayKeys, tokens, staff, accepted, failures, cleared>>

RecordFailure(s) ==
    LET r == scan[s]
    IN  /\ pc[s] = "guardWrite"
        /\ ~ReachesRevocation(r)
        /\ guards[r.ticket].exists
        /\ guards' = [guards EXCEPT ![r.ticket] =
             [@ EXCEPT !.failCount = r.failCount, !.blocked = @ \/ ReachesBlock(r)]]
        /\ Reject(s, r.cause)
        /\ UNCHANGED <<tickets, replayKeys, tokens, staff, history>>

(* The rejection is logged, committed and answered.  Its log row has no    *)
(* reader in the service and is not kept.                                  *)
Answer(s) ==
    /\ pc[s] = "answer"
    /\ Goto(s, "idle")
    /\ scan' = [scan EXCEPT ![s] = NoTask]
    /\ UNCHANGED <<store, tokens, staff, history>>

(* The transaction rolls back: the actor turns out to lack the ScanTickets *)
(* permission (checked after verifyToken), a statement fails, the outbox   *)
(* has no tenant, or the instance stops.  Guards and replay keys stay.     *)
Abandon(s) ==
    /\ pc[s] # "idle"
    /\ Goto(s, "idle")
    /\ scan' = [scan EXCEPT ![s] = NoTask]
    /\ UNCHANGED <<store, tokens, staff, history>>

-------------------------------------------------------------------------------
(* Staff mutations: a read and its checks, then one transaction.  An early *)
(* return leaves everything as it is, so only the reads that go on appear. *)

ProceedsRevoked(op, row, state) ==      \* overrides of revoked tickets are let through
    CASE op = "revoke"             -> ~Revoked(row)
      [] op = "updatePresence"     -> row.state # state
      [] op = "resetDeviceBinding" -> row.device # NoDevice
      [] op = "delete"             -> TRUE

Proceeds(op, row, state) ==
    CASE op = "revoke"             -> ~Revoked(row)
      [] op = "updatePresence"     -> ~Revoked(row) /\ row.state # state
      [] op = "resetDeviceBinding" -> row.device # NoDevice
      [] op = "delete"             -> TRUE

StaffRead(p) ==
    /\ staff[p] = NoTask
    /\ \E op \in Operations, t \in Tickets, state \in Presence :
         /\ op # "updatePresence" => state = "OUTSIDE"    \* the field is unused
         /\ tickets[t].live
         /\ Proceeds(op, tickets[t], state)
         /\ staff' = [staff EXCEPT ![p] =
                        [op |-> op, ticket |-> t, state |-> state,
                         wasCheckedIn |-> op = "updatePresence" /\ tickets[t].checkedIn]]
    /\ UNCHANGED <<store, tokens, pc, scan, history>>

InProgress(p) == staff[p] \notin {NoTask, Done}

(* p is about to run the transaction of op; an update or delete of a row   *)
(* that is gone throws.                                                    *)
AtTransaction(p, op) ==
    /\ InProgress(p)
    /\ staff[p].op = op
    /\ tickets[staff[p].ticket].live
    /\ staff' = [staff EXCEPT ![p] = Done]
    /\ UNCHANGED <<replayKeys, tokens, pc, scan, accepted, failures, cleared>>

Revoke(p) ==
    LET t == staff[p].ticket
    IN  /\ AtTransaction(p, "revoke")
        /\ tickets' = [tickets EXCEPT ![t] = RevokedRow(@, "staff")]
        /\ MarkOverridden(t)
        /\ UNCHANGED guards

NoFirstCheckIn(r) == FALSE
FirstCheckIn(r)   == r.state = "INSIDE" /\ ~r.wasCheckedIn

UpdatePresence(p) ==
    LET r == staff[p]
    IN  /\ AtTransaction(p, "updatePresence")
        /\ tickets' = [tickets EXCEPT ![r.ticket] =
             [@ EXCEPT !.state     = r.state,
                       !.checkedIn = tickets[r.ticket].checkedIn \/ FirstCheckIn(r)]]
        /\ MarkOverridden(r.ticket)
        /\ UNCHANGED guards

ResetDeviceBinding(p) ==
    /\ AtTransaction(p, "resetDeviceBinding")
    /\ tickets' = [tickets EXCEPT ![staff[p].ticket] = [@ EXCEPT !.device = NoDevice]]
    /\ UNCHANGED <<guards, overridden>>

Delete(p) ==
    /\ AtTransaction(p, "delete")
    /\ tickets' = [tickets EXCEPT ![staff[p].ticket] = [@ EXCEPT !.live = FALSE]]
    /\ guards' = [guards EXCEPT ![staff[p].ticket] = NoGuard]
    /\ UNCHANGED overridden

StaffAbandon(p) ==
    /\ InProgress(p)
    /\ staff' = [staff EXCEPT ![p] = NoTask]
    /\ UNCHANGED <<store, tokens, pc, scan, history>>

-------------------------------------------------------------------------------
(* Time. *)

BlockExpires(t) ==
    /\ guards[t].blocked
    /\ guards' = [guards EXCEPT ![t] = [@ EXCEPT !.blocked = FALSE]]
    /\ UNCHANGED <<tickets, replayKeys, tokens, pc, scan, staff, history>>

(* The key's 120 s are over, or Valkey lost it. *)
ReplayKeyExpires(k) ==
    /\ replayKeys' = replayKeys \ {k}
    /\ UNCHANGED <<tickets, guards, tokens, pc, scan, staff, history>>

-------------------------------------------------------------------------------
ScanStep(s) ==
    \/ ReadTicket(s)       \/ AnswerBlocked(s)   \/ RejectHarmless(s)
    \/ RejectRisky(s)      \/ RejectEnded(s)     \/ PassChecks(s)
    \/ AcquireReplayKey(s) \/ ReplayKeyTaken(s)  \/ ResetFind(s)
    \/ ResetUpdate(s)      \/ Accept(s)          \/ LoseNonceRace(s)
    \/ GuardUpsert(s)      \/ AutoRevoke(s)      \/ RecordFailure(s)
    \/ Answer(s)           \/ Abandon(s)

StaffStep(p) ==
    \/ StaffRead(p)  \/ Revoke(p)  \/ UpdatePresence(p)
    \/ ResetDeviceBinding(p)  \/ Delete(p)  \/ StaffAbandon(p)

Next ==
    \/ \E t \in Tickets : GenerateToken(t) \/ BlockExpires(t)
    \/ \E t \in Tickets, d \in Devices : ActivateDevice(t, d)
    \/ \E k \in replayKeys : ReplayKeyExpires(k)
    \/ \E s \in Scanners : ScanStep(s)
    \/ \E p \in Staff : StaffStep(p)

Spec == Init /\ [][Next]_vars

-------------------------------------------------------------------------------
(* Properties. *)

Entry == [nonce : Nat, state : Presence, late : BOOLEAN]

(* Every variable holds values of its type; a request has a local record   *)
(* exactly while it is in progress.                                        *)
TypeOK ==
    /\ tickets    \in [Tickets -> Ticket]
    /\ guards     \in [Tickets -> ShareGuard]
    /\ replayKeys \subseteq Tickets \X Nat
    /\ tokens     \subseteq Tickets \X Nat
    /\ pc         \in [Scanners -> Stages]
    /\ scan       \in [Scanners -> Scan \cup {NoTask}]
    /\ staff      \in [Staff -> StaffTask \cup {NoTask, Done}]
    /\ accepted   \in [Tickets -> Seq(Entry)]
    /\ overridden \in [Tickets -> SUBSET Nat]
    /\ failures   \in [Tickets -> Nat]
    /\ cleared    \subseteq Tickets \X Nat
    /\ \A s \in Scanners : pc[s] # "idle" => scan[s] \in Scan

(* Nonce rotation: the scans accepted for a ticket carry the nonces 1, 2,  *)
(* ... in commit order, each exactly once, and the row stands right behind *)
(* the last of them, however scans of one token interleave and even when   *)
(* replay keys are lost (the compare-and-set of verifyToken).              *)
AcceptedOnceInOrder ==
    \A t \in Tickets :
        /\ tickets[t].lastNonce = Len(accepted[t])
        /\ tickets[t].nextNonce = Len(accepted[t]) + 1
        /\ \A i \in 1..Len(accepted[t]) : accepted[t][i].nonce = i

(* Revocation: at most one of the scans in flight when a ticket is revoked *)
(* is still accepted (verifyToken looks at revoked only when it reads the  *)
(* row, the compare-and-set does not look again).                          *)
AtMostOneLateAccept ==
    \A t \in Tickets : \A i, j \in 1..Len(accepted[t]) :
        accepted[t][i].late /\ accepted[t][j].late => i = j

(* Direction policy: consecutive accepted scans of a ticket alternate      *)
(* between entry and exit, starting with an entry, unless staff or the     *)
(* share guard set the presence in between.                                *)
EntriesAndExitsAlternate ==
    \A t \in Tickets : \A i \in 1..Len(accepted[t]) :
        LET before == IF i = 1 THEN "OUTSIDE" ELSE accepted[t][i - 1].state
        IN  accepted[t][i].state = before => i - 1 \in overridden[t]

(* checkedInAt: who is inside has been checked in, although an exit scan   *)
(* writes back the checkedInAt it read before and updatePresence decides   *)
(* from a row it read before.                                              *)
InsideWasCheckedIn ==
    \A t \in Tickets : tickets[t].state = "INSIDE" => tickets[t].checkedIn

(* A first check-in is never forgotten by a later write of any actor. *)
CheckInKept ==
    [][\A t \in Tickets : tickets[t].checkedIn => tickets'[t].checkedIn]_vars

(* Share guard: a ticket is revoked by the guard only after at least       *)
(* REVOKE_THRESHOLD risky scans of it, whatever updates the unsynchronised *)
(* counter loses or repeats.                                               *)
AutoRevokeEarned ==
    \A t \in Tickets :
        /\ guards[t].failCount <= failures[t]
        /\ tickets[t].revokedBy = "shareGuard" => failures[t] >= RevokeThreshold

(* Policy rejections do not consume the nonce: a scan is answered REPLAY   *)
(* only if its nonce was accepted, or an earlier scan of it passed every   *)
(* check, the direction policy included, and took the replay key.          *)
PolicyRejectionsCauseNoReplay ==
    \A s \in Scanners :
        pc[s] # "idle" /\ Verdict(scan[s]) = "REPLAY" =>
            \/ scan[s].nonce < tickets[scan[s].ticket].nextNonce
            \/ <<scan[s].ticket, scan[s].nonce>> \in cleared

(* INVALID_NONCE is never answered for a token of this service: no token   *)
(* is ahead of its ticket's nonce, and none falls between last and next.   *)
NoTokenAhead ==
    /\ \A k \in tokens : k[2] <= tickets[k[1]].nextNonce
    /\ \A s \in Scanners : pc[s] # "idle" => Verdict(scan[s]) # "INVALID_NONCE"

(* A revoked ticket is never readmitted: nothing clears a revocation. *)
RevocationIsFinal ==
    [][\A t \in Tickets : Revoked(tickets[t]) => Revoked(tickets'[t])]_vars

(* Overrides of a revoked ticket run out: updatePresence decides from a row *)
(* it read before, so one that was in flight at the revocation may still    *)
(* move the guest inside, but it is used up and no other takes its place.   *)
Overriding(t) ==
    {p \in Staff : InProgress(p) /\ staff[p].op = "updatePresence" /\ staff[p].ticket = t}

LateOverridesRunOut ==
    [][\A t \in Tickets : Revoked(tickets[t]) =>
         /\ Overriding(t)' \subseteq Overriding(t)
         /\ \/ tickets'[t].state = "OUTSIDE"
            \/ tickets'[t].state = tickets[t].state
            \/ accepted'[t] # accepted[t]
            \/ Overriding(t)' # Overriding(t)]_vars

(* The gate: whatever requests, snapshots and replay keys are in between,   *)
(* each committed change of a ticket is one that Admission allows.          *)
Gate == INSTANCE Admission WITH
    live      <- [t \in Tickets |-> tickets[t].live],
    revoked   <- [t \in Tickets |-> Revoked(tickets[t])],
    inside    <- [t \in Tickets |-> tickets[t].state = "INSIDE"],
    checkedIn <- [t \in Tickets |-> tickets[t].checkedIn],
    passes    <- [t \in Tickets |-> tickets[t].lastNonce],
    late      <- [t \in Tickets |-> \E i \in 1..Len(accepted[t]) : accepted[t][i].late],
    moved     <- [t \in Tickets |-> Len(accepted[t]) \in overridden[t]]

ImplementsAdmission == Gate!Spec

-------------------------------------------------------------------------------
(* What the repository says and the code does not do. *)

(* __tests__/unit/ticket-runtime.test.mjs:796, 'revoked tickets cannot be  *)
(* overridden manually': no manual override changes a revoked ticket.      *)
RevokedNotOverridden ==
    [][\A t \in Tickets :
         Revoked(tickets[t]) /\ tickets'[t].state # tickets[t].state
            => accepted'[t] # accepted[t]]_vars

(* src/ticket/utils/scan-messages.ts:9, REPLAY: 'Scan already used': a     *)
(* scan answered REPLAY carries a nonce that was accepted, or that another *)
(* scan is in the middle of using.                                         *)
ReplayMeansUsed ==
    \A s \in Scanners :
        pc[s] = "answer" /\ Verdict(scan[s]) = "REPLAY" =>
            \/ scan[s].nonce < tickets[scan[s].ticket].nextNonce
            \/ \E other \in Scanners \ {s} :
                 /\ pc[other] # "idle"
                 /\ scan[other].ticket = scan[s].ticket
                 /\ scan[other].nonce = scan[s].nonce
===============================================================================
