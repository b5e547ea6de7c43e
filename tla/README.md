# A TLA+ model of the ticket service

The ticket service owns the admission tickets of events: it creates them from
Kafka messages, binds them to a guest's device, hands out short-lived QR
tokens, verifies scans at the gate, keeps presence and revocation, and publishes
what happens through an outbox. This directory holds TLA+ modules that model
it, TLC configurations that check them on small instances, and proofs of the
most important properties that TLAPS checks for every instance. Paths below
are relative to the root of the repository.

## 1. Inventory

| Component | Code | State | Operations |
| --- | --- | --- | --- |
| Gate scan | `src/ticket/service/scan.service.ts`, `verify.service.ts` | ticket row: `revoked`, `currentState`, `checkedInAt`, `lastNonce`, `nextNonce`; scan log; replay keys in Valkey | `scan`, `verifyToken` |
| Share guard | `src/ticket/service/shareguard.service.ts` | `ShareGuard` row: `failCount`, `blockedUntil` | `isBlocked`, `applyDecision`, `resetShareGuard` |
| Owner and staff mutations | `src/ticket/service/ticket-write.service.ts` | ticket row | `generateToken`, `activateDevice`, `revoke`, `updatePresence`, `resetDeviceBinding`, `delete` |
| Analytics outbox | `src/analytics/*` | `AnalyticsOutbox` row: `attempts`, `nextAttemptAt`, `lockedAt`, `publishedAt`, `deadLetteredAt` | `enqueue`, `publishReady`, `publish` |
| Event projections | `src/handlers/event-role.handler.ts`, `event-settings.handler.ts` | access, role and settings rows per event | seven Kafka handlers |
| Provisioning and removal | `src/handlers/seat.handler.ts`, `event.handler.ts`, `authentication.handler.ts` | ticket rows, verification entries in Valkey | `createTicket`, `deleteByEventIds`, `deleteByGuestId` |
| Permission resolver | `src/ticket/service/ticket-event-role-resolver.service.ts` | reads the projections | `getPermissionsForUser` |
| Connection pool | `src/prisma/prisma.service.ts`, used by `scan.service.ts`, `shareguard.service.ts` and the resolver | connections and their queue, open transactions, row locks | begin, statements on the transaction, queries beside it, row writes of `ticket-write.service.ts`, both time limits |
| Token service | `src/ticket/service/token.service.ts` | keys | `generate`, `verify` |
| The rest | resolvers, read service, admin, health, dev, configuration, generated client | none of their own | |

How they interact:

* A **scan** runs in one interactive database transaction. Inside it the share
  guard uses another connection, so its writes commit at once and survive a
  rollback, and the replay key is set in Valkey, outside any transaction. A scan
  thus holds one connection of the **pool** while it waits for a second one.
* **Staff mutations** read the ticket, check it, and then write it in a
  transaction of its own, by id alone. Between the read and the write anything
  may have happened.
* Scans, revocations, overrides and creations **enqueue** facts in the
  transaction that changes the ticket. Every instance of the service runs a
  publisher that polls the table each second; a lease of 60 s keeps two of them
  apart.
* **Kafka** delivers `ticket.create`, the deletion messages and the messages of
  the event service at least once; a handler that throws is called again, on any
  instance. The projections decide through the permission resolver who may scan
  and manage tickets, and when an event is over.

What is hard, and what makes each component correct:

| Component | Hard behaviour | Correct when |
| --- | --- | --- |
| Gate scan | two scans of one token, replay key lost or left behind, row changed after it was read | each nonce is accepted once and in order; a revoked ticket stays out; entries and exits alternate; a check-in is kept; a wrong gate costs nothing |
| Share guard | counter read and written in two statements | a ticket is revoked automatically only after as many risky scans as the threshold says |
| Device binding | uncommitted rows of another activation are invisible | one ticket per device and event; a bound device is not replaced (its key may be) |
| Outbox | crash between send and mark, lost answers of Kafka and of the database, lease expires during work | every fact is delivered at least once or given up on after ten failures |
| Connection pool | scans hold a connection and wait for another, or for a row whose holder waits; transactions time out while their callback goes on | no connection is lost; everyone is served at last; requests block each other only if scans are many for the pool |
| Projections | repeated and reordered messages, clocks of two services | an older message never replaces a newer one; an access change is not lost |
| Provisioning | two deliveries at once, crash after each call, conflicting messages, deletion in between | one ticket per invitation; whoever finishes has announced the ticket and linked the guest; a deletion lasts once the guest's messages are spent |

## 2. Modules

    Admission .......... what the gate promises of each ticket
    TicketScan ......... gate scan, share guard, staff mutations on ticket rows;
                         implements Admission
      MCTicketScan, TicketScanProofs, AdmissionProofs
    ScanPool ........... the connections and row locks of scans and of everyone else
      MCScanPool, ScanPoolProofs
    DeviceRegistry ..... what device bindings promise: one change at a time
    DeviceBinding ...... activateDevice and resetDeviceBinding, statement by statement;
                         implements DeviceRegistry
      MCDeviceBinding, DeviceBindingProofs
    FactDelivery ....... what the outbox promises: at-least-once delivery
    AnalyticsOutbox .... the outbox and its publishers; implements FactDelivery
      MCAnalyticsOutbox, AnalyticsOutboxProofs
    EventProjections ... the handlers of the event service's messages; permissions
      MCEventProjections, EventProjectionsProofs
    TicketLedger ....... what provisioning promises of the tickets of an event
    TicketProvisioning . creation and deletion of tickets by Kafka messages;
                         implements TicketLedger
      MCTicketProvisioning, TicketProvisioningProofs

`PROJECT.json` names, for every definition that models code, the lines it
models. Names follow the code. An action is one access to a store that others
share; local computation between two accesses belongs to the action before
it. Variables and definitions marked *history* record what happened so that
properties can speak of it; no guard of modelled code reads them, except where a
named bound counts with them (`failures` in `TicketScan`, `early` in
`AnalyticsOutbox`, `created` in `TicketProvisioning`).
Definitions that differ from the one that follows them by a
single slip (`AnyNonce` beside `NonceIsNext`) are faulty variants: with one of
them in place of the true definition a property of the run must fail. They
are used by no specification.

Four modules are abstract specifications: `Admission`, `DeviceRegistry`,
`TicketLedger` and `FactDelivery` have one step where the code has a commit (or a
message sent), and none of the requests, snapshots, locks, replay keys, leases and
redeliveries in between. The detailed modules instantiate them with their
variables given by expressions and are checked, and proved, to implement them.

### Admission

Per ticket: whether it exists, is revoked, where the guest is taken to be,
whether they were ever checked in, how many scans were accepted. `Pass` is an
accepted scan: of an existing ticket, the other way than the last one unless
someone else moved the guest (`moved`), and at most once after the revocation
(`late`). `SetPresence` is a presence override, `Revoke` a revocation by staff or
the share guard. `TicketScan`'s `Gate` reads all of it off the row and the
history of accepted scans; `passes` is the row's `lastNonce`, so that each pass
spends exactly one nonce.

### TicketScan

`tickets`, `guards` and `replayKeys` are the two tables and the Valkey keys;
`tokens` the signed tokens in circulation, which never expire here (a superset
of the 60 s of the code). A scan request goes through `pc`:

    idle -ReadTicket-> isBlocked -PassChecks-> replayKey -AcquireReplayKey->
      resetFind -> resetUpdate -> commit -Accept-> idle
    risky rejection: guardUpsert -> guardWrite -> answer -> idle

`Check` is the cascade of `verifyToken` on the row it read. `Accept` is the
compare-and-set together with the permission check, the log row, the facts and
the commit: the compare-and-set locks the row, and nothing of the transaction is
visible before its end. `Abandon` is its rollback at any earlier point - the
permission is checked after `verifyToken`, so a refused actor leaves the guard
and replay key behind. A staff mutation is `StaffRead` followed by its
transaction. The presence of an event's end is a free choice (`RejectEnded`),
because messages set it. A staff member commits one mutation at most (`Done`), which
bounds their number. A ticket keeps who revoked it (`revokedBy`), which the
code stores as an id. NULL nonces are 0; nonces start at 1.

### ScanPool

`ScanPool` is what `TicketScan` leaves out: which connection each statement
needs, and who waits for a row. Statements in `OnTransaction` run on the connection
a scan holds, those in `OnPool` (share guard, permission resolver) take their place
in `queue` and a connection of their own. `After` is the order of the statements in
`scan`, `verifyToken`, `applyDecision` and `getPermissionsForUser`, with the
checks in between abstracted to a choice: the rows are not here. `Writers` are the
transactions of `TicketWriteService` that write ticket rows - activations,
revocations, overrides, resets and deletions: one connection each, one row or
several one after the other (`WriteRow`), in any order. `Swap`, `WriteRow` and
`autoRevoke` wait for the lock of their row. Transactions that wait for each other's
rows are `Deadlocked`, and PostgreSQL fails one of them (`StatementThrows`); it
cannot see a cycle that leads through the queue of the pool, nor one through
`autoRevoke`, which waits on another connection than the one that might hold a row.

Time is abstracted: a limit may run out whenever something waits for it.
`BeginTimesOut` (2 s) leaves the place in the queue to nobody, and `ServeAbandoned`
gives the connection back. `TransactionExpires` (5 s) rolls back and frees the
rows, but the callback goes on: its queries outside the transaction still run, and
its next statement inside throws. `TicketScan` contains such calls that outlive
their transaction, as there `Abandon` may come after any write of the share guard.
`Queries` are all other users of the pool, one connection at a time and no ticket
row: reads (those of the mutations before their transactions too), Kafka handlers,
the outbox. Left out are waits for a lock whose waiter
holds no row and whose holder ends without the pool: creations waiting for each
other's unique keys, and inserts into the scan log or the share guard waiting for a
deletion of their ticket. They close no cycle, and who waits so holds the
same connections as a request that waits for a row.

### DeviceBinding

The commit of an activation is what makes its writes visible, so `device` and
`key` hold committed values only and a transaction keeps the rows it will write in
`tx`. A client (`Requests`) has a key pair of its own and reports a device id: the
same id may be activated again, by another client too, and replaces the key
(`ticket-write.service.ts:148-162`); what is 'immutable' (`README.md:54`) is the device.
`lock` is PostgreSQL's row lock: `Bind` and `UnbindSibling` wait for it, and
after the wait look at the committed row again, as read committed does.
`FindSiblings` is the snapshot of the `updateMany`. `Rollback` covers a failing
statement, the 5 s limit of the transaction and PostgreSQL breaking a deadlock.
`TicketScan` contains an activation as a single step; an overlapping one that
replaces a binding looks to a scan like a reset followed by an activation.

`DeviceRegistry` has the same bindings and two steps: `Activate(t, d, k, peers)`
binds the ticket `t` to the device `d` with the key `k` and takes the device from all its siblings, except that it
may miss tickets of `peers`, the activations it overlapped with; `Reset(t)`
unbinds. `TicketScan`'s `ActivateDevice` is `Activate` without peers: what
overlapping activations miss shows between tickets of an event, and the
properties of `TicketScan` are about one ticket at a time.

### AnalyticsOutbox and FactDelivery

One action for each call of `publishReady` and `publish`. Clocks are reduced to
what the queries ask: `due` says that `nextAttemptAt` has passed, `lock` whether
`lockedAt` is NULL, recent or more than 60 s old. `SendFails` includes the send
that Kafka stored although its acknowledgement was lost. `MarkFails` includes the
update of line 94 that committed although its promise rejects: the `catch` then counts an
attempt, and on the last one dead-letters a row that is published. Such facts are
`unanswered`. A claim, a read or the update of the `catch` itself whose answer is lost
rejects outside the `try`: the statement followed by `Crash`. `Crash` is a stop of
the process: on its own, or because a query outside the `try` of `publish`
rejects and nobody handles the promise the timer started. `FactDelivery` is the
promise: facts are recorded, delivered once recorded, published once delivered,
given up once recorded.

### EventProjections

A row is known by the message its content comes from (`from`, its `occurredAt`)
and the time later messages are compared with (`stamp`): `occurredAt` for access
rows, the local `updatedAt` for role and settings rows. Which columns an
`event.updated` leaves alone is left out. `DecidingRow` is the permission
resolver's choice: scans and mutations decide by the access row, and by the
defaults of the role row if there is none; its two reads are taken together
here. (Queries authorise by `getRoleForUser`, the role row first.) A handler is
a plan of statements, each a read with a comparison followed by a write. `sent`
is never emptied: any message may be delivered again at any time, which contains
every reordering. `clock` is the slowest clock of all machines of both services;
`Readings` says that a machine takes any time up to `MaxSkew` later for the present,
when it stamps a message (`Emit`) or a row (`Write`). So a stamp may lie before the
message of its row, and an older message may then pass the comparison. Access
rows compare only times of the event service. A race for an access row, or its
deletion with the event, marks its user `disturbed` until the next newest access
message is handled without a race.

### TicketProvisioning

A message carries its invitation and guest, and the seat its token maps to in
Valkey. `Verify` reads that entry, which may `Expire`. The unique constraints
of the table are `Unique`. Milestones and links are sets of messages sent, ids
are never reused. Deletions read tickets and then delete what they have read,
in one transaction that other transactions may commit in between of. The history
`late` counts announcements of tickets that are gone; `closing` and `gone` are
the guests a deletion found `Closed`: no verification entry left and no handler
past the verification, so that nothing can create a ticket for them again.

`TicketLedger` keeps the rows, milestones and links and drops the rest: `Issue` a
new row for a guest who is not gone, unique in invitation, seat and guest;
`Announce` a row that was issued (it may be withdrawn by then); `Invite` the guest
of a row that was announced; `LetGo` of some rows, with guests who keep none.

## 3. What the runs show

| Run | Instance | Shows |
| --- | --- | --- |
| `scan_race` | 1 ticket, 1 device, 2 scanners, 2 staff, nonces 1-2, no risky scans | `AcceptedOnceInOrder`, `AtMostOneLateAccept`, `EntriesAndExitsAlternate`, `InsideWasCheckedIn`, `NoTokenAhead`, `CheckInKept`, `LateOverridesRunOut`, refinement `ImplementsAdmission` |
| `scan_guard` | 2 scanners, 2 devices, nonce 1, 11 risky scans | `TypeOK`, `AutoRevokeEarned`, `PolicyRejectionsCauseNoReplay`, `RevocationIsFinal` |
| `scan_pool` | 1 scan, 2 writers, 1 other query, 2 tickets, 3 connections, queue bound 2 | `TypeOK`, `GridlockNeedsCrowd`, `EveryRequestAnswered`, `EveryQueryServed` |
| `outbox` | 2 facts, 2 instances, batches of 2, 2 attempts, 1 crash, 1 early expiry per fact | `TypeOK`, `DeadLetterEarned`, `AttemptsExact`, `OverlapNeedsExpiry`, `SettledOneWay`, refinement `ImplementsDelivery`, `EventuallySettled` |
| `binding_overlap` | 3 tickets, 2 devices, 2 activations, 1 reset | `TypeOK`, `SharedOnlyByOverlap`, `RebindOnlyByOverlap`, `ActivationAloneIsExclusive`, refinement `ImplementsRegistry` |
| `projections_order` | 2 users, 2 handlers, 2 messages, 4 clock ticks, clocks up to 1 apart | `TypeOK`, `AccessNotLost`, `NeverBack` |
| `provisioning` | 3 messages (two disagree, one competes for a guest), 2 handlers, 3 tickets, 1 deletion | `TypeOK`, `FinishedMeansAnnounced`, `OneTicketAtATime`, `LinkedGuestsHadTheTicket`, `DeletionLasts`, `FewLateMilestones`, refinement `ImplementsLedger` |

Why these bounds are enough. Rows of different tickets interact only through
`activateDevice`, which has a module with two and three tickets; one ticket
shows every interleaving of a scan. Two nonces give one acceptance after
another, so that a late acceptance, a repeated nonce and an exit after an entry
occur; two scanners, or a scanner and a staff member, are the racing pair. Two staff
members, each with one mutation that commits, let a revocation commit while the override
of another is in flight; three of them, who may also have two such overrides at once,
have been checked once (1.8 million states).
Eleven risky scans are one more than the threshold of the code, which is not
scaled. In the outbox `MaxAttempts` is scaled down (10 in the code); nothing
depends on the number but the comparison. Two facts and batches of two make a
publisher work on an outdated candidate. In `scan_pool` a scan holds a row and waits for
its second connection while writers that have the other connections wait for the
row; the two writers deadlock over two rows, with the scan waiting behind them;
or the scan's automatic revocation waits for a writer. With two scans the liveness
is out of reach in reasonable time; the invariants of the module have also been checked
with two scans and a writer (3 connections, queue bound 3) and with two scans and
two writers (2 and 3 connections, queue bound 1), and the liveness with two scans
and one writer (2 connections, queue bound 1). `MaxQueue` keeps
the queue finite: given-up begins stay in it until they are served, and nobody
new asks while it is that long. A writer that finds that a row it waited for no
longer qualifies goes on to no other row, which excludes no state (what it waits for
next it could have waited for at once) and keeps it from going in circles.
Three tickets let an activation find two
siblings that already share its device, and two devices let one binding replace
another. Two messages have every order, with a write before, between and after
them, and a clock that is one tick ahead; a third message of one user has been
checked once with one user. `projections_skip` has clocks that agree, three
messages and one handler: it shows that the comparison fails without their help.
Symmetry is declared for interchangeable requests, instances, devices, users and
tickets, in runs without liveness only. `CHECK_DEADLOCK FALSE` stands where the
bounds (nonces, clock, crashes) let the model stop; the runs of `DeviceBinding`
and `ScanPool` check for deadlock.

Five runs end in a counterexample, on purpose: each states what the repository
says of itself and the code does not do.

| Run | What the repository says | What happens |
| --- | --- | --- |
| `scan_revoked_override` | test 'revoked tickets cannot be overridden manually' (`__tests__/unit/ticket-runtime.test.mjs:796`) | an override reads the row, a revocation commits, the override writes: the revoked ticket is inside |
| `scan_replay_message` | REPLAY is 'Scan already used' (`src/ticket/utils/scan-messages.ts:9`) | a scan takes the replay key and rolls back; the next scan of the unused nonce is a REPLAY for 120 s and counts as a risk |
| `binding_shared` | 'sibling tickets of the same event are unbound' (`ticket-mutation.resolver.ts:128`) | two overlapping activations of one device both stay |
| `binding_replaced` | the binding is 'immutable after the first successful binding' (`README.md:54`) | two overlapping activations of one ticket: the second replaces the first |
| `projections_skip` | 'Skipping stale event.updated' (`src/handlers/event-settings.handler.ts:90`) | created at 1, updated at 2, creation written at 3: the newer update is skipped |

Two more disagreements show in the actions themselves and have no run:
`generateToken` is described as 'Rotate nonce for a ticket's QR token'
(`ticket-mutation.resolver.ts:143`) and leaves the nonce as it is
(`GenerateToken`); `README.md:47` says that redelivery of a message returns the
existing ticket, but once the verification entry has expired the handler
refuses the message before it looks for one (`RefuseToken`).

The properties that hold say how far each of these can go: at most one late
acceptance, late overrides only of those in flight at the revocation, each once
(`LateOverridesRunOut`), shared or replaced devices only by overlap, rows that go back
without a race only by as much as clocks are apart, and so on.

For the pool of the code (ten connections, the default of `pg`),
`GridlockNeedsCrowd` says that on one instance requests never block each other until
the 5 s limit while scans, counted twice, and row writers make ten at most: five
scans, or one scan and eight writers. While nobody waits for a row, nine scans do not
either. Beyond that only the time limit helps, and by `EveryRequestAnswered` and
`EveryQueryServed` it always does.

**Fairness.** The runs `outbox` and `scan_pool` assume some.

* Outbox. `Progress(i)`: the timer of an
  instance fires every second (`setInterval` in `onModuleInit`), and each call to
  the database or Kafka settles, by success or by an error; an instance that
  crashed is started again, which `Crash` does at once. The number of
  crashes is bounded: nothing is ever published by a service that always crashes.
  `BackoffEnds` and `LeaseExpires`: time passes. No fairness is assumed for the
  success of a send: a fact that always fails ends in the dead letters.
* Pool. `PoolStep` (weak): a free connection goes to the head of the queue.
  `RequestStep(s)` (strong): the database answers each statement, by success or by an
  error; strong because a statement that waits for a row may see it taken by
  others and freed again, and PostgreSQL grants row locks in the order they were
  asked for. `BeginTimesOut` and `TransactionExpires` (weak): both timers
  fire. `Done(q)` (weak): a query of anyone else ends. Nobody is forced to arrive,
  to ask or to succeed.

## 4. What is proved

TLAPS checks these for every value of the constants, under the named assumptions
of the modules (the null values are no devices, tasks or tickets; bounds are natural
numbers; batch size, attempts and pool size are positive; facts have finitely
many instances, and tickets finitely many scanners and handlers).

`TicketScanProofs`

* `TypeCorrect`: `TypeOK` is inductive as it stands.
* `AcceptedOnce`: `AcceptedOnceInOrder` is inductive with `TypeOK`. Only
  `Accept` touches the nonces and the history, and its compare-and-set makes
  the accepted nonce the next one; replay keys play no part in the argument.
* `OneLateAccept`: needs more. `LateInv` adds that no token and no
  request is ahead of its ticket's nonce (`TokensBehind`), that a request that may still
  be accepted has no cause of rejection (`CommitsUnrejected`), and
  that once an acceptance was late, all requests that can still reach the commit
  carry a nonce that is used up (`LateIsLast`): `ReadTicket` lets no new request of a
  revoked ticket in, and the first late acceptance spends the nonce all the
  others hold.
* `RevocationFinal`: the action property, from the cases of `Next`.
* `InsideCheckedIn` and `CheckInsKept`: an exit scan writes back the check-in
  time it read, an override the one it read or a new one. `CheckInInv` adds that
  an exit scan that may still be accepted has read a checked-in row
  (`ExitsCheckedIn`: the direction policy saw the guest inside, and whoever is
  inside is checked in) and that what staff read of a check-in still holds
  (`StaffSawCheckIn`).
* `TokensNotAhead`: from `TokensBehind` and the order of the accepted nonces, the
  read of a scan cannot find a nonce invalid (`NeverAhead`).
* `ReplayEarned`: every replay key belongs to a scan that passed every check
  (`KeysCleared`), and each of the three ways to a REPLAY is explained
  (`ReplayExplained`): an old nonce at the read, a taken key, and a lost
  compare-and-set, whose nonce is behind because none is ahead.

* `ScansAlternate`: `TurnInv` says that the presence of a row is the one the
  last accepted scan gave it unless it has been set since (`StateExplained`),
  and that a scan that may still win the compare-and-set goes the other way than
  the last accepted one, or follows an override (`ScansTurn`): the nonce it
  holds is still unused, so no scan has been accepted since it read the row.
* `RevocationEarned`: `AutoRevokeEarned` by counting. A risky scan is counted in
  `failures` before it reads the guard; `Pending(t)` are the scans in between.
  What the guard holds (`GuardsCovered`), and what a scan is about to write to it
  (`WritesCovered`), leave room for the pending ones: a counter lost or repeated
  by concurrent scans is too small, never too large. Needs finitely many scanners.

`AdmissionProofs`

* `GateAdmits`: `TicketScan` implements `Admission`. Each action changes at most
  one ticket as `Admission` sees it (`OneChanged`), or none (`Unseen`). The
  difficult step is an acceptance (`AcceptPasses`): it checks the row as it was at
  the read and `Pass` speaks of the row as it is now. `AdmissionInv` closes the
  gap with the invariants above, one for each clause of `Pass`:
  `AcceptedOnceInOrder` for the nonce it spends, `LateInv` for the scan that is
  the last one after a revocation, `TurnInv` for the direction, `CheckInInv` for
  the check-in time it writes back. `OverridesPast` is new: overrides are counted
  to accepted scans of the past, so that an acceptance ends `moved`.
* `OverridesRunOut`: the action property `LateOverridesRunOut`, from the cases of
  `Next`: `StaffRead` takes up no override of a revoked ticket, and an override
  that writes is over.

`ScanPoolProofs`

* `PoolTypeCorrect`: `TypeOK`, with the count of connections (`NoLeak`): the pool
  neither loses nor invents a connection, whatever times out. `Positions`
  says that a scan that holds a row is past its compare-and-set, and that a writer asks
  for no second connection.
* `CrowdNeeded`: `GridlockNeedsCrowd` by counting the connections a gridlock holds:
  each scan in flight has at most two, each writer one, and some scan has only one
  (`GridlockExhausts`). That scan exists because otherwise every open transaction waits
  for a row: the smallest set of transactions whose members wait for members
  of the set is a deadlock (`AllWaitingIsDeadlock`, by well-foundedness of
  strict inclusion on finite sets), which PostgreSQL breaks.

`DeviceBindingProofs`

* `BindingTypeCorrect`: `TypeOK`; a transaction holds the locks of exactly its own
  row and the siblings it has unbound (`Holds`).
* `SharingNeedsOverlap`, `RebindingNeedsOverlap`, `AloneIsExclusive`: from one
  invariant `Overlap`. Activations that run at the same time know each other's
  tickets (`PeersKnown`); what one has read of its row still holds unless a peer
  changed it (`OwnAsRead`); and it has found every other ticket of its device but
  those its peers have bound (`SiblingsFound`).
* `BindingsSerialize`: `DeviceBinding` implements `DeviceRegistry`; the commit of
  an activation is its step (`CommitActivates`). `Overlap` gives what it may
  have missed. `RegistryInv` adds that the siblings it has unbound still have its
  device when it commits (`UnboundKept`), since nobody else changes a row
  it has locked (`LockKeeps`): without that the commit would wipe a new binding.

`EventProjectionsProofs`

* `ProjectionsTypeCorrect`, `AccessKept`, `RowsNeverBack`: from `IInv`. Messages do
  come from the future by no more than clocks are apart (`Past`), a handler's statements fit its message
  (`Running`), what its comparison found still holds at its write unless it was
  raced (`Fresh`), and an access row is stamped with the time of its message and not
  behind what was handled (`AccessRow`).

`TicketProvisioningProofs`

* `ProvisioningTypeCorrect`: `TypeOK`; ids are new because rows are counted (`Counted`).
* `AnnouncedOnFinish`: a handler at its last call has announced its ticket.
* `OneAtATime`: the unique constraint at every creation, and no other action adds a row.
* `LinkedHadTicket`: every link goes back to a ticket of its guest, and two guests of one
  invitation had two tickets of it (`LinksHadTickets`).
* `DeletionsLast`: a closed guest stays closed (`StillClosed`), and the deletion at
  work has read all tickets of the guests it found closed (`ClosedDoomed`).
* `LateMilestonesFew`: an announcement after the end of a ticket uses up one of the
  handlers that were about to make it (`LateOf`); none can join them, because ids
  are never reused.
* `LedgerKept`: `TicketProvisioning` implements `TicketLedger`. `LedgerInv` joins the
  two invariants above: a handler past the verification has no guest who is gone,
  so `Create` may issue (`CreateIssues`); it links only what it has announced
  (`LinkInvites`); and the commit of a deletion leaves no ticket to the guests it
  found closed (`DeleteLetsGo`), even one created after it read.

`AnalyticsOutboxProofs`

* `OutboxTypeCorrect`: `TypeOK`, with the lemma `FirstMember` (a nonempty set of
  fact numbers has a least member) by well-foundedness of strict inclusion on finite sets.
* `DeadLettersEarned`: `EarnedInv` adds `ReadCovered`: the attempts a
  publisher has read are covered by failures that happened, whoever holds
  the lease by now.
* `OutboxDelivers`: the refinement. `MarkAfterDelivery` says that a publisher
  about to mark a fact, and every published row, has a delivered copy;
  `StepRefines` maps each step to a step of `FactDelivery` or a stutter.

* `OverlapEarned`: `LeaseInv` counts the workers of a fact against the expired
  leases and the lock that is held.
* `AttemptsAreExact`: while no lease expired during work, a row has one
  publisher, which holds the lock, has read the attempts as they still
  are and works on a row that is not settled (`SoleInv`).
* `SettlesOneWay`: `SettledOneWay`, from the same invariant: without an expired lease only
  the publisher's own unanswered mark lets it work on a row that is published.

Model-checked only: the three liveness properties, `EventuallySettled`,
`EveryRequestAnswered` and `EveryQueryServed`. A proof under fairness needs `ENABLED`,
which is out of the prover's reach. Every other property of the passing
runs is proved. No module uses a recursive operator.

## 5. Not modelled

* The token service beyond what a token says: a token is the ticket and nonce it names,
  and a signature the device that made it. Tokens never expire in `TicketScan` and
  replay keys may at any time (`ReplayKeyExpires`), which contains the 60 s and
  120 s of the code. Keys are chosen by `kid` from the configuration an instance
  started with: a token of a key the instance does not have is refused before the
  ticket is read, and changes nothing.
* Milestones of scans and revocations: sent after the commit, without effect on
  the state of the service. Columns nobody decides on (reasons, gates, IPs, logs).
* `TicketWriteService.update`, which nothing calls, and the `/dev` endpoints.
* Resolvers, queries, administration, health and configuration: no state.
* The generated Prisma client (`src/prisma/generated`): type declarations, about
  12 900 of the repository's 19 000 lines of code. No definition stands for
  them; the map covers the hand-written part, and of that the code that decides
  or changes state. The rest is decorators, DTOs, mappers and wiring.

The order in which facts reach Kafka is not promised by the outbox (a retry
comes late), and is not stated.

## 6. Plan

1. Done: the modules of section 2 with their runs; every safety and action
   property of the passing runs and the four refinements are proved.
2. Possible next modules: `TokenKeys`, the key ring over a rolling restart (which
   tokens an instance refuses, and for how long); an abstract specification of
   the projections (what each row promises of the messages handled so far).
3. Possible next proofs: the bound of attempts when leases do expire, as a function
   of how often they do; a lower bound of the share guard's counter when racing
   scans lose updates.
