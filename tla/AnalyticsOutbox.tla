--------------------------- MODULE AnalyticsOutbox ---------------------------
(***************************************************************************)
(* The analytics outbox: AnalyticsOutboxService.enqueue writes a row in    *)
(* the transaction of the fact it records, and on every instance of the    *)
(* service an AnalyticsOutboxPublisher polls the table, claims a row with  *)
(* a lease, sends it to Kafka and marks it.  One action per database or    *)
(* Kafka call.  Clocks are abstracted to what the queries ask of them: a   *)
(* lease is held or more than 60 s old, a retry is due or not.             *)
(***************************************************************************)
EXTENDS Integers, FiniteSets

CONSTANTS
    NumFacts,       \* facts are numbered in the order of createdAt
    Instances,      \* running instances of the service
    BatchSize,      \* rows read per poll (50)
    MaxAttempts,    \* failed attempts before a row is dead-lettered (10)
    MaxCrashes,     \* bound: crashes in a behaviour
    MaxEarly        \* bound: leases of one row that expire while it is worked on

ASSUME OutboxAssumption ==
    /\ NumFacts \in Nat
    /\ BatchSize \in Nat \ {0}
    /\ MaxAttempts \in Nat \ {0}
    /\ MaxCrashes \in Nat
    /\ MaxEarly \in Nat
    /\ IsFiniteSet(Instances)

Facts == 1..NumFacts

VARIABLES
    outbox,       \* the rows
    pc,           \* where each publisher stands
    batch,        \* its candidates that are left, the current one first
    attemptsRead, \* attempts of the record it works on, as it read it
    crashes,
    delivered,    \* history: facts Kafka has at least one copy of
    failures,     \* history: failed attempts of each fact that were recorded
    early,        \* history: leases of each fact that expired during work on it
    unanswered    \* history: facts whose mark committed and was reported as failed

local   == <<pc, batch, attemptsRead>>
history == <<delivered, failures, early, unanswered>>
vars    == <<outbox, local, crashes, history>>

-------------------------------------------------------------------------------
Row == [exists    : BOOLEAN,                   \* its transaction has committed
        attempts  : Nat,
        due       : BOOLEAN,                   \* nextAttemptAt has passed
        lock      : {"free", "held", "stale"}, \* lockedAt: NULL, recent, over 60 s old
        published : BOOLEAN,                   \* publishedAt is set
        dead      : BOOLEAN]                   \* deadLetteredAt is set

NewRow == [exists |-> FALSE, attempts |-> 0, due |-> TRUE, lock |-> "free",
           published |-> FALSE, dead |-> FALSE]

Working == {"fetch", "send", "mark", "fail"}
Stages  == {"idle", "claim"} \cup Working

First(S) == CHOOSE f \in S : \A g \in S : f <= g

(* The fact i works on, if it works on one. *)
WorksOn(i, f) == pc[i] \in Working /\ f = First(batch[i])
Workers(f)    == {i \in Instances : WorksOn(i, f)}

Unsettled(f) ==            \* the claim without a look at lockedAt
    /\ outbox[f].exists
    /\ ~outbox[f].published
    /\ ~outbox[f].dead

Revivable(f) ==            \* the claim without a look at deadLetteredAt
    /\ outbox[f].exists
    /\ ~outbox[f].published
    /\ outbox[f].lock # "held"

NeverReclaimed(f) ==       \* the claim without the 60 s alternative
    /\ Unsettled(f)
    /\ outbox[f].lock = "free"

Claimable(f) ==
    /\ outbox[f].exists
    /\ ~outbox[f].published
    /\ ~outbox[f].dead
    /\ outbox[f].lock # "held"

(* findMany: claimable, due, ordered by createdAt, at most BatchSize. *)
Candidates ==
    LET ready == {f \in Facts : Claimable(f) /\ outbox[f].due}
    IN  {f \in ready : Cardinality({g \in ready : g < f}) < BatchSize}

-------------------------------------------------------------------------------
Init ==
    /\ outbox       = [f \in Facts |-> NewRow]
    /\ pc           = [i \in Instances |-> "idle"]
    /\ batch        = [i \in Instances |-> {}]
    /\ attemptsRead = [i \in Instances |-> 0]
    /\ crashes      = 0
    /\ delivered    = {}
    /\ failures     = [f \in Facts |-> 0]
    /\ early        = [f \in Facts |-> 0]
    /\ unanswered   = {}

(* enqueue, and the commit of the transaction around it. *)
Enqueue(f) ==
    /\ ~outbox[f].exists
    /\ outbox' = [outbox EXCEPT ![f] = [@ EXCEPT !.exists = TRUE]]
    /\ UNCHANGED <<local, crashes, history>>

-------------------------------------------------------------------------------
(* publishReady on instance i; the running flag keeps it to one at a time. *)

Goto(i, stage) == pc' = [pc EXCEPT ![i] = stage]

NextCandidateOnce(i) ==    \* the loop goes on although no candidate is left
    /\ batch' = [batch EXCEPT ![i] = @ \ {First(@)}]
    /\ Goto(i, "claim")
    /\ attemptsRead' = [attemptsRead EXCEPT ![i] = 0]

(* The current candidate is done with: the loop goes on. *)
NextCandidate(i) ==
    LET rest == batch[i] \ {First(batch[i])}
    IN  /\ batch' = [batch EXCEPT ![i] = rest]
        /\ Goto(i, IF rest = {} THEN "idle" ELSE "claim")
        /\ attemptsRead' = [attemptsRead EXCEPT ![i] = 0]

Poll(i) ==
    /\ pc[i] = "idle"
    /\ Candidates # {}
    /\ batch' = [batch EXCEPT ![i] = Candidates]
    /\ Goto(i, "claim")
    /\ UNCHANGED <<outbox, attemptsRead, crashes, history>>

(* updateMany with the claim condition; it does not look at nextAttemptAt. *)
Claim(i) ==
    LET f == First(batch[i])
    IN  /\ pc[i] = "claim"
        /\ Claimable(f)
        /\ outbox' = [outbox EXCEPT ![f] = [@ EXCEPT !.lock = "held"]]
        /\ Goto(i, "fetch")
        /\ UNCHANGED <<batch, attemptsRead, crashes, history>>

Skip(i) ==
    /\ pc[i] = "claim"
    /\ ~Claimable(First(batch[i]))
    /\ NextCandidate(i)
    /\ UNCHANGED <<outbox, crashes, history>>

FetchAndClaim(i) ==        \* attempts counted at the claim already
    /\ pc[i] = "fetch"
    /\ attemptsRead' = [attemptsRead EXCEPT ![i] = outbox[First(batch[i])].attempts + 1]
    /\ Goto(i, "send")
    /\ UNCHANGED <<outbox, batch, crashes, history>>

Fetch(i) ==
    /\ pc[i] = "fetch"
    /\ attemptsRead' = [attemptsRead EXCEPT ![i] = outbox[First(batch[i])].attempts]
    /\ Goto(i, "send")
    /\ UNCHANGED <<outbox, batch, crashes, history>>

Send(i) ==
    /\ pc[i] = "send"
    /\ delivered' = delivered \cup {First(batch[i])}
    /\ Goto(i, "mark")
    /\ UNCHANGED <<outbox, batch, attemptsRead, crashes, failures, early, unanswered>>

SendAnyway(i) ==           \* a rejected send that is not waited for
    /\ pc[i] = "send"
    /\ Goto(i, "mark")
    /\ UNCHANGED <<outbox, batch, attemptsRead, crashes, history>>

(* rawSend rejects; the broker may have stored the message all the same. *)
SendFails(i) ==
    /\ pc[i] = "send"
    /\ delivered' \in {delivered, delivered \cup {First(batch[i])}}
    /\ Goto(i, "fail")
    /\ UNCHANGED <<outbox, batch, attemptsRead, crashes, failures, early, unanswered>>

Mark(f) ==
    outbox' = [outbox EXCEPT ![f] = [@ EXCEPT !.published = TRUE, !.lock = "free"]]

MarkPublished(i) ==
    /\ pc[i] = "mark"
    /\ Mark(First(batch[i]))
    /\ NextCandidate(i)
    /\ UNCHANGED <<crashes, history>>

(* The update rejects; the database may have committed it all the same,    *)
(* and the catch block takes the fact for one that was not published.      *)
MarkFails(i) ==
    LET f == First(batch[i])
    IN  /\ pc[i] = "mark"
        /\ \/ UNCHANGED <<outbox, unanswered>>
           \/ Mark(f) /\ unanswered' = unanswered \cup {f}
        /\ Goto(i, "fail")
        /\ UNCHANGED <<batch, attemptsRead, crashes, delivered, failures, early>>

GivesUpLate(attempts) == attempts > MaxAttempts
GivesUp(attempts)     == attempts >= MaxAttempts

(* The catch block: it keys on the id alone and counts from the attempts   *)
(* it read, whoever holds the lease by now.                                *)
RecordFailure(i) ==
    LET f        == First(batch[i])
        attempts == attemptsRead[i] + 1
    IN  /\ pc[i] = "fail"
        /\ outbox' = [outbox EXCEPT ![f] =
             IF GivesUp(attempts)
             THEN [@ EXCEPT !.attempts = attempts, !.lock = "free", !.dead = TRUE]
             ELSE [@ EXCEPT !.attempts = attempts, !.lock = "free", !.due = FALSE]]
        /\ failures' = [failures EXCEPT ![f] = @ + 1]
        /\ NextCandidate(i)
        /\ UNCHANGED <<crashes, delivered, early, unanswered>>

(* The process stops, or a query outside the try block rejects (nobody     *)
(* handles the promise of publishReady); the instance starts afresh.       *)
Crash(i) ==
    /\ pc[i] # "idle"
    /\ crashes < MaxCrashes
    /\ crashes' = crashes + 1
    /\ Goto(i, "idle")
    /\ batch' = [batch EXCEPT ![i] = {}]
    /\ attemptsRead' = [attemptsRead EXCEPT ![i] = 0]
    /\ UNCHANGED <<outbox, history>>

-------------------------------------------------------------------------------
(* Time. *)

BackoffEnds(f) ==
    /\ ~outbox[f].due
    /\ outbox' = [outbox EXCEPT ![f] = [@ EXCEPT !.due = TRUE]]
    /\ UNCHANGED <<local, crashes, history>>

StaleLock(f) ==
    /\ outbox[f].lock = "held"
    /\ outbox' = [outbox EXCEPT ![f] = [@ EXCEPT !.lock = "stale"]]
    /\ UNCHANGED <<local, crashes, delivered, failures, unanswered>>

(* 60 s pass after the holder of the lease crashed. *)
LeaseExpires(f) ==
    /\ StaleLock(f)
    /\ Workers(f) = {}
    /\ UNCHANGED early

(* 60 s pass while an instance still waits for Kafka or the database. *)
LeaseExpiresEarly(f) ==
    /\ StaleLock(f)
    /\ Workers(f) # {}
    /\ early[f] < MaxEarly
    /\ early' = [early EXCEPT ![f] = @ + 1]

-------------------------------------------------------------------------------
Progress(i) ==
    \/ Poll(i) \/ Claim(i) \/ Skip(i) \/ Fetch(i) \/ Send(i) \/ SendFails(i)
    \/ MarkPublished(i) \/ MarkFails(i) \/ RecordFailure(i)

Next ==
    \/ \E i \in Instances : Progress(i) \/ Crash(i)
    \/ \E f \in Facts : Enqueue(f) \/ BackoffEnds(f) \/ LeaseExpires(f) \/ LeaseExpiresEarly(f)

Spec == Init /\ [][Next]_vars

(* The timer fires every second and every call to Kafka or the database    *)
(* settles, one way or the other; time passes.                             *)
Fairness ==
    /\ \A i \in Instances : WF_vars(Progress(i))
    /\ \A f \in Facts : WF_vars(BackoffEnds(f)) /\ WF_vars(LeaseExpires(f))

FairSpec == Spec /\ Fairness

-------------------------------------------------------------------------------
(* Properties. *)

(* Every variable holds values of its type, and a publisher at work has a  *)
(* current candidate, which exists.                                        *)
TypeOK ==
    /\ outbox       \in [Facts -> Row]
    /\ pc           \in [Instances -> Stages]
    /\ batch        \in [Instances -> SUBSET Facts]
    /\ attemptsRead \in [Instances -> Nat]
    /\ crashes      \in Nat
    /\ delivered    \subseteq Facts
    /\ failures     \in [Facts -> Nat]
    /\ early        \in [Facts -> Nat]
    /\ unanswered   \subseteq Facts
    /\ \A i \in Instances :
         /\ pc[i] # "idle" => batch[i] # {}
         /\ \A f \in batch[i] : outbox[f].exists

(* A fact is dead-lettered only after at least MaxAttempts failed attempts *)
(* that were recorded, although a publisher that lost its lease counts     *)
(* from a stale value.  (A crash before the catch block records nothing.)  *)
DeadLetterEarned ==
    \A f \in Facts :
        /\ outbox[f].attempts <= failures[f]
        /\ outbox[f].dead => failures[f] >= MaxAttempts

(* Unless a lease of the fact expired during work on it, the attempts of   *)
(* its row are the ones that failed, and there are at most MaxAttempts,    *)
(* although crashes, lost acknowledgements and outdated candidates come in *)
(* between.  (With an expired lease attempts may be written back.)         *)
AttemptsExact ==
    \A f \in Facts : early[f] = 0 =>
        /\ outbox[f].attempts = failures[f]
        /\ failures[f] <= MaxAttempts

(* The lease: a second publisher works on a fact only if a lease of that   *)
(* fact expired during work, one more publisher per such expiry, although  *)
(* a publisher clears the lock without looking at whose it is.             *)
OverlapNeedsExpiry ==
    \A f \in Facts : Cardinality(Workers(f)) <= 1 + early[f]

(* A row is both published and dead-lettered - delivered, and reported as  *)
(* given up - in two ways only: a lease of it expired during work (one     *)
(* publisher marks it, the one that lost the lease counts the last failed  *)
(* attempt), or its mark committed without an answer, and the publisher    *)
(* itself counts that as the last failed attempt.                          *)
SettledOneWay ==
    \A f \in Facts :
        outbox[f].published /\ outbox[f].dead => early[f] > 0 \/ f \in unanswered

(* At least once: the outbox implements FactDelivery. *)
Delivery == INSTANCE FactDelivery WITH
    recorded  <- {f \in Facts : outbox[f].exists},
    published <- {f \in Facts : outbox[f].published},
    dead      <- {f \in Facts : outbox[f].dead}

ImplementsDelivery == Delivery!Spec

(* No recorded fact is forgotten: it is published or dead-lettered in the  *)
(* end, across crashes between send and mark, lost acknowledgements and    *)
(* expired leases.                                                         *)
EventuallySettled ==
    \A f \in Facts :
        outbox[f].exists ~> (f \in delivered /\ outbox[f].published) \/ outbox[f].dead
===============================================================================
