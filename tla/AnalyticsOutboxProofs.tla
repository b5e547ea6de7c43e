------------------------- MODULE AnalyticsOutboxProofs -------------------------
(* Theorems of AnalyticsOutbox for any number of facts and instances, any  *)
(* batch size and any limit of attempts.                                   *)
EXTENDS AnalyticsOutbox, FiniteSetTheorems, TLAPS

-------------------------------------------------------------------------------
(* The oldest fact of a set is one of it. *)
LEMMA FirstMember ==
    ASSUME NEW S, S \subseteq Facts, S # {}
    PROVE  First(S) \in S
  <1> DEFINE Older(f) == {g \in S : g < f}
             T        == {Older(f) : f \in S}
  <1>1. NumFacts \in Nat
    BY OutboxAssumption
  <1>2. S \subseteq Int
    BY <1>1 DEF Facts
  <1>3. IsFiniteSet(S)
    <2>1. 1 \in Int /\ NumFacts \in Int
      BY <1>1
    <2>2. IsFiniteSet(1..NumFacts)
      BY <2>1, FS_Interval
    <2> QED
      BY <2>2, FS_Subset DEF Facts
  <1>4. T \subseteq FiniteSubsetsOf(S) /\ T # {}
    <2>1. \A f \in S : Older(f) \in SUBSET S /\ IsFiniteSet(Older(f))
      BY <1>3, FS_Subset
    <2> QED
      BY <2>1 DEF FiniteSubsetsOf
  <1>5. IsWellFoundedOn(StrictSubsetOrdering(S), FiniteSubsetsOf(S))
    BY FS_StrictSubsetOrderingWellFounded
  <1>6. PICK U \in T : \A V \in T : ~ (<<V, U>> \in StrictSubsetOrdering(S))
    <2> HIDE DEF T
    <2> QED BY <1>4, <1>5, WFMin
  <1>7. PICK f \in S : U = Older(f)
    BY <1>6
  <1>8. \A g \in S : f <= g
    <2> SUFFICES ASSUME NEW g \in S, g < f PROVE FALSE
      BY <1>2
    <2>0. \A h \in S : h \in Int
      BY <1>2
    <2>1. Older(g) \subseteq Older(f) /\ g \in Older(f) /\ g \notin Older(g)
      <3>1. Older(g) \subseteq Older(f)
        <4> SUFFICES ASSUME NEW h \in Older(g) PROVE h \in Older(f)
          OBVIOUS
        <4>1. h \in Int /\ g \in Int /\ f \in Int /\ h < g
          BY <2>0
        <4> QED
          BY <4>1
      <3>2. g \in Int /\ ~(g < g)
        BY <2>0
      <3> QED
        BY <3>1, <3>2
    <2>2. <<Older(g), U>> \in StrictSubsetOrdering(S)
      BY <1>7, <2>1 DEF StrictSubsetOrdering
    <2> QED
      BY <1>6, <2>2
  <1> QED
    BY <1>8 DEF First

-------------------------------------------------------------------------------
(* Type correctness. *)

LEMMA InitType == Init => TypeOK
  BY DEF Init, TypeOK, NewRow, Row, Stages, Working

(* What a publisher away from idle works on. *)
LEMMA CurrentFact ==
    ASSUME TypeOK, NEW i \in Instances, pc[i] # "idle"
    PROVE  /\ First(batch[i]) \in batch[i]
           /\ First(batch[i]) \in Facts
           /\ outbox[First(batch[i])] \in Row
           /\ outbox[First(batch[i])].exists
  <1>1. batch[i] \subseteq Facts /\ batch[i] # {}
    BY DEF TypeOK
  <1>2. First(batch[i]) \in batch[i]
    BY <1>1, FirstMember
  <1> QED
    BY <1>1, <1>2 DEF TypeOK

(* Writing one row keeps the table typed and every row in it. *)
LEMMA RowWrite ==
    ASSUME TypeOK, NEW f \in Facts, NEW r \in Row, outbox[f].exists => r.exists,
           outbox' = [outbox EXCEPT ![f] = r]
    PROVE  /\ outbox' \in [Facts -> Row]
           /\ \A g \in Facts : outbox[g].exists => outbox'[g].exists
  BY DEF TypeOK

(* The locals of a publisher that goes to its next stage. *)
LocalsOK ==
    /\ pc    \in [Instances -> Stages]
    /\ batch \in [Instances -> SUBSET Facts]
    /\ attemptsRead \in [Instances -> Nat]
    /\ \A i \in Instances :
         /\ pc[i] # "idle" => batch[i] # {}
         /\ \A f \in batch[i] : outbox[f].exists

LEMMA MoveType ==
    ASSUME TypeOK, NEW i \in Instances, NEW stage \in Stages, pc[i] # "idle", Goto(i, stage),
           batch' = batch, attemptsRead' \in [Instances -> Nat],
           \A g \in Facts : outbox[g].exists => outbox'[g].exists
    PROVE  LocalsOK'
  BY DEF TypeOK, LocalsOK, Goto

LEMMA NextCandidateType ==
    ASSUME TypeOK, NEW i \in Instances, NextCandidate(i),
           \A g \in Facts : outbox[g].exists => outbox'[g].exists
    PROVE  LocalsOK'
  <1> DEFINE rest == batch[i] \ {First(batch[i])}
  <1>1. batch' \in [Instances -> SUBSET Facts] /\ batch'[i] = rest
    BY DEF TypeOK, NextCandidate
  <1>2. pc' \in [Instances -> Stages] /\ (rest = {} => pc'[i] = "idle")
    BY DEF TypeOK, NextCandidate, Goto, Stages
  <1>3. attemptsRead' \in [Instances -> Nat]
    BY DEF TypeOK, NextCandidate
  <1>4. \A j \in Instances : pc'[j] # "idle" => batch'[j] # {}
    BY <1>1, <1>2 DEF TypeOK, NextCandidate, Goto
  <1>5. \A j \in Instances : \A f \in batch'[j] : outbox'[f].exists
    BY DEF TypeOK, NextCandidate
  <1> QED
    BY <1>1, <1>2, <1>3, <1>4, <1>5 DEF LocalsOK

(* Every step of a publisher keeps the types. *)
LEMMA ProgressType ==
    ASSUME TypeOK, NEW i \in Instances, Progress(i)
    PROVE  TypeOK'
  <1> DEFINE f == First(batch[i])
  <1>0. pc[i] # "idle" => f \in Facts /\ outbox[f] \in Row /\ outbox[f].exists
    BY CurrentFact
  <1>a. {"idle", "claim", "fetch", "send", "mark", "fail"} = Stages
    BY DEF Stages, Working
  <1>1. CASE Poll(i)
    <2>1. Candidates \subseteq Facts /\ \A g \in Candidates : outbox[g].exists
      BY DEF Candidates, Claimable
    <2> QED
      BY <1>1, <1>a, <2>1 DEF Poll, Goto, TypeOK, history
  <1>2. CASE Claim(i)
    <2> DEFINE r == [outbox[f] EXCEPT !.lock = "held"]
    <2>1. r \in Row /\ r.exists
      BY <1>0, <1>2 DEF Claim, Row
    <2>2. outbox' = [outbox EXCEPT ![f] = r] /\ f \in Facts
      BY <1>0, <1>2 DEF Claim
    <2>3. /\ outbox' \in [Facts -> Row]
          /\ \A g \in Facts : outbox[g].exists => outbox'[g].exists
      BY <2>1, <2>2, RowWrite
    <2>4. LocalsOK'
      BY <1>2, <1>a, <2>3, MoveType DEF Claim, TypeOK
    <2> QED
      BY <1>2, <2>3, <2>4 DEF Claim, TypeOK, LocalsOK, history
  <1>3. CASE Skip(i)
    <2>1. LocalsOK'
      BY <1>3, NextCandidateType DEF Skip
    <2> QED
      BY <1>3, <2>1 DEF Skip, TypeOK, LocalsOK, history
  <1>4. CASE Fetch(i)
    <2>1. attemptsRead' \in [Instances -> Nat]
      BY <1>0, <1>4 DEF Fetch, TypeOK, Row
    <2>2. LocalsOK'
      BY <1>4, <1>a, <2>1, MoveType DEF Fetch
    <2> QED
      BY <1>4, <2>2 DEF Fetch, TypeOK, LocalsOK, history
  <1>5. CASE Send(i) \/ SendFails(i)
    <2>1. delivered' \subseteq Facts /\ pc[i] # "idle"
      BY <1>0, <1>5 DEF Send, SendFails, TypeOK
    <2>2. LocalsOK'
      BY <1>5, <1>a, <2>1, MoveType DEF Send, SendFails, TypeOK
    <2> QED
      BY <1>5, <2>1, <2>2 DEF Send, SendFails, TypeOK, LocalsOK
  <1>m. ASSUME Mark(f), pc[i] # "idle"
        PROVE  /\ outbox' \in [Facts -> Row]
               /\ \A g \in Facts : outbox[g].exists => outbox'[g].exists
    <2> DEFINE r == [outbox[f] EXCEPT !.published = TRUE, !.lock = "free"]
    <2>1. r \in Row /\ r.exists
      BY <1>0, <1>m DEF Row
    <2>2. outbox' = [outbox EXCEPT ![f] = r] /\ f \in Facts
      BY <1>0, <1>m DEF Mark
    <2> QED
      BY <2>1, <2>2, RowWrite
  <1>6. CASE MarkPublished(i)
    <2>1. /\ outbox' \in [Facts -> Row]
          /\ \A g \in Facts : outbox[g].exists => outbox'[g].exists
      BY <1>6, <1>m DEF MarkPublished
    <2>2. LocalsOK'
      BY <1>6, <2>1, NextCandidateType DEF MarkPublished
    <2> QED
      BY <1>6, <2>1, <2>2 DEF MarkPublished, TypeOK, LocalsOK, history
  <1>7. CASE MarkFails(i)
    <2>1. /\ outbox' \in [Facts -> Row]
          /\ \A g \in Facts : outbox[g].exists => outbox'[g].exists
      BY <1>7, <1>m DEF MarkFails, TypeOK
    <2>2. LocalsOK'
      BY <1>7, <1>a, <2>1, MoveType DEF MarkFails, TypeOK
    <2>3. unanswered' \subseteq Facts
      BY <1>0, <1>7 DEF MarkFails, TypeOK
    <2> QED
      BY <1>7, <2>1, <2>2, <2>3 DEF MarkFails, TypeOK, LocalsOK
  <1>8. CASE RecordFailure(i)
    <2>0. pc[i] # "idle"
      BY <1>8 DEF RecordFailure
    <2>1. PICK r \in Row : r.exists /\ outbox' = [outbox EXCEPT ![f] = r]
      <3> DEFINE a    == attemptsRead[i] + 1
                 dead == [outbox[f] EXCEPT !.attempts = a, !.lock = "free", !.dead = TRUE]
                 late == [outbox[f] EXCEPT !.attempts = a, !.lock = "free", !.due = FALSE]
      <3>1. a \in Nat
        BY DEF TypeOK
      <3>2. dead \in Row /\ dead.exists /\ late \in Row /\ late.exists
        BY <1>0, <2>0, <3>1 DEF Row
      <3> QED
        BY <1>8, <3>2 DEF RecordFailure, GivesUp
    <2>2. /\ outbox' \in [Facts -> Row]
          /\ \A g \in Facts : outbox[g].exists => outbox'[g].exists
      BY <1>0, <2>0, <2>1, RowWrite
    <2>3. LocalsOK'
      BY <1>8, <2>2, NextCandidateType DEF RecordFailure
    <2>4. failures' \in [Facts -> Nat]
      BY <1>0, <1>8, <2>0 DEF RecordFailure, TypeOK
    <2> QED
      BY <1>8, <2>2, <2>3, <2>4 DEF RecordFailure, TypeOK, LocalsOK
  <1> QED
    BY <1>1, <1>2, <1>3, <1>4, <1>5, <1>6, <1>7, <1>8 DEF Progress

LEMMA CrashType ==
    ASSUME TypeOK, NEW i \in Instances, Crash(i)
    PROVE  TypeOK'
  BY DEF TypeOK, Crash, Goto, Stages, history

(* Every step of the environment on a row does. *)
LEMMA RowStepType ==
    ASSUME TypeOK, NEW f \in Facts,
           Enqueue(f) \/ BackoffEnds(f) \/ LeaseExpires(f) \/ LeaseExpiresEarly(f)
    PROVE  TypeOK'
  <1>1. PICK r \in Row : (outbox[f].exists => r.exists) /\ outbox' = [outbox EXCEPT ![f] = r]
    <2>0. outbox[f] \in Row
      BY DEF TypeOK
    <2>1. /\ [outbox[f] EXCEPT !.exists = TRUE] \in Row
          /\ [outbox[f] EXCEPT !.due = TRUE] \in Row
          /\ [outbox[f] EXCEPT !.lock = "stale"] \in Row
      <3>1. \A r \in Row : [r EXCEPT !.exists = TRUE] \in Row
        BY DEF Row
      <3>2. \A r \in Row : [r EXCEPT !.due = TRUE] \in Row
        BY DEF Row
      <3>3. \A r \in Row : [r EXCEPT !.lock = "stale"] \in Row
        BY DEF Row
      <3> QED
        BY <2>0, <3>1, <3>2, <3>3
    <2>2. CASE Enqueue(f)
      BY <2>1, <2>2 DEF Enqueue, TypeOK, Row
    <2>3. CASE BackoffEnds(f)
      BY <2>1, <2>3 DEF BackoffEnds, TypeOK, Row
    <2>4. CASE LeaseExpires(f) \/ LeaseExpiresEarly(f)
      BY <2>1, <2>4 DEF LeaseExpires, LeaseExpiresEarly, StaleLock, TypeOK, Row
    <2> QED
      BY <2>2, <2>3, <2>4
  <1>2. /\ outbox' \in [Facts -> Row]
        /\ \A g \in Facts : outbox[g].exists => outbox'[g].exists
    BY <1>1, RowWrite
  <1>3. early' \in [Facts -> Nat]
    BY DEF TypeOK, Enqueue, BackoffEnds, LeaseExpires, LeaseExpiresEarly, StaleLock, history
  <1>4. UNCHANGED <<local, crashes, delivered, failures, unanswered>>
    BY DEF Enqueue, BackoffEnds, LeaseExpires, LeaseExpiresEarly, StaleLock, history
  <1> QED
    BY <1>2, <1>3, <1>4 DEF TypeOK, local

LEMMA NextType == TypeOK /\ [Next]_vars => TypeOK'
  <1> SUFFICES ASSUME TypeOK, [Next]_vars PROVE TypeOK'
    OBVIOUS
  <1>1. CASE UNCHANGED vars
    BY <1>1 DEF TypeOK, vars, local, history
  <1>2. ASSUME NEW i \in Instances, Progress(i) PROVE TypeOK'
    BY <1>2, ProgressType
  <1>3. ASSUME NEW i \in Instances, Crash(i) PROVE TypeOK'
    BY <1>3, CrashType
  <1>4. ASSUME NEW f \in Facts,
               Enqueue(f) \/ BackoffEnds(f) \/ LeaseExpires(f) \/ LeaseExpiresEarly(f)
        PROVE  TypeOK'
    BY <1>4, RowStepType
  <1> QED
    BY <1>1, <1>2, <1>3, <1>4 DEF Next

(* The variables of the outbox hold values of their types: in particular a *)
(* publisher at work has a current candidate, and its row exists.          *)
THEOREM OutboxTypeCorrect == Spec => []TypeOK
  BY InitType, NextType, PTL DEF Spec

-------------------------------------------------------------------------------
(* Dead letters are earned.  The counter of a row may be written from a    *)
(* stale value, so the invariant bounds that value as well: what a         *)
(* publisher has read is covered by failed attempts from the read to the   *)
(* write, whatever others do to the row meanwhile.                         *)

ReadCovered(i) ==
    pc[i] \in {"send", "mark", "fail"} => attemptsRead[i] <= failures[First(batch[i])]

EarnedInv ==
    /\ TypeOK
    /\ DeadLetterEarned
    /\ \A i \in Instances : ReadCovered(i)

LEMMA InitEarned == Init => EarnedInv
  BY InitType DEF Init, EarnedInv, DeadLetterEarned, ReadCovered, NewRow

(* A step that counts no attempt and leaves the fields of the rows that    *)
(* matter, and the publishers that have read attempts, as they are.        *)
LEMMA EarnedFrame ==
    ASSUME EarnedInv, TypeOK', failures' = failures,
           \A f \in Facts : /\ outbox'[f].attempts = outbox[f].attempts
                            /\ outbox'[f].dead = outbox[f].dead,
           \A i \in Instances :
               pc'[i] \in {"send", "mark", "fail"} =>
                   /\ batch'[i] = batch[i]
                   /\ \/ attemptsRead'[i] = outbox[First(batch[i])].attempts
                      \/ pc[i] \in {"send", "mark", "fail"} /\ attemptsRead'[i] = attemptsRead[i]
    PROVE  EarnedInv'
  <1>1. DeadLetterEarned'
    BY DEF EarnedInv, DeadLetterEarned
  <1>2. ASSUME NEW i \in Instances, pc'[i] \in {"send", "mark", "fail"}
        PROVE  attemptsRead'[i] <= failures'[First(batch'[i])]
    <2>1. pc'[i] # "idle" /\ batch'[i] = batch[i]
      BY <1>2
    <2>2. batch[i] # {} /\ batch[i] \subseteq Facts
      BY <2>1 DEF EarnedInv, TypeOK
    <2>3. First(batch[i]) \in Facts
      BY <2>2, FirstMember
    <2> QED
      BY <1>2, <2>1, <2>3 DEF EarnedInv, DeadLetterEarned, ReadCovered
  <1> QED
    BY <1>1, <1>2 DEF EarnedInv, ReadCovered

LEMMA ProgressEarned ==
    ASSUME EarnedInv, NEW i \in Instances, Progress(i)
    PROVE  EarnedInv'
  <1> DEFINE f == First(batch[i])
  <1>0. TypeOK /\ TypeOK'
    BY ProgressType DEF EarnedInv
  <1>a. pc[i] # "idle" => f \in Facts /\ outbox[f] \in Row
    BY <1>0, CurrentFact
  <1>b. {"idle", "claim", "fetch", "send", "mark", "fail"} = Stages
    BY DEF Stages, Working
  <1>1. CASE Poll(i)
    BY <1>0, <1>1, EarnedFrame DEF Poll, Goto, TypeOK, history
  <1>2. CASE Claim(i)
    BY <1>0, <1>2, <1>a, EarnedFrame DEF Claim, Goto, TypeOK, Row, history
  <1>3. CASE Skip(i)
    BY <1>0, <1>3, EarnedFrame DEF Skip, NextCandidate, Goto, TypeOK, history
  <1>4. CASE Fetch(i)
    BY <1>0, <1>4, <1>a, EarnedFrame DEF Fetch, Goto, TypeOK, history
  <1>5. CASE Send(i) \/ SendFails(i)
    BY <1>0, <1>5, EarnedFrame DEF Send, SendFails, Goto, TypeOK
  <1>6. CASE MarkPublished(i)
    BY <1>0, <1>6, <1>a, EarnedFrame DEF MarkPublished, Mark, NextCandidate, Goto, TypeOK, Row, history
  <1>7. CASE MarkFails(i)
    <2>1. f \in Facts /\ outbox[f] \in Row /\ outbox \in [Facts -> Row]
          /\ (outbox' = outbox \/ Mark(f))
      BY <1>0, <1>7, <1>a DEF MarkFails, TypeOK
    <2>1a. \A g \in Facts : /\ outbox'[g].attempts = outbox[g].attempts
                            /\ outbox'[g].dead = outbox[g].dead
      <3> DEFINE r == [outbox[f] EXCEPT !.published = TRUE, !.lock = "free"]
      <3>1. r.attempts = outbox[f].attempts /\ r.dead = outbox[f].dead
        BY <2>1 DEF Row
      <3>2. Mark(f) => outbox' = [outbox EXCEPT ![f] = r]
        BY DEF Mark
      <3> HIDE DEF r, f
      <3> QED
        BY <2>1, <3>1, <3>2
    <2> QED
      BY <1>0, <1>7, <2>1a, EarnedFrame DEF MarkFails, Goto, TypeOK
  <1>8. CASE RecordFailure(i)
    <2> DEFINE a == attemptsRead[i] + 1
    <2>1. /\ pc[i] = "fail" /\ f \in Facts /\ MaxAttempts \in Nat
          /\ attemptsRead[i] \in Nat /\ attemptsRead[i] <= failures[f]
          /\ \A g \in Facts : failures[g] \in Nat
      BY <1>8, <1>0, <1>a, OutboxAssumption DEF RecordFailure, EarnedInv, ReadCovered, TypeOK
    <2>2. failures' = [failures EXCEPT ![f] = @ + 1]
      BY <1>8 DEF RecordFailure
    <2>3. \A g \in Facts : failures[g] <= failures'[g]
      BY <1>0, <2>1, <2>2 DEF TypeOK
    <2>4. /\ outbox'[f].attempts = a /\ a <= failures'[f]
          /\ outbox'[f].dead => outbox[f].dead \/ a >= MaxAttempts
      BY <1>0, <1>8, <2>1, <2>2 DEF RecordFailure, GivesUp, TypeOK, Row
    <2>5. \A g \in Facts \ {f} : outbox'[g] = outbox[g]
      BY <1>0, <1>8 DEF RecordFailure, TypeOK
    <2>6. DeadLetterEarned'
      <3> SUFFICES ASSUME NEW g \in Facts
                   PROVE  /\ outbox'[g].attempts <= failures'[g]
                          /\ outbox'[g].dead => failures'[g] >= MaxAttempts
        BY DEF DeadLetterEarned
      <3>1. /\ failures[g] \in Nat /\ failures'[g] \in Nat /\ failures[g] <= failures'[g]
            /\ outbox[g].attempts \in Nat /\ outbox[g].attempts <= failures[g]
            /\ outbox[g].dead => failures[g] >= MaxAttempts
        BY <1>0, <2>3 DEF EarnedInv, DeadLetterEarned, TypeOK, Row
      <3>2. CASE g = f
        BY <2>1, <2>4, <3>1, <3>2
      <3>3. CASE g # f
        BY <2>1, <2>5, <3>1, <3>3
      <3> QED
        BY <3>2, <3>3
    <2>7. \A j \in Instances : ReadCovered(j)'
      <3> SUFFICES ASSUME NEW j \in Instances, pc'[j] \in {"send", "mark", "fail"}
                   PROVE  attemptsRead'[j] <= failures'[First(batch'[j])]
        BY DEF ReadCovered
      <3>1. j # i /\ pc'[j] = pc[j] /\ batch'[j] = batch[j] /\ attemptsRead'[j] = attemptsRead[j]
        BY <1>0, <1>8 DEF RecordFailure, NextCandidate, Goto, TypeOK
      <3>2. First(batch[j]) \in Facts
        BY <1>0, <3>1, CurrentFact
      <3>3. attemptsRead[j] <= failures[First(batch[j])] /\ attemptsRead[j] \in Nat
        BY <1>0, <3>1 DEF EarnedInv, ReadCovered, TypeOK
      <3>4. failures'[First(batch[j])] \in Nat
        BY <1>0, <3>2 DEF TypeOK
      <3> QED
        BY <2>1, <2>3, <3>1, <3>2, <3>3, <3>4
    <2> QED
      BY <1>0, <2>6, <2>7 DEF EarnedInv
  <1> QED
    BY <1>1, <1>2, <1>3, <1>4, <1>5, <1>6, <1>7, <1>8 DEF Progress

LEMMA NextEarned == EarnedInv /\ [Next]_vars => EarnedInv'
  <1> SUFFICES ASSUME EarnedInv, [Next]_vars PROVE EarnedInv'
    OBVIOUS
  <1>0. TypeOK /\ TypeOK'
    BY NextType DEF EarnedInv
  <1>1. CASE UNCHANGED vars
    BY <1>1 DEF EarnedInv, TypeOK, DeadLetterEarned, ReadCovered, vars, local, history
  <1>2. ASSUME NEW i \in Instances, Progress(i) PROVE EarnedInv'
    BY <1>2, ProgressEarned
  <1>3. ASSUME NEW i \in Instances, Crash(i) PROVE EarnedInv'
    BY <1>0, <1>3, EarnedFrame DEF Crash, Goto, TypeOK, history
  <1>4. ASSUME NEW f \in Facts,
               Enqueue(f) \/ BackoffEnds(f) \/ LeaseExpires(f) \/ LeaseExpiresEarly(f)
        PROVE  EarnedInv'
    <2>1. failures' = failures /\ UNCHANGED local
      BY <1>4 DEF Enqueue, BackoffEnds, LeaseExpires, LeaseExpiresEarly, StaleLock, history
    <2>1a. outbox \in [Facts -> Row]
      BY <1>0 DEF TypeOK
    <2>2. \A g \in Facts : /\ outbox'[g].attempts = outbox[g].attempts
                           /\ outbox'[g].dead = outbox[g].dead
      <3>1. CASE Enqueue(f)
        BY <2>1a, <3>1 DEF Enqueue, Row
      <3>2. CASE BackoffEnds(f)
        BY <2>1a, <3>2 DEF BackoffEnds, Row
      <3>3. CASE LeaseExpires(f) \/ LeaseExpiresEarly(f)
        BY <2>1a, <3>3 DEF LeaseExpires, LeaseExpiresEarly, StaleLock, Row
      <3> QED
        BY <1>4, <3>1, <3>2, <3>3
    <2> QED
      BY <1>0, <2>1, <2>2, EarnedFrame DEF local
  <1> QED
    BY <1>1, <1>2, <1>3, <1>4 DEF Next

(* A fact is dead-lettered only after MaxAttempts failed attempts to       *)
(* publish it, whatever publishers with expired leases write.              *)
THEOREM DeadLettersEarned == Spec => []DeadLetterEarned
  <1>1. EarnedInv => DeadLetterEarned
    BY DEF EarnedInv
  <1> QED
    BY InitEarned, NextEarned, <1>1, PTL DEF Spec

-------------------------------------------------------------------------------
(* The lease.  With the lock of a row counted as a permission to work on   *)
(* it, an expiry during work is what lets one more publisher in.  A mark   *)
(* without an answer frees the lock of a row that is still worked on, but  *)
(* a published row is not claimed again.                                   *)

Barred(f) == outbox[f].lock = "held" \/ outbox[f].published

LeaseInv(f) == Cardinality(Workers(f)) <= early[f] + (IF Barred(f) THEN 1 ELSE 0)

(* Without such an expiry there is a single publisher, it holds the lock   *)
(* or has set publishedAt unawares, and it has read the attempts of its    *)
(* row as they still are.                                                  *)
SoleInv(f) == early[f] = 0 =>
    /\ outbox[f].attempts = failures[f]
    /\ failures[f] <= MaxAttempts
    /\ outbox[f].dead \/ failures[f] < MaxAttempts
    /\ outbox[f].published /\ outbox[f].dead => f \in unanswered
    /\ \A i \in Workers(f) :
         /\ Barred(f) /\ ~outbox[f].dead
         /\ outbox[f].published => f \in unanswered
         /\ pc[i] # "fetch" => attemptsRead[i] = failures[f]
         /\ \A j \in Workers(f) : i = j

LEMMA WorkersFinite ==
    ASSUME NEW f
    PROVE  IsFiniteSet(Workers(f)) /\ Cardinality(Workers(f)) \in Nat
  BY OutboxAssumption, FS_Subset, FS_CardinalityType DEF Workers

LEMMA InitLease ==
    ASSUME Init, NEW f \in Facts
    PROVE  LeaseInv(f) /\ SoleInv(f)
  <1>1. Workers(f) = {}
    BY DEF Init, Workers, WorksOn, Working
  <1>2. early[f] = 0 /\ failures[f] = 0 /\ outbox[f] = NewRow
    BY DEF Init
  <1> QED
    BY <1>1, <1>2, FS_EmptySet, OutboxAssumption DEF LeaseInv, SoleInv, Barred, NewRow

(* How a step of publisher i changes who works on what. *)
LEMMA ProgressWorkers ==
    ASSUME TypeOK, NEW i \in Instances, Progress(i) \/ Crash(i), NEW f \in Facts
    PROVE  /\ Claim(i) /\ f = First(batch[i]) => Workers(f)' = Workers(f) \cup {i}
           /\ (MarkPublished(i) \/ RecordFailure(i)) /\ f = First(batch[i]) =>
                i \in Workers(f) /\ Workers(f)' = Workers(f) \ {i}
           /\ Workers(f)' \subseteq Workers(f) \/ (Claim(i) /\ f = First(batch[i]))
  <1>1. \A j \in Instances \ {i} : pc'[j] = pc[j] /\ batch'[j] = batch[j]
    BY DEF TypeOK, Progress, Crash, Poll, Claim, Skip, Fetch, Send, SendFails, MarkPublished,
           MarkFails, RecordFailure, NextCandidate, Goto
  <1>2. Claim(i) => pc'[i] = "fetch" /\ batch'[i] = batch[i]
    BY DEF TypeOK, Claim, Goto
  <1>3. Poll(i) \/ Skip(i) \/ MarkPublished(i) \/ RecordFailure(i) \/ Crash(i) =>
            pc'[i] \in {"idle", "claim"}
    BY DEF TypeOK, Poll, Skip, MarkPublished, RecordFailure, NextCandidate, Crash, Goto
  <1>4. Fetch(i) \/ Send(i) \/ SendFails(i) \/ MarkFails(i) =>
            pc[i] \in Working /\ batch'[i] = batch[i]
    BY DEF TypeOK, Fetch, Send, SendFails, MarkFails, Working
  <1>5. MarkPublished(i) \/ RecordFailure(i) => pc[i] \in Working
    BY DEF MarkPublished, RecordFailure, Working
  <1> QED
    BY <1>1, <1>2, <1>3, <1>4, <1>5 DEF Progress, Workers, WorksOn, Working

(* What a step of a publisher does to one row. *)
LEMMA ProgressRow ==
    ASSUME TypeOK, NEW i \in Instances, Progress(i) \/ Crash(i), NEW f \in Facts
    PROVE  /\ early'[f] = early[f] /\ early[f] \in Nat
           /\ \/ outbox'[f] = outbox[f] /\ ~(Claim(i) /\ f = First(batch[i]))
              \/ /\ Claim(i) /\ f = First(batch[i]) /\ Claimable(f)
                 /\ outbox'[f] = [outbox[f] EXCEPT !.lock = "held"]
              \/ /\ MarkPublished(i) /\ f = First(batch[i])
                 /\ outbox'[f].attempts = outbox[f].attempts
                 /\ outbox'[f].dead = outbox[f].dead
              \/ /\ MarkFails(i) /\ f = First(batch[i]) /\ pc[i] = "mark"
                 /\ outbox'[f].attempts = outbox[f].attempts
                 /\ outbox'[f].dead = outbox[f].dead
                 /\ outbox'[f].published /\ f \in unanswered' /\ ~Claim(i)
              \/ /\ RecordFailure(i) /\ f = First(batch[i])
                 /\ outbox'[f].published = outbox[f].published
           /\ unanswered \subseteq unanswered'
           /\ ~(RecordFailure(i) /\ f = First(batch[i])) => failures'[f] = failures[f]
  <1> DEFINE g == First(batch[i])
  <1>0. pc[i] # "idle" => g \in Facts /\ outbox[g] \in Row
    BY CurrentFact
  <1>1. CASE Claim(i)
    BY <1>0, <1>1 DEF Claim, TypeOK, history
  <1>2. CASE MarkPublished(i)
    <2>1. outbox' = [outbox EXCEPT ![g] = [@ EXCEPT !.published = TRUE, !.lock = "free"]]
      BY <1>2 DEF MarkPublished, Mark
    <2>2. CASE f = g
      BY <1>0, <1>2, <2>1, <2>2 DEF MarkPublished, TypeOK, Row, history
    <2>3. CASE f # g
      BY <1>2, <2>1, <2>3 DEF MarkPublished, Claim, TypeOK, history
    <2> QED
      BY <2>2, <2>3
  <1>3. CASE RecordFailure(i)
    <2>1. f # g => outbox'[f] = outbox[f] /\ failures'[f] = failures[f]
      BY <1>3 DEF RecordFailure, TypeOK
    <2>2. f = g => outbox'[f].published = outbox[f].published
      BY <1>0, <1>3 DEF RecordFailure, TypeOK, Row
    <2> QED
      BY <1>3, <2>1, <2>2 DEF RecordFailure, Claim, TypeOK
  <1>5. CASE MarkFails(i) /\ outbox' # outbox
    <2>1. /\ outbox' = [outbox EXCEPT ![g] = [@ EXCEPT !.published = TRUE, !.lock = "free"]]
          /\ unanswered' = unanswered \cup {g} /\ pc[i] = "mark" /\ ~Claim(i) /\ ~RecordFailure(i)
          /\ early' = early /\ failures' = failures
      BY <1>5 DEF MarkFails, Mark, Claim, RecordFailure
    <2>2. CASE f = g
      <3>1. /\ outbox'[f].attempts = outbox[f].attempts /\ outbox'[f].dead = outbox[f].dead
            /\ outbox'[f].published
        BY <1>0, <2>1, <2>2 DEF TypeOK, Row
      <3> QED
        BY <1>5, <2>1, <2>2, <3>1 DEF TypeOK
    <2>3. CASE f # g
      BY <2>1, <2>3 DEF TypeOK
    <2> QED
      BY <2>2, <2>3
  <1>4. CASE \/ Poll(i) \/ Skip(i) \/ Fetch(i) \/ Send(i) \/ SendFails(i) \/ Crash(i)
             \/ MarkFails(i) /\ outbox' = outbox
    <2>1. outbox' = outbox /\ early' = early /\ failures' = failures /\ unanswered \subseteq unanswered'
      BY <1>4 DEF Poll, Skip, Fetch, Send, SendFails, MarkFails, Crash, history
    <2>2. ~(Claim(i) /\ f = g)
      <3> SUFFICES ASSUME Claim(i), f = g PROVE FALSE
        OBVIOUS
      <3>1. pc[i] = "claim" /\ Claimable(f) /\ pc'[i] = "fetch"
        BY DEF Claim, Goto, TypeOK
      <3> QED
        BY <1>4, <3>1 DEF Poll, Skip, Fetch, Send, SendFails, MarkFails, Crash, NextCandidate,
                          Goto, TypeOK
    <2> QED
      BY <2>1, <2>2 DEF TypeOK
  <1> QED
    BY <1>1, <1>2, <1>3, <1>4, <1>5 DEF Progress

LEMMA ProgressLease ==
    ASSUME TypeOK, NEW i \in Instances, Progress(i) \/ Crash(i), NEW f \in Facts, LeaseInv(f)
    PROVE  LeaseInv(f)'
  <1> DEFINE mine == f = First(batch[i])
             n    == Cardinality(Workers(f))
             m    == Cardinality(Workers(f)')
  <1>1. /\ n \in Nat /\ m \in Nat /\ IsFiniteSet(Workers(f)) /\ IsFiniteSet(Workers(f)')
        /\ early'[f] = early[f] /\ early[f] \in Nat
    <2>1. Workers(f)' \in SUBSET Instances
      BY DEF Workers
    <2>2. IsFiniteSet(Workers(f)') /\ m \in Nat
      BY <2>1, OutboxAssumption, FS_Subset, FS_CardinalityType
    <2> QED
      BY <2>2, WorkersFinite, ProgressRow
  <1>2. CASE Claim(i) /\ mine
    <2>1. ~Barred(f) /\ Barred(f)'
      BY <1>2 DEF Claim, Claimable, Barred, TypeOK, Row
    <2>2. m <= n + 1
      BY <1>1, <1>2, ProgressWorkers, FS_AddElement
    <2> QED
      BY <1>1, <2>1, <2>2 DEF LeaseInv
  <1>3. CASE (MarkPublished(i) \/ RecordFailure(i)) /\ mine
    <2>1. i \in Workers(f) /\ Workers(f)' = Workers(f) \ {i}
      BY <1>3, ProgressWorkers
    <2>2. m = n - 1
      BY <1>1, <2>1, FS_RemoveElement
    <2> QED
      BY <1>1, <2>2 DEF LeaseInv
  <1>4. CASE outbox'[f] = outbox[f] /\ ~(Claim(i) /\ mine)
    <2>1. Workers(f)' \subseteq Workers(f)
      BY <1>4, ProgressWorkers
    <2>2. m <= n
      BY <1>1, <2>1, FS_Subset
    <2> QED
      BY <1>1, <1>4, <2>2 DEF LeaseInv, Barred
  <1>5. CASE MarkFails(i) /\ mine /\ outbox'[f].published /\ ~Claim(i)
    <2>1. Workers(f)' \subseteq Workers(f)
      BY <1>5, ProgressWorkers
    <2>2. m <= n
      BY <1>1, <2>1, FS_Subset
    <2> QED
      BY <1>1, <1>5, <2>2 DEF LeaseInv, Barred
  <1> QED
    BY <1>2, <1>3, <1>4, <1>5, ProgressRow

LEMMA ProgressSole ==
    ASSUME TypeOK, NEW i \in Instances, Progress(i) \/ Crash(i), NEW f \in Facts, SoleInv(f)
    PROVE  SoleInv(f)'
  <1> DEFINE mine == f = First(batch[i])
  <1> SUFFICES ASSUME early'[f] = 0
               PROVE  SoleInv(f)'
    BY DEF SoleInv
  <1>0. /\ early[f] = 0 /\ MaxAttempts \in Nat /\ outbox[f] \in Row
        /\ failures[f] \in Nat
    BY ProgressRow, OutboxAssumption DEF TypeOK
  <1>1. CASE Claim(i) /\ mine
    <2>1. /\ outbox[f].lock # "held" /\ ~outbox[f].dead /\ ~outbox[f].published
          /\ outbox'[f] = [outbox[f] EXCEPT !.lock = "held"]
          /\ pc'[i] = "fetch" /\ failures'[f] = failures[f]
      BY <1>1 DEF Claim, Claimable, TypeOK, Goto, history
    <2>2. Workers(f) = {}
      BY <1>0, <2>1 DEF SoleInv, Barred
    <2>3. Workers(f)' = {i}
      BY <1>1, <2>2, ProgressWorkers
    <2>4. /\ outbox'[f].lock = "held" /\ outbox'[f].dead = outbox[f].dead
          /\ outbox'[f].published = outbox[f].published
          /\ outbox'[f].attempts = outbox[f].attempts
      BY <1>0, <2>1 DEF Row
    <2> QED
      BY <1>0, <2>1, <2>3, <2>4 DEF SoleInv, Barred
  <1>2. CASE MarkPublished(i) /\ mine
    <2>1. i \in Workers(f) /\ Workers(f)' = Workers(f) \ {i}
      BY <1>2, ProgressWorkers
    <2>2. Workers(f)' = {} /\ ~outbox[f].dead
      BY <1>0, <2>1 DEF SoleInv
    <2>3. /\ outbox'[f].attempts = outbox[f].attempts /\ outbox'[f].dead = outbox[f].dead
          /\ failures'[f] = failures[f]
      BY <1>2, <1>0, CurrentFact DEF MarkPublished, Mark, TypeOK, Row, history
    <2> QED
      BY <1>0, <2>2, <2>3 DEF SoleInv
  <1>3. CASE RecordFailure(i) /\ mine
    <2> DEFINE a == attemptsRead[i] + 1
    <2>1. i \in Workers(f) /\ Workers(f)' = Workers(f) \ {i} /\ pc[i] = "fail"
      BY <1>3, ProgressWorkers DEF RecordFailure
    <2>2. /\ Workers(f)' = {} /\ attemptsRead[i] = failures[f] /\ failures[f] < MaxAttempts
          /\ outbox[f].published => f \in unanswered
      BY <1>0, <2>1 DEF SoleInv
    <2>2a. unanswered \subseteq unanswered'
      BY ProgressRow
    <2>3. failures'[f] = a
      BY <1>3, <2>2 DEF RecordFailure, TypeOK
    <2>4. /\ outbox'[f].attempts = a /\ (a >= MaxAttempts => outbox'[f].dead)
          /\ outbox'[f].published = outbox[f].published
      BY <1>0, <1>3 DEF RecordFailure, GivesUp, TypeOK, Row
    <2>5. a <= MaxAttempts /\ (a >= MaxAttempts \/ a < MaxAttempts)
      BY <1>0, <2>2
    <2> QED
      BY <2>2, <2>2a, <2>3, <2>4, <2>5 DEF SoleInv
  <1>4. CASE /\ ~(Claim(i) /\ mine) /\ ~(RecordFailure(i) /\ mine)
             /\ \/ outbox'[f] = outbox[f]
                \/ /\ outbox'[f].attempts = outbox[f].attempts
                   /\ outbox'[f].dead = outbox[f].dead
                   /\ outbox'[f].published /\ f \in unanswered'
    <2>1. Workers(f)' \subseteq Workers(f) /\ failures'[f] = failures[f]
      BY <1>4, ProgressWorkers, ProgressRow
    <2>1a. unanswered \subseteq unanswered'
      BY ProgressRow
    <2>2. ASSUME NEW j \in Workers(f)', pc'[j] # "fetch"
          PROVE  attemptsRead'[j] = failures[f]
      <3>1. j \in Instances /\ j \in Workers(f)
        BY <2>1 DEF Workers
      <3>2. pc[j] # "fetch" => attemptsRead[j] = failures[f]
        BY <1>0, <3>1 DEF SoleInv
      <3>3. outbox[f].attempts = failures[f]
        BY <1>0 DEF SoleInv
      <3>4. pc[j] \in Working /\ f = First(batch[j]) /\ pc'[j] \in Working
        BY <2>2, <3>1 DEF Workers, WorksOn
      <3> QED
        BY <2>2, <3>1, <3>2, <3>3, <3>4
        DEF TypeOK, Progress, Crash, Poll, Claim, Skip, Fetch, Send, SendFails, MarkPublished,
            MarkFails, RecordFailure, NextCandidate, Goto, Working
    <2>3. /\ outbox'[f].attempts = outbox[f].attempts /\ outbox'[f].dead = outbox[f].dead
          /\ outbox'[f].published => outbox[f].published \/ f \in unanswered'
          /\ Barred(f) => Barred(f)'
      BY <1>4 DEF Barred
    <2> QED
      BY <1>0, <2>1, <2>1a, <2>2, <2>3 DEF SoleInv
  <1>5. CASE MarkFails(i) /\ mine /\ pc[i] = "mark"
    <2>1. ~RecordFailure(i) /\ ~Claim(i)
      BY <1>5 DEF RecordFailure, Claim
    <2> QED
      BY <1>2, <1>4, <1>5, <2>1, ProgressRow
  <1> QED
    BY <1>1, <1>2, <1>3, <1>4, <1>5, ProgressRow

(* Time, and the commit of a fact. *)
LEMMA RowStepLease ==
    ASSUME TypeOK, NEW g \in Facts,
           Enqueue(g) \/ BackoffEnds(g) \/ LeaseExpires(g) \/ LeaseExpiresEarly(g),
           NEW f \in Facts, LeaseInv(f), SoleInv(f)
    PROVE  LeaseInv(f)' /\ SoleInv(f)'
  <1>1. /\ Workers(f)' = Workers(f) /\ pc' = pc /\ attemptsRead' = attemptsRead
        /\ failures' = failures /\ unanswered' = unanswered
    BY DEF Enqueue, BackoffEnds, LeaseExpires, LeaseExpiresEarly, StaleLock, local, history,
           Workers, WorksOn
  <1>2. /\ outbox'[f].attempts = outbox[f].attempts /\ outbox'[f].dead = outbox[f].dead
        /\ outbox'[f].published = outbox[f].published /\ early[f] \in Nat
    <2>1. f # g => outbox'[f] = outbox[f]
      BY DEF Enqueue, BackoffEnds, LeaseExpires, LeaseExpiresEarly, StaleLock, TypeOK
    <2>2. f = g => outbox'[f] \in {[outbox[f] EXCEPT !.exists = TRUE],
                                   [outbox[f] EXCEPT !.due = TRUE],
                                   [outbox[f] EXCEPT !.lock = "stale"]}
      BY DEF Enqueue, BackoffEnds, LeaseExpires, LeaseExpiresEarly, StaleLock, TypeOK
    <2>3. outbox[f] \in Row /\ early[f] \in Nat
      BY DEF TypeOK
    <2> QED
      BY <2>1, <2>2, <2>3 DEF Row
  <1>3. Cardinality(Workers(f)) \in Nat
    BY WorkersFinite
  <1>4. CASE outbox'[f].lock = outbox[f].lock /\ early'[f] = early[f]
    BY <1>1, <1>2, <1>4 DEF LeaseInv, SoleInv, Barred
  <1>5. CASE LeaseExpires(f)
    <2>1. Workers(f) = {} /\ early'[f] = early[f]
      BY <1>5 DEF LeaseExpires
    <2>2. Cardinality(Workers(f)) = 0
      BY <2>1, FS_EmptySet
    <2>3. LeaseInv(f)'
      BY <1>1, <1>2, <2>1, <2>2 DEF LeaseInv, Barred
    <2>4. SoleInv(f)'
      BY <1>1, <1>2, <2>1 DEF SoleInv
    <2> QED
      BY <2>3, <2>4
  <1>6. CASE LeaseExpiresEarly(f)
    <2>1. early'[f] = early[f] + 1
      BY <1>6 DEF LeaseExpiresEarly, TypeOK
    <2>2. LeaseInv(f)'
      BY <1>1, <1>2, <1>3, <2>1 DEF LeaseInv, Barred
    <2> QED
      BY <1>2, <2>1, <2>2 DEF SoleInv
  <1>7. CASE Enqueue(g) \/ BackoffEnds(g) \/ f # g
    BY <1>4, <1>7 DEF Enqueue, BackoffEnds, LeaseExpires, LeaseExpiresEarly, StaleLock, TypeOK,
                      Row, history
  <1> QED
    BY <1>5, <1>6, <1>7

LeaseInvs == TypeOK /\ \A f \in Facts : LeaseInv(f) /\ SoleInv(f)

LEMMA NextLease == LeaseInvs /\ [Next]_vars => LeaseInvs'
  <1> SUFFICES ASSUME LeaseInvs, [Next]_vars, NEW f \in Facts PROVE LeaseInv(f)' /\ SoleInv(f)'
    BY NextType DEF LeaseInvs
  <1>0. TypeOK /\ LeaseInv(f) /\ SoleInv(f)
    BY DEF LeaseInvs
  <1>1. CASE UNCHANGED vars
    BY <1>0, <1>1 DEF LeaseInv, SoleInv, Barred, Workers, WorksOn, vars, local, history
  <1>2. ASSUME NEW i \in Instances, Progress(i) \/ Crash(i) PROVE LeaseInv(f)' /\ SoleInv(f)'
    BY <1>0, <1>2, ProgressLease, ProgressSole
  <1>3. ASSUME NEW g \in Facts,
               Enqueue(g) \/ BackoffEnds(g) \/ LeaseExpires(g) \/ LeaseExpiresEarly(g)
        PROVE  LeaseInv(f)' /\ SoleInv(f)'
    BY <1>0, <1>3, RowStepLease
  <1> QED
    BY <1>1, <1>2, <1>3 DEF Next

LEMMA AlwaysLease == Spec => []LeaseInvs
  <1>1. Init => LeaseInvs
    BY InitType, InitLease DEF LeaseInvs
  <1> QED
    BY <1>1, NextLease, PTL DEF Spec

(* The lease keeps publishers apart: each further one on the same fact is  *)
(* owed to a lease that expired during work on it.                         *)
THEOREM OverlapEarned == Spec => []OverlapNeedsExpiry
  <1>1. LeaseInvs => OverlapNeedsExpiry
    <2> SUFFICES ASSUME LeaseInvs, NEW f \in Facts
                 PROVE  Cardinality(Workers(f)) <= 1 + early[f]
      BY DEF OverlapNeedsExpiry
    <2>1. early[f] \in Nat /\ LeaseInv(f) /\ Cardinality(Workers(f)) \in Nat
      BY WorkersFinite DEF LeaseInvs, TypeOK
    <2> QED
      BY <2>1 DEF LeaseInv
  <1> QED
    BY <1>1, AlwaysLease, PTL

(* The attempts of a row are exact, and bounded, unless a lease of it      *)
(* expired during work.                                                    *)
THEOREM AttemptsAreExact == Spec => []AttemptsExact
  <1>1. LeaseInvs => AttemptsExact
    BY DEF LeaseInvs, SoleInv, AttemptsExact
  <1> QED
    BY <1>1, AlwaysLease, PTL

(* A row that is published and dead-lettered had two publishers, one of    *)
(* them past its lease, or a mark that committed without an answer.        *)
THEOREM SettlesOneWay == Spec => []SettledOneWay
  <1>1. LeaseInvs => SettledOneWay
    <2> SUFFICES ASSUME LeaseInvs, NEW f \in Facts, early[f] = 0,
                        outbox[f].published /\ outbox[f].dead
                 PROVE  f \in unanswered
      BY DEF SettledOneWay, LeaseInvs, TypeOK
    <2> QED
      BY DEF LeaseInvs, SoleInv
  <1> QED
    BY <1>1, AlwaysLease, PTL

-------------------------------------------------------------------------------
(* The outbox implements FactDelivery. *)

(* What is about to be marked has been delivered. *)
MarkAfterDelivery == \A i \in Instances : pc[i] = "mark" => First(batch[i]) \in delivered

DeliveryInv == TypeOK /\ MarkAfterDelivery

LEMMA InitDelivery == Init => DeliveryInv
  BY InitType DEF Init, DeliveryInv, MarkAfterDelivery

LEMMA NextDelivery == DeliveryInv /\ [Next]_vars => DeliveryInv'
  <1> SUFFICES ASSUME DeliveryInv, [Next]_vars PROVE MarkAfterDelivery'
    BY NextType DEF DeliveryInv
  <1>0. TypeOK
    BY DEF DeliveryInv
  <1>1. CASE UNCHANGED vars
    BY <1>1 DEF DeliveryInv, MarkAfterDelivery, vars, local, history
  <1>2. ASSUME NEW i \in Instances, Progress(i) PROVE MarkAfterDelivery'
    BY <1>0, <1>2 DEF DeliveryInv, MarkAfterDelivery, Progress, Poll, Claim, Skip, Fetch, Send,
         SendFails, MarkPublished, MarkFails, RecordFailure, NextCandidate, Goto, TypeOK, history
  <1>3. ASSUME NEW i \in Instances, Crash(i) PROVE MarkAfterDelivery'
    BY <1>0, <1>3 DEF DeliveryInv, MarkAfterDelivery, Crash, Goto, TypeOK, history
  <1>4. ASSUME NEW f \in Facts,
               Enqueue(f) \/ BackoffEnds(f) \/ LeaseExpires(f) \/ LeaseExpiresEarly(f)
        PROVE  MarkAfterDelivery'
    BY <1>4 DEF DeliveryInv, MarkAfterDelivery, Enqueue, BackoffEnds, LeaseExpires,
                LeaseExpiresEarly, StaleLock, local, history
  <1> QED
    BY <1>1, <1>2, <1>3, <1>4 DEF Next

(* A step on one row, seen by FactDelivery: its fact is recorded,          *)
(* published, dead or none of these for the first time.                    *)
LEMMA RowView ==
    ASSUME TypeOK, NEW f \in Facts, NEW r,
           outbox' = [outbox EXCEPT ![f] = r],
           r.exists \in BOOLEAN, r.published \in BOOLEAN, r.dead \in BOOLEAN,
           outbox[f].exists => r.exists, outbox[f].published => r.published,
           outbox[f].dead => r.dead
    PROVE  /\ {g \in Facts : outbox'[g].exists} =
                {g \in Facts : outbox[g].exists} \cup (IF r.exists THEN {f} ELSE {})
           /\ {g \in Facts : outbox'[g].published} =
                {g \in Facts : outbox[g].published} \cup (IF r.published THEN {f} ELSE {})
           /\ {g \in Facts : outbox'[g].dead} =
                {g \in Facts : outbox[g].dead} \cup (IF r.dead THEN {f} ELSE {})
  BY DEF TypeOK

(* Rows that are written in other respects look the same. *)
LEMMA SameView ==
    ASSUME \A g \in Facts : /\ outbox'[g].exists = outbox[g].exists
                            /\ outbox'[g].published = outbox[g].published
                            /\ outbox'[g].dead = outbox[g].dead,
           delivered' = delivered
    PROVE  UNCHANGED Delivery!vars
  BY DEF Delivery!vars

LEMMA DeliveryStep ==
    ASSUME NEW f \in Facts,
           \/ Delivery!Record(f)  \/ Delivery!Deliver(f)
           \/ Delivery!Publish(f) \/ Delivery!GiveUp(f)
    PROVE  Delivery!Next
  BY DEF Delivery!Next

LEMMA StepRefines == DeliveryInv /\ [Next]_vars => [Delivery!Next]_(Delivery!vars)
  <1> SUFFICES ASSUME DeliveryInv, [Next]_vars PROVE Delivery!Next \/ UNCHANGED Delivery!vars
    OBVIOUS
  <1>0. TypeOK
    BY DEF DeliveryInv
  <1>1. CASE UNCHANGED vars
    BY <1>1 DEF vars, history, Delivery!vars
  <1>2. ASSUME NEW i \in Instances, Progress(i)
        PROVE  Delivery!Next \/ UNCHANGED Delivery!vars
    <2> DEFINE f == First(batch[i])
    <2>0. pc[i] # "idle" => f \in Facts /\ outbox[f] \in Row /\ outbox[f].exists
      BY <1>0, CurrentFact
    <2>1. CASE Poll(i) \/ Skip(i) \/ Fetch(i)
      BY <2>1, SameView DEF Poll, Skip, Fetch, history
    <2>2. CASE Claim(i)
      BY <1>0, <2>0, <2>2, SameView DEF Claim, TypeOK, Row, history
    <2>3. CASE Send(i) \/ SendFails(i)
      <3>1. f \in Facts /\ outbox[f].exists /\ outbox' = outbox
        BY <2>0, <2>3 DEF Send, SendFails
      <3>2. CASE delivered' = delivered
        BY <3>1, <3>2, SameView
      <3>3. CASE delivered' = delivered \cup {f}
        <4>1. PICK c \in Facts : c = f
          BY <3>1
        <4>2. Delivery!Deliver(c)
          BY <3>1, <3>3, <4>1 DEF Delivery!Deliver
        <4> QED
          BY <4>2, DeliveryStep
      <3> QED
        BY <2>3, <3>2, <3>3 DEF Send, SendFails
    <2>4. CASE pc[i] = "mark" /\ Mark(f) /\ delivered' = delivered
      <3> DEFINE r == [outbox[f] EXCEPT !.published = TRUE, !.lock = "free"]
      <3>1. /\ f \in Facts /\ f \in delivered /\ delivered' = delivered
            /\ outbox' = [outbox EXCEPT ![f] = r]
        BY <2>0, <2>4 DEF Mark, DeliveryInv, MarkAfterDelivery
      <3>2. /\ r.exists = TRUE /\ outbox[f].exists = TRUE /\ r.published = TRUE
            /\ r.dead = outbox[f].dead /\ r.dead \in BOOLEAN
        BY <2>0, <2>4 DEF Row
      <3>2a. PICK c \in Facts : c = f
        BY <3>1
      <3>3. Delivery!Publish(c)
        <4> HIDE DEF r
        <4>1. /\ {g \in Facts : outbox'[g].exists} = {g \in Facts : outbox[g].exists}
              /\ {g \in Facts : outbox'[g].dead} = {g \in Facts : outbox[g].dead}
              /\ {g \in Facts : outbox'[g].published} =
                   {g \in Facts : outbox[g].published} \cup {f}
          BY <1>0, <3>1, <3>2, RowView
        <4> QED
          BY <3>1, <3>2a, <4>1 DEF Delivery!Publish
      <3> QED
        BY <3>3, DeliveryStep
    <2>6. CASE MarkPublished(i) \/ MarkFails(i)
      BY <2>4, <2>6, SameView DEF MarkPublished, MarkFails, history
    <2>5. CASE RecordFailure(i)
      <3>1. /\ f \in Facts /\ outbox[f].exists = TRUE /\ delivered' = delivered
        BY <2>0, <2>5 DEF RecordFailure, Row
      <3>2. CASE attemptsRead[i] + 1 >= MaxAttempts
        <4> DEFINE r == [outbox[f] EXCEPT !.attempts = attemptsRead[i] + 1, !.lock = "free",
                                          !.dead = TRUE]
        <4>1. outbox' = [outbox EXCEPT ![f] = r]
          BY <2>5, <3>2 DEF RecordFailure, GivesUp
        <4>2. /\ r.exists = TRUE /\ r.published = outbox[f].published /\ r.dead = TRUE
              /\ r.published \in BOOLEAN
          BY <2>0, <2>5 DEF RecordFailure, Row
        <4>2a. PICK c \in Facts : c = f
          BY <3>1
        <4>3. Delivery!GiveUp(c)
          <5> HIDE DEF r
          <5>1. /\ {g \in Facts : outbox'[g].exists} = {g \in Facts : outbox[g].exists}
                /\ {g \in Facts : outbox'[g].published} = {g \in Facts : outbox[g].published}
                /\ {g \in Facts : outbox'[g].dead} = {g \in Facts : outbox[g].dead} \cup {f}
            BY <1>0, <3>1, <4>1, <4>2, RowView
          <5> QED
            BY <3>1, <4>2a, <5>1 DEF Delivery!GiveUp
        <4> QED
          BY <4>3, DeliveryStep
      <3>3. CASE ~(attemptsRead[i] + 1 >= MaxAttempts)
        BY <1>0, <2>0, <2>5, <3>1, <3>3, SameView DEF RecordFailure, GivesUp, TypeOK, Row
      <3> QED
        BY <3>2, <3>3
    <2> QED
      BY <1>2, <2>1, <2>2, <2>3, <2>5, <2>6 DEF Progress
  <1>3. ASSUME NEW i \in Instances, Crash(i)
        PROVE  UNCHANGED Delivery!vars
    BY <1>3, SameView DEF Crash, history
  <1>4. ASSUME NEW f \in Facts, Enqueue(f)
        PROVE  Delivery!Next
    <2> DEFINE r == [outbox[f] EXCEPT !.exists = TRUE]
    <2>1. outbox' = [outbox EXCEPT ![f] = r] /\ delivered' = delivered
      BY <1>4 DEF Enqueue, history
    <2>2. /\ r.exists = TRUE /\ r.published = outbox[f].published /\ r.dead = outbox[f].dead
          /\ r.published \in BOOLEAN /\ r.dead \in BOOLEAN
      BY <1>0 DEF TypeOK, Row
    <2>3. Delivery!Record(f)
      <3> HIDE DEF r
      <3>1. /\ {g \in Facts : outbox'[g].exists} = {g \in Facts : outbox[g].exists} \cup {f}
            /\ {g \in Facts : outbox'[g].published} = {g \in Facts : outbox[g].published}
            /\ {g \in Facts : outbox'[g].dead} = {g \in Facts : outbox[g].dead}
        BY <1>0, <2>1, <2>2, RowView
      <3> QED
        BY <2>1, <3>1 DEF Delivery!Record
    <2> QED
      BY <2>3, DeliveryStep
  <1>5. ASSUME NEW f \in Facts, BackoffEnds(f) \/ LeaseExpires(f) \/ LeaseExpiresEarly(f)
        PROVE  UNCHANGED Delivery!vars
    BY <1>0, <1>5, SameView DEF BackoffEnds, LeaseExpires, LeaseExpiresEarly, StaleLock,
                                TypeOK, Row, history
  <1> QED
    BY <1>1, <1>2, <1>3, <1>4, <1>5 DEF Next

(* The outbox implements FactDelivery: only recorded facts are sent, only  *)
(* sent facts are marked as published, and no step takes any of it back.   *)
THEOREM OutboxDelivers == Spec => ImplementsDelivery
  <1>1. Init => Delivery!Init
    BY DEF Init, NewRow, Delivery!Init
  <1> QED
    BY <1>1, InitDelivery, NextDelivery, StepRefines, PTL
    DEF Spec, ImplementsDelivery, Delivery!Spec
===============================================================================
