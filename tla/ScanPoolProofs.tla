---------------------------- MODULE ScanPoolProofs ----------------------------
(* Theorems of ScanPool for any number of scans, writers, other queries,   *)
(* tickets and connections.                                                *)
EXTENDS ScanPool, FiniteSetTheorems, WellFoundedInduction, TLAPS

-------------------------------------------------------------------------------
(* TypeOK without the count of connections. *)
Fields ==
    /\ idle   \in Nat
    /\ queue  \in Seq(Requests \cup Queries \cup {Nobody})
    /\ pc     \in [Requests -> Stages]
    /\ tx     \in [Requests -> {"none", "open", "expired"}]
    /\ ticket \in [Requests -> Tickets \cup {Nobody}]
    /\ calls  \subseteq {s \in Scans : pc[s] \in OnPool}
    /\ query  \in [Queries -> {"idle", "waiting", "working"}]
    /\ lock   \in [Tickets -> Requests \cup {Nobody}]
    /\ \A s \in Requests :
         /\ tx[s] = "none" <=> pc[s] \in {"idle", "begin"}
         /\ s \in InFlight => ticket[s] \in Tickets
    /\ \A t \in Tickets : lock[t] # Nobody => lock[t] \in Open

(* A writer needs no second connection.  A scan that has the lock of a row *)
(* is past the compare-and-set and waits for connections at most; whoever  *)
(* waits for a row while it holds another is a writer.                     *)
Positions ==
    /\ \A s \in Writers : pc[s] \in {"idle", "begin", "write", "log"}
    /\ \A t \in Tickets :
         lock[t] # Nobody => pc[lock[t]] \in {"write", "access", "role", "log"}

(* Every set that is counted is finite. *)
LEMMA Countable ==
    ASSUME Fields
    PROVE  /\ IsFiniteSet(Open)     /\ Cardinality(Open)     \in Nat
           /\ IsFiniteSet(calls)    /\ Cardinality(calls)    \in Nat
           /\ IsFiniteSet(Working)  /\ Cardinality(Working)  \in Nat
           /\ IsFiniteSet(InFlight) /\ Cardinality(InFlight) \in Nat
  <1>1. IsFiniteSet(Requests) /\ IsFiniteSet(Queries)
    BY PoolAssumption, FS_Union DEF Requests
  <1>2. Open \subseteq Requests /\ calls \subseteq Requests /\ InFlight \subseteq Requests
    BY DEF Fields, Open, InFlight, Requests
  <1>3. Working \subseteq Queries
    BY DEF Working
  <1>4. IsFiniteSet(Open) /\ IsFiniteSet(calls) /\ IsFiniteSet(InFlight)
    BY <1>1, <1>2, FS_Subset
  <1>5. IsFiniteSet(Working)
    BY <1>1, <1>3, FS_Subset
  <1> QED
    BY <1>4, <1>5, FS_CardinalityType

(* Who has a query outside its transaction is a scan. *)
LEMMA OnPoolIsScan ==
    ASSUME Positions, NEW s \in Requests, pc[s] \in OnPool \cup {"ticket", "settings", "swap"}
    PROVE  s \in Scans
  BY DEF Positions, Requests, OnPool

(* Counting one more, and one less. *)
LEMMA OneMore ==
    ASSUME NEW S, IsFiniteSet(S), NEW x, x \notin S
    PROVE  Cardinality(S \cup {x}) = Cardinality(S) + 1
  BY FS_AddElement

LEMMA OneLess ==
    ASSUME NEW S, IsFiniteSet(S), NEW x \in S
    PROVE  Cardinality(S \ {x}) = Cardinality(S) - 1
  BY FS_RemoveElement

(* A sequence stays one of S when its elements are replaced by others of S. *)
LEMMA ReplacedIsSeq ==
    ASSUME NEW S, NEW q \in Seq(S), NEW x \in S, NEW y \in S
    PROVE  [i \in 1..Len(q) |-> IF q[i] = x THEN y ELSE q[i]] \in Seq(S)
  <1>1. Len(q) \in Nat /\ \A i \in 1..Len(q) : q[i] \in S
    OBVIOUS
  <1> DEFINE f == [i \in 1..Len(q) |-> IF q[i] = x THEN y ELSE q[i]]
  <1>2. f \in [1..Len(q) -> S]
    BY <1>1
  <1> QED
    BY <1>1, <1>2

-------------------------------------------------------------------------------
(* Each step keeps the fields, and the holders of locks past the swap.     *)
LEMMA FieldsInit == Init => Fields /\ Positions
  BY PoolAssumption DEF Init, Fields, Positions, Stages, InFlight, Open, Requests

LEMMA PoolFields ==
    ASSUME Fields, Positions, PoolStep
    PROVE  Fields' /\ Positions'
  <1> DEFINE Entry == Requests \cup Queries \cup {Nobody}
  <1>1. ASSUME NEW who \in Entry, Serve(who)
        PROVE  queue' \in Seq(Entry) /\ idle \in Nat \ {0} /\ idle - 1 \in Nat
    BY <1>1 DEF Fields, Serve
  <1>2. ASSUME NEW s \in Requests, ServeBegin(s) PROVE Fields' /\ Positions'
    <2>1. queue' \in Seq(Entry) /\ idle' \in Nat
      BY <1>1, <1>2 DEF ServeBegin
    <2> QED
      BY <1>2, <2>1, PoolAssumption, SMTT(30) DEF ServeBegin, Fields, Positions, Stages,
         OnTransaction, OnPool, InFlight, Open
  <1>3. ASSUME NEW s \in Requests, ServeCall(s) PROVE Fields' /\ Positions'
    <2>1. queue' \in Seq(Entry) /\ idle' \in Nat
      BY <1>1, <1>3 DEF ServeCall
    <2>2. s \in Scans
      BY <1>3, OnPoolIsScan DEF ServeCall
    <2> QED
      BY <1>3, <2>1, <2>2, SMTT(30) DEF ServeCall, Fields, Positions, InFlight, Open
  <1>4. ASSUME NEW q \in Queries, ServeQuery(q) PROVE Fields' /\ Positions'
    <2>1. queue' \in Seq(Entry) /\ idle' \in Nat
      BY <1>1, <1>4 DEF ServeQuery
    <2> QED
      BY <1>4, <2>1, SMTT(30) DEF ServeQuery, request, Fields, Positions, InFlight, Open
  <1>5. ASSUME ServeAbandoned PROVE Fields' /\ Positions'
    <2>1. queue' \in Seq(Entry)
      BY <1>1, <1>5 DEF ServeAbandoned
    <2> QED
      BY <1>5, <2>1 DEF ServeAbandoned, request, Fields, Positions, InFlight, Open
  <1> QED
    BY <1>2, <1>3, <1>4, <1>5 DEF PoolStep

LEMMA GoOnFields ==
    ASSUME Fields, NEW s \in Requests, NEW next \in Stages \ {"idle", "begin"}, GoOn(s, next),
           pc[s] \notin {"idle", "begin"}
    PROVE  /\ queue' \in Seq(Requests \cup Queries \cup {Nobody})
           /\ pc' = [pc EXCEPT ![s] = next]
           /\ pc' \in [Requests -> Stages]
  BY DEF GoOn, Fields

(* What follows a statement is a statement.                                *)
LEMMA AfterIsStage ==
    ASSUME NEW stage, NEW next \in After(stage)
    PROVE  /\ next \in Stages \ {"idle", "begin"}
           /\ stage = "swap" => next = "access"
           /\ stage \in {"access", "role"} => next \in {"role", "log"}
  BY DEF After, Stages, OnTransaction, OnPool

LEMMA FinishFields ==
    ASSUME Fields, Positions, NEW s \in Requests, NEW released \in {0, 1},
           Finish(s, released), calls' = calls \ {s}
    PROVE  Fields' /\ Positions'
  <1>1. idle' \in Nat
    BY DEF Finish, Fields
  <1>2. pc' \in [Requests -> Stages] /\ tx' \in [Requests -> {"none", "open", "expired"}]
    BY DEF Finish, Fields, Stages
  <1>3. lock' \in [Tickets -> Requests \cup {Nobody}]
    BY DEF Finish, Fields, Unlocked
  <1>4. \A t \in Tickets : lock'[t] # Nobody => lock'[t] = lock[t] /\ lock[t] # s
    BY DEF Finish, Unlocked
  <1>5. \A r \in Requests : r # s => pc'[r] = pc[r] /\ tx'[r] = tx[r] /\ ticket'[r] = ticket[r]
    BY DEF Finish, Fields
  <1>6. pc'[s] = "idle" /\ tx'[s] = "none"
    BY DEF Finish, Fields
  <1>7. ticket' \in [Requests -> Tickets \cup {Nobody}]
    BY DEF Finish, Fields
  <1>8. \A t \in Tickets : lock'[t] # Nobody => lock'[t] \in Open'
    BY <1>4, <1>5 DEF Fields, Open
  <1>9. \A r \in Requests : /\ tx'[r] = "none" <=> pc'[r] \in {"idle", "begin"}
                            /\ r \in InFlight' => ticket'[r] \in Tickets
    BY <1>5, <1>6 DEF Fields, InFlight
  <1>10. calls' \subseteq {r \in Scans : pc'[r] \in OnPool}
    BY <1>5 DEF Fields, Requests
  <1>11. Positions'
    BY <1>4, <1>5, <1>6 DEF Positions, Fields, Open, Requests
  <1>12. /\ query' \in [Queries -> {"idle", "waiting", "working"}]
         /\ queue' \in Seq(Requests \cup Queries \cup {Nobody})
    BY DEF Finish, Fields
  <1>13. Fields'
    BY <1>1, <1>2, <1>3, <1>7, <1>8, <1>9, <1>10, <1>12 DEF Fields
  <1> QED
    BY <1>11, <1>13

LEMMA RequestFields ==
    ASSUME Fields, Positions, NEW s \in Requests, RequestStep(s)
    PROVE  Fields' /\ Positions'
  <1>1. CASE ReadInTransaction(s)
    <2>1. PICK next \in After(pc[s]) : GoOn(s, next)
      BY <1>1 DEF ReadInTransaction
    <2>2. pc[s] \in {"ticket", "settings"} /\ pc[s] \notin {"idle", "begin"}
      BY <1>1 DEF ReadInTransaction
    <2>3. next \in Stages \ {"idle", "begin"}
      BY AfterIsStage
    <2>4. /\ queue' \in Seq(Requests \cup Queries \cup {Nobody})
          /\ pc' = [pc EXCEPT ![s] = next] /\ pc' \in [Requests -> Stages]
      BY <2>1, <2>2, <2>3, GoOnFields
    <2>5. s \notin Writers
      BY <2>2, OnPoolIsScan, PoolAssumption
    <2> QED
      BY <1>1, <2>2, <2>3, <2>4, <2>5, SMTT(30) DEF ReadInTransaction, Fields, Positions,
         InFlight, Open, OnPool, Stages
  <1>2. CASE Swap(s)
    <2>1. PICK next \in After("swap") : GoOn(s, next)
      BY <1>2 DEF Swap
    <2>2. pc[s] = "swap" /\ tx[s] = "open" /\ lock[ticket[s]] = Nobody
      BY <1>2 DEF Swap, Free
    <2>3. next \in Stages \ {"idle", "begin"} /\ next = "access"
      BY AfterIsStage
    <2>4. /\ queue' \in Seq(Requests \cup Queries \cup {Nobody})
          /\ pc' = [pc EXCEPT ![s] = next] /\ pc' \in [Requests -> Stages]
      BY <2>1, <2>2, <2>3, GoOnFields
    <2>5. ticket[s] \in Tickets /\ s \in Open
      BY <2>2 DEF Fields, InFlight, Open
    <2>6. /\ lock' \in [Tickets -> Requests \cup {Nobody}]
          /\ \A t \in Tickets : lock'[t] = lock[t] \/ (t = ticket[s] /\ lock'[t] = s)
      BY <1>2, <2>5 DEF Swap, Fields
    <2>7. s \notin Writers
      BY <2>2, OnPoolIsScan, PoolAssumption
    <2> QED
      BY <1>2, <2>2, <2>3, <2>4, <2>5, <2>6, <2>7, SMTT(30) DEF Swap, Fields, Positions,
         InFlight, Open, OnPool
  <1>3. CASE Commit(s)
    <2>1. calls' = calls \ {s}
      BY <1>3 DEF Commit, Fields, OnPool
    <2> QED
      BY <1>3, <2>1, FinishFields DEF Commit
  <1>4. CASE StatementThrows(s)
    <2>1. calls' = calls \ {s}
      BY <1>4 DEF StatementThrows, Fields, OnPool, OnTransaction
    <2> QED
      BY <1>4, <2>1, FinishFields DEF StatementThrows
  <1>5. CASE CallReturns(s)
    <2>1. PICK next \in After(pc[s]) : GoOn(s, next)
      BY <1>5 DEF CallReturns
    <2>2. pc[s] \in OnPool /\ pc[s] \notin {"idle", "begin"}
      BY <1>5 DEF CallReturns, Executable, Fields, OnPool
    <2>3. /\ next \in Stages \ {"idle", "begin"}
          /\ pc[s] \in {"access", "role"} => next \in {"role", "log"}
      BY AfterIsStage
    <2>4. /\ queue' \in Seq(Requests \cup Queries \cup {Nobody})
          /\ pc' = [pc EXCEPT ![s] = next] /\ pc' \in [Requests -> Stages]
      BY <2>1, <2>2, <2>3, GoOnFields
    <2>5. \A t \in Tickets : lock[t] = s => pc'[s] \in {"role", "log"}
      BY <2>2, <2>3, <2>4, PoolAssumption DEF Positions, Fields, OnPool, Requests
    <2>6. s \notin Writers
      BY <2>2, OnPoolIsScan, PoolAssumption
    <2> QED
      BY <1>5, <2>2, <2>3, <2>4, <2>5, <2>6, SMTT(30) DEF CallReturns, Fields, Positions,
         InFlight, Open
  <1>6. CASE CallThrows(s)
    BY <1>6, FinishFields DEF CallThrows
  <1>7. CASE WriteRow(s)
    <2>1. pc[s] = "write" /\ tx[s] = "open" /\ lock[ticket[s]] = Nobody
      BY <1>7 DEF WriteRow, Free
    <2>2. ticket[s] \in Tickets /\ s \in Open
      BY <2>1 DEF Fields, InFlight, Open
    <2>3. /\ lock' \in [Tickets -> Requests \cup {Nobody}]
          /\ \A t \in Tickets : lock'[t] = lock[t] \/ lock'[t] = s
      BY <1>7, <2>2 DEF WriteRow, Fields
    <2>4. /\ pc' \in [Requests -> Stages]
          /\ pc'[s] \in {"write", "log"}
          /\ \A r \in Requests : r # s => pc'[r] = pc[r] /\ ticket'[r] = ticket[r]
      BY <1>7, <2>1 DEF WriteRow, Fields, Stages, OnTransaction
    <2>5. ticket' \in [Requests -> Tickets \cup {Nobody}] /\ ticket'[s] \in Tickets
      BY <1>7, <2>2 DEF WriteRow, Fields
    <2>6. s \notin calls
      BY <2>1 DEF Fields, OnPool
    <2>7. /\ calls' = calls /\ tx' = tx
          /\ idle' \in Nat /\ queue' \in Seq(Requests \cup Queries \cup {Nobody})
          /\ tx' \in [Requests -> {"none", "open", "expired"}]
          /\ query' \in [Queries -> {"idle", "waiting", "working"}]
      BY <1>7 DEF WriteRow, Fields
    <2>8. calls' \subseteq {r \in Scans : pc'[r] \in OnPool}
      BY <2>4, <2>6, <2>7 DEF Fields, Requests
    <2>9. \A r \in Requests : /\ tx'[r] = "none" <=> pc'[r] \in {"idle", "begin"}
                              /\ r \in InFlight' => ticket'[r] \in Tickets
      BY <2>1, <2>4, <2>5, <2>7 DEF Fields, InFlight
    <2>10. \A t \in Tickets : lock'[t] # Nobody => lock'[t] \in Open'
      BY <2>2, <2>3, <2>7 DEF Fields, Open
    <2>11. Positions'
      BY <2>3, <2>4 DEF Positions, Fields, Open, Requests
    <2>12. Fields'
      BY <2>3, <2>4, <2>5, <2>7, <2>8, <2>9, <2>10 DEF Fields
    <2> QED
      BY <2>11, <2>12
  <1> QED
    BY <1>1, <1>2, <1>3, <1>4, <1>5, <1>6, <1>7 DEF RequestStep

LEMMA OtherFields ==
    ASSUME Fields, Positions,
           \/ \E s \in Requests : Arrive(s) \/ BeginTimesOut(s) \/ TransactionExpires(s)
           \/ \E q \in Queries : Ask(q) \/ Done(q)
    PROVE  Fields' /\ Positions'
  <1>1. ASSUME NEW s \in Requests, Arrive(s) PROVE Fields' /\ Positions'
    <2>1. PICK t \in Tickets : ticket' = [ticket EXCEPT ![s] = t]
      BY <1>1 DEF Arrive
    <2>2. queue' \in Seq(Requests \cup Queries \cup {Nobody})
      BY <1>1 DEF Arrive, Fields
    <2> QED
      BY <1>1, <2>1, <2>2, SMTT(30) DEF Arrive, Fields, Positions, InFlight, Open, Stages,
         OnPool, OnTransaction
  <1>2. ASSUME NEW s \in Requests, BeginTimesOut(s) PROVE Fields' /\ Positions'
    <2>1. queue' \in Seq(Requests \cup Queries \cup {Nobody})
      <3>1. queue \in Seq(Requests \cup Queries \cup {Nobody})
        BY DEF Fields
      <3> QED
        BY <1>2, <3>1, ReplacedIsSeq DEF BeginTimesOut
    <2> QED
      BY <1>2, <2>1, SMTT(30) DEF BeginTimesOut, Fields, Positions, InFlight, Open, Stages,
         OnPool, OnTransaction
  <1>3. ASSUME NEW s \in Requests, TransactionExpires(s) PROVE Fields' /\ Positions'
    <2>1. /\ lock' \in [Tickets -> Requests \cup {Nobody}]
          /\ \A t \in Tickets : lock'[t] # Nobody => lock'[t] = lock[t] /\ lock[t] # s
      BY <1>3 DEF TransactionExpires, Fields, Unlocked
    <2> QED
      BY <1>3, <2>1, SMTT(30) DEF TransactionExpires, Fields, Positions, InFlight, Open
  <1>4. ASSUME NEW q \in Queries, Ask(q) PROVE Fields' /\ Positions'
    <2>1. queue' \in Seq(Requests \cup Queries \cup {Nobody})
      BY <1>4 DEF Ask, Fields
    <2> QED
      BY <1>4, <2>1 DEF Ask, request, Fields, Positions, InFlight, Open
  <1>5. ASSUME NEW q \in Queries, Done(q) PROVE Fields' /\ Positions'
    BY <1>5 DEF Done, request, Fields, Positions, InFlight, Open
  <1> QED
    BY <1>1, <1>2, <1>3, <1>4, <1>5

LEMMA FieldsStep ==
    ASSUME Fields, Positions, [Next]_vars
    PROVE  Fields' /\ Positions'
  <1>1. CASE UNCHANGED vars
    BY <1>1 DEF vars, request, Fields, Positions, InFlight, Open
  <1>2. CASE Next
    BY <1>2, PoolFields, RequestFields, OtherFields DEF Next
  <1> QED
    BY <1>1, <1>2

-------------------------------------------------------------------------------
(* No connection is lost: each step moves one between the idle ones and    *)
(* one of the three sets of holders.                                       *)

(* Which sets a step leaves as they are. *)
LEMMA SameSets ==
    /\ UNCHANGED tx    => Open' = Open
    /\ UNCHANGED query => Working' = Working
  BY DEF Open, Working

LEMMA FinishKeepsCount ==
    ASSUME Fields, NoLeak, NEW s \in Requests, NEW released \in {0, 1}, Finish(s, released),
           calls' = calls \ {s}, s \in calls <=> released = 1
    PROVE  NoLeak'
  <1>1. /\ IsFiniteSet(Open) /\ IsFiniteSet(calls)
        /\ Cardinality(Open) \in Nat /\ Cardinality(calls) \in Nat
        /\ Cardinality(Working) \in Nat
    BY Countable
  <1>2. Working' = Working
    BY DEF Finish, Working
  <1>3. Cardinality(calls') = Cardinality(calls) - released
    <2>1. CASE s \in calls
      BY <1>1, <2>1, OneLess
    <2>2. CASE s \notin calls
      <3>1. calls' = calls /\ released = 0
        BY <2>2
      <3> QED
        BY <1>1, <3>1
    <2> QED
      BY <2>1, <2>2
  <1>4. Open' = Open \ {s}
    BY DEF Finish, Fields, Open
  <1>5. Cardinality(Open') = Cardinality(Open) - (IF tx[s] = "open" THEN 1 ELSE 0)
    <2>1. CASE tx[s] = "open"
      <3>1. s \in Open
        BY <2>1 DEF Open
      <3> QED
        BY <1>1, <1>4, <2>1, <3>1, OneLess
    <2>2. CASE tx[s] # "open"
      <3>1. Open' = Open
        BY <1>4, <2>2 DEF Open
      <3> QED
        BY <1>1, <2>2, <3>1
    <2> QED
      BY <2>1, <2>2
  <1>6. idle' = idle + released + (IF tx[s] = "open" THEN 1 ELSE 0)
    BY DEF Finish
  <1>7. idle \in Nat
    BY DEF Fields
  <1> QED
    BY <1>1, <1>2, <1>3, <1>5, <1>6, <1>7 DEF NoLeak

LEMMA CountStep ==
    ASSUME Fields, NoLeak, [Next]_vars
    PROVE  NoLeak'
  <1>0. /\ IsFiniteSet(Open) /\ IsFiniteSet(calls) /\ IsFiniteSet(Working)
        /\ Cardinality(Open) \in Nat /\ Cardinality(calls) \in Nat
        /\ Cardinality(Working) \in Nat /\ idle \in Nat
    BY Countable DEF Fields
  <1>1. ASSUME UNCHANGED <<idle, tx, calls, query>> PROVE NoLeak'
    BY <1>1, SameSets DEF NoLeak
  <1>2. ASSUME NEW s \in Requests, ServeBegin(s) PROVE NoLeak'
    <2>1. Open' = Open \cup {s} /\ s \notin Open
      BY <1>2 DEF ServeBegin, Fields, Open
    <2>2. calls' = calls /\ Working' = Working /\ idle' = idle - 1
      BY <1>2, SameSets DEF ServeBegin
    <2>3. Cardinality(Open') = Cardinality(Open) + 1
      BY <1>0, <2>1, OneMore
    <2> QED
      BY <1>0, <2>2, <2>3 DEF NoLeak
  <1>3. ASSUME NEW s \in Requests, ServeCall(s) PROVE NoLeak'
    <2>1. calls' = calls \cup {s} /\ s \notin calls
      BY <1>3 DEF ServeCall
    <2>2. Open' = Open /\ Working' = Working /\ idle' = idle - 1
      BY <1>3, SameSets DEF ServeCall
    <2>3. Cardinality(calls') = Cardinality(calls) + 1
      BY <1>0, <2>1, OneMore
    <2> QED
      BY <1>0, <2>2, <2>3 DEF NoLeak
  <1>4. ASSUME NEW q \in Queries, ServeQuery(q) PROVE NoLeak'
    <2>1. Working' = Working \cup {q} /\ q \notin Working
      BY <1>4 DEF ServeQuery, Fields, Working
    <2>2. Open' = Open /\ calls' = calls /\ idle' = idle - 1
      BY <1>4, SameSets DEF ServeQuery, request
    <2>3. Cardinality(Working') = Cardinality(Working) + 1
      BY <1>0, <2>1, OneMore
    <2> QED
      BY <1>0, <2>2, <2>3 DEF NoLeak
  <1>5. CASE PoolStep
    <2>1. ASSUME ServeAbandoned PROVE NoLeak'
      BY <1>1, <2>1 DEF ServeAbandoned, request
    <2> QED
      BY <1>2, <1>3, <1>4, <1>5, <2>1 DEF PoolStep
  <1>6. ASSUME NEW s \in Requests, RequestStep(s) PROVE NoLeak'
    <2>1. CASE ReadInTransaction(s)
      BY <1>1, <2>1 DEF ReadInTransaction
    <2>2. CASE Swap(s)
      BY <1>1, <2>2 DEF Swap
    <2>3. CASE Commit(s)
      <3>1. calls' = calls \ {s} /\ s \notin calls
        BY <2>3 DEF Commit, Fields, OnPool
      <3> QED
        BY <2>3, <3>1, FinishKeepsCount DEF Commit
    <2>4. CASE StatementThrows(s)
      <3>1. calls' = calls \ {s} /\ s \notin calls
        BY <2>4 DEF StatementThrows, Fields, OnPool, OnTransaction
      <3> QED
        BY <2>4, <3>1, FinishKeepsCount DEF StatementThrows
    <2>5. CASE CallReturns(s)
      <3>1. calls' = calls \ {s} /\ s \in calls
        BY <2>5 DEF CallReturns, Executable
      <3>2. Open' = Open /\ Working' = Working /\ idle' = idle + 1
        BY <2>5, SameSets DEF CallReturns
      <3>3. Cardinality(calls') = Cardinality(calls) - 1
        BY <1>0, <3>1, OneLess
      <3> QED
        BY <1>0, <3>2, <3>3 DEF NoLeak
    <2>6. CASE CallThrows(s)
      <3>1. calls' = calls \ {s} /\ s \in calls
        BY <2>6 DEF CallThrows, Executable
      <3> QED
        BY <2>6, <3>1, FinishKeepsCount DEF CallThrows
    <2>7. CASE WriteRow(s)
      BY <1>1, <2>7 DEF WriteRow
    <2> QED
      BY <1>6, <2>1, <2>2, <2>3, <2>4, <2>5, <2>6, <2>7 DEF RequestStep
  <1>7. ASSUME NEW s \in Requests, Arrive(s) \/ BeginTimesOut(s) PROVE NoLeak'
    BY <1>1, <1>7 DEF Arrive, BeginTimesOut
  <1>8. ASSUME NEW s \in Requests, TransactionExpires(s) PROVE NoLeak'
    <2>1. Open' = Open \ {s} /\ s \in Open
      BY <1>8 DEF TransactionExpires, Fields, Open
    <2>2. calls' = calls /\ Working' = Working /\ idle' = idle + 1
      BY <1>8, SameSets DEF TransactionExpires
    <2>3. Cardinality(Open') = Cardinality(Open) - 1
      BY <1>0, <2>1, OneLess
    <2> QED
      BY <1>0, <2>2, <2>3 DEF NoLeak
  <1>9. ASSUME NEW q \in Queries, Ask(q) PROVE NoLeak'
    <2>1. Working' = Working
      BY <1>9 DEF Ask, Fields, Working
    <2>2. Open' = Open
      BY <1>9, SameSets DEF Ask, request
    <2> QED
      BY <1>9, <2>1, <2>2 DEF Ask, request, NoLeak
  <1>10. ASSUME NEW q \in Queries, Done(q) PROVE NoLeak'
    <2>1. Working' = Working \ {q} /\ q \in Working
      BY <1>10 DEF Done, Fields, Working
    <2>2. Open' = Open /\ calls' = calls /\ idle' = idle + 1
      BY <1>10, SameSets DEF Done, request
    <2>3. Cardinality(Working') = Cardinality(Working) - 1
      BY <1>0, <2>1, OneLess
    <2> QED
      BY <1>0, <2>2, <2>3 DEF NoLeak
  <1>11. CASE UNCHANGED vars
    BY <1>1, <1>11 DEF vars, request
  <1> QED
    BY <1>5, <1>6, <1>7, <1>8, <1>9, <1>10, <1>11 DEF Next

LEMMA CountInit == Init => NoLeak
  <1> SUFFICES ASSUME Init PROVE NoLeak
    OBVIOUS
  <1>1. Open = {} /\ Working = {} /\ calls = {} /\ idle = PoolSize
    BY DEF Init, Open, Working
  <1>2. Cardinality({}) = 0
    BY FS_EmptySet
  <1> QED
    BY <1>1, <1>2, PoolAssumption DEF NoLeak

-------------------------------------------------------------------------------
Inv == Fields /\ Positions /\ NoLeak

LEMMA InvHolds == Spec => []Inv
  <1>1. Init => Inv
    BY FieldsInit, CountInit DEF Inv
  <1>2. Inv /\ [Next]_vars => Inv'
    BY FieldsStep, CountStep DEF Inv
  <1> QED
    BY <1>1, <1>2, PTL DEF Spec

(* No connection is ever lost or held twice, whichever scans expire, fail  *)
(* or give up and in whatever order (TypeOK, with its count NoLeak).       *)
THEOREM PoolTypeCorrect == Spec => []TypeOK
  <1>1. Inv => TypeOK
    BY DEF Inv, Fields, TypeOK
  <1> QED
    BY <1>1, InvHolds, PTL

(* When every open transaction waits for a row, some of them wait for each *)
(* other: the smallest set of transactions that wait within the set is a   *)
(* deadlock.                                                               *)
LEMMA AllWaitingIsDeadlock ==
    ASSUME Inv, Open # {}, \A s \in Open : WaitsForRow(s)
    PROVE  \E S \in SUBSET Open : Deadlocked(S)
  <1> DEFINE holder(s) == lock[ticket[s]]
             Closed == {S \in SUBSET Open : S # {} /\ \A s \in S : holder(s) \in S}
             Smaller == StrictSubsetOrdering(Open)
  <1>1. \A s \in Open : holder(s) \in Open /\ pc[holder(s)] \in {"write", "access", "role", "log"}
    BY DEF WaitsForRow, Free, Inv, Fields, Positions, InFlight, Open
  <1>2. Open \in Closed
    BY <1>1
  <1>3. PICK S \in Closed : \A R \in Closed : <<R, S>> \notin Smaller
    <2>1. IsWellFoundedOn(Smaller, SUBSET Open)
      BY Countable, FS_StrictSubsetOrderingWellFounded, FS_FiniteSubsetsOfFinite DEF Inv
    <2>2. Closed \subseteq SUBSET Open /\ Closed # {}
      BY <1>2
    <2> HIDE DEF Closed, Smaller
    <2> QED
      BY <2>1, <2>2, WFMin
  <1> DEFINE T == {holder(s) : s \in S}
  <1>4. T \in Closed /\ T \subseteq S
    BY <1>3
  <1>5. T = S
    BY <1>3, <1>4 DEF StrictSubsetOrdering
  <1>6. ASSUME NEW s \in S PROVE WaitsForRow(s) /\ s \notin calls
    <2>1. WaitsForRow(s) /\ pc[s] \in {"write", "access", "role", "log"}
      BY <1>1, <1>3, <1>5
    <2> QED
      BY <2>1 DEF WaitsForRow, Inv, Fields, OnPool
  <1> QED
    BY <1>3, <1>5, <1>6 DEF Deadlocked

(* In a gridlock nobody has a connection to offer, and a scan that has one *)
(* for its transaction waits for its second; a scan with two connections   *)
(* waits for a row.                                                        *)
LEMMA GridlockExhausts ==
    ASSUME Inv, Gridlock
    PROVE  /\ idle = 0
           /\ \E s \in InFlight \cap Scans : s \notin calls
           /\ \A s \in calls : WaitsForRow(s)
           /\ \A s \in Open : WaitsForRow(s) \/ s \in Scans
  <1>1. ASSUME NEW s \in calls PROVE s \in InFlight /\ WaitsForRow(s)
    <2>1. s \in Scans /\ pc[s] \in OnPool
      BY <1>1 DEF Inv, Fields
    <2>2. s \in InFlight /\ pc[s] # "begin"
      BY <2>1 DEF InFlight, OnPool, Requests
    <2> QED
      BY <1>1, <2>2 DEF Gridlock, WaitsForConnection
  <1>2. ASSUME NEW s \in Open, ~WaitsForRow(s)
        PROVE  idle = 0 /\ s \in InFlight \cap Scans /\ s \notin calls
    <2>1. s \in InFlight /\ pc[s] # "begin"
      BY DEF Inv, Fields, Open, InFlight
    <2>2. WaitsForConnection(s)
      BY <1>2, <2>1 DEF Gridlock
    <2>3. idle = 0 /\ pc[s] \in OnPool /\ s \notin calls
      BY <2>1, <2>2 DEF WaitsForConnection
    <2> QED
      BY <2>1, <2>3, OnPoolIsScan DEF Inv, Open
  <1>3. ASSUME NEW s \in InFlight, WaitsForRow(s) PROVE Open # {}
    BY <1>3 DEF WaitsForRow, Free, Inv, Fields, InFlight
  <1>4. Open # {}
    <2> SUFFICES ASSUME Open = {} PROVE FALSE
      OBVIOUS
    <2>1. calls = {} /\ idle = 0
      BY <1>1, <1>3 DEF Gridlock, WaitsForConnection
    <2> QED
      BY <2>1, FS_EmptySet, PoolAssumption DEF Inv, NoLeak, Gridlock
  <1>5. PICK s \in Open : ~WaitsForRow(s)
    <2> SUFFICES ASSUME \A s \in Open : WaitsForRow(s) PROVE FALSE
      OBVIOUS
    <2>1. PICK S \in SUBSET Open : Deadlocked(S)
      BY <1>4, AllWaitingIsDeadlock
    <2>2. Open \subseteq InFlight
      BY DEF Inv, Fields, Open, InFlight
    <2> QED
      BY <2>1, <2>2 DEF Gridlock
  <1> QED
    BY <1>1, <1>2, <1>5

(* Requests block each other for 5 s only in an exhausted pool that is     *)
(* smaller than the requests in flight with the scans counted twice, or no *)
(* larger than the scans when nobody waits for a row: with the 10          *)
(* connections of the default pool never while at most five requests, or   *)
(* one scan and at most eight others, are in flight.                       *)
THEOREM CrowdNeeded == Spec => []GridlockNeedsCrowd
  <1>1. ASSUME Inv PROVE GridlockNeedsCrowd
    <2> DEFINE scans == InFlight \cap Scans
    <2> SUFFICES ASSUME Gridlock
                 PROVE  /\ idle = 0
                        /\ PoolSize < Cardinality(InFlight) + Cardinality(scans)
                        /\ (\A s \in InFlight : ~WaitsForRow(s)) => PoolSize <= Cardinality(scans)
      BY DEF GridlockNeedsCrowd
    <2>1. /\ IsFiniteSet(InFlight) /\ Cardinality(InFlight) \in Nat
          /\ IsFiniteSet(scans) /\ Cardinality(scans) \in Nat
          /\ Cardinality(Open) \in Nat /\ IsFiniteSet(calls) /\ Cardinality(calls) \in Nat
      BY <1>1, Countable, FS_Subset, FS_CardinalityType DEF Inv
    <2>2. idle = 0 /\ Cardinality(Working) = 0
      BY <1>1, GridlockExhausts, FS_EmptySet DEF Gridlock
    <2>3. PoolSize = Cardinality(Open) + Cardinality(calls)
      BY <1>1, <2>1, <2>2 DEF Inv, NoLeak
    <2>4. Open \subseteq InFlight /\ calls \subseteq scans
      BY <1>1 DEF Inv, Fields, Open, InFlight, OnPool, Requests
    <2>5. Cardinality(Open) <= Cardinality(InFlight)
      BY <2>1, <2>4, FS_Subset
    <2>6. Cardinality(calls) <= Cardinality(scans) - 1
      <3>1. PICK s \in scans : s \notin calls
        BY <1>1, GridlockExhausts
      <3>2. calls \subseteq scans \ {s}
        BY <2>4, <3>1
      <3>3. IsFiniteSet(scans \ {s})
        BY <2>1, FS_RemoveElement
      <3>4. Cardinality(scans \ {s}) = Cardinality(scans) - 1
        BY <2>1, <3>1, OneLess
      <3> QED
        BY <3>2, <3>3, <3>4, FS_Subset
    <2>7. ASSUME \A s \in InFlight : ~WaitsForRow(s) PROVE PoolSize <= Cardinality(scans)
      <3>1. calls = {} /\ Open \subseteq scans
        BY <1>1, <2>4, <2>7, GridlockExhausts
      <3>2. Cardinality(calls) = 0 /\ Cardinality(Open) <= Cardinality(scans)
        BY <2>1, <3>1, FS_EmptySet, FS_Subset
      <3> QED
        BY <2>1, <2>3, <3>2
    <2> QED
      BY <2>1, <2>2, <2>3, <2>5, <2>6, <2>7
  <1> QED
    BY <1>1, InvHolds, PTL
===============================================================================
