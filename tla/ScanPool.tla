-------------------------------- MODULE ScanPool --------------------------------
(***************************************************************************)
(* Database connections and row locks of scans and of everyone else.       *)
(* ScanService.scan runs in an interactive transaction, which occupies one *)
(* connection of the pool; the share guard and the permission resolver,    *)
(* called from inside it, use PrismaService itself and need a second       *)
(* connection for each query.  TicketWriteService writes ticket rows in    *)
(* interactive transactions too, but needs no second connection.  A        *)
(* transaction waits 2 s for its connection at most and is rolled back     *)
(* after 5 s; queries wait for a connection, and for a row lock, without   *)
(* limit.  What TicketScan does with the rows is left out here: only who   *)
(* holds or waits for a connection or for the lock of a ticket row counts. *)
(* Time is abstracted: a limit may run out whenever one is waiting for it. *)
(***************************************************************************)
EXTENDS Naturals, Sequences, FiniteSets

CONSTANTS
    Scans,        \* concurrent scan requests
    Writers,      \* concurrent transactions of TicketWriteService that write ticket rows:
                  \* staff mutations, activations of devices, deletions
    Queries,      \* everyone else: needs one connection at a time and no ticket row
                  \* (reads, the outbox publishers, Kafka handlers, the health check)
    Tickets,
    PoolSize,     \* connections (pg: 10)
    MaxQueue,     \* bound: nobody new asks for a connection when so many entries wait
    Nobody        \* holds a free row; waits in place of a begin that was given up

Requests == Scans \cup Writers

ASSUME PoolAssumption ==
    /\ PoolSize \in Nat \ {0} /\ MaxQueue \in Nat
    /\ IsFiniteSet(Scans) /\ IsFiniteSet(Writers) /\ IsFiniteSet(Queries)
    /\ Scans \cap Writers = {} /\ Requests \cap Queries = {}
    /\ Nobody \notin Requests \cup Queries \cup Tickets

VARIABLES
    idle,         \* connections nobody holds
    queue,        \* who waits for a connection, first come first served
    pc,           \* the statement each request runs or waits to run
    tx,           \* the state of its transaction
    ticket,       \* the ticket it is about or writes next, Nobody without a request
    calls,        \* scans whose query outside their transaction holds a connection
    query,        \* where everyone else stands
    lock          \* for each ticket row, the request whose transaction has written it

request == <<pc, tx, ticket, calls>>
vars    == <<idle, queue, request, query, lock>>

-------------------------------------------------------------------------------
(* Statements: those of the transaction, and those on another connection.  *)

OnTransaction == {"ticket", "settings", "swap", "log", "write"}
OnPool        == {"isBlocked", "resetFind", "resetUpdate", "guardUpsert", "guardUpdate",
                  "autoRevoke", "access", "role"}
Stages        == {"idle", "begin"} \cup OnTransaction \cup OnPool

RiskAfterSwap(stage) ==        \* a risk assessed when the row is written already
    CASE stage = "ticket"      -> {"access", "isBlocked"}
      [] stage = "isBlocked"   -> {"access", "settings", "resetFind"}
      [] stage = "settings"    -> {"access", "resetFind"}
      [] stage = "resetFind"   -> {"resetUpdate", "swap"}
      [] stage = "resetUpdate" -> {"swap"}
      [] stage = "guardUpsert" -> {"guardUpdate", "autoRevoke"}
      [] stage = "access"      -> {"role", "log"}
      [] stage = "role"        -> {"log"}
      [] OTHER                 -> {"access", "guardUpsert"}

(* What may follow a statement of a scan that succeeds.  The rejections    *)
(* that touch no store go on to the permission check, as do revoked        *)
(* tickets at once.                                                        *)
After(stage) ==
    CASE stage = "ticket"      -> {"access", "isBlocked"}
      [] stage = "isBlocked"   -> {"access", "guardUpsert", "settings", "resetFind"}
      [] stage = "settings"    -> {"access", "guardUpsert", "resetFind"}
      [] stage = "resetFind"   -> {"resetUpdate", "swap"}
      [] stage = "resetUpdate" -> {"swap"}
      [] stage = "guardUpsert" -> {"guardUpdate", "autoRevoke"}
      [] stage = "access"      -> {"role", "log"}
      [] stage = "role"        -> {"log"}
      [] OTHER                 -> {"access"}

InFlight == {s \in Requests : pc[s] # "idle"}
Open     == {s \in Requests : tx[s] = "open"}
Working  == {q \in Queries : query[q] = "working"}

Free(t)     == lock[t] = Nobody
Unlocked(s) == [t \in Tickets |-> IF lock[t] = s THEN Nobody ELSE lock[t]]

(* s waits for the lock of a row that another transaction has written.     *)
WaitsForRow(s) ==
    /\ \/ pc[s] \in {"swap", "write"} /\ tx[s] = "open"
       \/ pc[s] = "autoRevoke" /\ s \in calls
    /\ ~Free(ticket[s])

(* The transactions of S wait for rows of each other, in one or more       *)
(* cycles; a wait on another connection closes none.                       *)
Deadlocked(S) ==
    /\ S # {}
    /\ \A s \in S : WaitsForRow(s) /\ s \notin calls
    /\ {lock[ticket[s]] : s \in S} = S

-------------------------------------------------------------------------------
Init ==
    /\ idle   = PoolSize
    /\ queue  = <<>>
    /\ pc     = [s \in Requests |-> "idle"]
    /\ tx     = [s \in Requests |-> "none"]
    /\ ticket = [s \in Requests |-> Nobody]
    /\ calls  = {}
    /\ query  = [q \in Queries |-> "idle"]
    /\ lock   = [t \in Tickets |-> Nobody]

-------------------------------------------------------------------------------
(* The pool. *)

(* s goes on to a statement; one outside the transaction asks the pool.    *)
GoOn(s, stage) ==
    /\ pc' = [pc EXCEPT ![s] = stage]
    /\ queue' = IF stage \in OnPool THEN Append(queue, s) ELSE queue

Serve(who) ==
    /\ idle > 0
    /\ queue # <<>>
    /\ Head(queue) = who
    /\ queue' = Tail(queue)

ServeBegin(s) ==
    /\ Serve(s)
    /\ pc[s] = "begin"
    /\ idle' = idle - 1
    /\ tx' = [tx EXCEPT ![s] = "open"]
    /\ pc' = [pc EXCEPT ![s] = IF s \in Scans THEN "ticket" ELSE "write"]
    /\ UNCHANGED <<ticket, calls, query, lock>>

ServeCall(s) ==
    /\ Serve(s)
    /\ pc[s] \in OnPool /\ s \notin calls
    /\ idle' = idle - 1
    /\ calls' = calls \cup {s}
    /\ UNCHANGED <<pc, tx, ticket, query, lock>>

ServeQuery(q) ==
    /\ Serve(q)
    /\ query[q] = "waiting"
    /\ idle' = idle - 1
    /\ query' = [query EXCEPT ![q] = "working"]
    /\ UNCHANGED <<request, lock>>

LeakAbandoned ==               \* the connection of an abandoned begin is lost
    /\ Serve(Nobody)
    /\ idle' = idle - 1
    /\ UNCHANGED <<request, query, lock>>

(* The connection comes too late for a begin that was given up: it goes    *)
(* back at once.                                                           *)
ServeAbandoned ==
    /\ Serve(Nobody)
    /\ UNCHANGED <<idle, request, query, lock>>

-------------------------------------------------------------------------------
(* The transaction of a scan or of another writer. *)

Arrive(s) ==
    /\ pc[s] = "idle"
    /\ Len(queue) < MaxQueue
    /\ pc' = [pc EXCEPT ![s] = "begin"]
    /\ queue' = Append(queue, s)
    /\ \E t \in Tickets : ticket' = [ticket EXCEPT ![s] = t]
    /\ UNCHANGED <<idle, tx, calls, query, lock>>

(* maxWait: the request fails, its place in the queue remains.             *)
BeginTimesOut(s) ==
    /\ pc[s] = "begin"
    /\ pc' = [pc EXCEPT ![s] = "idle"]
    /\ queue' = [i \in 1..Len(queue) |-> IF queue[i] = s THEN Nobody ELSE queue[i]]
    /\ ticket' = [ticket EXCEPT ![s] = Nobody]
    /\ UNCHANGED <<idle, tx, calls, query, lock>>

(* The read of the ticket or of the settings, in the transaction.          *)
ReadInTransaction(s) ==
    /\ pc[s] \in {"ticket", "settings"}
    /\ tx[s] = "open"
    /\ \E next \in After(pc[s]) : GoOn(s, next)
    /\ UNCHANGED <<idle, tx, ticket, calls, query, lock>>

(* The compare-and-set waits for the lock of the row; it keeps the lock    *)
(* only if the nonce still is the next one.                                *)
Swap(s) ==
    /\ pc[s] = "swap"
    /\ tx[s] = "open"
    /\ Free(ticket[s])
    /\ lock' \in {lock, [lock EXCEPT ![ticket[s]] = s]}
    /\ \E next \in After("swap") : GoOn(s, next)
    /\ UNCHANGED <<idle, tx, ticket, calls, query>>

(* A transaction that updates or deletes one ticket row, or several one    *)
(* after the other (a device's other tickets, all tickets of an event or   *)
(* of a guest).  A row that no longer qualifies is not kept; bound: it is  *)
(* the last one then.                                                      *)
WriteRow(s) ==
    /\ pc[s] = "write"
    /\ tx[s] = "open"
    /\ Free(ticket[s])
    /\ lock' \in {lock, [lock EXCEPT ![ticket[s]] = s]}
    /\ \/ pc' = [pc EXCEPT ![s] = "log"] /\ UNCHANGED ticket
       \/ \E t \in Tickets :
            /\ lock'[ticket[s]] = s /\ lock'[t] # s
            /\ ticket' = [ticket EXCEPT ![s] = t]
            /\ UNCHANGED pc
    /\ UNCHANGED <<idle, queue, tx, calls, query>>

(* The end of a request: what is left of its transaction is over.          *)
Finish(s, released) ==
    /\ pc' = [pc EXCEPT ![s] = "idle"]
    /\ tx' = [tx EXCEPT ![s] = "none"]
    /\ idle' = idle + released + (IF tx[s] = "open" THEN 1 ELSE 0)
    /\ lock' = Unlocked(s)
    /\ ticket' = [ticket EXCEPT ![s] = Nobody]
    /\ UNCHANGED <<queue, query>>

(* The log row, the facts and the commit; or one of them fails.            *)
Commit(s) ==
    /\ pc[s] = "log"
    /\ tx[s] = "open"
    /\ Finish(s, 0)
    /\ UNCHANGED calls

(* A statement of the transaction fails, at the latest when PostgreSQL     *)
(* breaks a deadlock it is part of, or the transaction is no longer there: *)
(* the request ends with an error.                                         *)
StatementThrows(s) ==
    /\ pc[s] \in OnTransaction
    /\ WaitsForRow(s) => \E S \in SUBSET InFlight : s \in S /\ Deadlocked(S)
    /\ Finish(s, 0)
    /\ UNCHANGED calls

(* A query outside the transaction has its connection; autoRevoke writes   *)
(* the ticket row and waits for its lock.                                  *)
Executable(s) ==
    /\ s \in calls
    /\ pc[s] = "autoRevoke" => Free(ticket[s])

CallReturns(s) ==
    /\ Executable(s)
    /\ idle' = idle + 1
    /\ calls' = calls \ {s}
    /\ \E next \in After(pc[s]) : GoOn(s, next)
    /\ UNCHANGED <<tx, ticket, query, lock>>

(* The query fails, or the actor lacks the permission: the scan rolls back. *)
CallThrows(s) ==
    /\ Executable(s)
    /\ calls' = calls \ {s}
    /\ Finish(s, 1)

NeverExpires(s) == FALSE

KeepConnection(s) ==           \* rolled back without giving the connection back
    /\ tx[s] = "open"
    /\ pc[s] \in {"swap", "write"} => Free(ticket[s])
    /\ tx' = [tx EXCEPT ![s] = "expired"]
    /\ lock' = Unlocked(s)
    /\ UNCHANGED <<idle, queue, pc, ticket, calls, query>>

(* The 5 s are over: rollback, while the callback of the transaction goes  *)
(* on.  A rollback stays behind a statement that waits for a lock on the   *)
(* same connection.                                                        *)
TransactionExpires(s) ==
    /\ tx[s] = "open"
    /\ pc[s] \in {"swap", "write"} => Free(ticket[s])
    /\ tx' = [tx EXCEPT ![s] = "expired"]
    /\ idle' = idle + 1
    /\ lock' = Unlocked(s)
    /\ UNCHANGED <<queue, pc, ticket, calls, query>>

-------------------------------------------------------------------------------
(* Everyone else. *)

Ask(q) ==
    /\ query[q] = "idle"
    /\ Len(queue) < MaxQueue
    /\ query' = [query EXCEPT ![q] = "waiting"]
    /\ queue' = Append(queue, q)
    /\ UNCHANGED <<idle, request, lock>>

Done(q) ==
    /\ query[q] = "working"
    /\ query' = [query EXCEPT ![q] = "idle"]
    /\ idle' = idle + 1
    /\ UNCHANGED <<queue, request, lock>>

-------------------------------------------------------------------------------
PoolStep ==
    \/ \E s \in Requests : ServeBegin(s) \/ ServeCall(s)
    \/ \E q \in Queries : ServeQuery(q)
    \/ ServeAbandoned

(* What a request does once the database answers. *)
RequestStep(s) ==
    \/ ReadInTransaction(s) \/ Swap(s) \/ WriteRow(s) \/ Commit(s) \/ StatementThrows(s)
    \/ CallReturns(s) \/ CallThrows(s)

Next ==
    \/ PoolStep
    \/ \E s \in Requests :
         Arrive(s) \/ RequestStep(s) \/ BeginTimesOut(s) \/ TransactionExpires(s)
    \/ \E q \in Queries : Ask(q) \/ Done(q)

Spec == Init /\ [][Next]_vars

(* The pool serves whom it can, the database answers every statement that  *)
(* waits for nothing and grants row locks in the order they were asked for *)
(* (hence SF), and both time limits run out at last.                       *)
Fairness ==
    /\ WF_vars(PoolStep)
    /\ \A s \in Requests :
         SF_vars(RequestStep(s)) /\ WF_vars(BeginTimesOut(s)) /\ WF_vars(TransactionExpires(s))
    /\ \A q \in Queries : WF_vars(Done(q))

FairSpec == Spec /\ Fairness

-------------------------------------------------------------------------------
(* Properties. *)

NoLeak == idle + Cardinality(Open) + Cardinality(calls) + Cardinality(Working) = PoolSize

(* Every variable holds values of its type; a request has a transaction    *)
(* only while it is in flight, locks only with an open one, and every      *)
(* connection is idle or has one holder, whatever times out in between.    *)
TypeOK ==
    /\ idle   \in Nat
    /\ queue  \in Seq(Requests \cup Queries \cup {Nobody})
    /\ pc     \in [Requests -> Stages]
    /\ tx     \in [Requests -> {"none", "open", "expired"}]
    /\ ticket \in [Requests -> Tickets \cup {Nobody}]
    /\ calls  \subseteq {s \in Scans : pc[s] \in OnPool}
    /\ query  \in [Queries -> {"idle", "waiting", "working"}]
    /\ lock   \in [Tickets -> Requests \cup {Nobody}]
    /\ \A s \in Requests :
         /\ tx[s] = "none" <=> pc[s] \in {"idle", "begin"}
         /\ s \in InFlight => ticket[s] \in Tickets
    /\ \A t \in Tickets : lock[t] # Nobody => lock[t] \in Open
    /\ NoLeak

(* s can do nothing before someone gives back a connection.                *)
WaitsForConnection(s) == idle = 0 /\ (pc[s] = "begin" \/ (pc[s] \in OnPool /\ s \notin calls))

(* When only the time limits help: every request waits for others, and for *)
(* no cycle of row locks that PostgreSQL would break.                      *)
Gridlock ==
    /\ InFlight # {}
    /\ Working = {}
    /\ \A s \in InFlight : WaitsForConnection(s) \/ WaitsForRow(s)
    /\ \A S \in SUBSET InFlight : ~Deadlocked(S)

(* Requests block each other for 5 s only through scans that ask for a     *)
(* second connection: the pool is exhausted and smaller than the requests  *)
(* in flight with the scans counted twice; and no larger than the scans if *)
(* nobody waits for a row.                                                 *)
GridlockNeedsCrowd ==
    LET scans == InFlight \cap Scans
    IN  Gridlock =>
          /\ idle = 0
          /\ PoolSize < Cardinality(InFlight) + Cardinality(scans)
          /\ (\A s \in InFlight : ~WaitsForRow(s)) => PoolSize <= Cardinality(scans)

(* Every request ends, by an error at worst, although scans and writers    *)
(* wait for each other's connections and rows and queries have no time     *)
(* limit.                                                                  *)
EveryRequestAnswered == \A s \in Requests : s \in InFlight ~> s \notin InFlight

(* Nobody else waits for a connection for ever, in spite of begins that    *)
(* have been given up and of transactions that outlive their request.      *)
EveryQueryServed == \A q \in Queries : query[q] = "waiting" ~> query[q] = "working"
===============================================================================
