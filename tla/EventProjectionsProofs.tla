------------------------ MODULE EventProjectionsProofs ------------------------
(* Theorems of EventProjections for any users, handlers and number of      *)
(* messages, and clocks however far apart.                                 *)
EXTENDS EventProjections, SequenceTheorems, TLAPS

-------------------------------------------------------------------------------
(* The statements of a handler, and the message they are about. *)

Fits(s, m) ==
    /\ s.checked => \E k \in Keys : s.keys = {k}
    /\ s.op = "upsert" /\ ~s.checked => m.kind = "created"
    /\ \A u \in Users : <<"access", u>> \in s.keys =>
         s.op = "delete" \/ (m.kind = "userAccessChanged" /\ m.user = u)

Fitting(m) == {s \in Statement : Fits(s, m)}

(* Only the access handler runs a statement that decides about access, and *)
(* it runs no other.                                                       *)
AccessPlan(m, plan) == m.kind = "userAccessChanged" => plan = <<Upsert(<<"access", m.user>>)>>

LEMMA KeyFacts ==
    /\ \A u \in Users : <<"access", u>> \in Keys /\ <<"role", u>> \in Keys
    /\ <<"settings", NoUser>> \in Keys
    /\ \A u \in Users : \A v : <<"access", u>> # <<"role", v>> /\ <<"access", u>> # <<"settings", v>>
    /\ \A u, v : <<"access", u>> = <<"access", v>> => u = v
    /\ \A table : Of(table) \subseteq Keys
  BY DEF Keys, Of

LEMMA StatementFits ==
    ASSUME NEW m \in Message
    PROVE  /\ \A k \in Keys : k[1] # "access" => Upsert(k) \in Fitting(m) /\ Remove(k) \in Fitting(m)
           /\ m.user \in Users /\ m.kind = "userAccessChanged" =>
                Upsert(<<"access", m.user>>) \in Fitting(m)
           /\ m.kind = "created" => Overwrite(<<"settings", NoUser>>) \in Fitting(m)
           /\ \A table : Clear(table) \in Fitting(m)
  <1>1. ASSUME NEW k \in Keys, k[1] # "access"
        PROVE  Upsert(k) \in Fitting(m) /\ Remove(k) \in Fitting(m)
    <2>1. \A u \in Users : <<"access", u>> # k
      BY <1>1
    <2> QED
      BY <2>1 DEF Upsert, Remove, Fitting, Fits, Statement
  <1>2. ASSUME m.user \in Users, m.kind = "userAccessChanged"
        PROVE  Upsert(<<"access", m.user>>) \in Fitting(m)
    BY <1>2, KeyFacts DEF Upsert, Fitting, Fits, Statement
  <1>3. ASSUME m.kind = "created"
        PROVE  Overwrite(<<"settings", NoUser>>) \in Fitting(m)
    <2>1. \A k : Overwrite(k) = [op |-> "upsert", keys |-> {k}, checked |-> FALSE]
      BY DEF Overwrite
    <2>2. PICK k \in Keys : k = <<"settings", NoUser>>
      BY KeyFacts
    <2>3. \A u \in Users : <<"access", u>> # k
      BY <2>2, KeyFacts
    <2>4. [op |-> "upsert", keys |-> {k}, checked |-> FALSE] \in Fitting(m)
      BY <1>3, <2>3 DEF Fitting, Fits, Statement
    <2> QED
      BY <2>1, <2>2, <2>4
  <1>4. \A table : Clear(table) \in Fitting(m)
    BY KeyFacts DEF Clear, Fitting, Fits, Statement
  <1> QED
    BY <1>1, <1>2, <1>3, <1>4

LEMMA ShortSeqs ==
    ASSUME NEW S, NEW a \in S, NEW b \in S, NEW c \in S
    PROVE  /\ <<a>> \in Seq(S) /\ <<a, b>> \in Seq(S) /\ <<a, b, c>> \in Seq(S)
           /\ <<a>> # <<>> /\ <<a, b>> # <<>> /\ <<a, b, c>> # <<>>
  OBVIOUS

LEMMA TwoOfThem ==
    ASSUME NEW S, NEW a \in S, NEW b \in S
    PROVE  <<a>> \o <<b>> = <<a, b>>
  <1> DEFINE both == <<a>> \o <<b>>
             pair == <<a, b>>
  <1>1. <<a>> \in Seq(S) /\ <<b>> \in Seq(S) /\ pair \in Seq(S)
    OBVIOUS
  <1>2. both \in Seq(S) /\ Len(both) = 2 /\ both[1] = a /\ both[2] = b
    BY <1>1, ConcatProperties
  <1>3. Len(pair) = 2 /\ pair[1] = a /\ pair[2] = b
    OBVIOUS
  <1> HIDE DEF both, pair
  <1>4. Len(both) = Len(pair) /\ \A i \in 1..Len(both) : both[i] = pair[i]
    BY <1>2, <1>3
  <1>5. both = pair
    BY <1>1, <1>2, <1>4, SeqEqual
  <1> QED
    BY <1>5 DEF both, pair

(* Every plan of a handler consists of such statements. *)
LEMMA PlanFits ==
    ASSUME NEW m \in Message, Meant(m), NEW plan \in Plans(m)
    PROVE  plan \in Seq(Fitting(m)) /\ plan # <<>> /\ AccessPlan(m, plan)
  <1>0. m.kind \notin AboutEvent => m.user \in Users
    BY DEF Meant, Message
  <1>1. m.user \in Users => <<"role", m.user>> \in Keys
    BY KeyFacts
  <1>2. <<"settings", NoUser>> \in Keys
    BY KeyFacts
  <1> DEFINE access   == <<"access", m.user>>
             role     == <<"role", m.user>>
             settings == <<"settings", NoUser>>
  <1>3. CASE m.kind = "userAccessChanged"
    <2>1. plan = <<Upsert(access)>>
      BY <1>3 DEF Plans
    <2>2. Upsert(access) \in Fitting(m)
      BY <1>0, <1>3, StatementFits DEF AboutEvent
    <2> QED
      BY <2>1, <2>2, ShortSeqs DEF AccessPlan
  <1>4. CASE m.kind \in {"roleAssigned", "roleRemoved"}
    <2>1. plan \in {<<Upsert(role)>>, <<Remove(role)>>}
      BY <1>4 DEF Plans, RoleRemoved
    <2>2. Upsert(role) \in Fitting(m) /\ Remove(role) \in Fitting(m)
      BY <1>0, <1>1, <1>4, StatementFits DEF AboutEvent
    <2> HIDE DEF role
    <2> QED
      BY <1>4, <2>1, <2>2, ShortSeqs DEF AccessPlan
  <1>5. CASE m.kind = "ownerChanged"
    <2> DEFINE oldRole == <<"role", m.old>>
    <2>1. Upsert(role) \in Fitting(m)
      BY <1>0, <1>1, <1>5, StatementFits DEF AboutEvent
    <2>2. m.old # NoUser => Remove(oldRole) \in Fitting(m)
      BY KeyFacts, StatementFits DEF Message
    <2>3. plan = OwnerChanged(m)
      BY <1>5 DEF Plans
    <2>4. CASE m.old = NoUser
      <3>1. plan = <<>> \o <<Upsert(role)>>
        BY <2>3, <2>4 DEF OwnerChanged
      <3> HIDE DEF role
      <3>2. plan = <<Upsert(role)>>
        BY <3>1
      <3> QED
        BY <1>5, <2>1, <3>2, ShortSeqs DEF AccessPlan
    <2>5. CASE m.old # NoUser
      <3>1. plan = <<Remove(oldRole)>> \o <<Upsert(role)>>
        BY <2>3, <2>5 DEF OwnerChanged
      <3> HIDE DEF role, oldRole
      <3>2. plan = <<Remove(oldRole), Upsert(role)>>
        BY <2>1, <2>2, <2>5, <3>1, TwoOfThem
      <3> QED
        BY <1>5, <2>1, <2>2, <2>5, <3>2, ShortSeqs DEF AccessPlan
    <2> QED
      BY <2>4, <2>5
  <1>6. CASE m.kind \in {"created", "updated"}
    <2>1. plan = IF m.kind = "created" THEN <<Overwrite(settings)>> ELSE <<Upsert(settings)>>
      BY <1>6 DEF Plans
    <2>2. /\ m.kind = "created" => Overwrite(settings) \in Fitting(m)
          /\ Upsert(settings) \in Fitting(m)
      BY <1>2, StatementFits
    <2> HIDE DEF settings
    <2> QED
      BY <1>6, <2>1, <2>2, ShortSeqs DEF AccessPlan
  <1>7. CASE m.kind = "deleted"
    <2>1. PICK a, b, c : plan = <<Clear(a), Clear(b), Clear(c)>>
      BY <1>7 DEF Plans, EventDeleted
    <2>2. Clear(a) \in Fitting(m) /\ Clear(b) \in Fitting(m) /\ Clear(c) \in Fitting(m)
      BY StatementFits
    <2> QED
      BY <1>7, <2>1, <2>2, ShortSeqs DEF AccessPlan
  <1> QED
    BY <1>3, <1>4, <1>5, <1>6, <1>7 DEF Message, Kinds

-------------------------------------------------------------------------------
(* The inductive invariant. *)

(* Messages have a meaning, and come from the future only as clocks differ. *)
Past == \A m \in sent : Meant(m) /\ m.at <= clock + MaxSkew

(* A handler at work runs statements that fit its message.                 *)
Running(h) == pc[h] # "idle" =>
    /\ message[h] \in sent
    /\ todo[h] \in Seq(Fitting(message[h])) /\ todo[h] # <<>>
    /\ pc[h] = "read" => Current(h).checked
    /\ AccessPlan(message[h], todo[h])

(* What the comparison found still holds at the write, if nobody raced.    *)
Fresh(h) ==
    pc[h] = "write" /\ Current(h).checked /\ ~raced[h] =>
        \A k \in Current(h).keys : rows[k].from # 0 => rows[k].stamp <= message[h].at

(* Access rows are compared by the time of their message, and none is      *)
(* behind what has been handled.                                           *)
AccessRow(u) ==
    /\ rows[<<"access", u>>].stamp = rows[<<"access", u>>].from
    /\ disturbed[u] \/ handled[u] <= rows[<<"access", u>>].from

IInv ==
    /\ TypeOK
    /\ Past
    /\ \A h \in Handlers : Running(h) /\ Fresh(h)
    /\ \A u \in Users : AccessRow(u)

LEMMA InitInv == Init => IInv
  <1> SUFFICES ASSUME Init PROVE IInv
    OBVIOUS
  <1>1. NoRow \in Row /\ NoRow.from = 0 /\ NoRow.stamp = 0
    BY DEF NoRow, Row
  <1>2. \A k \in Keys : rows[k] = NoRow
    BY DEF Init
  <1>3. TypeOK
    <2>1. rows \in [Keys -> Row]
      BY <1>1 DEF Init
    <2>2. todo \in [Handlers -> Seq(Statement)]
      BY EmptySeq DEF Init
    <2>3. \A k \in Keys : rows[k].from <= rows[k].stamp + MaxSkew /\ rows[k].stamp <= clock + MaxSkew
      BY <1>1, <1>2, ClockAssumption DEF Init
    <2>4. clock \in 0..MaxClock /\ handled \in [Users -> Nat]
      BY ClockAssumption DEF Init
    <2>5. /\ raced \in [Handlers -> BOOLEAN] /\ disturbed \in [Users -> BOOLEAN]
          /\ sent \subseteq Message
          /\ pc \in [Handlers -> {"idle", "read", "write"}]
          /\ message \in [Handlers -> Message \cup {NoMessage}]
          /\ \A h \in Handlers : pc[h] = "idle"
      BY DEF Init
    <2> QED
      BY <2>1, <2>2, <2>3, <2>4, <2>5 DEF TypeOK
  <1>4. Past /\ \A h \in Handlers : Running(h) /\ Fresh(h)
    BY DEF Init, Past, Running, Fresh
  <1>5. \A u \in Users : AccessRow(u)
    <2>1. \A u \in Users : rows[<<"access", u>>] = NoRow
      BY <1>2, KeyFacts
    <2>2. \A u \in Users : handled[u] = 0
      BY DEF Init
    <2> SUFFICES ASSUME NEW u \in Users PROVE AccessRow(u)
      OBVIOUS
    <2> DEFINE r == rows[<<"access", u>>]
    <2>3. r.from = 0 /\ r.stamp = 0 /\ handled[u] = 0
      BY <1>1, <2>1, <2>2
    <2> HIDE DEF r
    <2>4. r.stamp = r.from /\ handled[u] <= r.from
      BY <2>3
    <2> QED
      BY <2>4 DEF AccessRow, r
  <1> QED
    BY <1>3, <1>4, <1>5 DEF IInv

(* What a handler at work has in hand. *)
LEMMA InHand ==
    ASSUME IInv, NEW h \in Handlers, pc[h] # "idle"
    PROVE  LET m == message[h]
               s == Current(h)
           IN  /\ m \in Message /\ Meant(m) /\ m.at \in Nat /\ m.at <= clock + MaxSkew
               /\ s \in Fitting(m) /\ Tail(todo[h]) \in Seq(Fitting(m))
               /\ s.keys \subseteq Keys /\ s.checked \in BOOLEAN /\ s.op \in {"upsert", "delete"}
               /\ s.checked => s.keys = {Key(h)} /\ Key(h) \in Keys
               /\ m.kind = "userAccessChanged" =>
                    /\ m.user \in Users /\ Tail(todo[h]) = <<>>
                    /\ s = Upsert(<<"access", m.user>>)
  <1> DEFINE m == message[h]
             s == Current(h)
  <1>1. m \in sent /\ todo[h] \in Seq(Fitting(m)) /\ todo[h] # <<>> /\ AccessPlan(m, todo[h])
    BY DEF IInv, Running
  <1>2. m \in Message /\ Meant(m) /\ m.at \in Nat /\ m.at <= clock + MaxSkew
    BY <1>1 DEF IInv, TypeOK, Past, Message
  <1>3. s \in Fitting(m) /\ Tail(todo[h]) \in Seq(Fitting(m))
    BY <1>1, HeadTailProperties DEF Current
  <1>4. s.keys \subseteq Keys /\ s.checked \in BOOLEAN /\ s.op \in {"upsert", "delete"}
    BY <1>3 DEF Fitting, Statement
  <1>5. s.checked => s.keys = {Key(h)} /\ Key(h) \in Keys
    <2> SUFFICES ASSUME s.checked PROVE s.keys = {Key(h)} /\ Key(h) \in Keys
      OBVIOUS
    <2>1. PICK k \in Keys : s.keys = {k}
      BY <1>3 DEF Fitting, Fits
    <2> QED
      BY <2>1 DEF Key
  <1>6. ASSUME m.kind = "userAccessChanged"
        PROVE  m.user \in Users /\ Tail(todo[h]) = <<>> /\ s = Upsert(<<"access", m.user>>)
    <2>1. m.user \in Users
      BY <1>2, <1>6 DEF Meant, Message, AboutEvent
    <2>2. todo[h] = <<Upsert(<<"access", m.user>>)>>
      BY <1>1, <1>6 DEF AccessPlan
    <2> QED
      BY <2>1, <2>2 DEF Current
  <1> QED
    BY <1>2, <1>3, <1>4, <1>5, <1>6

LEMMA SeqOfStatements ==
    ASSUME NEW m, NEW q \in Seq(Fitting(m))
    PROVE  q \in Seq(Statement)
  <1>1. Fitting(m) \subseteq Statement
    BY DEF Fitting
  <1> QED
    BY <1>1, SeqMonotonic

(* A handler that starts on statements reads first where they compare. *)
LEMMA StartKeeps ==
    ASSUME IInv, NEW h \in Handlers, NEW plan, NEW m \in Message,
           plan \in Seq(Fitting(m)), plan # <<>>, AccessPlan(m, plan),
           Start(h, plan), m \in sent', message'[h] = m
    PROVE  /\ Running(h)'
           /\ pc'[h] = "write" => ~Current(h)'.checked
           /\ todo' \in [Handlers -> Seq(Statement)]
           /\ pc' \in [Handlers -> {"idle", "read", "write"}]
           /\ \A o \in Handlers \ {h} : todo'[o] = todo[o] /\ pc'[o] = pc[o]
  <1>1. plan \in Seq(Statement)
    BY SeqOfStatements
  <1>2. /\ todo' \in [Handlers -> Seq(Statement)] /\ todo'[h] = plan
        /\ \A o \in Handlers \ {h} : todo'[o] = todo[o]
    BY <1>1 DEF Start, IInv, TypeOK
  <1>3. Head(plan).checked \in BOOLEAN
    <2>1. Head(plan) \in Statement
      BY <1>1, HeadTailProperties
    <2> QED
      BY <2>1 DEF Statement
  <1>4. /\ pc' \in [Handlers -> {"idle", "read", "write"}]
        /\ pc'[h] = IF Head(plan).checked THEN "read" ELSE "write"
        /\ \A o \in Handlers \ {h} : pc'[o] = pc[o]
    BY DEF Start, IInv, TypeOK
  <1>5. Current(h)' = Head(plan)
    BY <1>2 DEF Current
  <1> QED
    BY <1>2, <1>3, <1>4, <1>5 DEF Running

(* ... and likewise when it continues. *)
LEMMA ContinueKeeps ==
    ASSUME IInv, NEW h \in Handlers, pc[h] # "idle", Continue(h), sent' = sent
    PROVE  /\ Running(h)'
           /\ pc'[h] = "write" => ~Current(h)'.checked
           /\ todo' \in [Handlers -> Seq(Statement)]
           /\ pc' \in [Handlers -> {"idle", "read", "write"}]
           /\ message' \in [Handlers -> Message \cup {NoMessage}]
           /\ handled' \in [Users -> Nat]
           /\ pc'[h] # "idle" => message'[h] \in sent' /\ todo'[h] # <<>>
           /\ \A o \in Handlers \ {h} : /\ todo'[o] = todo[o] /\ pc'[o] = pc[o]
                                        /\ message'[o] = message[o]
           /\ \A u \in Users :
                \/ handled'[u] = handled[u]
                \/ /\ message[h].kind = "userAccessChanged" /\ u = message[h].user
                   /\ handled'[u] = message[h].at
  <1> DEFINE m    == message[h]
             rest == Tail(todo[h])
  <1>0. /\ m \in Message /\ m.at \in Nat /\ m \in sent /\ rest \in Seq(Fitting(m))
        /\ m.kind = "userAccessChanged" => rest = <<>>
    BY InHand DEF IInv, Running
  <1>1. CASE rest # <<>>
    <2>1. Start(h, rest) /\ message' = message /\ handled' = handled
      BY <1>1 DEF Continue
    <2>2. AccessPlan(m, rest)
      BY <1>0, <1>1 DEF AccessPlan
    <2>3. /\ Running(h)'
          /\ pc'[h] = "write" => ~Current(h)'.checked
          /\ todo' \in [Handlers -> Seq(Statement)]
          /\ pc' \in [Handlers -> {"idle", "read", "write"}]
          /\ \A o \in Handlers \ {h} : todo'[o] = todo[o] /\ pc'[o] = pc[o]
      BY <1>0, <1>1, <2>1, <2>2, StartKeeps
    <2>4. todo'[h] = rest
      BY <2>1 DEF Start, IInv, TypeOK
    <2> QED
      BY <1>0, <1>1, <2>1, <2>3, <2>4 DEF IInv, TypeOK
  <1>2. CASE rest = <<>>
    <2>1. /\ todo' = [todo EXCEPT ![h] = <<>>] /\ pc' = [pc EXCEPT ![h] = "idle"]
          /\ message' = [message EXCEPT ![h] = NoMessage]
          /\ handled' = IF m.kind = "userAccessChanged" /\ m.at > handled[m.user]
                        THEN [handled EXCEPT ![m.user] = m.at]
                        ELSE handled
      BY <1>2 DEF Continue
    <2>2. <<>> \in Seq(Statement)
      BY EmptySeq
    <2>3. pc'[h] = "idle" /\ pc' \in [Handlers -> {"idle", "read", "write"}]
      BY <2>1 DEF IInv, TypeOK
    <2>4. todo' \in [Handlers -> Seq(Statement)]
      BY <2>1, <2>2 DEF IInv, TypeOK
    <2>5. handled' \in [Users -> Nat]
      BY <1>0, <2>1 DEF IInv, TypeOK
    <2>6. \A u \in Users : \/ handled'[u] = handled[u]
                           \/ /\ m.kind = "userAccessChanged" /\ u = m.user
                              /\ handled'[u] = m.at
      BY <1>0, <2>1 DEF IInv, TypeOK
    <2> QED
      BY <2>1, <2>3, <2>4, <2>5, <2>6 DEF IInv, TypeOK, Running
  <1> QED
    BY <1>1, <1>2

-------------------------------------------------------------------------------
(* Each step keeps it. *)

LEMMA OutsideKeeps ==
    ASSUME IInv, Tick \/ Emit
    PROVE  IInv'
  <1>1. /\ UNCHANGED <<rows, handler, history>>
        /\ clock' = clock + 1 /\ clock' \in 0..MaxClock /\ clock \in Nat /\ MaxSkew \in Nat
    BY ClockAssumption DEF Tick, Emit, IInv, TypeOK
  <1>2. sent' \subseteq Message /\ sent \subseteq sent' /\ Past'
    <2>0. sent \subseteq Message /\ \A m \in sent : m.at \in Nat /\ Meant(m) /\ m.at <= clock' + MaxSkew
      BY <1>1 DEF IInv, TypeOK, Past, Message
    <2>1. CASE Tick
      BY <2>0, <2>1 DEF Tick, Past
    <2>2. CASE Emit
      <3>1. PICK m \in [kind : Kinds, user : Users \cup {NoUser}, old : Users \cup {NoUser},
                        at : Readings(clock + 1)] : Meant(m) /\ sent' = sent \cup {m}
        BY <2>2 DEF Emit
      <3>2. m \in Message /\ m.at <= clock' + MaxSkew
        BY <1>1, <3>1 DEF Message, Readings
      <3> QED
        BY <2>0, <3>1, <3>2 DEF Past
    <2> QED
      BY <2>1, <2>2
  <1>3. TypeOK'
    <2>1. \A k \in Keys : /\ rows[k].from <= rows[k].stamp + MaxSkew
                          /\ rows[k].stamp <= clock' + MaxSkew
      BY <1>1 DEF IInv, TypeOK, Row
    <2> QED
      BY <1>1, <1>2, <2>1 DEF IInv, TypeOK, handler, history
  <1>4. \A h \in Handlers : Running(h)' /\ Fresh(h)'
    BY <1>1, <1>2 DEF IInv, Running, Fresh, Current, handler, history
  <1>5. \A u \in Users : AccessRow(u)'
    BY <1>1 DEF IInv, AccessRow, handler, history
  <1> QED
    BY <1>2, <1>3, <1>4, <1>5 DEF IInv

LEMMA DeliverKeeps ==
    ASSUME IInv, NEW h \in Handlers, Deliver(h)
    PROVE  IInv'
  <1>0. PICK m \in sent : \E plan \in Plans(m) :
            message' = [message EXCEPT ![h] = m] /\ Start(h, plan)
    BY DEF Deliver
  <1>1. PICK plan \in Plans(m) : message' = [message EXCEPT ![h] = m] /\ Start(h, plan)
    BY <1>0
  <1>2. m \in Message /\ Meant(m) /\ UNCHANGED <<clock, sent, rows, history>>
    BY DEF Deliver, IInv, TypeOK, Past
  <1>3. plan \in Seq(Fitting(m)) /\ plan # <<>> /\ AccessPlan(m, plan)
    BY <1>2, PlanFits
  <1>4. message' \in [Handlers -> Message \cup {NoMessage}] /\ message'[h] = m
        /\ \A o \in Handlers \ {h} : message'[o] = message[o]
    BY <1>1, <1>2 DEF IInv, TypeOK
  <1>5. /\ Running(h)' /\ (pc'[h] = "write" => ~Current(h)'.checked)
        /\ todo' \in [Handlers -> Seq(Statement)]
        /\ pc' \in [Handlers -> {"idle", "read", "write"}]
        /\ \A o \in Handlers \ {h} : todo'[o] = todo[o] /\ pc'[o] = pc[o]
    BY <1>1, <1>2, <1>3, <1>4, StartKeeps
  <1>6. \A o \in Handlers : Running(o)' /\ Fresh(o)'
    BY <1>2, <1>4, <1>5 DEF IInv, Running, Fresh, Current, history
  <1>7. TypeOK'
    <2>1. \A o \in Handlers : pc'[o] # "idle" => message'[o] \in sent' /\ todo'[o] # <<>>
      BY <1>6 DEF Running
    <2> QED
      BY <1>2, <1>4, <1>5, <2>1 DEF IInv, TypeOK, history
  <1> QED
    BY <1>2, <1>6, <1>7 DEF IInv, Past, AccessRow, history

LEMMA SkipKeeps ==
    ASSUME IInv, NEW h \in Handlers, Skip(h)
    PROVE  IInv'
  <1> DEFINE m == message[h]
  <1>1. /\ pc[h] = "read" /\ Stale(h) /\ Continue(h)
        /\ UNCHANGED <<clock, sent, rows, raced, disturbed>>
    BY DEF Skip
  <1>2. /\ Running(h)' /\ (pc'[h] = "write" => ~Current(h)'.checked)
        /\ todo' \in [Handlers -> Seq(Statement)]
        /\ pc' \in [Handlers -> {"idle", "read", "write"}]
        /\ message' \in [Handlers -> Message \cup {NoMessage}]
        /\ handled' \in [Users -> Nat]
        /\ \A o \in Handlers \ {h} : /\ todo'[o] = todo[o] /\ pc'[o] = pc[o]
                                     /\ message'[o] = message[o]
        /\ \A u \in Users : \/ handled'[u] = handled[u]
                            \/ /\ m.kind = "userAccessChanged" /\ u = m.user
                               /\ handled'[u] = m.at
    BY <1>1, ContinueKeeps
  <1>3. \A o \in Handlers : Running(o)' /\ Fresh(o)'
    BY <1>1, <1>2 DEF IInv, Running, Fresh, Current
  <1>4. TypeOK'
    <2>1. \A o \in Handlers : pc'[o] # "idle" => message'[o] \in sent' /\ todo'[o] # <<>>
      BY <1>3 DEF Running
    <2> QED
      BY <1>1, <1>2, <2>1 DEF IInv, TypeOK
  <1>5. ASSUME NEW u \in Users
        PROVE  AccessRow(u)'
    <2> DEFINE k == <<"access", u>>
    <2>1. rows[k].stamp = rows[k].from /\ (disturbed[u] \/ handled[u] <= rows[k].from)
      BY DEF IInv, AccessRow
    <2>2. CASE handled'[u] = handled[u]
      BY <1>1, <2>1, <2>2 DEF AccessRow
    <2>3. CASE m.kind = "userAccessChanged" /\ u = m.user /\ handled'[u] = m.at
      <3>1. Current(h) = Upsert(k) /\ m.at \in Nat
        BY <1>1, <2>3, InHand
      <3>2. Key(h) = k
        BY <3>1 DEF Key, Upsert
      <3>3. m.at < rows[k].stamp
        BY <1>1, <3>2 DEF Stale
      <3>4. rows[k].from \in Nat
        BY KeyFacts DEF IInv, TypeOK, Row
      <3>5. handled'[u] <= rows[k].from
        BY <2>1, <2>3, <3>1, <3>3, <3>4
      <3> QED
        BY <1>1, <2>1, <3>5 DEF AccessRow
    <2> QED
      BY <1>2, <2>2, <2>3
  <1> QED
    BY <1>1, <1>3, <1>4, <1>5 DEF IInv, Past

LEMMA ReadKeeps ==
    ASSUME IInv, NEW h \in Handlers, Read(h)
    PROVE  IInv'
  <1> DEFINE m == message[h]
  <1>1. /\ pc[h] = "read" /\ ~Stale(h) /\ pc' = [pc EXCEPT ![h] = "write"]
        /\ UNCHANGED <<clock, sent, rows, message, todo, history>>
    BY DEF Read
  <1>2. /\ pc' \in [Handlers -> {"idle", "read", "write"}] /\ pc'[h] = "write"
        /\ \A o \in Handlers \ {h} : pc'[o] = pc[o]
    BY <1>1 DEF IInv, TypeOK
  <1>3. \A o \in Handlers : Running(o)'
    BY <1>1, <1>2 DEF IInv, Running, Current
  <1>4. Fresh(h)'
    <2>1. /\ m.at \in Nat
          /\ Current(h).checked => Current(h).keys = {Key(h)} /\ Key(h) \in Keys
      BY <1>1, InHand
    <2>2. ASSUME NEW k \in Keys, rows[k].from # 0, ~(rows[k].stamp <= m.at) PROVE m.at < rows[k].stamp
      BY <2>1, <2>2 DEF IInv, TypeOK, Row
    <2> QED
      BY <1>1, <2>1, <2>2 DEF Fresh, Stale, Current
  <1>5. \A o \in Handlers : Fresh(o)'
    BY <1>1, <1>2, <1>4 DEF IInv, Fresh, Current, history
  <1>6. TypeOK'
    BY <1>1, <1>2 DEF IInv, TypeOK, history
  <1> QED
    BY <1>1, <1>3, <1>5, <1>6 DEF IInv, Past, AccessRow, history

LEMMA FailKeeps ==
    ASSUME IInv, NEW h \in Handlers, Fail(h)
    PROVE  IInv'
  <1>1. /\ pc' = [pc EXCEPT ![h] = "idle"] /\ message' = [message EXCEPT ![h] = NoMessage]
        /\ todo' = [todo EXCEPT ![h] = <<>>] /\ raced' = [raced EXCEPT ![h] = FALSE]
        /\ UNCHANGED <<clock, sent, rows, handled, disturbed>>
    BY DEF Fail
  <1>2. /\ todo' \in [Handlers -> Seq(Statement)] /\ pc'[h] = "idle"
        /\ raced' \in [Handlers -> BOOLEAN]
        /\ \A o \in Handlers \ {h} : /\ todo'[o] = todo[o] /\ pc'[o] = pc[o]
                                     /\ message'[o] = message[o] /\ raced'[o] = raced[o]
    BY <1>1, EmptySeq DEF IInv, TypeOK
  <1>3. \A o \in Handlers : Running(o)' /\ Fresh(o)'
    BY <1>1, <1>2 DEF IInv, Running, Fresh, Current
  <1>4. TypeOK'
    BY <1>1, <1>2 DEF IInv, TypeOK
  <1> QED
    BY <1>1, <1>3, <1>4 DEF IInv, Past, AccessRow

(* The rows after a write. *)
LEMMA WrittenRows ==
    ASSUME IInv, NEW h \in Handlers, Write(h)
    PROVE  /\ rows' \in [Keys -> Row]
           /\ \A k \in Keys :
                /\ k \notin Current(h).keys => rows'[k] = rows[k]
                /\ k \in Current(h).keys =>
                     \/ Current(h).op = "delete" /\ rows'[k] = NoRow
                     \/ /\ Current(h).op = "upsert"
                        /\ rows'[k].from = message[h].at
                        /\ k[1] = "access" => rows'[k].stamp = message[h].at
                /\ rows'[k].from <= rows'[k].stamp + MaxSkew
                /\ rows'[k].stamp <= clock + MaxSkew
  <1> DEFINE m == message[h]
             s == Current(h)
  <1>0. PICK now \in Readings(clock) :
            rows' = [k \in Keys |-> IF k \notin s.keys THEN rows[k]
                                   ELSE IF s.op = "delete" THEN NoRow
                                   ELSE [from |-> m.at, stamp |-> Stamp(k, m, now)]]
    BY DEF Write
  <1> DEFINE r(k) == [from |-> m.at, stamp |-> Stamp(k, m, now)]
  <1>1. /\ pc[h] = "write"
        /\ rows' = [k \in Keys |-> IF k \notin s.keys THEN rows[k]
                                   ELSE IF s.op = "delete" THEN NoRow ELSE r(k)]
    BY <1>0 DEF Write
  <1>2. /\ m.at \in Nat /\ m.at <= clock + MaxSkew /\ s.op \in {"upsert", "delete"}
        /\ clock \in Nat /\ MaxSkew \in Nat
        /\ now \in Nat /\ clock <= now /\ now <= clock + MaxSkew
    <2>1. m.at \in Nat /\ m.at <= clock + MaxSkew /\ s.op \in {"upsert", "delete"}
      BY <1>1, InHand
    <2>2. clock \in Nat /\ MaxSkew \in Nat
      BY ClockAssumption DEF IInv, TypeOK
    <2>3. now \in Nat /\ clock <= now /\ now <= clock + MaxSkew
      BY <1>0, <2>2 DEF Readings
    <2> QED
      BY <2>1, <2>2, <2>3
  <1>3. \A k \in Keys : /\ Stamp(k, m, now) \in Nat
                        /\ k[1] = "access" => Stamp(k, m, now) = m.at
                        /\ m.at <= Stamp(k, m, now) + MaxSkew
                        /\ Stamp(k, m, now) <= clock + MaxSkew
    BY <1>2 DEF Stamp
  <1>4. NoRow \in Row /\ NoRow.from = 0 /\ NoRow.stamp = 0
    BY DEF NoRow, Row
  <1>5. \A k \in Keys : /\ r(k) \in Row /\ r(k).from = m.at
                        /\ k[1] = "access" => r(k).stamp = m.at
                        /\ r(k).from <= r(k).stamp + MaxSkew /\ r(k).stamp <= clock + MaxSkew
    BY <1>2, <1>3 DEF Row
  <1>6. \A k \in Keys : /\ rows[k] \in Row /\ rows[k].from <= rows[k].stamp + MaxSkew
                        /\ rows[k].stamp <= clock + MaxSkew
    BY DEF IInv, TypeOK
  <1> HIDE DEF r
  <1>7. rows' \in [Keys -> Row]
    BY <1>1, <1>4, <1>5, <1>6
  <1>8. ASSUME NEW k \in Keys
        PROVE  /\ k \notin s.keys => rows'[k] = rows[k]
               /\ k \in s.keys =>
                     \/ s.op = "delete" /\ rows'[k] = NoRow
                     \/ s.op = "upsert" /\ rows'[k] = r(k)
    BY <1>1, <1>2
  <1>9. ASSUME NEW k \in Keys
        PROVE  rows'[k].from <= rows'[k].stamp + MaxSkew /\ rows'[k].stamp <= clock + MaxSkew
    BY <1>2, <1>4, <1>5, <1>6, <1>8
  <1> QED
    BY <1>5, <1>7, <1>8, <1>9

(* A handler that has not been overtaken does not write an older message,  *)
(* or one that is older by what the stamp of the row lies behind.          *)
LEMMA WriteNotOlder ==
    ASSUME IInv, NEW h \in Handlers, Write(h), NEW k \in Current(h).keys,
           Current(h).checked, ~raced[h]
    PROVE  /\ rows[k].from <= message[h].at + MaxSkew
           /\ k[1] = "access" => rows[k].from <= message[h].at
  <1>1. pc[h] = "write"
    BY DEF Write
  <1>2. k \in Keys /\ message[h].at \in Nat /\ MaxSkew \in Nat
    BY <1>1, InHand, ClockAssumption
  <1>3. rows[k].from # 0 => rows[k].stamp <= message[h].at
    BY <1>1 DEF IInv, Fresh
  <1>4. rows[k].from \in Nat /\ rows[k].stamp \in Nat /\ rows[k].from <= rows[k].stamp + MaxSkew
    BY <1>2 DEF IInv, TypeOK, Row
  <1>5. k[1] = "access" => rows[k].stamp = rows[k].from
    BY <1>2 DEF Keys, IInv, AccessRow
  <1> QED
    BY <1>2, <1>3, <1>4, <1>5

(* The access row of a user after a write. *)
LEMMA WriteAccess ==
    ASSUME IInv, NEW h \in Handlers, Write(h), NEW u \in Users,
           \/ handled'[u] = handled[u]
           \/ /\ message[h].kind = "userAccessChanged" /\ u = message[h].user
              /\ handled'[u] = message[h].at
    PROVE  AccessRow(u)'
  <1> DEFINE m == message[h]
             s == Current(h)
             k == <<"access", u>>
  <1>1. /\ pc[h] = "write" /\ k \in Keys /\ handled[u] \in Nat
        /\ disturbed' = [v \in Users |->
             IF <<"access", v>> \notin s.keys THEN disturbed[v]
             ELSE s.op = "delete" \/ raced[h] \/ (disturbed[v] /\ m.at < handled[v])]
    BY KeyFacts DEF Write, IInv, TypeOK
  <1>2. /\ s \in Fitting(m) /\ m.at \in Nat /\ s.op \in {"upsert", "delete"}
        /\ m.kind = "userAccessChanged" => s = Upsert(<<"access", m.user>>)
    BY <1>1, InHand
  <1>3. rows[k].stamp = rows[k].from /\ (disturbed[u] \/ handled[u] <= rows[k].from)
        /\ rows[k].from \in Nat
    BY <1>1 DEF IInv, AccessRow, TypeOK, Row
  <1>4. disturbed'[u] <=>
            IF k \notin s.keys THEN disturbed[u]
            ELSE s.op = "delete" \/ raced[h] \/ (disturbed[u] /\ m.at < handled[u])
    BY <1>1
  <1>5. CASE k \notin s.keys
    <2>1. rows'[k] = rows[k]
      BY <1>1, <1>5, WrittenRows
    <2>2. handled'[u] = handled[u]
      BY <1>2, <1>5 DEF Upsert
    <2>3. disturbed'[u] <=> disturbed[u]
      BY <1>4, <1>5
    <2> QED
      BY <1>3, <2>1, <2>2, <2>3 DEF AccessRow
  <1>6. CASE k \in s.keys /\ s.op = "delete"
    <2>1. rows'[k] = NoRow
      BY <1>1, <1>6, WrittenRows
    <2> QED
      BY <1>4, <1>6, <2>1 DEF AccessRow, NoRow
  <1>7. CASE k \in s.keys /\ s.op = "upsert"
    <2>1. rows'[k].from = m.at /\ rows'[k].stamp = m.at
      BY <1>1, <1>7, WrittenRows
    <2>3. m.kind = "userAccessChanged" /\ m.user = u
      BY <1>2, <1>7 DEF Fitting, Fits
    <2>4. s.checked
      BY <1>2, <2>3 DEF Upsert
    <2>5. CASE raced[h]
      BY <1>4, <1>7, <2>1, <2>5 DEF AccessRow
    <2>6. CASE ~raced[h]
      <3>1. rows[k].from <= m.at
        BY <1>7, <2>4, <2>6, WriteNotOlder
      <3>2. CASE disturbed[u] /\ m.at < handled[u]
        BY <1>4, <1>7, <2>1, <3>2 DEF AccessRow
      <3>3. CASE ~(disturbed[u] /\ m.at < handled[u])
        <4>1. handled[u] <= m.at
          BY <1>1, <1>2, <1>3, <3>1, <3>3
        <4>2. handled'[u] <= m.at
          BY <1>2, <4>1
        <4> QED
          BY <2>1, <4>2 DEF AccessRow
      <3> QED
        BY <3>2, <3>3
    <2> QED
      BY <2>5, <2>6
  <1> QED
    BY <1>2, <1>5, <1>6, <1>7

LEMMA WriteKeeps ==
    ASSUME IInv, NEW h \in Handlers, Write(h)
    PROVE  IInv'
  <1> DEFINE m == message[h]
             s == Current(h)
  <1>1. /\ pc[h] = "write" /\ Continue(h) /\ UNCHANGED <<clock, sent>>
        /\ raced' = [o \in Handlers |->
             o # h /\ (raced[o] \/ (pc[o] = "write" /\ Current(o).keys \cap s.keys # {}))]
    BY DEF Write
  <1>1a. disturbed' \in [Users -> BOOLEAN]
    <2>1. raced[h] \in BOOLEAN /\ \A u \in Users : disturbed[u] \in BOOLEAN
      BY DEF IInv, TypeOK
    <2>2. disturbed' = [u \in Users |->
             IF <<"access", u>> \notin s.keys THEN disturbed[u]
             ELSE s.op = "delete" \/ raced[h] \/ (disturbed[u] /\ m.at < handled[u])]
      BY DEF Write
    <2> QED
      BY <2>1, <2>2
  <1>2. /\ Running(h)' /\ (pc'[h] = "write" => ~Current(h)'.checked)
        /\ todo' \in [Handlers -> Seq(Statement)]
        /\ pc' \in [Handlers -> {"idle", "read", "write"}]
        /\ message' \in [Handlers -> Message \cup {NoMessage}]
        /\ handled' \in [Users -> Nat]
        /\ \A o \in Handlers \ {h} : /\ todo'[o] = todo[o] /\ pc'[o] = pc[o]
                                     /\ message'[o] = message[o]
        /\ \A u \in Users : \/ handled'[u] = handled[u]
                            \/ /\ m.kind = "userAccessChanged" /\ u = m.user
                               /\ handled'[u] = m.at
    BY <1>1, ContinueKeeps
  <1>3. \A o \in Handlers : Running(o)'
    BY <1>1, <1>2 DEF IInv, Running, Current
  <1>4. ASSUME NEW o \in Handlers PROVE Fresh(o)'
    <2>1. CASE o = h
      BY <1>2, <2>1 DEF Fresh
    <2>2. CASE o # h
      <3> SUFFICES ASSUME pc'[o] = "write", Current(o)'.checked, ~raced'[o],
                          NEW k \in Current(o)'.keys, rows'[k].from # 0
                   PROVE  rows'[k].stamp <= message'[o].at
        BY DEF Fresh
      <3>1. pc[o] = "write" /\ Current(o)' = Current(o) /\ message'[o] = message[o]
        BY <1>2, <2>2 DEF Current
      <3>2. ~raced[o] /\ k \notin s.keys
        BY <1>1, <2>2, <3>1
      <3>3. k \in Keys
        BY <3>1, InHand
      <3>4. rows'[k] = rows[k]
        BY <3>2, <3>3, WrittenRows
      <3> QED
        BY <3>1, <3>2, <3>4 DEF IInv, Fresh
    <2> QED
      BY <2>1, <2>2
  <1>5. TypeOK'
    <2>1. \A o \in Handlers : pc'[o] # "idle" => message'[o] \in sent' /\ todo'[o] # <<>>
      BY <1>3 DEF Running
    <2>2. rows' \in [Keys -> Row]
          /\ \A k \in Keys : /\ rows'[k].from <= rows'[k].stamp + MaxSkew
                            /\ rows'[k].stamp <= clock' + MaxSkew
      BY <1>1, WrittenRows
    <2>3. raced' \in [Handlers -> BOOLEAN]
      BY <1>1
    <2> QED
      BY <1>1, <1>1a, <1>2, <2>1, <2>2, <2>3 DEF IInv, TypeOK
  <1>6. \A u \in Users : AccessRow(u)'
    BY <1>2, WriteAccess
  <1> QED
    BY <1>1, <1>3, <1>4, <1>5, <1>6 DEF IInv, Past

LEMMA NextInv == IInv /\ [Next]_vars => IInv'
  <1> SUFFICES ASSUME IInv, [Next]_vars PROVE IInv'
    OBVIOUS
  <1>1. CASE UNCHANGED vars
    BY <1>1 DEF IInv, TypeOK, Past, Running, Fresh, AccessRow, Current, vars, handler, history
  <1>2. CASE Tick \/ Emit
    BY <1>2, OutsideKeeps
  <1>3. ASSUME NEW h \in Handlers, Deliver(h) \/ Skip(h) \/ Read(h) \/ Write(h) \/ Fail(h)
        PROVE  IInv'
    BY <1>3, DeliverKeeps, SkipKeeps, ReadKeeps, WriteKeeps, FailKeeps
  <1> QED
    BY <1>1, <1>2, <1>3 DEF Next

LEMMA AlwaysInv == Spec => []IInv
  BY InitInv, NextInv, PTL DEF Spec

-------------------------------------------------------------------------------
(* The variables of the projections hold values of their types: handlers   *)
(* always have the statements they need, rows never come from the future.  *)
THEOREM ProjectionsTypeCorrect == Spec => []TypeOK
  <1>1. IInv => TypeOK
    BY DEF IInv
  <1> QED
    BY AlwaysInv, <1>1, PTL

(* The permissions of a user follow the newest access message handled,     *)
(* unless handlers raced for the row or the event was deleted.             *)
THEOREM AccessKept == Spec => []AccessNotLost
  <1>1. IInv => AccessNotLost
    <2> SUFFICES ASSUME IInv, NEW u \in Users, ~disturbed[u], handled[u] > 0
                 PROVE  /\ DecidingRow(u) = <<"access", u>>
                        /\ rows[DecidingRow(u)].from >= handled[u]
      BY DEF AccessNotLost
    <2>1. /\ handled[u] \in Nat /\ rows[<<"access", u>>].from \in Nat
          /\ handled[u] <= rows[<<"access", u>>].from
      BY KeyFacts DEF IInv, TypeOK, AccessRow, Row
    <2>2. rows[<<"access", u>>].from # 0
      BY <2>1
    <2>3. DecidingRow(u) = <<"access", u>>
      BY <2>2 DEF DecidingRow
    <2> QED
      BY <2>1, <2>3
  <1> QED
    BY AlwaysInv, <1>1, PTL

(* A row goes back to an older message only in a race of two handlers, by  *)
(* a creation delivered again, or as far as the clocks of two machines are *)
(* apart; an access row not even then.                                     *)
THEOREM RowsNeverBack == Spec => NeverBack
  <1> DEFINE Forward == \A k \in Keys :
         rows'[k].from # 0 /\ rows'[k].from < rows[k].from =>
            \/ k[1] # "access" /\ rows[k].from - rows'[k].from <= MaxSkew
            \/ \E h \in Handlers :
                 /\ pc[h] = "write" /\ k \in Current(h).keys
                 /\ raced[h] \/ message[h].kind = "created"
  <1>1. IInv /\ [Next]_vars => [Forward]_vars
    <2> SUFFICES ASSUME IInv, Next, NEW k \in Keys,
                        rows'[k].from # 0, rows'[k].from < rows[k].from
                 PROVE  \/ k[1] # "access" /\ rows[k].from - rows'[k].from <= MaxSkew
                        \/ \E h \in Handlers :
                             /\ pc[h] = "write" /\ k \in Current(h).keys
                             /\ raced[h] \/ message[h].kind = "created"
      OBVIOUS
    <2>1. rows' # rows
      BY DEF IInv, TypeOK, Row
    <2>2. PICK h \in Handlers : Write(h)
      BY <2>1 DEF Next, Tick, Emit, Deliver, Skip, Read, Fail
    <2>3. pc[h] = "write" /\ rows[k].from \in Nat
      BY <2>2 DEF Write, IInv, TypeOK, Row
    <2>4. k \in Current(h).keys
      BY <2>1, <2>2, <2>3, WrittenRows
    <2>5. Current(h).op = "upsert" /\ rows'[k].from = message[h].at
      BY <2>2, <2>4, WrittenRows DEF NoRow
    <2>6. message[h].at \in Nat /\ Current(h) \in Fitting(message[h])
      BY <2>3, InHand
    <2>7. CASE Current(h).checked /\ ~raced[h]
      <3>1. /\ rows[k].from <= message[h].at + MaxSkew
            /\ k[1] = "access" => rows[k].from <= message[h].at
        BY <2>2, <2>4, <2>7, WriteNotOlder
      <3>2. k[1] # "access"
        BY <2>3, <2>5, <2>6, <3>1
      <3>3. rows[k].from - rows'[k].from <= MaxSkew
        BY <2>3, <2>5, <2>6, <3>1, ClockAssumption
      <3> QED
        BY <3>2, <3>3
    <2>8. CASE ~Current(h).checked
      BY <2>3, <2>4, <2>5, <2>6, <2>8 DEF Fitting, Fits
    <2> QED
      BY <2>3, <2>4, <2>7, <2>8
  <1> QED
    BY AlwaysInv, <1>1, PTL DEF Spec, NeverBack

===============================================================================
