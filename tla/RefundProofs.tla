---------------------------- MODULE RefundProofs ----------------------------
(***************************************************************************)
(* Proofs about Refund, for any sales, connections, tests and queues.      *)
(***************************************************************************)
EXTENDS Refund, FiniteSetTheorems, TLAPS

-----------------------------------------------------------------------------
(* Type correctness                                                        *)

Codes == {"none", "00", "05"}
Answers == {"00", "05"}

Statement ==
  [op : {"approve", "reverse"}, sale : Sales]
    \cup [op : {"insert", "delete"}, refund : Refunds]
    \cup [op : {"update"}, refund : Refunds, code : Answers]
    \cup [op : {"total"}, test : Nat, total : Nat]

\* How far RunRefund is, as its variables tell.
Progress ==
  /\ runner = "idle" => candidates = <<>>
  /\ runner \in {"idle", "connections"} => sent = 0
  /\ runner = "queue" => sent < Len(candidates)
  /\ runner # "idle" => test \in 1 .. MaxTests

TypeInv == TypeOK /\ statements \in Seq(Statement) /\ Progress

\* Each function that makes a statement makes one.
LEMMA StatementType ==
  /\ \A s \in Sales : SaleApproved(s) \in Statement /\ SaleReversed(s) \in Statement
  /\ \A r \in Refunds : AddRequestLog(r) \in Statement /\ DeleteRequestLog(r) \in Statement
  /\ \A r \in Refunds, code \in Answers : UpdateResponseTime(r, code) \in Statement
  /\ \A t \in Nat, n \in Nat : SetTotalRequests(t, n) \in Statement
  BY DEF Statement, SaleApproved, SaleReversed, AddRequestLog, DeleteRequestLog, UpdateResponseTime, SetTotalRequests

\* A statement makes a database of a database.
LEMMA AppliedType == ASSUME NEW db \in Database, NEW st \in Statement PROVE Applied(db, st) \in Database
<1>1. CASE st \in [op : {"approve", "reverse"}, sale : Sales]
  BY <1>1 DEF Database, Applied
<1>2. CASE st \in [op : {"insert", "delete"}, refund : Refunds]
  BY <1>2 DEF Database, Applied, Row
<1>3. CASE st \in [op : {"update"}, refund : Refunds, code : Answers]
  BY <1>3 DEF Database, Applied, Row, Answers
<1>4. CASE st \in [op : {"total"}, test : Nat, total : Nat]
  BY <1>4 DEF Database, Applied
<1> QED BY <1>1, <1>2, <1>3, <1>4 DEF Statement

\* Enqueue keeps the types of the variables it changes.
LEMMA EnqueueType ==
  ASSUME TypeInv, NEW st \in Statement, Enqueue(st)
  PROVE  /\ statements' \in Seq(Statement) /\ Len(statements') <= WriteQueueSize
         /\ log' \in Database /\ table' = table /\ faults' = faults
<1>1. log' = Applied(log, st) /\ log \in Database
  BY DEF Enqueue, TypeInv, TypeOK
<1>2. statements' = Append(statements, st) /\ statements \in Seq(Statement) /\ Len(statements) < WriteQueueSize
  BY DEF Enqueue, TypeInv
<1>3. statements' \in Seq(Statement) /\ Len(statements') = Len(statements) + 1 /\ Len(statements) \in Nat
  BY <1>2
<1>4. Len(statements') <= WriteQueueSize
  BY <1>2, <1>3, RefundAssumption DEF RefundAssumption
<1> QED BY <1>1, <1>3, <1>4, AppliedType DEF Enqueue

\* A set in order is a sequence of its members, each of them once.
LEMMA InOrderType ==
  ASSUME NEW S, IsFiniteSet(S), S \subseteq Nat, NEW seq \in InOrder(S)
  PROVE  /\ seq \in Seq(S)
         /\ \A x \in DOMAIN seq : seq[x] \in S
         /\ \A i, j \in DOMAIN seq : seq[i] = seq[j] => i = j
<1>1. Cardinality(S) \in Nat
  BY FS_CardinalityType
<1>2. seq \in [1 .. Cardinality(S) -> S] /\ \A i, j \in DOMAIN seq : i < j => seq[i] < seq[j]
  BY DEF InOrder
<1>3. ASSUME NEW i \in DOMAIN seq, NEW j \in DOMAIN seq, seq[i] = seq[j] PROVE i = j
  <2>1. i \in 1 .. Cardinality(S) /\ j \in 1 .. Cardinality(S)
    BY <1>2
  <2>2. seq[i] \in Nat
    BY <1>2, <2>1
  <2>3. (i < j => seq[i] < seq[j]) /\ (j < i => seq[j] < seq[i])
    BY <1>2
  <2>4. ~ (i < j) /\ ~ (j < i)
    BY <1>3, <2>2, <2>3
  <2> QED BY <1>1, <2>1, <2>4
<1> QED BY <1>1, <1>2, <1>3

\* The refund at hand is a refund.
LEMMA CurrentType == ASSUME TypeInv, runner # "idle", sent < Len(candidates) PROVE Current \in Refunds
<1>1. sent + 1 \in DOMAIN candidates /\ test \in 1 .. MaxTests
  BY DEF TypeInv, TypeOK, Progress
<1> QED BY <1>1 DEF TypeInv, TypeOK, Current, Refunds

\* Candidates are purchases, of which there are finitely many.
LEMMA CandidatesType ==
  ASSUME NEW db \in Database
  PROVE  IsFiniteSet(Candidates(db)) /\ Candidates(db) \subseteq Sales /\ Candidates(db) \subseteq Nat
<1>1. Candidates(db) \subseteq Sales
  BY DEF Candidates, Database
<1> QED BY <1>1, FS_Subset, RefundAssumption DEF RefundAssumption

\* The finitely many connections, and the sets of them that are open
LEMMA ConnsFinite == ASSUME NEW S, S \subseteq Conns PROVE IsFiniteSet(S) /\ S \subseteq Nat
  BY FS_Subset, RefundAssumption DEF RefundAssumption

LEMMA TypeInit == Init => TypeInv
<1> SUFFICES ASSUME Init PROVE TypeInv
  OBVIOUS
<1>1. NoRows \in Database
  BY DEF NoRows, Database
<1>2. table \in Database /\ log \in Database
  BY <1>1 DEF Init
<1>3. statements = <<>> /\ statements \in Seq(Statement) /\ Len(statements) <= WriteQueueSize
  BY RefundAssumption DEF Init, RefundAssumption
<1>4. queue \in [Conns -> Seq(Refunds)] /\ \A c \in Conns : Len(queue[c]) <= QueueSize
  BY RefundAssumption DEF Init, RefundAssumption
<1>5. candidates = <<>> /\ candidates \in Seq(Sales) /\ conns \in Seq(Conns) /\ sent \in 0 .. Len(candidates)
  BY DEF Init
<1>6. faults \in 0 .. MaxFaults /\ test \in 0 .. MaxTests
  BY RefundAssumption DEF Init, RefundAssumption
<1>7. conn \in [Conns -> {"new", "open", "closed"}]
  BY DEF Init
<1>8. client \subseteq [refund : Refunds, conn : Conns, code : {"00", "05"}] /\ paid \subseteq Refunds
  BY DEF Init
<1>9. unseen \in [1 .. MaxTests -> SUBSET Refunds]
  BY DEF Init
<1>10. Progress
  BY DEF Init, Progress
<1> QED BY <1>2, <1>3, <1>4, <1>5, <1>6, <1>7, <1>8, <1>9, <1>10 DEF Init, TypeInv, TypeOK

\* The refunds that have a row
LEMMA RowRefunds ==
  ASSUME NEW db \in Database, NEW row \in db.refunds
  PROVE  row \in [refund : Refunds, code : Codes] /\ row = Row(row.refund, row.code)
  BY DEF Database, Row, Codes

LEMMA TypeStep == TypeInv /\ [Next]_vars => TypeInv'
<1> SUFFICES ASSUME TypeInv, [Next]_vars PROVE TypeInv'
  OBVIOUS
<1> USE DEF Codes, Answers
<1>1. CASE Settle
  <2>1. statements # <<>> /\ statements \in Seq(Statement) /\ Head(statements) \in Statement
    BY <1>1 DEF Settle, TypeInv
  <2>2. statements' \in Seq(Statement) /\ Len(statements') = Len(statements) - 1
    BY <1>1, <2>1 DEF Settle
  <2>3. Len(statements') <= WriteQueueSize
    BY <2>1, <2>2, RefundAssumption DEF TypeInv, TypeOK, RefundAssumption
  <2>4. table' \in Database
    BY <1>1, <2>1, AppliedType DEF Settle, TypeInv, TypeOK
  <2>5. faults' \in 0 .. MaxFaults
    BY <1>1, RefundAssumption DEF Settle, TypeInv, TypeOK, RefundAssumption
  <2> QED BY <1>1, <2>2, <2>3, <2>4, <2>5 DEF Settle, TypeInv, TypeOK, Progress, connVars, runnerVars
<1>2. CASE Load
  <2>1. test \in Nat /\ test' = test + 1 /\ test' \in 1 .. MaxTests /\ sent = 0 /\ candidates = <<>>
    BY <1>2, RefundAssumption DEF Load, TypeInv, TypeOK, Progress, RefundAssumption
  <2>2. table \in Database /\ log \in Database
    BY DEF TypeInv, TypeOK
  <2>3. candidates' \in Seq(Sales) /\ runner' \in {"idle", "connections"} /\ (runner' = "idle" => candidates' = <<>>)
    <3>1. CASE candidates' \in InOrder(Candidates(table)) /\ runner' = "connections"
      <4>1. candidates' \in Seq(Candidates(table))
        BY <2>2, <3>1, CandidatesType, InOrderType
      <4>2. Candidates(table) \subseteq Sales
        BY <2>2, CandidatesType
      <4> QED BY <3>1, <4>1, <4>2
    <3>2. CASE UNCHANGED <<candidates, runner>>
      BY <1>2, <2>1, <3>2 DEF Load, TypeInv, TypeOK
    <3> QED BY <1>2, <3>1, <3>2 DEF Load
  <2>4. unseen' \in [1 .. MaxTests -> SUBSET Refunds]
    <3>1. {row.refund : row \in log.refunds} \subseteq Refunds
      BY <2>2, RowRefunds
    <3> QED BY <1>2, <2>1, <3>1 DEF Load, TypeInv, TypeOK
  <2>5. sent' = 0 /\ Len(candidates') \in Nat
    BY <1>2, <2>1, <2>3 DEF Load
  <2> QED BY <1>2, <2>1, <2>3, <2>4, <2>5 DEF Load, TypeInv, TypeOK, Progress, dbVars, connVars
<1>3. CASE Connections
  <2>1. conns' \in Seq(Conns)
    <3> DEFINE connected == {c \in Conns : conn[c] = "open"}
    <3>1. connected \subseteq Conns /\ conns' \in InOrder(connected)
      BY <1>3 DEF Connections
    <3>2. IsFiniteSet(connected) /\ connected \subseteq Nat
      BY <3>1, ConnsFinite
    <3>3. conns' \in Seq(connected)
      BY <3>1, <3>2, InOrderType
    <3> QED BY <3>1, <3>3
  <2>2. runner' \in {"idle", "send"} /\ candidates' = (IF runner' = "idle" THEN <<>> ELSE candidates) /\ sent = 0 /\ sent' = 0
    BY <1>3 DEF Connections, TypeInv, TypeOK, Progress
  <2>3. candidates' \in Seq(Sales) /\ Len(candidates') \in Nat
    BY <2>2 DEF TypeInv, TypeOK
  <2> QED BY <1>3, <2>1, <2>2, <2>3 DEF Connections, TypeInv, TypeOK, Progress, dbVars, connVars
<1>4. CASE LogRefund
  <2>1. runner = "send" /\ sent < Len(candidates) /\ sent \in Nat /\ Len(candidates) \in Nat
    BY <1>4 DEF LogRefund, TypeInv, TypeOK
  <2>2. CASE Enqueue(AddRequestLog(Current)) /\ runner' = "queue" /\ UNCHANGED sent
    <3>1. AddRequestLog(Current) \in Statement
      BY <2>1, CurrentType, StatementType
    <3>2. /\ statements' \in Seq(Statement) /\ Len(statements') <= WriteQueueSize
          /\ log' \in Database /\ table' = table /\ faults' = faults
      BY <2>2, <3>1, EnqueueType
    <3> QED BY <1>4, <2>1, <2>2, <3>2 DEF LogRefund, TypeInv, TypeOK, Progress, connVars
  <2>3. CASE sent' = sent + 1 /\ UNCHANGED <<dbVars, runner>>
    <3>1. sent' \in 0 .. Len(candidates)
      BY <2>1, <2>3
    <3> QED BY <1>4, <2>1, <2>3, <3>1 DEF LogRefund, TypeInv, TypeOK, Progress, dbVars, connVars
  <2> QED BY <1>4, <2>2, <2>3 DEF LogRefund
<1>5. CASE QueueRefund
  <2>1. runner = "queue" /\ sent < Len(candidates) /\ sent \in Nat /\ Len(candidates) \in Nat
    BY <1>5 DEF QueueRefund, TypeInv, TypeOK, Progress
  <2>2. Current \in Refunds /\ sent' = sent + 1 /\ sent' \in 0 .. Len(candidates) /\ runner' = "send"
    BY <1>5, <2>1, CurrentType DEF QueueRefund
  <2>3. CASE HasRoom(Target) /\ queue' = [queue EXCEPT ![Target] = Append(@, Current)] /\ UNCHANGED dbVars
    <3>1. queue' \in [Conns -> Seq(Refunds)]
      <4>1. queue \in [Conns -> Seq(Refunds)] /\ \A c \in Conns : Append(queue[c], Current) \in Seq(Refunds)
        BY <2>2 DEF TypeInv, TypeOK
      <4> QED BY <2>3, <4>1
    <3>2. ASSUME NEW c \in Conns PROVE Len(queue'[c]) <= QueueSize
      <4>1. CASE c = Target
        <5>1. queue'[c] = Append(queue[c], Current) /\ queue[c] \in Seq(Refunds) /\ Len(queue[c]) < QueueSize
          BY <2>3, <4>1 DEF TypeInv, TypeOK, HasRoom
        <5>2. Len(queue'[c]) = Len(queue[c]) + 1 /\ Len(queue[c]) \in Nat
          BY <2>2, <5>1
        <5> QED BY <5>1, <5>2, RefundAssumption DEF RefundAssumption
      <4>2. CASE c # Target
        BY <2>3, <4>2 DEF TypeInv, TypeOK
      <4> QED BY <4>1, <4>2
    <3> QED BY <1>5, <2>1, <2>2, <2>3, <3>1, <3>2 DEF QueueRefund, TypeInv, TypeOK, Progress, dbVars
  <2>4. CASE DropRefund(Current) /\ UNCHANGED queue
    <3>1. /\ statements' \in Seq(Statement) /\ Len(statements') <= WriteQueueSize
          /\ log' \in Database /\ table' = table /\ faults' = faults
      BY <2>2, <2>4, EnqueueType, StatementType DEF DropRefund
    <3> QED BY <1>5, <2>1, <2>2, <2>4, <3>1 DEF QueueRefund, TypeInv, TypeOK, Progress
  <2> QED BY <1>5, <2>3, <2>4 DEF QueueRefund
<1>6. CASE Finish
  <2>1. SetTotalRequests(test, sent) \in Statement
    <3>1. test \in Nat /\ sent \in Nat
      BY DEF TypeInv, TypeOK
    <3> QED BY <3>1, StatementType
  <2>2. /\ statements' \in Seq(Statement) /\ Len(statements') <= WriteQueueSize
        /\ log' \in Database /\ table' = table /\ faults' = faults
    BY <1>6, <2>1, EnqueueType DEF Finish
  <2>3. candidates' \in Seq(Sales) /\ conns' \in Seq(Conns) /\ sent' \in 0 .. Len(candidates')
    BY <1>6 DEF Finish
  <2> QED BY <1>6, <2>2, <2>3 DEF Finish, TypeInv, TypeOK, Progress, connVars
<1>7. ASSUME NEW s \in Sales, AnswerSale(s) \/ ReverseSale(s) PROVE TypeInv'
  <2>1. /\ statements' \in Seq(Statement) /\ Len(statements') <= WriteQueueSize
        /\ log' \in Database /\ table' = table /\ faults' = faults
    BY <1>7, EnqueueType, StatementType DEF AnswerSale, ReverseSale
  <2> QED BY <1>7, <2>1 DEF AnswerSale, ReverseSale, TypeInv, TypeOK, Progress, connVars, runnerVars
<1>8. ASSUME NEW c \in Conns, WriteRefund(c) PROVE TypeInv'
  <2>1. queue[c] \in Seq(Refunds) /\ queue[c] # <<>> /\ Head(queue[c]) \in Refunds
    BY <1>8 DEF WriteRefund, TypeInv, TypeOK
  <2>2. Tail(queue[c]) \in Seq(Refunds) /\ Len(Tail(queue[c])) = Len(queue[c]) - 1 /\ Len(queue[c]) \in Nat
    BY <2>1
  <2>3. queue' \in [Conns -> Seq(Refunds)]
    BY <1>8, <2>2 DEF WriteRefund, TypeInv, TypeOK
  <2>4. \A d \in Conns : Len(queue'[d]) <= QueueSize
    BY <1>8, <2>2, RefundAssumption DEF WriteRefund, TypeInv, TypeOK, RefundAssumption
  <2>5. client' \subseteq [refund : Refunds, conn : Conns, code : {"00", "05"}] /\ paid' \subseteq Refunds
    BY <1>8, <2>1 DEF WriteRefund, TypeInv, TypeOK
  <2> QED BY <1>8, <2>3, <2>4, <2>5 DEF WriteRefund, TypeInv, TypeOK, Progress, dbVars, runnerVars
<1>9. ASSUME NEW c \in Conns, Connect(c) \/ Disconnect(c) PROVE TypeInv'
  <2>1. conn' \in [Conns -> {"new", "open", "closed"}]
    BY <1>9 DEF Connect, Disconnect, TypeInv, TypeOK
  <2> QED BY <1>9, <2>1 DEF Connect, Disconnect, TypeInv, TypeOK, Progress, dbVars, runnerVars
<1>10. ASSUME NEW a \in client, AnswerRefund(a) PROVE TypeInv'
  <2>1. a.refund \in Refunds /\ a.code \in Answers
    BY DEF TypeInv, TypeOK
  <2>2. /\ statements' \in Seq(Statement) /\ Len(statements') <= WriteQueueSize
        /\ log' \in Database /\ table' = table /\ faults' = faults
    BY <1>10, <2>1, EnqueueType, StatementType DEF AnswerRefund
  <2> QED BY <1>10, <2>2 DEF AnswerRefund, TypeInv, TypeOK, Progress, runnerVars
<1>11. CASE UNCHANGED vars
  BY <1>11 DEF vars, dbVars, connVars, runnerVars, TypeInv, TypeOK, Progress
<1> QED BY <1>1, <1>2, <1>3, <1>4, <1>5, <1>6, <1>7, <1>8, <1>9, <1>10, <1>11 DEF Next, RunRefund

\* The variables keep their types; the queues of the connections and the write queue
\* never hold more than their channels have places for.
THEOREM TypeCorrect == Spec => []TypeOK
<1>1. Spec => []TypeInv
  BY TypeInit, TypeStep, PTL DEF Spec
<1> QED BY <1>1, PTL DEF TypeInv

-----------------------------------------------------------------------------
(* The inductive invariant                                                 *)

\* A refund the client has declined: its answer is on the way, in a statement or in
\* the table.
Declined(r) ==
  \/ \E a \in client : a.refund = r /\ a.code = "05"
  \/ \E i \in 1 .. Len(statements) :
       statements[i].op = "update" /\ statements[i].refund = r /\ statements[i].code = "05"
  \/ Row(r, "05") \in table.refunds

Queued(r) == \E c \in Conns : \E i \in 1 .. Len(queue[c]) : queue[c][i] = r

\* A refund of the running test whose turn is still to come
Pending(r) == r.test = test /\ \E i \in 1 .. Len(candidates) : i > sent /\ candidates[i] = r.sale

\* A refund with a row, when every statement has been applied
Logged(r) == \E code \in Codes : Row(r, code) \in log.refunds

Going(r) == r \in paid \/ Queued(r)

\* A refund goes once: it is pending, then in one place of one queue, then approved
\* or declined.
GoesOnce ==
  /\ \A r \in Refunds : Declined(r) => ~ Going(r)
  /\ \A r \in Refunds : Queued(r) => r \notin paid
  /\ \A c, d \in Conns : \A i \in 1 .. Len(queue[c]), j \in 1 .. Len(queue[d]) :
       queue[c][i] = queue[d][j] => c = d /\ i = j
  /\ \A r \in Refunds : Pending(r) => ~ Going(r) /\ ~ Declined(r)
  /\ \A i, j \in 1 .. Len(candidates) : candidates[i] = candidates[j] => i = j

\* No refund of a test that is still to come
NoneAhead == \A r \in Refunds : Going(r) \/ Declined(r) => r.test <= test

\* What goes has been logged.
LoggedFirst ==
  /\ \A r \in Refunds : Going(r) => Logged(r)
  /\ runner = "queue" => Logged(Current)

\* A refund of an earlier test that goes beside one of the same sale was not seen.
OthersUnseen ==
  \A r, s \in Refunds :
    r.sale = s.sale /\ r.test < s.test /\ Going(r) /\ (Going(s) \/ Pending(s)) => r \in unseen[s.test]

IInv == GoesOnce /\ NoneAhead /\ LoggedFirst /\ OthersUnseen

\* Row records are told apart by their refund and their code.
LEMMA RowsDiffer ==
  ASSUME NEW r, NEW s, NEW code, NEW other, Row(r, code) = Row(s, other)
  PROVE  r = s /\ code = other
<1>1. Row(r, code).refund = r /\ Row(r, code).code = code /\ Row(s, other).refund = s /\ Row(s, other).code = other
  BY DEF Row
<1> QED BY <1>1

\* A row stays, answered or not, unless a statement deletes it.
LEMMA LoggedStays ==
  ASSUME TypeInv, NEW st \in Statement, log' = Applied(log, st), NEW r \in Refunds, Logged(r),
         st.op = "delete" => st.refund # r
  PROVE  Logged(r)'
<1>1. log \in Database
  BY DEF TypeInv, TypeOK
<1>2. PICK code \in Codes : Row(r, code) \in log.refunds
  BY DEF Logged
<1>3. \E other \in Codes : Row(r, other) \in log'.refunds
  <2>1. CASE st \in [op : {"approve", "reverse"}, sale : Sales] \/ st \in [op : {"total"}, test : Nat, total : Nat]
    <3>1. log'.refunds = log.refunds
      BY <1>1, <2>1 DEF Applied, Database
    <3> QED BY <1>2, <3>1
  <2>2. CASE st \in [op : {"insert", "delete"}, refund : Refunds] /\ st.op = "insert"
    <3>1. log'.refunds = log.refunds \cup {Row(st.refund, "none")}
      BY <1>1, <2>2 DEF Applied, Database
    <3> QED BY <1>2, <3>1
  <2>3. CASE st \in [op : {"insert", "delete"}, refund : Refunds] /\ st.op = "delete"
    <3>1. log'.refunds = log.refunds \ {Row(st.refund, "none")}
      BY <1>1, <2>3 DEF Applied, Database
    <3>2. Row(r, code) # Row(st.refund, "none")
      BY <2>3, RowsDiffer
    <3> QED BY <1>2, <3>1, <3>2
  <2>4. CASE st \in [op : {"update"}, refund : Refunds, code : Answers]
    <3>1. st.op = "update" /\ st.code \in Codes
      BY <2>4 DEF Answers, Codes
    <3>2. log'.refunds \in {log.refunds, (log.refunds \ {Row(st.refund, "none")}) \cup {Row(st.refund, st.code)}}
      BY <1>1, <3>1 DEF Applied, Database
    <3>3. Row(r, code) = Row(st.refund, "none") => r = st.refund
      BY RowsDiffer
    <3> QED BY <1>2, <3>1, <3>2, <3>3
  <2>5. st \in [op : {"insert", "delete"}, refund : Refunds] => st.op \in {"insert", "delete"}
    OBVIOUS
  <2> QED BY <2>1, <2>2, <2>3, <2>4, <2>5 DEF Statement
<1> QED BY <1>3 DEF Logged

\* No statement that is queued declines a refund, but an answer that does.
LEMMA DeclinedBefore ==
  ASSUME TypeInv, NEW st \in Statement, Enqueue(st), client' \subseteq client, NEW r \in Refunds, Declined(r)',
         st.op = "update" /\ st.code = "05" => \E a \in client : a.refund = st.refund /\ a.code = "05"
  PROVE  Declined(r)
<1>1. statements' = Append(statements, st) /\ statements \in Seq(Statement) /\ table' = table
  BY DEF Enqueue, TypeInv
<1>2. Len(statements') = Len(statements) + 1 /\ Len(statements) \in Nat
  BY <1>1
<1>3. \A i \in 1 .. Len(statements') : statements'[i] = IF i = Len(statements) + 1 THEN st ELSE statements[i]
  BY <1>1, <1>2
<1>4. CASE \E a \in client' : a.refund = r /\ a.code = "05"
  BY <1>4 DEF Declined
<1>5. ASSUME NEW i \in 1 .. Len(statements'),
             statements'[i].op = "update", statements'[i].refund = r, statements'[i].code = "05"
      PROVE  Declined(r)
  <2>1. CASE i = Len(statements) + 1
    BY <1>3, <1>5, <2>1 DEF Declined
  <2>2. CASE i # Len(statements) + 1
    <3>1. i \in 1 .. Len(statements) /\ statements'[i] = statements[i]
      BY <1>2, <1>3, <2>2
    <3> QED BY <1>5, <3>1 DEF Declined
  <2> QED BY <2>1, <2>2
<1>6. CASE Row(r, "05") \in table'.refunds
  BY <1>1, <1>6 DEF Declined
<1> QED BY <1>4, <1>5, <1>6 DEF Declined

\* Nor does the statement that the writer applies or loses.
LEMMA DeclinedSettled == ASSUME TypeInv, Settle, NEW r \in Refunds, Declined(r)' PROVE Declined(r)
<1> DEFINE st == Head(statements)
<1>1. statements \in Seq(Statement) /\ statements # <<>> /\ statements' = Tail(statements) /\ client' = client
  BY DEF Settle, TypeInv, connVars
<1>2. Len(statements) \in Nat /\ Len(statements) >= 1 /\ st = statements[1] /\ st \in Statement
  BY <1>1
<1>3. Len(statements') = Len(statements) - 1 /\ \A i \in 1 .. Len(statements') : statements'[i] = statements[i + 1]
  BY <1>1
<1>4. CASE \E a \in client' : a.refund = r /\ a.code = "05"
  BY <1>1, <1>4 DEF Declined
<1>5. ASSUME NEW i \in 1 .. Len(statements'),
             statements'[i].op = "update", statements'[i].refund = r, statements'[i].code = "05"
      PROVE  Declined(r)
  <2>1. i + 1 \in 1 .. Len(statements) /\ statements'[i] = statements[i + 1]
    BY <1>2, <1>3
  <2> QED BY <1>5, <2>1 DEF Declined
<1>6. CASE Row(r, "05") \in table'.refunds
  <2>1. table \in Database /\ table' \in {table, Applied(table, st)}
    BY DEF Settle, TypeInv, TypeOK
  <2>2. CASE table' = table
    BY <1>6, <2>2 DEF Declined
  <2>3. CASE table' = Applied(table, st)
    <3>1. CASE st.op = "update"
      <4>1. table'.refunds \in {table.refunds, (table.refunds \ {Row(st.refund, "none")}) \cup {Row(st.refund, st.code)}}
        BY <2>1, <2>3, <3>1 DEF Applied, Database
      <4>2. Row(r, "05") \in table.refunds \/ Row(r, "05") = Row(st.refund, st.code)
        BY <1>6, <4>1
      <4>3. Row(r, "05") = Row(st.refund, st.code) => st.refund = r /\ st.code = "05"
        BY RowsDiffer
      <4>4. 1 \in 1 .. Len(statements)
        BY <1>2
      <4> QED BY <1>2, <3>1, <4>2, <4>3, <4>4 DEF Declined
    <3>2. CASE st.op # "update"
      <4>1. st.op \in {"approve", "reverse", "insert", "delete", "total"}
        BY <1>2, <3>2 DEF Statement
      <4>2. \A x \in table'.refunds : x \in table.refunds \/ x = Row(st.refund, "none")
        BY <2>1, <2>3, <4>1 DEF Applied, Database
      <4>3. Row(r, "05") # Row(st.refund, "none")
        BY RowsDiffer
      <4> QED BY <1>6, <4>2, <4>3 DEF Declined
    <3> QED BY <3>1, <3>2
  <2> QED BY <2>1, <2>2, <2>3
<1> QED BY <1>4, <1>5, <1>6 DEF Declined

-----------------------------------------------------------------------------
(* Every step preserves it                                                 *)

\* A step that moves no refund
LEMMA QuietStep ==
  ASSUME TypeInv, IInv, UNCHANGED <<queue, paid, test, unseen>>,
         candidates' \in {candidates, <<>>},
         \A r \in Refunds : Pending(r)' => Pending(r),
         \A r \in Refunds : Declined(r)' => Declined(r),
         \A r \in Refunds : Going(r) /\ Logged(r) => Logged(r)',
         runner' = "queue" => Logged(Current)'
  PROVE  IInv'
<1>1. \A r \in Refunds : (Going(r)' <=> Going(r)) /\ (Queued(r)' <=> Queued(r))
  BY DEF Going, Queued
<1>2. GoesOnce'
  <2>1. \A r \in Refunds : Declined(r)' => ~ Going(r)'
    BY <1>1 DEF IInv, GoesOnce
  <2>2. \A r \in Refunds : Queued(r)' => r \notin paid'
    BY <1>1 DEF IInv, GoesOnce
  <2>3. \A c, d \in Conns : \A i \in 1 .. Len(queue'[c]), j \in 1 .. Len(queue'[d]) :
          queue'[c][i] = queue'[d][j] => c = d /\ i = j
    BY DEF IInv, GoesOnce
  <2>4. \A r \in Refunds : Pending(r)' => ~ Going(r)' /\ ~ Declined(r)'
    BY <1>1 DEF IInv, GoesOnce
  <2>5. \A i, j \in 1 .. Len(candidates') : candidates'[i] = candidates'[j] => i = j
    BY DEF IInv, GoesOnce
  <2> QED BY <2>1, <2>2, <2>3, <2>4, <2>5 DEF GoesOnce
<1>3. NoneAhead'
  BY <1>1 DEF IInv, NoneAhead
<1>4. LoggedFirst'
  BY <1>1 DEF IInv, LoggedFirst
<1>5. OthersUnseen'
  BY <1>1 DEF IInv, OthersUnseen
<1> QED BY <1>2, <1>3, <1>4, <1>5 DEF IInv

\* The candidates of a later test are sales of which no refund is known to go.
LEMMA LoadStep == ASSUME TypeInv, IInv, Load PROVE IInv'
<1>1. /\ test \in Nat /\ test' = test + 1 /\ test' \in 1 .. MaxTests /\ sent = 0 /\ sent' = 0 /\ candidates = <<>>
      /\ table \in Database /\ log \in Database
  BY RefundAssumption DEF Load, TypeInv, TypeOK, Progress, RefundAssumption
<1>2. UNCHANGED <<table, statements, log, queue, client, paid>> /\ runner' \in {"idle", "connections"}
  BY DEF Load, TypeInv, Progress, dbVars, connVars
<1>3. \A r \in Refunds : /\ Going(r)' <=> Going(r)
                         /\ Queued(r)' <=> Queued(r)
                         /\ Declined(r)' <=> Declined(r)
                         /\ Logged(r)' <=> Logged(r)
  BY <1>2 DEF Going, Queued, Declined, Logged
<1>4. \A i \in 1 .. Len(candidates') : candidates'[i] \in Candidates(table)
  <2>1. CASE candidates' \in InOrder(Candidates(table))
    <3>1. candidates' \in Seq(Candidates(table))
      BY <1>1, <2>1, CandidatesType, InOrderType
    <3> QED BY <3>1
  <2>2. CASE candidates' = candidates
    BY <1>1, <2>2
  <2> QED BY <2>1, <2>2 DEF Load
<1>5. \A i, j \in 1 .. Len(candidates') : candidates'[i] = candidates'[j] => i = j
  <2>1. CASE candidates' \in InOrder(Candidates(table))
    <3>1. candidates' \in Seq(Candidates(table)) /\ \A i, j \in DOMAIN candidates' : candidates'[i] = candidates'[j] => i = j
      BY <1>1, <2>1, CandidatesType, InOrderType
    <3> QED BY <3>1
  <2>2. CASE candidates' = candidates
    BY <1>1, <2>2
  <2> QED BY <2>1, <2>2 DEF Load
<1>6. \A r \in Refunds : r.test \in Nat
  BY DEF Refunds
<1>7. \A r \in Refunds : Pending(r)' => r.test = test' /\ r.sale \in Candidates(table)
  BY <1>4 DEF Pending
<1>8. \A r \in Refunds : Going(r) \/ Declined(r) => r.test <= test
  BY DEF IInv, NoneAhead
<1>9. GoesOnce'
  <2>1. \A r \in Refunds : Declined(r)' => ~ Going(r)'
    BY <1>3 DEF IInv, GoesOnce
  <2>2. \A r \in Refunds : Queued(r)' => r \notin paid'
    BY <1>2, <1>3 DEF IInv, GoesOnce
  <2>3. \A c, d \in Conns : \A i \in 1 .. Len(queue'[c]), j \in 1 .. Len(queue'[d]) :
          queue'[c][i] = queue'[d][j] => c = d /\ i = j
    BY <1>2 DEF IInv, GoesOnce
  <2>4. ASSUME NEW r \in Refunds, Pending(r)' PROVE ~ Going(r)' /\ ~ Declined(r)'
    <3>1. r.test = test + 1
      BY <1>1, <1>7, <2>4
    <3>2. ~ (r.test <= test)
      BY <1>1, <3>1
    <3> QED BY <1>3, <1>8, <3>2
  <2> QED BY <1>5, <2>1, <2>2, <2>3, <2>4 DEF GoesOnce
<1>10. NoneAhead'
  BY <1>1, <1>3, <1>6, <1>8 DEF NoneAhead
<1>11. LoggedFirst'
  BY <1>2, <1>3 DEF IInv, LoggedFirst
<1>12. ASSUME NEW r \in Refunds, NEW s \in Refunds, r.sale = s.sale, r.test < s.test, Going(r)', Going(s)' \/ Pending(s)'
       PROVE  r \in unseen'[s.test]
  <2>1. unseen' = [unseen EXCEPT ![test'] = {row.refund : row \in log.refunds} \ {row.refund : row \in table.refunds}]
    BY DEF Load
  <2>2. unseen \in [1 .. MaxTests -> SUBSET Refunds]
    BY DEF TypeInv, TypeOK
  <2>3. CASE Going(s)'
    <3>1. s.test <= test /\ s.test # test' /\ s.test \in 1 .. MaxTests
      BY <1>1, <1>3, <1>6, <1>8, <2>3 DEF Refunds
    <3>2. unseen'[s.test] = unseen[s.test]
      BY <2>1, <2>2, <3>1
    <3> QED BY <1>3, <1>12, <2>3, <3>2 DEF IInv, OthersUnseen
  <2>4. CASE Pending(s)'
    <3>1. s.test = test' /\ s.sale \in Candidates(table)
      BY <1>7, <2>4
    <3>2. PICK code \in Codes : Row(r, code) \in log.refunds
      BY <1>3, <1>12 DEF IInv, LoggedFirst, Logged
    <3>3. r \in {row.refund : row \in log.refunds}
      <4>1. Row(r, code).refund = r
        BY DEF Row
      <4> QED BY <3>2, <4>1
    <3>4. ASSUME NEW row \in table.refunds, row.refund = r PROVE FALSE
      <4>1. row = Row(r, row.code) /\ row.code \in Codes
        BY <1>1, <3>4, RowRefunds
      <4>2. row.code \notin {"00", "none"}
        BY <1>12, <3>1, <3>4 DEF Candidates
      <4>3. row.code = "05"
        BY <4>1, <4>2 DEF Codes
      <4>4. Declined(r)
        BY <4>1, <4>3 DEF Declined
      <4> QED BY <1>3, <1>12, <4>4 DEF IInv, GoesOnce
    <3>5. unseen'[s.test] = {row.refund : row \in log.refunds} \ {row.refund : row \in table.refunds}
      BY <1>1, <2>1, <2>2, <3>1
    <3> QED BY <3>3, <3>4, <3>5
  <2> QED BY <1>12, <2>3, <2>4
<1> QED BY <1>9, <1>10, <1>11, <1>12 DEF IInv, OthersUnseen

\* The refund at hand takes a place, or its row is deleted.
LEMMA QueueStep == ASSUME TypeInv, IInv, QueueRefund PROVE IInv'
<1> DEFINE r0 == Current
<1>1. /\ runner = "queue" /\ sent < Len(candidates) /\ sent \in Nat /\ Len(candidates) \in Nat
      /\ sent' = sent + 1 /\ runner' = "send" /\ UNCHANGED <<client, paid, test, candidates, unseen>>
  BY DEF QueueRefund, TypeInv, TypeOK, Progress
<1>2. r0 \in Refunds /\ r0.test = test /\ r0.sale = candidates[sent + 1]
  BY <1>1, CurrentType DEF Current
<1>3. Pending(r0) /\ ~ Going(r0) /\ ~ Declined(r0) /\ Logged(r0)
  <2>1. sent + 1 \in 1 .. Len(candidates) /\ sent + 1 > sent
    BY <1>1
  <2>2. Pending(r0)
    BY <1>2, <2>1 DEF Pending
  <2> QED BY <1>1, <1>2, <2>2 DEF IInv, GoesOnce, LoggedFirst
<1>4. ASSUME NEW r \in Refunds, Pending(r)' PROVE Pending(r) /\ r # r0
  <2>1. PICK i \in 1 .. Len(candidates) : i > sent + 1 /\ candidates[i] = r.sale
    BY <1>1, <1>4 DEF Pending
  <2>2. i > sent /\ i # sent + 1 /\ sent + 1 \in 1 .. Len(candidates) /\ r.test = test
    BY <1>1, <1>4, <2>1 DEF Pending
  <2>3. candidates[i] # candidates[sent + 1]
    BY <2>2 DEF IInv, GoesOnce
  <2> QED BY <1>2, <2>1, <2>2, <2>3 DEF Pending
<1>5. CASE DropRefund(r0) /\ UNCHANGED queue
  <2>1. DeleteRequestLog(r0) \in Statement /\ Enqueue(DeleteRequestLog(r0))
    BY <1>2, <1>5, StatementType DEF DropRefund
  <2>2. DeleteRequestLog(r0).op = "delete" /\ DeleteRequestLog(r0).refund = r0
    BY DEF DeleteRequestLog
  <2>3. \A r \in Refunds : Declined(r)' => Declined(r)
    BY <1>1, <2>1, <2>2, DeclinedBefore
  <2>4. \A r \in Refunds : Going(r) /\ Logged(r) => Logged(r)'
    <3>1. log' = Applied(log, DeleteRequestLog(r0))
      BY <2>1 DEF Enqueue
    <3> QED BY <1>3, <2>1, <2>2, <3>1, LoggedStays
  <2> QED BY <1>1, <1>4, <1>5, <2>3, <2>4, QuietStep
<1>6. CASE queue' = [queue EXCEPT ![Target] = Append(@, r0)] /\ UNCHANGED dbVars
  <2>1. queue \in [Conns -> Seq(Refunds)]
    BY DEF TypeInv, TypeOK
  <2>2. ASSUME NEW c \in Conns, NEW i \in 1 .. Len(queue'[c])
        PROVE  \/ i \in 1 .. Len(queue[c]) /\ queue'[c][i] = queue[c][i]
               \/ c = Target /\ i = Len(queue[c]) + 1 /\ queue'[c][i] = r0
    <3>1. CASE c = Target
      <4>1. queue'[c] = Append(queue[c], r0) /\ queue[c] \in Seq(Refunds)
        BY <1>6, <2>1, <3>1
      <4>2. Len(queue'[c]) = Len(queue[c]) + 1 /\ Len(queue[c]) \in Nat
        BY <4>1
      <4>3. queue'[c][i] = IF i = Len(queue[c]) + 1 THEN r0 ELSE queue[c][i]
        BY <2>2, <4>1, <4>2
      <4>4. i = Len(queue[c]) + 1 \/ i \in 1 .. Len(queue[c])
        BY <2>2, <4>2
      <4>5. i \in 1 .. Len(queue[c]) => i # Len(queue[c]) + 1
        BY <4>2
      <4> QED BY <3>1, <4>3, <4>4, <4>5
    <3>2. CASE c # Target
      <4>1. queue'[c] = queue[c]
        BY <1>6, <2>1, <3>2
      <4> QED BY <2>2, <4>1
    <3> QED BY <3>1, <3>2
  <2>3. ASSUME NEW r \in Refunds PROVE Queued(r)' => Queued(r) \/ r = r0
    BY <2>2 DEF Queued
  <2>4. \A r \in Refunds : Going(r)' => Going(r) \/ r = r0
    BY <1>1, <2>3 DEF Going
  <2>5. \A r \in Refunds : (Declined(r)' <=> Declined(r)) /\ (Logged(r)' <=> Logged(r))
    BY <1>1, <1>6 DEF Declined, Logged, dbVars
  <2>6. GoesOnce'
    <3>1. \A r \in Refunds : Declined(r)' => ~ Going(r)'
      BY <1>3, <2>4, <2>5 DEF IInv, GoesOnce
    <3>2. \A r \in Refunds : Queued(r)' => r \notin paid'
      BY <1>1, <1>3, <2>3 DEF IInv, GoesOnce, Going
    <3>3. ASSUME NEW c \in Conns, NEW d \in Conns, NEW i \in 1 .. Len(queue'[c]), NEW j \in 1 .. Len(queue'[d]),
                 queue'[c][i] = queue'[d][j]
          PROVE  c = d /\ i = j
      <4>1. \A e \in Conns : \A k \in 1 .. Len(queue[e]) : queue[e][k] # r0
        BY <1>3 DEF Going, Queued
      <4>2. \A e, f \in Conns : \A k \in 1 .. Len(queue[e]), l \in 1 .. Len(queue[f]) :
              queue[e][k] = queue[f][l] => e = f /\ k = l
        BY DEF IInv, GoesOnce
      <4>3. \/ i \in 1 .. Len(queue[c]) /\ queue'[c][i] = queue[c][i]
            \/ c = Target /\ i = Len(queue[c]) + 1 /\ queue'[c][i] = r0
        BY <2>2, <3>3
      <4>4. \/ j \in 1 .. Len(queue[d]) /\ queue'[d][j] = queue[d][j]
            \/ d = Target /\ j = Len(queue[d]) + 1 /\ queue'[d][j] = r0
        BY <2>2, <3>3
      <4> QED BY <3>3, <4>1, <4>2, <4>3, <4>4
    <3>4. \A r \in Refunds : Pending(r)' => ~ Going(r)' /\ ~ Declined(r)'
      BY <1>4, <2>4, <2>5 DEF IInv, GoesOnce
    <3>5. \A i, j \in 1 .. Len(candidates') : candidates'[i] = candidates'[j] => i = j
      BY <1>1 DEF IInv, GoesOnce
    <3> QED BY <3>1, <3>2, <3>3, <3>4, <3>5 DEF GoesOnce
  <2>7. NoneAhead'
    <3>1. test \in Nat /\ test <= test
      BY DEF TypeInv, TypeOK
    <3> QED BY <1>1, <1>2, <2>4, <2>5, <3>1 DEF IInv, NoneAhead
  <2>8. LoggedFirst'
    BY <1>1, <1>3, <2>4, <2>5 DEF IInv, LoggedFirst
  <2>9. ASSUME NEW r \in Refunds, NEW s \in Refunds, r.sale = s.sale, r.test < s.test, Going(r)', Going(s)' \/ Pending(s)'
        PROVE  r \in unseen'[s.test]
    <3>1. Going(s) \/ Pending(s)
      BY <1>3, <1>4, <2>4, <2>9
    <3>2. r.test \in Nat /\ s.test \in Nat /\ test \in Nat /\ s.test <= test
      BY <3>1 DEF IInv, NoneAhead, Pending, Refunds, TypeInv, TypeOK
    <3>3. r # r0
      BY <1>2, <2>9, <3>2
    <3>4. Going(r)
      BY <2>4, <2>9, <3>3
    <3> QED BY <1>1, <2>9, <3>1, <3>4 DEF IInv, OthersUnseen
  <2> QED BY <2>6, <2>7, <2>8, <2>9 DEF IInv, OthersUnseen
<1> QED BY <1>5, <1>6 DEF QueueRefund

\* The refund at the head of a queue goes to the client, who decides.
LEMMA WriteStep == ASSUME TypeInv, IInv, NEW c \in Conns, WriteRefund(c) PROVE IInv'
<1> DEFINE h == Head(queue[c])
<1>1. queue \in [Conns -> Seq(Refunds)] /\ queue[c] \in Seq(Refunds) /\ queue[c] # <<>>
  BY DEF WriteRefund, TypeInv, TypeOK
<1>2. h \in Refunds /\ h = queue[c][1] /\ Len(queue[c]) \in Nat /\ 1 \in 1 .. Len(queue[c])
  BY <1>1
<1>3. /\ queue' = [queue EXCEPT ![c] = Tail(@)]
      /\ UNCHANGED <<table, statements, log, test, candidates, sent, unseen, runner>>
  BY DEF WriteRefund, dbVars, runnerVars
<1>4. Queued(h) /\ Going(h) /\ h \notin paid
  BY <1>2 DEF Queued, Going, IInv, GoesOnce
<1>5. ~ Declined(h) /\ ~ Pending(h)
  BY <1>2, <1>4 DEF IInv, GoesOnce
<1>6. \A e, f \in Conns : \A k \in 1 .. Len(queue[e]), l \in 1 .. Len(queue[f]) :
        queue[e][k] = queue[f][l] => e = f /\ k = l
  BY DEF IInv, GoesOnce
<1>7. PICK code \in {"00", "05"} :
        /\ client' = client \cup {[refund |-> h, conn |-> c, code |-> code]}
        /\ paid' = IF code = "00" THEN paid \cup {h} ELSE paid
  BY DEF WriteRefund
\* Where the refund at a place of a queue was before
<1> DEFINE was(d, i) == IF d = c THEN i + 1 ELSE i
<1>8. ASSUME NEW d \in Conns, NEW i \in 1 .. Len(queue'[d])
      PROVE  was(d, i) \in 1 .. Len(queue[d]) /\ queue'[d][i] = queue[d][was(d, i)] /\ queue'[d][i] # h
  <2>1. CASE d = c
    <3>1. queue'[d] = Tail(queue[d]) /\ queue[d] \in Seq(Refunds) /\ queue[d] # <<>>
      BY <1>1, <1>3, <2>1
    <3>2. Len(queue'[d]) = Len(queue[d]) - 1 /\ i + 1 \in 1 .. Len(queue[d]) /\ queue'[d][i] = queue[d][i + 1] /\ i + 1 # 1
      BY <1>8, <3>1
    <3>3. queue[d][i + 1] # h
      BY <1>2, <1>6, <2>1, <3>2
    <3> QED BY <2>1, <3>2, <3>3
  <2>2. CASE d # c
    <3>1. queue'[d] = queue[d]
      BY <1>1, <1>3, <2>2
    <3> QED BY <1>2, <1>6, <1>8, <2>2, <3>1
  <2> QED BY <2>1, <2>2
<1>9. ASSUME NEW r \in Refunds, Queued(r)' PROVE Queued(r) /\ r # h
  <2>1. PICK d \in Conns : \E i \in 1 .. Len(queue'[d]) : queue'[d][i] = r
    BY <1>9 DEF Queued
  <2> QED BY <1>8, <2>1 DEF Queued
<1>10. \A r \in Refunds : Going(r)' => Going(r)
  BY <1>4, <1>7, <1>9 DEF Going
<1>11. ASSUME NEW r \in Refunds, Declined(r)' PROVE Declined(r) \/ (r = h /\ paid' = paid)
  <2>1. ASSUME NEW a \in client', a.refund = r, a.code = "05" PROVE Declined(r) \/ (r = h /\ paid' = paid)
    <3>1. CASE a \in client
      <4>1. \E b \in client : b.refund = r /\ b.code = "05"
        BY <2>1, <3>1
      <4> QED BY <4>1 DEF Declined
    <3>2. CASE a = [refund |-> h, conn |-> c, code |-> code]
      BY <1>7, <2>1, <3>2
    <3> QED BY <1>7, <3>1, <3>2
  <2>2. CASE \E i \in 1 .. Len(statements') :
          statements'[i].op = "update" /\ statements'[i].refund = r /\ statements'[i].code = "05"
    BY <1>3, <2>2 DEF Declined
  <2>3. CASE Row(r, "05") \in table'.refunds
    BY <1>3, <2>3 DEF Declined
  <2>4. CASE \E a \in client' : a.refund = r /\ a.code = "05"
    BY <2>1, <2>4
  <2> QED BY <1>11, <2>2, <2>3, <2>4 DEF Declined
<1>12. \A r \in Refunds : (Pending(r)' <=> Pending(r)) /\ (Logged(r)' <=> Logged(r))
  BY <1>3 DEF Pending, Logged
<1>13. GoesOnce'
  <2>1. ASSUME NEW r \in Refunds, Declined(r)' PROVE ~ Going(r)'
    <3>1. CASE Declined(r)
      BY <1>10, <3>1 DEF IInv, GoesOnce
    <3>2. CASE r = h /\ paid' = paid
      BY <1>4, <1>9, <3>2 DEF Going
    <3> QED BY <1>11, <2>1, <3>1, <3>2
  <2>2. \A r \in Refunds : Queued(r)' => r \notin paid'
    BY <1>7, <1>9 DEF IInv, GoesOnce
  <2>3. ASSUME NEW d \in Conns, NEW e \in Conns, NEW i \in 1 .. Len(queue'[d]), NEW j \in 1 .. Len(queue'[e]),
               queue'[d][i] = queue'[e][j]
        PROVE  d = e /\ i = j
    <3>1. was(d, i) \in 1 .. Len(queue[d]) /\ was(e, j) \in 1 .. Len(queue[e]) /\ queue[d][was(d, i)] = queue[e][was(e, j)]
      BY <1>8, <2>3
    <3>2. d = e /\ was(d, i) = was(e, j)
      BY <1>6, <3>1
    <3> QED BY <3>2
  <2>4. \A r \in Refunds : Pending(r)' => ~ Going(r)' /\ ~ Declined(r)'
    BY <1>5, <1>10, <1>11, <1>12 DEF IInv, GoesOnce
  <2>5. \A i, j \in 1 .. Len(candidates') : candidates'[i] = candidates'[j] => i = j
    BY <1>3 DEF IInv, GoesOnce
  <2> QED BY <2>1, <2>2, <2>3, <2>4, <2>5 DEF GoesOnce
<1>14. NoneAhead'
  BY <1>2, <1>3, <1>4, <1>10, <1>11 DEF IInv, NoneAhead
<1>15. LoggedFirst'
  <2>1. Current' = Current
    BY <1>3 DEF Current
  <2>2. runner' = "queue" => Logged(Current)'
    BY <1>3, <2>1 DEF IInv, LoggedFirst, Logged
  <2> QED BY <1>10, <1>12, <2>2 DEF IInv, LoggedFirst
<1>16. OthersUnseen'
  BY <1>3, <1>10, <1>12 DEF IInv, OthersUnseen
<1> QED BY <1>13, <1>14, <1>15, <1>16 DEF IInv

LEMMA InvInit == Init => IInv
<1> SUFFICES ASSUME Init PROVE IInv
  OBVIOUS
<1>1. \A c \in Conns : queue[c] = <<>>
  BY DEF Init
<1>2. candidates = <<>> /\ runner = "idle" /\ paid = {} /\ client = {} /\ statements = <<>> /\ table.refunds = {}
  BY DEF Init, NoRows
<1>3. \A r \in Refunds : ~ Going(r) /\ ~ Queued(r) /\ ~ Declined(r) /\ ~ Pending(r)
  BY <1>1, <1>2 DEF Going, Queued, Declined, Pending
<1> QED BY <1>1, <1>2, <1>3 DEF IInv, GoesOnce, NoneAhead, LoggedFirst, OthersUnseen

LEMMA InvStep == TypeInv /\ IInv /\ [Next]_vars => IInv'
<1> SUFFICES ASSUME TypeInv, IInv, [Next]_vars PROVE IInv'
  OBVIOUS
<1>1. CASE Settle
  <2>1. UNCHANGED <<log, queue, paid, client, test, unseen, candidates, sent, runner>>
    BY <1>1 DEF Settle, connVars, runnerVars
  <2>2. \A r \in Refunds : (Pending(r)' => Pending(r)) /\ (Logged(r) => Logged(r)')
    BY <2>1 DEF Pending, Logged
  <2>3. \A r \in Refunds : Declined(r)' => Declined(r)
    BY <1>1, DeclinedSettled
  <2>4. runner' = "queue" => Logged(Current)'
    BY <2>1 DEF IInv, LoggedFirst, Logged, Current
  <2> QED BY <2>1, <2>2, <2>3, <2>4, QuietStep
<1>2. CASE Load
  BY <1>2, LoadStep
<1>3. CASE Connections
  <2>1. /\ UNCHANGED <<table, statements, log, queue, paid, client, test, unseen, sent>>
        /\ candidates' \in {candidates, <<>>} /\ runner' \in {"idle", "send"}
    BY <1>3 DEF Connections, dbVars, connVars
  <2>2. \A r \in Refunds : (Pending(r)' => Pending(r)) /\ (Declined(r)' => Declined(r)) /\ (Logged(r) => Logged(r)')
    BY <2>1 DEF Pending, Declined, Logged
  <2> QED BY <2>1, <2>2, QuietStep
<1>4. CASE LogRefund
  <2>1. /\ UNCHANGED <<queue, paid, client, test, unseen, candidates>>
        /\ runner = "send" /\ sent < Len(candidates) /\ sent \in Nat /\ Len(candidates) \in Nat
    BY <1>4 DEF LogRefund, connVars, TypeInv, TypeOK
  <2>2. Current \in Refunds
    BY <2>1, CurrentType
  <2>3. CASE Enqueue(AddRequestLog(Current)) /\ runner' = "queue" /\ UNCHANGED sent
    <3>1. AddRequestLog(Current) \in Statement /\ AddRequestLog(Current) = [op |-> "insert", refund |-> Current]
      BY <2>2, StatementType DEF AddRequestLog
    <3>2. \A r \in Refunds : (Pending(r)' => Pending(r)) /\ (Declined(r)' => Declined(r))
      BY <2>1, <2>3, <3>1, DeclinedBefore DEF Pending
    <3>3. log' = Applied(log, AddRequestLog(Current))
      BY <2>3 DEF Enqueue
    <3>4. \A r \in Refunds : Logged(r) => Logged(r)'
      BY <3>1, <3>3, LoggedStays
    <3>5. Logged(Current)'
      <4>1. Row(Current, "none") \in log'.refunds
        BY <3>1, <3>3 DEF Applied, TypeInv, TypeOK, Database
      <4>2. Current' = Current
        BY <2>1, <2>3 DEF Current
      <4> QED BY <4>1, <4>2 DEF Logged, Codes
    <3> QED BY <2>1, <3>2, <3>4, <3>5, QuietStep
  <2>4. CASE sent' = sent + 1 /\ UNCHANGED <<dbVars, runner>>
    <3>1. \A r \in Refunds : (Pending(r)' => Pending(r)) /\ (Declined(r)' => Declined(r)) /\ (Logged(r) => Logged(r)')
      BY <2>1, <2>4 DEF Pending, Declined, Logged, dbVars
    <3> QED BY <2>1, <2>4, <3>1, QuietStep
  <2> QED BY <1>4, <2>3, <2>4 DEF LogRefund
<1>5. CASE QueueRefund
  BY <1>5, QueueStep
<1>6. CASE Finish
  <2>1. UNCHANGED <<queue, paid, client, test, unseen>> /\ candidates' = <<>> /\ runner' = "idle" /\ Enqueue(SetTotalRequests(test, sent))
    BY <1>6 DEF Finish, connVars
  <2>2. SetTotalRequests(test, sent) \in Statement /\ SetTotalRequests(test, sent).op = "total"
    <3>1. test \in Nat /\ sent \in Nat
      BY DEF TypeInv, TypeOK
    <3> QED BY <3>1, StatementType DEF SetTotalRequests
  <2>3. \A r \in Refunds : (Pending(r)' => Pending(r)) /\ (Declined(r)' => Declined(r))
    BY <2>1, <2>2, DeclinedBefore DEF Pending
  <2>4. \A r \in Refunds : Logged(r) => Logged(r)'
    BY <2>1, <2>2, LoggedStays DEF Enqueue
  <2> QED BY <2>1, <2>3, <2>4, QuietStep
<1>7. ASSUME NEW s \in Sales, AnswerSale(s) \/ ReverseSale(s) PROVE IInv'
  <2>1. PICK st \in {SaleApproved(s), SaleReversed(s)} : Enqueue(st)
    BY <1>7 DEF AnswerSale, ReverseSale
  <2>2. st \in Statement /\ st.op \in {"approve", "reverse"}
    <3>1. SaleApproved(s).op = "approve" /\ SaleReversed(s).op = "reverse"
      BY DEF SaleApproved, SaleReversed
    <3>2. SaleApproved(s) \in Statement /\ SaleReversed(s) \in Statement
      BY StatementType
    <3>3. CASE st = SaleApproved(s)
      BY <3>1, <3>2, <3>3
    <3>4. CASE st = SaleReversed(s)
      BY <3>1, <3>2, <3>4
    <3> QED BY <3>3, <3>4
  <2>3. UNCHANGED <<queue, paid, client, test, unseen, candidates, sent, runner>>
    BY <1>7 DEF AnswerSale, ReverseSale, connVars, runnerVars
  <2>4. \A r \in Refunds : (Pending(r)' => Pending(r)) /\ (Declined(r)' => Declined(r))
    BY <2>1, <2>2, <2>3, DeclinedBefore DEF Pending
  <2>5. \A r \in Refunds : Logged(r) => Logged(r)'
    BY <2>1, <2>2, LoggedStays DEF Enqueue
  <2>6. runner' = "queue" => Logged(Current)'
    <3>1. Current' = Current /\ (runner' = "queue" => Current \in Refunds /\ Logged(Current))
      BY <2>3, CurrentType DEF Current, IInv, LoggedFirst, TypeInv, Progress
    <3> QED BY <2>5, <3>1 DEF Logged
  <2> QED BY <2>3, <2>4, <2>5, <2>6, QuietStep
<1>8. ASSUME NEW c \in Conns, WriteRefund(c) PROVE IInv'
  BY <1>8, WriteStep
<1>9. ASSUME NEW c \in Conns, Connect(c) \/ Disconnect(c) PROVE IInv'
  <2>1. UNCHANGED <<table, statements, log, queue, paid, client, test, unseen, candidates, sent, runner>>
    BY <1>9 DEF Connect, Disconnect, dbVars, runnerVars
  <2>2. \A r \in Refunds : (Pending(r)' => Pending(r)) /\ (Declined(r)' => Declined(r)) /\ (Logged(r) => Logged(r)')
    BY <2>1 DEF Pending, Declined, Logged
  <2>3. runner' = "queue" => Logged(Current)'
    BY <2>1 DEF IInv, LoggedFirst, Logged, Current
  <2> QED BY <2>1, <2>2, <2>3, QuietStep
<1>10. ASSUME NEW a \in client, AnswerRefund(a) PROVE IInv'
  <2>1. a.refund \in Refunds /\ a.code \in Answers
    BY DEF TypeInv, TypeOK, Answers
  <2> DEFINE st == UpdateResponseTime(a.refund, a.code)
  <2>2. st \in Statement /\ st.op = "update" /\ st.refund = a.refund /\ st.code = a.code /\ Enqueue(st)
    BY <1>10, <2>1, StatementType DEF UpdateResponseTime, AnswerRefund
  <2>3. UNCHANGED <<queue, paid, test, unseen, candidates, sent, runner>> /\ client' \subseteq client
    BY <1>10 DEF AnswerRefund, runnerVars
  <2>4. \A r \in Refunds : Pending(r)' => Pending(r)
    BY <2>3 DEF Pending
  <2>5. \A r \in Refunds : Declined(r)' => Declined(r)
    BY <2>2, <2>3, DeclinedBefore
  <2>6. \A r \in Refunds : Logged(r) => Logged(r)'
    BY <2>2, LoggedStays DEF Enqueue
  <2>7. runner' = "queue" => Logged(Current)'
    <3>1. Current' = Current /\ (runner' = "queue" => Current \in Refunds /\ Logged(Current))
      BY <2>3, CurrentType DEF Current, IInv, LoggedFirst, TypeInv, Progress
    <3> QED BY <2>6, <3>1 DEF Logged
  <2> QED BY <2>3, <2>4, <2>5, <2>6, <2>7, QuietStep
<1>11. CASE UNCHANGED vars
  <2>1. UNCHANGED <<table, statements, log, queue, paid, client, test, unseen, candidates, sent, runner>>
    BY <1>11 DEF vars, dbVars, connVars, runnerVars
  <2>2. \A r \in Refunds : (Pending(r)' => Pending(r)) /\ (Declined(r)' => Declined(r)) /\ (Logged(r) => Logged(r)')
    BY <2>1 DEF Pending, Declined, Logged
  <2>3. runner' = "queue" => Logged(Current)'
    BY <2>1 DEF IInv, LoggedFirst, Logged, Current
  <2> QED BY <2>1, <2>2, <2>3, QuietStep
<1> QED BY <1>1, <1>2, <1>3, <1>4, <1>5, <1>6, <1>7, <1>8, <1>9, <1>10, <1>11 DEF Next, RunRefund

\* A refund goes once, in one place: what is declined has not been approved.
THEOREM GoesInOnePlace == Spec => [](TypeInv /\ IInv)
<1>1. Init => TypeInv /\ IInv
  BY TypeInit, InvInit
<1>2. (TypeInv /\ IInv) /\ [Next]_vars => (TypeInv /\ IInv)'
  BY TypeStep, InvStep
<1> QED BY <1>1, <1>2, PTL DEF Spec

\* No later test refunds a sale again, unless the row of the earlier refund had not
\* reached the database when it read its candidates: whatever is lost, dropped,
\* declined or answered late.
THEOREM TwiceOnlyUnseen == Spec => []RefundedTwiceOnlyUnseen
<1>1. TypeInv /\ IInv => RefundedTwiceOnlyUnseen
  <2>1. TypeInv => paid \subseteq Refunds
    BY DEF TypeInv, TypeOK
  <2> QED BY <2>1 DEF IInv, OthersUnseen, Going, RefundedTwiceOnlyUnseen
<1> QED BY <1>1, GoesInOnePlace, PTL

-----------------------------------------------------------------------------
(* Refunds that fail are retried                                           *)

\* A refund that has been approved, or that may still be
Kept(r) == r \in paid \/ (runner = "queue" /\ r = Current) \/ Queued(r) \/ (\E a \in client : a.refund = r)

\* A statement after the first i that takes the unanswered row of a refund away
Closing(r, i) ==
  \E j \in 1 .. Len(statements) :
    j > i /\ statements[j].op \in {"update", "delete"} /\ statements[j].refund = r

\* Only what the client has approved is marked as approved.
ApprovedArePaid ==
  /\ \A a \in client : a.code = "00" => a.refund \in paid
  /\ \A i \in 1 .. Len(statements) :
       statements[i].op = "update" /\ statements[i].code = "00" => statements[i].refund \in paid
  /\ \A r \in Refunds : Row(r, "00") \in table.refunds => r \in paid

\* A reversal in the table, or about to be, is one in the log.
ReversedAreLogged ==
  /\ \A i \in 1 .. Len(statements) : statements[i].op = "reverse" => statements[i].sale \in log.reversed
  /\ table.reversed \subseteq log.reversed

\* While no statement has been lost, an approval is in the table or about to be, and an
\* unanswered row in the table, or about to be, is of a refund that may be approved, or is
\* about to go.
NothingLost ==
  faults = 0 =>
    /\ \A s \in log.approved :
         \/ s \in table.approved
         \/ \E i \in 1 .. Len(statements) : statements[i].op = "approve" /\ statements[i].sale = s
    /\ \A r \in Refunds : Row(r, "none") \in table.refunds => Kept(r) \/ Closing(r, 0)
    /\ \A r \in Refunds, i \in 1 .. Len(statements) :
         statements[i].op = "insert" /\ statements[i].refund = r => Kept(r) \/ Closing(r, i)

RetryInv ==
  /\ runner \in {"send", "queue"} => conns # <<>>
  /\ ApprovedArePaid /\ ReversedAreLogged /\ NothingLost

\* What a statement is about
LEMMA StatementParts ==
  ASSUME NEW st \in Statement
  PROVE  /\ st.op \in {"approve", "reverse"} => st.sale \in Sales
         /\ st.op \in {"insert", "delete", "update"} => st.refund \in Refunds
         /\ st.op = "update" => st.code \in Answers
         /\ st.op \in {"approve", "reverse", "insert", "delete", "update", "total"}
<1>1. CASE st \in [op : {"approve", "reverse"}, sale : Sales]
  BY <1>1
<1>2. CASE st \in [op : {"insert", "delete"}, refund : Refunds]
  BY <1>2
<1>3. CASE st \in [op : {"update"}, refund : Refunds, code : Answers]
  BY <1>3
<1>4. CASE st \in [op : {"total"}, test : Nat, total : Nat]
  BY <1>4
<1> QED BY <1>1, <1>2, <1>3, <1>4 DEF Statement

\* What a statement does to each table
LEMMA Effects ==
  ASSUME NEW db \in Database, NEW st \in Statement
  PROVE  /\ Applied(db, st).approved = db.approved \cup (IF st.op = "approve" THEN {st.sale} ELSE {})
         /\ Applied(db, st).reversed = db.reversed \cup (IF st.op = "reverse" THEN {st.sale} ELSE {})
         /\ \A row \in Applied(db, st).refunds :
              \/ row \in db.refunds
              \/ st.op = "insert" /\ row = Row(st.refund, "none")
              \/ st.op = "update" /\ row = Row(st.refund, st.code)
         /\ st.op \in {"update", "delete"} => Row(st.refund, "none") \notin Applied(db, st).refunds
<1>0. st.op \in {"approve", "reverse", "insert", "delete", "update", "total"}
  BY StatementParts
<1>1. CASE st.op = "approve"
  BY <1>1 DEF Applied, Database
<1>2. CASE st.op = "reverse"
  BY <1>2 DEF Applied, Database
<1>3. CASE st.op = "insert"
  BY <1>3 DEF Applied, Database
<1>4. CASE st.op = "delete"
  BY <1>4 DEF Applied, Database
<1>5. CASE st.op = "update"
  <2>1. st.code # "none"
    BY <1>5, StatementParts DEF Answers
  <2>2. Row(st.refund, st.code) # Row(st.refund, "none")
    BY <2>1, RowsDiffer
  <2>3. CASE Row(st.refund, "none") \in db.refunds
    <3>1. /\ Applied(db, st).approved = db.approved /\ Applied(db, st).reversed = db.reversed
          /\ Applied(db, st).refunds = (db.refunds \ {Row(st.refund, "none")}) \cup {Row(st.refund, st.code)}
      BY <1>5, <2>3 DEF Applied, Database
    <3> QED BY <1>5, <2>2, <3>1
  <2>4. CASE Row(st.refund, "none") \notin db.refunds
    <3>1. Applied(db, st) = db
      BY <1>5, <2>4 DEF Applied
    <3> QED BY <1>5, <2>4, <3>1
  <2> QED BY <2>3, <2>4
<1>6. CASE st.op = "total"
  BY <1>6 DEF Applied, Database
<1> QED BY <1>0, <1>1, <1>2, <1>3, <1>4, <1>5, <1>6

\* With a statement more in the queue: what was to be taken away still is.
LEMMA Enqueued ==
  ASSUME TypeInv, NEW st \in Statement, Enqueue(st)
  PROVE  LET n == Len(statements) + 1
         IN  /\ n \in 1 .. Len(statements') /\ statements'[n] = st
             /\ \A i \in 1 .. Len(statements') : i = n \/ (i \in 1 .. Len(statements) /\ i < n)
             /\ \A i \in 1 .. Len(statements) : i \in 1 .. Len(statements') /\ statements'[i] = statements[i]
             /\ \A r, i : Closing(r, i) => Closing(r, i)'
<1> DEFINE n == Len(statements) + 1
<1>1. statements' = Append(statements, st) /\ statements \in Seq(Statement)
  BY DEF Enqueue, TypeInv
<1>2. Len(statements') = n /\ Len(statements) \in Nat
  BY <1>1
<1>3. \A i \in 1 .. Len(statements') : statements'[i] = IF i = n THEN st ELSE statements[i]
  BY <1>1, <1>2
<1>4. \A i \in 1 .. Len(statements) : i \in 1 .. Len(statements') /\ statements'[i] = statements[i]
  BY <1>2, <1>3
<1>5. n \in 1 .. Len(statements') /\ \A i \in 1 .. Len(statements') : i = n \/ (i \in 1 .. Len(statements) /\ i < n)
  BY <1>2
<1>6. \A r, i : Closing(r, i) => Closing(r, i)'
  BY <1>4 DEF Closing
<1> QED BY <1>3, <1>4, <1>5, <1>6

\* A step that queues a statement: a refund ceases to be kept only with the statement that
\* takes its row away.
LEMMA RetryEnqueue ==
  ASSUME TypeInv, RetryInv, NEW st \in Statement, Enqueue(st),
         runner' \in {"send", "queue"} => conns' # <<>>,
         paid' = paid, \A a \in client' : a \in client,
         \A r : Kept(r) => Kept(r)' \/ (st.op \in {"update", "delete"} /\ st.refund = r),
         \A r : st.op = "insert" /\ st.refund = r => Kept(r)',
         st.op = "update" /\ st.code = "00" => st.refund \in paid
  PROVE  RetryInv'
<1> DEFINE n == Len(statements) + 1
<1>1. /\ n \in 1 .. Len(statements') /\ statements'[n] = st
      /\ \A i \in 1 .. Len(statements') : i = n \/ (i \in 1 .. Len(statements) /\ i < n)
      /\ \A i \in 1 .. Len(statements) : i \in 1 .. Len(statements') /\ statements'[i] = statements[i]
      /\ \A r, i : Closing(r, i) => Closing(r, i)'
  BY Enqueued
<1>2. /\ table' = table /\ faults' = faults /\ log' = Applied(log, st) /\ log \in Database
      /\ Len(statements) \in Nat
  BY DEF Enqueue, TypeInv, TypeOK
<1> HIDE DEF n
<1>3. ApprovedArePaid'
  BY <1>1, <1>2 DEF RetryInv, ApprovedArePaid
<1>4. ReversedAreLogged'
  <2>1. log'.reversed = log.reversed \cup (IF st.op = "reverse" THEN {st.sale} ELSE {})
    BY <1>2, Effects
  <2> QED BY <1>1, <1>2, <2>1 DEF RetryInv, ReversedAreLogged
<1>5. ASSUME NEW r, NEW i, i < n, Kept(r) \/ Closing(r, i) PROVE Kept(r)' \/ Closing(r, i)'
  <2>1. st.op \in {"update", "delete"} /\ st.refund = r => Closing(r, i)'
    BY <1>1, <1>5 DEF Closing
  <2> QED BY <1>1, <1>5, <2>1
<1>6. NothingLost'
  <2> SUFFICES ASSUME faults = 0
               PROVE  /\ \A s \in log'.approved :
                           \/ s \in table'.approved
                           \/ \E i \in 1 .. Len(statements') : statements'[i].op = "approve" /\ statements'[i].sale = s
                      /\ \A r \in Refunds : Row(r, "none") \in table'.refunds => Kept(r)' \/ Closing(r, 0)'
                      /\ \A r \in Refunds, i \in 1 .. Len(statements') :
                           statements'[i].op = "insert" /\ statements'[i].refund = r => Kept(r)' \/ Closing(r, i)'
    BY <1>2 DEF NothingLost
  <2>1. ASSUME NEW s \in log'.approved
        PROVE  \/ s \in table'.approved
               \/ \E i \in 1 .. Len(statements') : statements'[i].op = "approve" /\ statements'[i].sale = s
    <3>1. s \in log.approved \/ (st.op = "approve" /\ st.sale = s)
      BY <1>2, <2>1, Effects
    <3> QED BY <1>1, <1>2, <3>1 DEF RetryInv, NothingLost
  <2>2. ASSUME NEW r \in Refunds, Row(r, "none") \in table'.refunds PROVE Kept(r)' \/ Closing(r, 0)'
    <3>1. Kept(r) \/ Closing(r, 0)
      BY <1>2, <2>2 DEF RetryInv, NothingLost
    <3>2. 0 < n
      BY <1>2 DEF n
    <3> QED BY <1>5, <3>1, <3>2
  <2>3. ASSUME NEW r \in Refunds, NEW i \in 1 .. Len(statements'),
               statements'[i].op = "insert", statements'[i].refund = r
        PROVE  Kept(r)' \/ Closing(r, i)'
    <3>1. CASE i = n
      <4>1. st.op = "insert" /\ st.refund = r
        BY <1>1, <2>3, <3>1
      <4>2. Kept(r)'
        BY <4>1
      <4> QED BY <4>2
    <3>2. CASE i # n
      <4>1. i \in 1 .. Len(statements) /\ i < n /\ statements'[i] = statements[i]
        BY <1>1, <3>2
      <4>2. Kept(r) \/ Closing(r, i)
        BY <2>3, <4>1 DEF RetryInv, NothingLost
      <4> QED BY <1>5, <4>1, <4>2
    <3> QED BY <3>1, <3>2
  <2> QED BY <2>1, <2>2, <2>3
<1> QED BY <1>3, <1>4, <1>6 DEF RetryInv

\* A step that queues none, and lets go of no refund.
LEMMA RetryQuiet ==
  ASSUME RetryInv, UNCHANGED dbVars, runner' \in {"send", "queue"} => conns' # <<>>,
         paid \subseteq paid', \A a \in client' : a \in client \/ (a.code = "00" => a.refund \in paid'),
         \A r \in Refunds : Kept(r) => Kept(r)'
  PROVE  RetryInv'
<1>1. UNCHANGED <<table, statements, faults, log>>
  BY DEF dbVars
<1>2. ApprovedArePaid'
  BY <1>1 DEF RetryInv, ApprovedArePaid
<1>3. ReversedAreLogged'
  BY <1>1 DEF RetryInv, ReversedAreLogged
<1>4. \A r, i : Closing(r, i) <=> Closing(r, i)'
  BY <1>1 DEF Closing
<1>5. NothingLost'
  BY <1>1, <1>4 DEF RetryInv, NothingLost
<1> QED BY <1>2, <1>3, <1>5 DEF RetryInv

\* The writer applies a statement, and the others move up; if it loses one nothing is said any more.
LEMMA RetrySettle == ASSUME TypeInv, RetryInv, Settle PROVE RetryInv'
<1>1. PICK st : st = Head(statements)
  OBVIOUS
<1>2. /\ statements \in Seq(Statement) /\ statements # <<>> /\ statements' = Tail(statements)
      /\ UNCHANGED <<log, conn, queue, client, paid, runner, test, candidates, conns, sent>>
      /\ table \in Database /\ faults \in Nat
  BY DEF Settle, TypeInv, TypeOK, connVars, runnerVars
<1>3. /\ st \in Statement /\ st = statements[1] /\ 1 \in 1 .. Len(statements) /\ Len(statements) \in Nat
      /\ Len(statements') = Len(statements) - 1
      /\ \A i \in 1 .. Len(statements') : i + 1 \in 1 .. Len(statements) /\ statements'[i] = statements[i + 1]
  BY <1>1, <1>2
<1>4. ASSUME NEW i \in 1 .. Len(statements), i # 1
      PROVE  i - 1 \in 1 .. Len(statements') /\ statements'[i - 1] = statements[i]
  <2>1. i - 1 \in 1 .. Len(statements') /\ (i - 1) + 1 = i
    BY <1>3, <1>4
  <2> QED BY <1>3, <2>1
<1>5. table' = table \/ table' = Applied(table, st)
  BY <1>1 DEF Settle
<1>6. /\ \A s \in table'.reversed : s \in table.reversed \/ (st.op = "reverse" /\ s = st.sale)
      /\ \A row \in table'.refunds :
           \/ row \in table.refunds
           \/ st.op = "insert" /\ row = Row(st.refund, "none")
           \/ st.op = "update" /\ row = Row(st.refund, st.code)
  <2>1. CASE table' = table
    BY <2>1
  <2>2. CASE table' = Applied(table, st)
    BY <1>2, <1>3, <2>2, Effects
  <2> QED BY <1>5, <2>1, <2>2
<1>7. \A r : Kept(r) <=> Kept(r)'
  BY <1>2 DEF Kept, Queued, Current
<1>8. ApprovedArePaid'
  <2>1. ASSUME NEW r \in Refunds, Row(r, "00") \in table'.refunds PROVE r \in paid
    <3>1. CASE Row(r, "00") \in table.refunds
      BY <3>1 DEF RetryInv, ApprovedArePaid
    <3>2. CASE st.op = "insert" /\ Row(r, "00") = Row(st.refund, "none")
      BY <3>2, RowsDiffer
    <3>3. CASE st.op = "update" /\ Row(r, "00") = Row(st.refund, st.code)
      <4>1. r = st.refund /\ st.code = "00"
        BY <3>3, RowsDiffer
      <4> QED BY <1>3, <3>3, <4>1 DEF RetryInv, ApprovedArePaid
    <3> QED BY <1>6, <2>1, <3>1, <3>2, <3>3
  <2> QED BY <1>2, <1>3, <2>1 DEF RetryInv, ApprovedArePaid
<1>9. ReversedAreLogged'
  BY <1>2, <1>3, <1>6 DEF RetryInv, ReversedAreLogged
<1>10. ASSUME NEW r, NEW i \in Nat, Closing(r, i)
       PROVE  \/ i # 0 /\ Closing(r, i - 1)'
              \/ i = 0 /\ Closing(r, 0)'
              \/ i = 0 /\ st.op \in {"update", "delete"} /\ st.refund = r
  <2>1. PICK j \in 1 .. Len(statements) :
          j > i /\ statements[j].op \in {"update", "delete"} /\ statements[j].refund = r
    BY <1>10 DEF Closing
  <2>2. CASE j = 1
    BY <1>3, <2>1, <2>2
  <2>3. CASE j # 1
    <3>1. j - 1 \in 1 .. Len(statements') /\ statements'[j - 1] = statements[j]
      BY <1>4, <2>3
    <3>2. (i # 0 => j - 1 > i - 1) /\ (i = 0 => j - 1 > 0)
      BY <2>1, <3>1
    <3> QED BY <2>1, <3>1, <3>2 DEF Closing
  <2> QED BY <2>2, <2>3
<1>11. ASSUME faults' = 0
       PROVE  /\ \A s \in log'.approved :
                    \/ s \in table'.approved
                    \/ \E i \in 1 .. Len(statements') : statements'[i].op = "approve" /\ statements'[i].sale = s
              /\ \A r \in Refunds : Row(r, "none") \in table'.refunds => Kept(r)' \/ Closing(r, 0)'
              /\ \A r \in Refunds, i \in 1 .. Len(statements') :
                    statements'[i].op = "insert" /\ statements'[i].refund = r => Kept(r)' \/ Closing(r, i)'
  <2>1. faults = 0 /\ table' = Applied(table, st)
    BY <1>1, <1>2, <1>11 DEF Settle
  <2>2. ASSUME NEW s \in log'.approved
        PROVE  \/ s \in table'.approved
               \/ \E i \in 1 .. Len(statements') : statements'[i].op = "approve" /\ statements'[i].sale = s
    <3>1. CASE s \in table.approved
      BY <1>2, <1>3, <2>1, <3>1, Effects
    <3>2. ASSUME NEW i \in 1 .. Len(statements), statements[i].op = "approve", statements[i].sale = s
          PROVE  \/ s \in table'.approved
                 \/ \E k \in 1 .. Len(statements') : statements'[k].op = "approve" /\ statements'[k].sale = s
      <4>1. CASE i = 1
        BY <1>2, <1>3, <2>1, <3>2, <4>1, Effects
      <4>2. CASE i # 1
        BY <1>4, <3>2, <4>2
      <4> QED BY <4>1, <4>2
    <3> QED BY <1>2, <2>1, <2>2, <3>1, <3>2 DEF RetryInv, NothingLost
  <2>3. ASSUME NEW r \in Refunds, Row(r, "none") \in table'.refunds PROVE Kept(r)' \/ Closing(r, 0)'
    <3>1. ~ (st.op \in {"update", "delete"} /\ st.refund = r)
      BY <1>2, <1>3, <2>1, <2>3, Effects
    <3>2. CASE Row(r, "none") \in table.refunds
      BY <1>7, <1>10, <2>1, <3>1, <3>2 DEF RetryInv, NothingLost
    <3>3. CASE st.op = "insert" /\ Row(r, "none") = Row(st.refund, "none")
      <4>1. st.refund = r
        BY <3>3, RowsDiffer
      <4>2. Kept(r) \/ Closing(r, 1)
        BY <1>3, <2>1, <3>3, <4>1 DEF RetryInv, NothingLost
      <4>3. Closing(r, 1) => Closing(r, 0)'
        BY <1>10
      <4> QED BY <1>7, <4>2, <4>3
    <3>4. ~ (st.op = "update" /\ Row(r, "none") = Row(st.refund, st.code))
      BY <3>1, RowsDiffer
    <3> QED BY <1>6, <2>3, <3>2, <3>3, <3>4
  <2>4. ASSUME NEW r \in Refunds, NEW i \in 1 .. Len(statements'),
               statements'[i].op = "insert", statements'[i].refund = r
        PROVE  Kept(r)' \/ Closing(r, i)'
    <3>1. i + 1 \in 1 .. Len(statements) /\ statements'[i] = statements[i + 1] /\ (i + 1) - 1 = i /\ i + 1 # 0
      BY <1>3
    <3>2. Kept(r) \/ Closing(r, i + 1)
      BY <2>1, <2>4, <3>1 DEF RetryInv, NothingLost
    <3>3. Closing(r, i + 1) => Closing(r, (i + 1) - 1)'
      BY <1>10, <3>1
    <3> QED BY <1>7, <3>1, <3>2, <3>3
  <2> QED BY <2>2, <2>3, <2>4
<1>12. NothingLost'
  BY <1>11 DEF NothingLost
<1> QED BY <1>2, <1>8, <1>9, <1>12 DEF RetryInv

\* The connection whose turn it is is one.
LEMMA TargetType == ASSUME TypeInv, conns # <<>> PROVE Target \in Conns
<1>1. conns \in Seq(Conns) /\ sent \in Nat /\ Len(conns) \in Nat \ {0}
  BY DEF TypeInv, TypeOK
<1>2. (sent % Len(conns)) + 1 \in 1 .. Len(conns)
  BY <1>1
<1> QED BY <1>1, <1>2 DEF Target

\* The refund at hand is in the queue, or its row is about to go.
LEMMA RetryQueue == ASSUME TypeInv, RetryInv, QueueRefund PROVE RetryInv'
<1>1. PICK r0, t : r0 = Current /\ t = Target
  OBVIOUS
<1>2. /\ runner = "queue" /\ runner' = "send" /\ conns' = conns /\ conns # <<>> /\ t \in Conns
      /\ UNCHANGED <<client, paid>> /\ queue \in [Conns -> Seq(Refunds)]
  BY <1>1, TargetType DEF QueueRefund, RetryInv, TypeInv, TypeOK
<1>3. r0 \in Refunds
  BY <1>1, <1>2, CurrentType DEF TypeInv, Progress
<1>4. CASE DropRefund(Current) /\ UNCHANGED queue
  <2>1. PICK st : st = DeleteRequestLog(r0)
    OBVIOUS
  <2>2. st \in Statement /\ st.op = "delete" /\ st.refund = r0 /\ Enqueue(st)
    BY <1>1, <1>3, <1>4, <2>1, StatementType DEF DropRefund, DeleteRequestLog
  <2>3. \A r : Kept(r) => Kept(r)' \/ r = r0
    BY <1>1, <1>2, <1>4 DEF Kept, Queued
  <2> QED BY <1>2, <2>2, <2>3, RetryEnqueue
<1>5. CASE queue' = [queue EXCEPT ![Target] = Append(@, Current)] /\ UNCHANGED dbVars
  <2>1. queue' = [queue EXCEPT ![t] = Append(@, r0)]
    BY <1>1, <1>5
  <2>2. ASSUME NEW c \in Conns, NEW i \in 1 .. Len(queue[c])
        PROVE  i \in 1 .. Len(queue'[c]) /\ queue'[c][i] = queue[c][i]
    BY <1>2, <1>3, <2>1
  <2>3. Queued(r0)'
    <3>1. queue'[t] = Append(queue[t], r0) /\ queue[t] \in Seq(Refunds)
      BY <1>2, <2>1
    <3>2. Len(queue[t]) + 1 \in 1 .. Len(queue'[t]) /\ queue'[t][Len(queue[t]) + 1] = r0
      BY <3>1
    <3> QED BY <1>2, <3>2 DEF Queued
  <2>4. \A r : Kept(r) => Kept(r)'
    BY <1>1, <1>2, <2>2, <2>3 DEF Kept, Queued
  <2> QED BY <1>2, <1>5, <2>4, RetryQuiet
<1> QED BY <1>4, <1>5 DEF QueueRefund

\* The refund that is written is with the client.
LEMMA RetryWrite == ASSUME TypeInv, RetryInv, NEW c \in Conns, WriteRefund(c) PROVE RetryInv'
<1>1. PICK h : h = Head(queue[c])
  OBVIOUS
<1>2. /\ queue \in [Conns -> Seq(Refunds)] /\ queue[c] # <<>> /\ queue' = [queue EXCEPT ![c] = Tail(@)]
      /\ UNCHANGED dbVars /\ UNCHANGED <<runner, test, candidates, conns, sent>>
  BY DEF WriteRefund, runnerVars, TypeInv, TypeOK
<1>3. PICK code \in {"00", "05"} :
        /\ client' = client \cup {[refund |-> h, conn |-> c, code |-> code]}
        /\ paid' = IF code = "00" THEN paid \cup {h} ELSE paid
  BY <1>1 DEF WriteRefund
<1>4. \E a \in client' : a.refund = h
  <2>1. [refund |-> h, conn |-> c, code |-> code] \in client'
    BY <1>3
  <2> QED BY <2>1
<1>5. ASSUME NEW d \in Conns, NEW i \in 1 .. Len(queue[d]), queue[d][i] # h
      PROVE  \E k \in 1 .. Len(queue'[d]) : queue'[d][k] = queue[d][i]
  <2>1. CASE d = c
    <3>1. queue'[d] = Tail(queue[d]) /\ queue[d] \in Seq(Refunds) /\ queue[d] # <<>>
      BY <1>2, <2>1
    <3>2. i # 1
      BY <1>1, <1>5, <2>1, <3>1
    <3>3. i - 1 \in 1 .. Len(queue'[d]) /\ queue'[d][i - 1] = queue[d][i]
      BY <3>1, <3>2
    <3> QED BY <3>3
  <2>2. CASE d # c
    BY <1>2, <2>2
  <2> QED BY <2>1, <2>2
<1>6. \A r : Queued(r) => Queued(r)' \/ r = h
  BY <1>5 DEF Queued
<1>7. \A r : Kept(r) => Kept(r)'
  BY <1>2, <1>3, <1>4, <1>6 DEF Kept, Current
<1>8. \A a \in client' : a \in client \/ (a.code = "00" => a.refund \in paid')
  BY <1>3
<1> QED BY <1>2, <1>3, <1>7, <1>8, RetryQuiet DEF RetryInv

\* An answer that is read becomes the statement that marks the row.
LEMMA RetryAnswer == ASSUME TypeInv, RetryInv, NEW a \in client, AnswerRefund(a) PROVE RetryInv'
<1>1. PICK st : st = UpdateResponseTime(a.refund, a.code)
  OBVIOUS
<1>2. a.refund \in Refunds /\ a.code \in Answers
  BY DEF TypeInv, TypeOK, Answers
<1>3. st \in Statement /\ st.op = "update" /\ st.refund = a.refund /\ st.code = a.code /\ Enqueue(st)
  BY <1>1, <1>2, StatementType DEF UpdateResponseTime, AnswerRefund
<1>4. UNCHANGED <<queue, paid, runner, test, candidates, conns, sent>> /\ client' = client \ {a}
  BY DEF AnswerRefund, runnerVars
<1>5. \A r : Kept(r) => Kept(r)' \/ r = a.refund
  BY <1>4 DEF Kept, Queued, Current
<1>6. a.code = "00" => a.refund \in paid
  BY DEF RetryInv, ApprovedArePaid
<1> QED BY <1>3, <1>4, <1>5, <1>6, RetryEnqueue DEF RetryInv

\* Nothing has been lost at the start.
LEMMA RetryInit == Init => RetryInv
<1> SUFFICES ASSUME Init PROVE RetryInv
  OBVIOUS
<1>1. /\ statements = <<>> /\ client = {} /\ runner = "idle"
      /\ table.refunds = {} /\ table.reversed = {} /\ log.approved = {}
  BY DEF Init, NoRows
<1>2. 1 .. Len(statements) = {}
  BY <1>1
<1> QED BY <1>1, <1>2 DEF RetryInv, ApprovedArePaid, ReversedAreLogged, NothingLost

\* Every step keeps it.
LEMMA RetryStep == TypeInv /\ RetryInv /\ [Next]_vars => RetryInv'
<1> SUFFICES ASSUME TypeInv, RetryInv, [Next]_vars PROVE RetryInv'
  OBVIOUS
<1>1. CASE Settle
  BY <1>1, RetrySettle
<1>2. CASE Load
  <2>1. UNCHANGED dbVars /\ UNCHANGED <<queue, client, paid, conns>> /\ runner # "queue" /\ runner' \in {"idle", "connections"}
    BY <1>2 DEF Load, connVars
  <2>2. \A r : Kept(r) => Kept(r)'
    BY <2>1 DEF Kept, Queued
  <2> QED BY <2>1, <2>2, RetryQuiet
<1>3. CASE Connections
  <2>1. UNCHANGED dbVars /\ UNCHANGED <<queue, client, paid>> /\ runner # "queue"
    BY <1>3 DEF Connections, connVars
  <2>2. runner' \in {"send", "queue"} => conns' # <<>>
    <3> DEFINE connected == {c \in Conns : conn[c] = "open"}
    <3>1. conns' \in InOrder(connected) /\ runner' = IF connected = {} THEN "idle" ELSE "send"
      BY <1>3 DEF Connections
    <3>2. IsFiniteSet(connected)
      BY ConnsFinite
    <3>3. connected # {} => Cardinality(connected) \in Nat \ {0}
      BY <3>2, FS_EmptySet, FS_CardinalityType
    <3>4. DOMAIN conns' = 1 .. Cardinality(connected)
      BY <3>1 DEF InOrder
    <3>5. connected # {} => conns' # <<>>
      BY <3>3, <3>4
    <3> QED BY <3>1, <3>5
  <2>3. \A r : Kept(r) => Kept(r)'
    BY <2>1 DEF Kept, Queued
  <2> QED BY <2>1, <2>2, <2>3, RetryQuiet
<1>4. CASE LogRefund
  <2>1. UNCHANGED <<queue, client, paid, test, candidates, conns>> /\ runner = "send" /\ sent < Len(candidates)
        /\ conns' # <<>>
    BY <1>4 DEF LogRefund, connVars, RetryInv
  <2>2. CASE Enqueue(AddRequestLog(Current)) /\ runner' = "queue" /\ UNCHANGED sent
    <3>1. PICK st : st = AddRequestLog(Current)
      OBVIOUS
    <3>2. st \in Statement /\ st.op = "insert" /\ st.refund = Current /\ Enqueue(st)
      BY <2>1, <2>2, <3>1, CurrentType, StatementType DEF AddRequestLog
    <3>3. Current' = Current
      BY <2>1, <2>2 DEF Current
    <3>4. \A r : (Kept(r) \/ r = Current) => Kept(r)'
      BY <2>1, <2>2, <3>3 DEF Kept, Queued
    <3> QED BY <2>1, <3>2, <3>4, RetryEnqueue
  <2>3. CASE sent' = sent + 1 /\ UNCHANGED <<dbVars, runner>>
    <3>1. \A r : Kept(r) => Kept(r)'
      BY <2>1, <2>3 DEF Kept, Queued
    <3> QED BY <2>1, <2>3, <3>1, RetryQuiet
  <2> QED BY <1>4, <2>2, <2>3 DEF LogRefund
<1>5. CASE QueueRefund
  BY <1>5, RetryQueue
<1>6. CASE Finish
  <2>1. PICK st : st = SetTotalRequests(test, sent)
    OBVIOUS
  <2>2. st \in Statement /\ st.op = "total" /\ Enqueue(st)
    <3>1. test \in Nat /\ sent \in Nat
      BY DEF TypeInv, TypeOK
    <3> QED BY <1>6, <2>1, <3>1, StatementType DEF SetTotalRequests, Finish
  <2>3. UNCHANGED <<queue, client, paid>> /\ runner = "send" /\ runner' = "idle"
    BY <1>6 DEF Finish, connVars
  <2>4. \A r : Kept(r) => Kept(r)'
    BY <2>3 DEF Kept, Queued
  <2> QED BY <2>2, <2>3, <2>4, RetryEnqueue
<1>7. ASSUME NEW s \in Sales, AnswerSale(s) \/ ReverseSale(s) PROVE RetryInv'
  <2>1. PICK st : st \in {SaleApproved(s), SaleReversed(s)} /\ Enqueue(st)
    BY <1>7 DEF AnswerSale, ReverseSale
  <2>2. st \in Statement /\ st.op \in {"approve", "reverse"}
    <3>1. SaleApproved(s).op = "approve" /\ SaleReversed(s).op = "reverse"
      BY DEF SaleApproved, SaleReversed
    <3>2. SaleApproved(s) \in Statement /\ SaleReversed(s) \in Statement
      BY StatementType
    <3> QED BY <2>1, <3>1, <3>2
  <2>3. UNCHANGED <<queue, client, paid, test, candidates, conns, sent, runner>>
    BY <1>7 DEF AnswerSale, ReverseSale, connVars, runnerVars
  <2>4. \A r : Kept(r) => Kept(r)'
    BY <2>3 DEF Kept, Queued, Current
  <2> QED BY <2>1, <2>2, <2>3, <2>4, RetryEnqueue DEF RetryInv
<1>8. ASSUME NEW c \in Conns, WriteRefund(c) PROVE RetryInv'
  BY <1>8, RetryWrite
<1>9. (\E c \in Conns : Connect(c) \/ Disconnect(c)) \/ UNCHANGED vars => RetryInv'
  <2> SUFFICES ASSUME (\E c \in Conns : Connect(c) \/ Disconnect(c)) \/ UNCHANGED vars PROVE RetryInv'
    OBVIOUS
  <2>1. UNCHANGED dbVars /\ UNCHANGED <<queue, client, paid, test, candidates, conns, sent, runner>>
    BY DEF Connect, Disconnect, vars, connVars, runnerVars
  <2>2. \A r : Kept(r) => Kept(r)'
    BY <2>1 DEF Kept, Queued, Current
  <2> QED BY <2>1, <2>2, RetryQuiet DEF RetryInv
<1>10. ASSUME NEW a \in client, AnswerRefund(a) PROVE RetryInv'
  BY <1>10, RetryAnswer
<1> QED BY <1>1, <1>2, <1>3, <1>4, <1>5, <1>6, <1>7, <1>8, <1>9, <1>10 DEF Next, RunRefund

\* What is kept is approved or on its way.
LEMMA KeptOnTheWay == ASSUME NEW r, Kept(r) PROVE r \in paid \cup OnTheWay
<1>1. CASE r \in paid
  BY <1>1
<1>2. CASE runner = "queue" /\ r = Current
  BY <1>2 DEF OnTheWay
<1>3. CASE Queued(r)
  <2>1. PICK c \in Conns : r \in {queue[c][i] : i \in 1 .. Len(queue[c])}
    BY <1>3 DEF Queued
  <2>2. r \in UNION {{queue[d][i] : i \in 1 .. Len(queue[d])} : d \in Conns}
    BY <2>1
  <2> QED BY <2>2 DEF OnTheWay
<1>4. CASE \E a \in client : a.refund = r
  <2>1. r \in {a.refund : a \in client}
    BY <1>4
  <2> QED BY <2>1 DEF OnTheWay
<1> QED BY <1>1, <1>2, <1>3, <1>4 DEF Kept

\* With every statement applied and none lost, a sale that is not a candidate, but could be
\* refunded, has a refund that was approved or is on its way: what was dropped or declined
\* does not stand in the way of another.
THEOREM FailuresRetried == Spec => []FailuresAreRetried
<1>1. Init => TypeInv /\ RetryInv
  BY TypeInit, RetryInit
<1>2. (TypeInv /\ RetryInv) /\ [Next]_vars => (TypeInv /\ RetryInv)'
  BY TypeStep, RetryStep
<1>3. TypeInv /\ RetryInv => FailuresAreRetried
  <2> SUFFICES ASSUME TypeInv, RetryInv, statements = <<>>, faults = 0,
                      NEW s \in log.approved \ log.reversed, s \notin Candidates(table)
               PROVE  \E r \in Refunds : r.sale = s /\ r \in paid \cup OnTheWay
    BY DEF FailuresAreRetried
  <2>1. 1 .. Len(statements) = {}
    OBVIOUS
  <2>2. s \in table.approved \ table.reversed
    BY <2>1 DEF RetryInv, NothingLost, ReversedAreLogged
  <2>3. PICK row \in table.refunds : row.refund.sale = s /\ row.code \in {"00", "none"}
    BY <2>2 DEF Candidates
  <2>4. PICK r \in Refunds : r = row.refund /\ r.sale = s /\ row = Row(r, row.code)
    <3>1. table \in Database
      BY DEF TypeInv, TypeOK
    <3> QED BY <2>3, <3>1, RowRefunds
  <2>5. Kept(r)
    <3>1. CASE row.code = "00"
      BY <2>3, <2>4, <3>1 DEF RetryInv, ApprovedArePaid, Kept
    <3>2. CASE row.code = "none"
      <4>1. ~ Closing(r, 0)
        BY <2>1 DEF Closing
      <4> QED BY <2>3, <2>4, <3>2, <4>1 DEF RetryInv, NothingLost
    <3> QED BY <2>3, <3>1, <3>2
  <2>6. r \in paid \cup OnTheWay
    BY <2>5, KeptOnTheWay
  <2> QED BY <2>4, <2>6
<1> QED BY <1>1, <1>2, <1>3, PTL DEF Spec
=============================================================================
