------------------------------- MODULE Refund -------------------------------
(***************************************************************************)
(* Refund tests: RunRefund and sendRefund of network/server/refund.go with *)
(* GetRefundCandidates and the statements of database/dao.go.  The runner  *)
(* runs one after the other (StressRunner), each refunds the approved      *)
(* sales of one source test, whose last answers and reversals may still be *)
(* coming in.                                                              *)
(*                                                                         *)
(* Two databases are looked at: "table" is what a query sees, and "log"    *)
(* what it will see when the batch writer has applied the statements that  *)
(* are queued (WriteLog).                                                  *)
(***************************************************************************)
EXTENDS Naturals, Sequences, FiniteSets

CONSTANTS
  Sales,      \* the purchases of the source test, numbered as their log rows
  Reversible, \* those whose template has a reversal
  Conns,      \* the client connections, numbered in the order of their client IDs
  MaxTests,   \* the refund tests of that source test (a bound)
  QueueSize,  \* writeChannelSize
  WriteQueueSize,  \* writeQueueSize of the batch writer
  MaxFaults   \* statements the database fails to apply (a bound)

ASSUME RefundAssumption ==
  /\ Sales \subseteq Nat /\ IsFiniteSet(Sales) /\ Reversible \subseteq Sales
  /\ Conns \subseteq Nat /\ IsFiniteSet(Conns)
  /\ MaxTests \in Nat /\ QueueSize \in Nat \ {0}
  /\ WriteQueueSize \in Nat \ {0} /\ MaxFaults \in Nat

VARIABLES
  table,       \* the database
  statements,  \* the statements the batch writer has yet to apply
  faults,      \* the statements it has lost
  conn,        \* each connection: new, open or closed
  queue,       \* the writeChannel of each connection
  client,      \* refunds written to a connection, with what the client makes of each
  runner,      \* RunRefund: idle, connections, send, or queue (a refund just logged)
  test,        \* the number of the refund test
  candidates, conns, sent,
  \* history variables
  log,         \* the database with every queued statement applied
  paid,        \* the refunds the client has approved
  unseen       \* the earlier refunds without a row when the candidates were read

dbVars == <<table, statements, faults, log>>
connVars == <<conn, queue, client, paid>>
runnerVars == <<runner, test, candidates, conns, sent, unseen>>
vars == <<dbVars, connVars, runnerVars>>

Refunds == [sale : Sales, test : 1 .. MaxTests]

Database ==
  [approved : SUBSET Sales,     \* purchases answered with 00
   reversed : SUBSET Sales,     \* purchases with a row of a reversal
   refunds : SUBSET [refund : Refunds, code : {"none", "00", "05"}],
   total : [1 .. MaxTests -> Nat]]

TypeOK ==
  /\ table \in Database /\ log \in Database
  /\ Len(statements) <= WriteQueueSize /\ faults \in 0 .. MaxFaults
  /\ conn \in [Conns -> {"new", "open", "closed"}]
  /\ queue \in [Conns -> Seq(Refunds)] /\ \A c \in Conns : Len(queue[c]) <= QueueSize
  /\ client \subseteq [refund : Refunds, conn : Conns, code : {"00", "05"}]
  /\ runner \in {"idle", "connections", "send", "queue"}
  /\ test \in 0 .. MaxTests
  /\ candidates \in Seq(Sales) /\ conns \in Seq(Conns)
  /\ sent \in 0 .. Len(candidates)
  /\ paid \subseteq Refunds /\ unseen \in [1 .. MaxTests -> SUBSET Refunds]

-----------------------------------------------------------------------------
(* Statements, as functions of the database                                *)

SaleApproved(s) == [op |-> "approve", sale |-> s]
SaleReversed(s) == [op |-> "reverse", sale |-> s]
AddRequestLog(r) == [op |-> "insert", refund |-> r]
UpdateResponseTime(r, code) == [op |-> "update", refund |-> r, code |-> code]
DeleteRequestLog(r) == [op |-> "delete", refund |-> r]
SetTotalRequests(t, n) == [op |-> "total", test |-> t, total |-> n]

Row(r, code) == [refund |-> r, code |-> code]

Applied(db, st) ==
  CASE st.op = "approve" -> [db EXCEPT !.approved = @ \cup {st.sale}]
    [] st.op = "reverse" -> [db EXCEPT !.reversed = @ \cup {st.sale}]
    [] st.op = "insert" -> [db EXCEPT !.refunds = @ \cup {Row(st.refund, "none")}]
    [] st.op = "update" ->
         IF Row(st.refund, "none") \in db.refunds
         THEN [db EXCEPT !.refunds = (@ \ {Row(st.refund, "none")}) \cup {Row(st.refund, st.code)}]
         ELSE db
    [] st.op = "delete" -> [db EXCEPT !.refunds = @ \ {Row(st.refund, "none")}]
    [] st.op = "total" -> [db EXCEPT !.total[st.test] = st.total]

\* Blocked while the batch writer's queue is full.
Enqueue(st) ==
  /\ Len(statements) < WriteQueueSize
  /\ statements' = Append(statements, st)
  /\ log' = Applied(log, st)
  /\ UNCHANGED <<table, faults>>

\* The writer applies the next statement, or loses it.
Settle ==
  /\ statements # <<>>
  /\ statements' = Tail(statements)
  /\ \/ table' = Applied(table, Head(statements)) /\ UNCHANGED faults
     \/ faults < MaxFaults /\ faults' = faults + 1 /\ UNCHANGED table
  /\ UNCHANGED <<log, connVars, runnerVars>>

-----------------------------------------------------------------------------
NoRows == [approved |-> {}, reversed |-> {}, refunds |-> {}, total |-> [t \in 1 .. MaxTests |-> 0]]

Init ==
  /\ table = NoRows /\ log = NoRows /\ statements = <<>> /\ faults = 0
  /\ conn \in [Conns -> {"new", "open"}]
  /\ queue = [c \in Conns |-> <<>>]
  /\ client = {} /\ paid = {}
  /\ runner = "idle" /\ test = 0
  /\ candidates = <<>> /\ conns = <<>> /\ sent = 0
  /\ unseen = [t \in 1 .. MaxTests |-> {}]

\* The answer to a purchase of the source test comes in, perhaps late.  (Those
\* that are declined are never looked at.)
AnswerSale(s) ==
  /\ s \notin log.approved
  /\ Enqueue(SaleApproved(s))
  /\ UNCHANGED <<connVars, runnerVars>>

\* Its reversal, if it has one, is logged next and goes.
ReverseSale(s) ==
  /\ s \in (Reversible \cap log.approved) \ log.reversed
  /\ Enqueue(SaleReversed(s))
  /\ UNCHANGED <<connVars, runnerVars>>

-----------------------------------------------------------------------------
(* RunRefund                                                               *)

\* A mutant of Candidates: "OR rf.response_code IS NULL" is missing.
CandidatesPending(db) ==
  {s \in db.approved \ db.reversed :
     \A row \in db.refunds : row.refund.sale = s => row.code # "00"}

\* GetRefundCandidates
Candidates(db) ==
  {s \in db.approved \ db.reversed :
     \A row \in db.refunds : row.refund.sale = s => row.code \notin {"00", "none"}}

\* A set as the sequence sorted by number
InOrder(S) ==
  {seq \in [1 .. Cardinality(S) -> S] : \A i, j \in DOMAIN seq : i < j => seq[i] < seq[j]}

\* The candidates are read; if the query fails, that is all.
Load ==
  /\ runner = "idle" /\ test < MaxTests
  /\ test' = test + 1
  /\ \/ /\ candidates' \in InOrder(Candidates(table))
        /\ runner' = "connections"
     \/ UNCHANGED <<candidates, runner>>
  /\ unseen' = [unseen EXCEPT ![test'] =
                  {row.refund : row \in log.refunds} \ {row.refund : row \in table.refunds}]
  /\ UNCHANGED <<dbVars, connVars, conns, sent>>

\* A snapshot of the connections, used to the end of the test
Connections ==
  /\ runner = "connections"
  /\ LET connected == {c \in Conns : conn[c] = "open"}
     IN  /\ conns' \in InOrder(connected)
         /\ runner' = IF connected = {} THEN "idle" ELSE "send"
  /\ candidates' = IF runner' = "idle" THEN <<>> ELSE candidates
  /\ UNCHANGED <<dbVars, connVars, test, sent, unseen>>

\* The refund at hand, and the connection whose turn it is
Current == [sale |-> candidates[sent + 1], test |-> test]
Target == conns[(sent % Len(conns)) + 1]

\* sendRefund as far as the log row; a sale that does not parse is passed over.
LogRefund ==
  /\ runner = "send" /\ sent < Len(candidates)
  /\ \/ /\ Enqueue(AddRequestLog(Current))
        /\ runner' = "queue"
        /\ UNCHANGED sent
     \/ /\ sent' = sent + 1
        /\ UNCHANGED <<dbVars, runner>>
  /\ UNCHANGED <<connVars, test, candidates, conns, unseen>>

HasRoom(c) == Len(queue[c]) < QueueSize

\* A mutant of DropRefund: the row of a refund that was dropped is left.
KeepRow(r) == UNCHANGED dbVars

DropRefund(r) == Enqueue(DeleteRequestLog(r))

\* The select of sendRefund: queued, also on a closed connection, or dropped.
QueueRefund ==
  /\ runner = "queue"
  /\ \/ /\ HasRoom(Target)
        /\ queue' = [queue EXCEPT ![Target] = Append(@, Current)]
        /\ UNCHANGED dbVars
     \/ /\ ~ HasRoom(Target)
        /\ DropRefund(Current)
        /\ UNCHANGED queue
  /\ sent' = sent + 1
  /\ runner' = "send"
  /\ UNCHANGED <<conn, client, paid, test, candidates, conns, unseen>>

\* Every candidate has had its turn: RunRefund records the total and returns.
Finish ==
  /\ runner = "send" /\ sent = Len(candidates)
  /\ Enqueue(SetTotalRequests(test, sent))
  /\ runner' = "idle"
  /\ candidates' = <<>> /\ conns' = <<>> /\ sent' = 0
  /\ UNCHANGED <<connVars, test, unseen>>

RunRefund == Load \/ Connections \/ LogRefund \/ QueueRefund \/ Finish

-----------------------------------------------------------------------------
(* Connections                                                             *)

\* A refund is written, and the client approves or declines it.
WriteRefund(c) ==
  /\ conn[c] = "open" /\ queue[c] # <<>>
  /\ queue' = [queue EXCEPT ![c] = Tail(@)]
  /\ \E code \in {"00", "05"} :
       /\ client' = client \cup {[refund |-> Head(queue[c]), conn |-> c, code |-> code]}
       /\ paid' = IF code = "00" THEN paid \cup {Head(queue[c])} ELSE paid
  /\ UNCHANGED <<dbVars, conn, runnerVars>>

\* The response is read.
AnswerRefund(a) ==
  /\ conn[a.conn] = "open"
  /\ client' = client \ {a}
  /\ Enqueue(UpdateResponseTime(a.refund, a.code))
  /\ UNCHANGED <<conn, queue, paid, runnerVars>>

Connect(c) ==
  /\ conn[c] = "new"
  /\ conn' = [conn EXCEPT ![c] = "open"]
  /\ UNCHANGED <<dbVars, queue, client, paid, runnerVars>>

\* What is queued or with the client stays as it is.
Disconnect(c) ==
  /\ conn[c] = "open"
  /\ conn' = [conn EXCEPT ![c] = "closed"]
  /\ UNCHANGED <<dbVars, queue, client, paid, runnerVars>>

-----------------------------------------------------------------------------
Next ==
  \/ Settle \/ RunRefund
  \/ \E s \in Sales : AnswerSale(s) \/ ReverseSale(s)
  \/ \E c \in Conns : WriteRefund(c) \/ Connect(c) \/ Disconnect(c)
  \/ \E a \in client : AnswerRefund(a)

Spec == Init /\ [][Next]_vars

-----------------------------------------------------------------------------
(* Safety                                                                  *)

\* No sale is refunded again by a later test, whether the response to the first
\* refund was lost with its connection, is late or waits in the write queue.  The
\* exception: the row of the first had not reached the database when the later
\* test read its candidates.
RefundedTwiceOnlyUnseen ==
  \A r, s \in paid : r.sale = s.sale /\ r.test < s.test => r \in unseen[s.test]

\* What the comments on GetRefundCandidates say: a sale that has an approved or
\* pending refund is not refunded again.  The code does it when a refund test
\* follows another so soon that the first one's rows are still queued.
RefundedOnce == \A r, s \in paid : r.sale = s.sale => r = s

\* Refunds that are logged or queued, or that the client has
OnTheWay ==
  (IF runner = "queue" THEN {Current} ELSE {})
    \cup (UNION {{queue[c][i] : i \in 1 .. Len(queue[c])} : c \in Conns})
    \cup {a.refund : a \in client}

\* With every statement applied, a sale that can be refunded is a candidate unless
\* a refund of it has been approved or is on its way: one that was dropped or
\* declined is retried.  (On a closed connection it stays on its way for good.)
FailuresAreRetried ==
  statements = <<>> /\ faults = 0 =>
    \A s \in log.approved \ log.reversed :
      s \notin Candidates(table) =>
        \E r \in Refunds : r.sale = s /\ r \in paid \cup OnTheWay
=============================================================================
