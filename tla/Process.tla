------------------------------- MODULE Process -------------------------------
(***************************************************************************)
(* The life of the server process, and what is left of it in the database  *)
(* when it ends and starts again: main and serveUntilSignal, with          *)
(* StartServer, Stop and the two Closes they call; the references of       *)
(* utils/helper.go, which have to differ from one run of the process to    *)
(* the next; requests that are logged, written and answered all the while, *)
(* which go on until the process is gone.                                  *)
(*                                                                         *)
(* One run of the process runs one test over one connection.  The batch    *)
(* writer is the log it implements (WriteLog), with the transaction in     *)
(* which it applies what is queued, in order and in batches.               *)
(***************************************************************************)
EXTENDS Naturals, FiniteSets, Sequences

CONSTANTS
  PerMs,      \* references for each tick of the clock, in the seed (100 per ms)
  Modulus,    \* references are taken modulo 10^12
  MaxRuns,    \* how often the process is started (a bound)
  MaxSends,   \* references in all (a bound)
  MaxClock    \* the clock is followed this far (a bound)

ASSUME ProcessAssumption ==
  /\ PerMs \in Nat \ {0} /\ Modulus \in Nat \ {0}
  /\ MaxRuns \in Nat /\ MaxSends \in Nat /\ MaxClock \in Nat

VARIABLES
  table,     \* the committed rows of request_response_log
  tx,        \* the same rows as the batch writer's transaction leaves them
  life,      \* main: down, up, drain, stop, close, flush or exit
  clock,     \* time.Now
  counter,   \* referenceCounter
  conn,      \* the connection: open or closed
  requests,  \* requests under way: [n, at]
  pending,   \* statements the batch writer has accepted and not yet executed
  mark,      \* how many of them were accepted before it was closed
  \* history variables
  run,       \* the number of the run of the process
  given,     \* the references given out: [n, run]
  overran,   \* runs that averaged more than PerMs references
  spoilt,    \* runs that crashed, registered a connection after Stop or lost a commit
  sent       \* requests that reached the client: [n, test]

processVars == <<life, conn>>
referenceVars == <<clock, counter, given, overran>>
writerVars == <<tx, pending, mark>>
historyVars == <<run, spoilt>>
requestVars == <<requests, sent>>
vars == <<table, processVars, referenceVars, writerVars, historyVars, requestVars>>

Reference(n) == n % Modulus

-----------------------------------------------------------------------------
(* Statements.  UPDATE and DELETE look for rows without an answer by their *)
(* reference, connection and MTI; here the last two are always the same.   *)

Statement(op, m) == [op |-> op, n |-> m.n, test |-> run]

\* A mutant of Matching: the reference is not looked at.
MatchingAny(rows, st) == {row \in rows : ~ row.answered}

Matching(rows, st) ==
  {row \in rows : Reference(row.n) = Reference(st.n) /\ ~ row.answered}

Applied(rows, st) ==
  CASE st.op = "insert" ->
         rows \cup {[n |-> st.n, test |-> st.test, answered |-> FALSE]}
    [] st.op = "update" ->
         (rows \ Matching(rows, st)) \cup {[row EXCEPT !.answered = TRUE] : row \in Matching(rows, st)}
    [] st.op = "delete" -> rows \ Matching(rows, st)

\* enqueue: accepted, until it is closed; then refused, or accepted late.
Accepted(st) ==
  /\ life \in {"up", "drain", "stop", "close", "flush"}
  /\ pending' = Append(pending, st)

\* errDBClosed, or a send that wins when the writer has stopped
NotCommitted == life \in {"flush", "exit"} /\ UNCHANGED pending

-----------------------------------------------------------------------------
Init ==
  /\ table = {} /\ tx = {}
  /\ life = "down" /\ conn = "closed"
  /\ clock = 0 /\ counter = 0
  /\ requests = {} /\ pending = <<>> /\ mark = 0
  /\ run = 0 /\ given = {} /\ overran = {} /\ spoilt = {} /\ sent = {}

\* A mutant of Seed: the counter starts from 0.
SeedZero == 0

\* init of utils/helper.go
Seed == clock' * PerMs

\* Time passes; the clock is looked at when a run begins and when it ends.
Tick == clock' \in clock .. MaxClock

\* The process is started and serves.
StartUp ==
  /\ life = "down" /\ run < MaxRuns
  /\ Tick
  /\ life' = "up" /\ run' = run + 1
  /\ counter' = Seed
  /\ conn' = "open"
  /\ UNCHANGED <<table, given, overran, writerVars, spoilt, requestVars>>

-----------------------------------------------------------------------------
(* Requests: sendSingleMessage, the connection's loops, the client         *)

alive == life # "down"

\* The next reference is taken and the row queued, or refused and that is all.
LogRequest ==
  /\ alive /\ Cardinality(given) < MaxSends
  /\ counter' = counter + 1
  /\ given' = given \cup {[n |-> counter', run |-> run]}
  /\ LET m == [n |-> counter', at |-> "channel"]
     IN  \/ Accepted(Statement("insert", m)) /\ requests' = requests \cup {m}
         \/ NotCommitted /\ requests' \in {requests, requests \cup {m}}
  /\ UNCHANGED <<table, tx, processVars, clock, overran, mark, historyVars, sent>>

WriteRequest(m) ==
  /\ m.at = "channel" /\ conn = "open"
  /\ requests' = (requests \ {m}) \cup {[m EXCEPT !.at = "client"]}
  /\ sent' = sent \cup {[n |-> m.n, test |-> run]}
  /\ UNCHANGED <<table, processVars, referenceVars, writerVars, historyVars>>

\* The channel was full.
DropRequest(m) ==
  /\ m.at = "channel"
  /\ requests' = requests \ {m}
  /\ Accepted(Statement("delete", m)) \/ NotCommitted
  /\ UNCHANGED <<table, tx, processVars, referenceVars, mark, historyVars, sent>>

\* Its response was read before the connection closed, and is recorded now.
RecordAnswer(m) ==
  /\ m.at = "client"
  /\ requests' = requests \ {m}
  /\ Accepted(Statement("update", m)) \/ NotCommitted
  /\ UNCHANGED <<table, tx, processVars, referenceVars, mark, historyVars, sent>>

\* A connection whose handshake was under way during Stop registers.  (Others are
\* taken to be there from the start.)
RegisterLate ==
  /\ life \in {"close", "flush", "exit"}
  /\ conn' = "open"
  /\ spoilt' = spoilt \cup {run}
  /\ UNCHANGED <<table, life, referenceVars, writerVars, run, requestVars>>

\* commit of the batch writer: the next statement of the batch is executed, or it
\* fails, and the ones after it are executed all the same.
Exec ==
  /\ alive /\ life # "exit" /\ pending # <<>>
  /\ pending' = Tail(pending)
  /\ mark' = IF mark > 0 THEN mark - 1 ELSE 0
  /\ \/ tx' = Applied(tx, Head(pending)) /\ UNCHANGED spoilt
     \/ spoilt' = spoilt \cup {run} /\ UNCHANGED tx
  /\ UNCHANGED <<table, processVars, referenceVars, run, requestVars>>

\* Its transaction is committed, or that fails and the batch is lost.
CommitTx ==
  /\ tx # table
  /\ \/ table' = tx /\ UNCHANGED <<tx, spoilt>>
     \/ tx' = table /\ spoilt' = spoilt \cup {run} /\ UNCHANGED table
  /\ UNCHANGED <<processVars, referenceVars, pending, mark, run, requestVars>>

-----------------------------------------------------------------------------
(* serveUntilSignal                                                        *)

MainUnchanged == UNCHANGED <<table, referenceVars, historyVars, requestVars>>

\* Ctrl-C or SIGTERM, and srv.Shutdown begins; or ListenAndServe has failed.
Signal ==
  /\ life = "up"
  /\ life' \in {"drain", "stop"}
  /\ UNCHANGED <<conn, writerVars>> /\ MainUnchanged

\* Shutdown returns when all handlers have, or after 5 seconds.
Drained ==
  /\ life = "drain"
  /\ life' = "stop"
  /\ UNCHANGED <<conn, writerVars>> /\ MainUnchanged

\* A mutant of StopServer: the connections are left open.
StopListenerOnly ==
  /\ life = "stop"
  /\ life' = "close"
  /\ UNCHANGED <<conn, writerVars>> /\ MainUnchanged

\* isoServer.Stop closes the connections that are registered.
StopServer ==
  /\ life = "stop"
  /\ life' = "close"
  /\ conn' = "closed"
  /\ UNCHANGED writerVars /\ MainUnchanged

\* db.Close, and in it Close of the batch writer, which ends accepting writes
CloseDB ==
  /\ life = "close"
  /\ life' = "flush"
  /\ mark' = Len(pending)
  /\ UNCHANGED <<conn, tx, pending>> /\ MainUnchanged

\* A mutant of Flushed: requests under way are waited for.
FlushedIdle ==
  /\ life = "flush" /\ mark = 0 /\ tx = table /\ requests = {}
  /\ life' = "exit"
  /\ UNCHANGED <<conn, writerVars>> /\ MainUnchanged

\* The writer has committed what was accepted before; the database is closed.
Flushed ==
  /\ life = "flush" /\ mark = 0 /\ tx = table
  /\ life' = "exit"
  /\ UNCHANGED <<conn, writerVars>> /\ MainUnchanged

\* The process is gone, with everything it had in memory.
Gone ==
  /\ alive
  /\ life' = "down" /\ conn' = "closed"
  /\ requests' = {} /\ tx' = table /\ pending' = <<>> /\ mark' = 0
  /\ Tick
  /\ overran' = IF counter > PerMs * clock' THEN overran \cup {run} ELSE overran
  /\ UNCHANGED <<table, counter, given, run, sent>>

Exit == life = "exit" /\ Gone /\ UNCHANGED spoilt

\* log.Fatal when StartListen fails, a panic, a kill
Crash == spoilt' = spoilt \cup {run} /\ Gone

-----------------------------------------------------------------------------
serveUntilSignal == Signal \/ Drained \/ StopServer \/ CloseDB \/ Flushed \/ Exit

Next ==
  \/ StartUp \/ serveUntilSignal \/ Crash \/ RegisterLate \/ Exec \/ CommitTx \/ LogRequest
  \/ \E m \in requests : WriteRequest(m) \/ DropRequest(m) \/ RecordAnswer(m)

Spec == Init /\ [][Next]_vars

(***************************************************************************)
(* Fairness: main goes on once it has been told to end (Shutdown has its   *)
(* five seconds, Stop ends as StopReturns of ConnRegistry says), and so    *)
(* does the batch writer.  Nobody has to send the signal.                  *)
(***************************************************************************)
Fairness ==
  /\ WF_vars(Exec) /\ WF_vars(CommitTx)
  /\ WF_vars(life # "up" /\ serveUntilSignal)

FairSpec == Spec /\ Fairness

-----------------------------------------------------------------------------
(* Safety                                                                  *)

TypeOK ==
  /\ table \cup tx \subseteq [n : Nat, test : 1 .. run, answered : BOOLEAN]
  /\ life \in {"down", "up", "drain", "stop", "close", "flush", "exit"}
  /\ conn \in {"open", "closed"}
  /\ clock \in Nat /\ counter \in Nat /\ mark \in Nat /\ run \in Nat
  /\ requests \subseteq [n : Nat, at : {"channel", "client"}]
  /\ pending \in Seq([op : {"insert", "update", "delete"}, n : Nat, test : 1 .. run])
  /\ given \subseteq [n : Nat, run : 1 .. run]
  /\ sent \subseteq [n : Nat, test : 1 .. run]
  /\ overran \subseteq 1 .. run /\ spoilt \subseteq 1 .. run

\* What the comments on the counter promise: two requests have the same reference
\* only if a whole turn of the counter lies between them, or they are of different
\* runs and the earlier one had averaged more than PerMs references when it ended.
ReferencesDiffer ==
  \A a, b \in given :
    (a # b /\ a.run <= b.run /\ Reference(a.n) = Reference(b.n)) =>
      \/ a.n + Modulus <= b.n \/ b.n + Modulus <= a.n
      \/ a.run < b.run /\ a.run \in overran

NoneRepeated == \A a, b \in given : Reference(a.n) = Reference(b.n) => a = b

\* While references differ, the log of a test that ended with its process stands: a
\* later run's answers and drops, which look for their row by reference,
\* never touch the rows an earlier run has left unanswered.
PastTestsStand == [][
    NoneRepeated =>
      \A id \in 1 .. run - 1 : {row \in table' : row.test = id} = {row \in table : row.test = id}
  ]_vars

\* After an orderly end every request that reached a client has its row: what was
\* queued before the database closed is committed, and what is queued later
\* belongs to requests that find every connection closed.  (Stop comes before
\* Close.)  The exceptions: a connection that registered after Stop, a commit that
\* failed, repeated references.
SentAreInTheLog ==
  life \in {"down", "exit"} /\ NoneRepeated =>
    \A m \in sent :
      m.test \in spoilt \/ \E row \in table : row.n = m.n /\ row.test = m.test

-----------------------------------------------------------------------------
(* Liveness                                                                *)

\* Once it has begun, shutdown ends, whatever handlers are still running and
\* workers still queueing.
ShutdownEnds == life \in {"drain", "stop", "close", "flush", "exit"} ~> life = "down"
=============================================================================
