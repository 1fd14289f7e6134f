---------------------------- MODULE ProcessProofs ----------------------------
(***************************************************************************)
(* Proofs about Process, for any counter, clock and number of runs.        *)
(***************************************************************************)
EXTENDS Process, SequenceTheorems, TLAPS

-----------------------------------------------------------------------------
(* Arithmetic                                                              *)

LEMMA TimesOrdered == ASSUME NEW p \in Nat, NEW q \in Nat, p <= q, NEW k \in Nat PROVE p * k <= q * k
  OBVIOUS

LEMMA NextMultiple == ASSUME NEW k \in Nat, NEW p \in Int, NEW q \in Int, p < q PROVE k * p + k <= k * q
  OBVIOUS

\* Numbers with the same reference are a whole turn apart.
LEMMA SameReference ==
  ASSUME NEW a \in Nat, NEW b \in Nat, a < b, Reference(a) = Reference(b)
  PROVE  a + Modulus <= b
<1> DEFINE p == a \div Modulus
           q == b \div Modulus
           r == a % Modulus
<1>1. Modulus \in Nat \ {0}
  BY ProcessAssumption DEF ProcessAssumption
<1>2. a = Modulus * p + r /\ b = Modulus * q + r /\ p \in Int /\ q \in Int /\ r \in Nat
  BY <1>1 DEF Reference
<1> HIDE DEF p, q, r
<1>3. CASE q < p
  <2>1. Modulus * q + Modulus <= Modulus * p
    BY <1>1, <1>2, <1>3, NextMultiple
  <2>2. Modulus * q \in Int /\ Modulus * p \in Int
    BY <1>1, <1>2
  <2> QED BY <1>1, <1>2, <2>1, <2>2
<1>4. CASE p = q
  BY <1>2, <1>4
<1>5. CASE p < q
  <2>1. Modulus * p + Modulus <= Modulus * q
    BY <1>1, <1>2, <1>5, NextMultiple
  <2>2. Modulus * q \in Int /\ Modulus * p \in Int
    BY <1>1, <1>2
  <2> QED BY <1>1, <1>2, <2>1, <2>2
<1> QED BY <1>2, <1>3, <1>4, <1>5

-----------------------------------------------------------------------------
(* The references of one run lie above those of the runs before            *)

CountersOK ==
  /\ clock \in Nat /\ counter \in Nat /\ run \in Nat
  /\ given \subseteq [n : Nat, run : Nat]

\* Unless it averaged more than its share of the clock, a run that has ended has
\* given out no number above the seed of the next.
EndedBelowSeed ==
  /\ alive => PerMs * clock <= counter
  /\ \A a \in given :
       /\ a.run <= run
       /\ alive /\ a.run = run => a.n <= counter
       /\ a.run < run \/ ~ alive => a.run \in overran \/ a.n <= PerMs * clock

RunsInOrder == \A a, b \in given : a.run < b.run => a.run \in overran \/ a.n < b.n

IInv == CountersOK /\ EndedBelowSeed /\ RunsInOrder

LEMMA InvInit == Init => IInv
  BY DEF Init, IInv, CountersOK, EndedBelowSeed, RunsInOrder, alive

\* A step that gives out no reference, in a run that goes on
LEMMA OtherStep == ASSUME IInv, UNCHANGED <<referenceVars, run>>, alive' = alive PROVE IInv'
  BY DEF IInv, CountersOK, EndedBelowSeed, RunsInOrder, referenceVars

\* The seed grows with the clock.
LEMMA SeedGrows ==
  ASSUME NEW t \in Nat, NEW u \in Nat, t <= u
  PROVE  PerMs * t \in Nat /\ PerMs * u \in Nat /\ PerMs * t <= PerMs * u /\ u * PerMs = PerMs * u
<1>1. PerMs \in Nat
  BY ProcessAssumption DEF ProcessAssumption
<1> QED BY <1>1, TimesOrdered

LEMMA StartUpStep == ASSUME IInv, StartUp PROVE IInv'
<1>1. clock \in Nat /\ clock' \in Nat /\ clock <= clock' /\ counter' = clock' * PerMs
  BY ProcessAssumption DEF StartUp, Tick, Seed, IInv, CountersOK, ProcessAssumption
<1>2. PerMs * clock \in Nat /\ counter' \in Nat /\ counter' = PerMs * clock' /\ PerMs * clock <= PerMs * clock'
  BY <1>1, SeedGrows
<1>3. run \in Nat /\ run' = run + 1 /\ UNCHANGED <<given, overran>> /\ ~ alive /\ alive'
  BY DEF StartUp, IInv, CountersOK, alive
<1>4. CountersOK'
  <2>1. clock' \in Nat /\ counter' \in Nat /\ run' \in Nat
    BY <1>1, <1>2, <1>3
  <2> QED BY <1>3, <2>1 DEF IInv, CountersOK
<1>5. ASSUME NEW a \in given
      PROVE  a.run \in Nat /\ a.run < run' /\ (a.run \in overran \/ a.n <= PerMs * clock')
  <2>1. a.n \in Nat /\ a.run \in Nat /\ a.run <= run /\ (a.run \in overran \/ a.n <= PerMs * clock)
    BY <1>3 DEF IInv, CountersOK, EndedBelowSeed
  <2> DEFINE old == PerMs * clock
             new == PerMs * clock'
  <2>2. old \in Nat /\ new \in Nat /\ old <= new /\ (a.run \in overran \/ a.n <= old)
    BY <1>2, <2>1
  <2> HIDE DEF old, new
  <2>3. a.run \in overran \/ a.n <= new
    BY <2>1, <2>2
  <2> QED BY <1>3, <2>1, <2>3 DEF new
<1>6. EndedBelowSeed'
  <2>1. PerMs * clock' <= counter'
    BY <1>2
  <2>2. \A a \in given' : a.run \in Nat /\ a.run < run' /\ (a.run \in overran' \/ a.n <= PerMs * clock')
    BY <1>3, <1>5
  <2>3. PerMs' = PerMs /\ run' \in Nat
    BY <1>3
  <2> QED BY <2>1, <2>2, <2>3 DEF EndedBelowSeed
<1>7. RunsInOrder'
  BY <1>3 DEF IInv, RunsInOrder
<1> QED BY <1>4, <1>6, <1>7 DEF IInv

LEMMA LogRequestStep == ASSUME IInv, LogRequest PROVE IInv'
<1> DEFINE seed == PerMs * clock
<1>1. counter \in Nat /\ run \in Nat /\ counter' = counter + 1 /\ given' = given \cup {[n |-> counter', run |-> run]}
  BY DEF LogRequest, IInv, CountersOK
<1>2. UNCHANGED <<life, clock, overran, run>> /\ alive
  BY DEF LogRequest, processVars, historyVars
<1>3. CountersOK'
  BY <1>1, <1>2 DEF IInv, CountersOK
<1>4. seed \in Nat /\ seed <= counter
  BY <1>2, SeedGrows DEF IInv, CountersOK, EndedBelowSeed
<1>5. \A a \in given : /\ a.n \in Nat /\ a.run \in Nat /\ a.run <= run
                       /\ a.run = run => a.n <= counter
                       /\ a.run < run => a.run \in overran \/ a.n <= seed
  BY <1>2 DEF IInv, CountersOK, EndedBelowSeed
<1>6. \A a \in given' : a \in given \/ (a.n = counter' /\ a.run = run)
  BY <1>1
<1>7. EndedBelowSeed'
  <2>1. PerMs * clock' = seed /\ alive' = alive
    BY <1>2 DEF alive
  <2>2. seed <= counter'
    <3> HIDE DEF seed
    <3> QED BY <1>1, <1>4
  <2>3. ASSUME NEW a \in given'
        PROVE  /\ a.run <= run /\ (a.run = run => a.n <= counter')
               /\ a.run < run => a.run \in overran \/ a.n <= seed
    <3> HIDE DEF seed
    <3> QED BY <1>1, <1>5, <1>6
  <2> QED BY <1>2, <2>1, <2>2, <2>3 DEF EndedBelowSeed
<1>8. RunsInOrder'
  <2> SUFFICES ASSUME NEW a \in given', NEW b \in given', a.run < b.run PROVE a.run \in overran \/ a.n < b.n
    BY <1>2 DEF RunsInOrder
  <2>1. a \in given
    BY <1>1, <1>5, <1>6
  <2>2. CASE b \in given
    BY <2>1, <2>2 DEF IInv, RunsInOrder
  <2>3. CASE b.n = counter' /\ b.run = run
    <3> HIDE DEF seed
    <3> QED BY <1>1, <1>4, <1>5, <2>1, <2>3
  <2> QED BY <1>6, <2>2, <2>3
<1> QED BY <1>3, <1>7, <1>8 DEF IInv

LEMMA GoneStep == ASSUME IInv, Gone PROVE IInv'
<1> DEFINE seed == PerMs * clock
           next == PerMs * clock'
<1>1. clock \in Nat /\ clock' \in Nat /\ clock <= clock' /\ counter \in Nat /\ counter' = counter /\ run \in Nat /\ UNCHANGED <<given, run>>
  BY ProcessAssumption DEF Gone, Tick, IInv, CountersOK, ProcessAssumption
<1>2. alive /\ ~ alive' /\ overran \subseteq overran' /\ (counter > next => run \in overran')
  BY DEF Gone, alive
<1>3. seed \in Nat /\ next \in Nat /\ seed <= next
  BY <1>1, SeedGrows
<1>4. CountersOK'
  BY <1>1 DEF IInv, CountersOK
<1>5. ASSUME NEW a \in given PROVE a.run <= run /\ (a.run \in overran' \/ a.n <= next)
  <2>1. /\ a.n \in Nat /\ a.run \in Nat /\ a.run <= run
        /\ a.run = run => a.n <= counter
        /\ a.run < run => a.run \in overran \/ a.n <= seed
    BY <1>2 DEF IInv, CountersOK, EndedBelowSeed
  <2> HIDE DEF seed, next
  <2>2. CASE a.run = run
    BY <1>1, <1>2, <1>3, <2>1, <2>2
  <2>3. CASE a.run < run
    BY <1>2, <1>3, <2>1, <2>3
  <2> QED BY <1>1, <2>1, <2>2, <2>3
<1>6. EndedBelowSeed'
  BY <1>1, <1>2, <1>5 DEF EndedBelowSeed
<1>7. RunsInOrder'
  BY <1>1, <1>2 DEF IInv, RunsInOrder
<1> QED BY <1>4, <1>6, <1>7 DEF IInv

LEMMA InvStep == IInv /\ [Next]_vars => IInv'
<1> SUFFICES ASSUME IInv, [Next]_vars PROVE IInv'
  OBVIOUS
<1>1. CASE StartUp
  BY <1>1, StartUpStep
<1>2. CASE LogRequest
  BY <1>2, LogRequestStep
<1>3. CASE Exit \/ Crash
  BY <1>3, GoneStep DEF Exit, Crash
<1>4. CASE Signal \/ Drained \/ StopServer \/ CloseDB \/ Flushed
  <2>1. UNCHANGED <<referenceVars, run>> /\ alive' = alive
    BY <1>4 DEF Signal, Drained, StopServer, CloseDB, Flushed, MainUnchanged, historyVars, alive
  <2> QED BY <2>1, OtherStep
<1>5. CASE RegisterLate \/ Exec \/ CommitTx
  <2>1. UNCHANGED <<referenceVars, run>> /\ alive' = alive
    BY <1>5 DEF RegisterLate, Exec, CommitTx, processVars, alive
  <2> QED BY <2>1, OtherStep
<1>6. ASSUME NEW m \in requests, WriteRequest(m) \/ DropRequest(m) \/ RecordAnswer(m) PROVE IInv'
  <2>1. UNCHANGED <<referenceVars, run>> /\ alive' = alive
    BY <1>6 DEF WriteRequest, DropRequest, RecordAnswer, historyVars, processVars, alive
  <2> QED BY <2>1, OtherStep
<1>7. CASE UNCHANGED vars
  <2>1. UNCHANGED <<referenceVars, run>> /\ alive' = alive
    BY <1>7 DEF vars, historyVars, processVars, alive
  <2> QED BY <2>1, OtherStep
<1> QED BY <1>1, <1>2, <1>3, <1>4, <1>5, <1>6, <1>7 DEF Next, serveUntilSignal

\* Two requests have the same reference only if a whole turn of the counter lies
\* between them, or a run averaged more references than the seed allows for.
THEOREM SeedKeepsReferences == Spec => []ReferencesDiffer
<1>1. IInv => ReferencesDiffer
  <2> SUFFICES ASSUME IInv,
                      NEW a \in given, NEW b \in given, a # b, a.run <= b.run, Reference(a.n) = Reference(b.n),
                      ~ (a.run < b.run /\ a.run \in overran)
               PROVE  a.n + Modulus <= b.n \/ b.n + Modulus <= a.n
    BY DEF ReferencesDiffer
  <2>1. a \in [n : Nat, run : Nat] /\ b \in [n : Nat, run : Nat]
    BY DEF IInv, CountersOK
  <2>2. a.n # b.n
    <3>1. CASE a.run = b.run
      BY <2>1, <3>1
    <3>2. CASE a.run < b.run
      BY <2>1, <3>2 DEF IInv, RunsInOrder
    <3> QED BY <2>1, <3>1, <3>2
  <2>3. a.n < b.n \/ b.n < a.n
    BY <2>1, <2>2
  <2> QED BY <2>1, <2>3, SameReference
<1>2. Spec => []IInv
  BY InvInit, InvStep, PTL DEF Spec
<1> QED BY <1>1, <1>2, PTL

-----------------------------------------------------------------------------
(* Every row, statement and request is of a reference that was given out   *)

Lives == {"down", "up", "drain", "stop", "close", "flush", "exit"}

Statements == [op : {"insert", "update", "delete"}, n : Nat, test : Nat]

Given(n, t) == [n |-> n, run |-> t] \in given

RowsKnown(rows) ==
  \A row \in rows : /\ row \in [n : Nat, test : Nat, answered : BOOLEAN]
                    /\ Given(row.n, row.test)

QueueKnown ==
  /\ pending \in Seq(Statements)
  /\ \A i \in 1 .. Len(pending) : pending[i].test = run /\ Given(pending[i].n, run)

RequestsKnown ==
  /\ \A m \in requests : m \in [n : Nat, at : {"channel", "client"}] /\ Given(m.n, run)
  /\ \A m \in sent : m \in [n : Nat, test : Nat] /\ Given(m.n, m.test)

InRange ==
  /\ life \in Lives /\ conn \in {"open", "closed"} /\ mark \in Nat
  /\ \A a \in given : a.run \in 1 .. run
  /\ overran \subseteq 1 .. run /\ spoilt \subseteq 1 .. run

Known == RowsKnown(table) /\ RowsKnown(tx) /\ QueueKnown /\ RequestsKnown /\ InRange

\* A process that is down has nothing in memory, and one that ends in order nothing
\* left to commit.
AtRest ==
  /\ ~ alive => tx = table /\ pending = <<>> /\ requests = {} /\ mark = 0
  /\ life = "exit" => tx = table

\* A request is in one place; it has been sent if it is with the client, and a
\* reference that was sent, or has a request, is not that of a dropped one.
OnePlace ==
  /\ \A m, o \in requests : m.n = o.n => m = o
  /\ \A m \in requests : m.at = "channel" => [n |-> m.n, test |-> run] \notin sent
  /\ \A i \in 1 .. Len(pending) :
       pending[i].op = "delete" =>
         /\ [n |-> pending[i].n, test |-> run] \notin sent
         /\ \A m \in requests : m.n # pending[i].n

\* Transactions leave the rows of earlier runs alone.
PastRows == NoneRepeated => {row \in tx : row.test < run} = {row \in table : row.test < run}

HasRow(rows, n, t) == \E row \in rows : row.n = n /\ row.test = t

\* Its row is in the transaction, or will be before the writer ends.
Covered(n) ==
  \/ HasRow(tx, n, run)
  \/ /\ life # "exit"
     /\ \E i \in 1 .. Len(pending) :
          pending[i].op = "insert" /\ pending[i].n = n /\ (life = "flush" => i <= mark)

Stopped == life \in {"close", "flush", "exit"}

SentHaveRows ==
  NoneRepeated =>
    /\ \A m \in sent :
         (m.test < run \/ ~ alive) => m.test \in spoilt \/ HasRow(table, m.n, m.test)
    /\ alive /\ run \notin spoilt =>
         /\ \A m \in sent : m.test = run => Covered(m.n)
         /\ Stopped => conn = "closed"
         /\ ~ Stopped => \A m \in requests : Covered(m.n)

\* A process that lives has run at least once.
RunBegun == alive => run >= 1

LogInv == Known /\ AtRest /\ RunBegun /\ OnePlace /\ PastRows /\ SentHaveRows

-----------------------------------------------------------------------------
(* What steps do to the queue of statements and to rows                    *)

LEMMA QueueGrows ==
  ASSUME NEW S, NEW q \in Seq(S), NEW st \in S
  PROVE  /\ Append(q, st) \in Seq(S) /\ Len(q) \in Nat
         /\ 1 .. Len(Append(q, st)) = (1 .. Len(q)) \cup {Len(q) + 1}
         /\ \A i \in 1 .. Len(q) : Append(q, st)[i] = q[i]
         /\ Append(q, st)[Len(q) + 1] = st
<1>1. /\ Append(q, st) \in Seq(S) /\ Len(Append(q, st)) = Len(q) + 1
      /\ \A i \in 1 .. Len(q) : Append(q, st)[i] = q[i]
      /\ Append(q, st)[Len(q) + 1] = st
  BY AppendProperties
<1>2. Len(q) \in Nat
  BY LenProperties
<1> QED BY <1>1, <1>2

LEMMA QueueShrinks ==
  ASSUME NEW S, NEW q \in Seq(S), q # <<>>
  PROVE  /\ Head(q) \in S /\ Head(q) = q[1] /\ Tail(q) \in Seq(S)
         /\ Len(q) \in Nat /\ Len(Tail(q)) = Len(q) - 1 /\ Len(q) >= 1
         /\ \A i \in 1 .. Len(Tail(q)) : i + 1 \in 1 .. Len(q) /\ Tail(q)[i] = q[i + 1]
<1>1. /\ Head(q) \in S /\ Tail(q) \in Seq(S) /\ Len(Tail(q)) = Len(q) - 1
      /\ \A i \in 1 .. Len(Tail(q)) : Tail(q)[i] = q[i + 1]
  BY HeadTailProperties
<1>2. Len(q) \in Nat /\ Len(q) # 0
  BY LenProperties, EmptySeq
<1>3. Head(q) = q[1]
  OBVIOUS
<1> QED BY <1>1, <1>2, <1>3

\* A statement leaves the rows with other references alone, adds rows of its own
\* reference only, and removes rows only if it is a DELETE.
LEMMA AppliedEffect ==
  ASSUME NEW rows, NEW st \in Statements, RowsKnown(rows), Given(st.n, st.test)
  PROVE  /\ RowsKnown(Applied(rows, st))
         /\ \A row : Reference(row.n) # Reference(st.n) => (row \in Applied(rows, st) <=> row \in rows)
         /\ st.op # "delete" => \A n, t : HasRow(rows, n, t) => HasRow(Applied(rows, st), n, t)
         /\ st.op = "insert" => HasRow(Applied(rows, st), st.n, st.test)
<1> DEFINE new == [n |-> st.n, test |-> st.test, answered |-> FALSE]
           answered(row) == [row EXCEPT !.answered = TRUE]
<1>1. \A row \in rows : row \in [n : Nat, test : Nat, answered : BOOLEAN] /\ Given(row.n, row.test)
  BY DEF RowsKnown
<1>2. \A row \in rows : /\ answered(row) \in [n : Nat, test : Nat, answered : BOOLEAN]
                        /\ answered(row).n = row.n /\ answered(row).test = row.test
  BY <1>1
<1>3. Matching(rows, st) \subseteq rows /\ \A row \in Matching(rows, st) : Reference(row.n) = Reference(st.n)
  BY DEF Matching
<1>4. new \in [n : Nat, test : Nat, answered : BOOLEAN] /\ new.n = st.n /\ new.test = st.test
  BY DEF Statements
<1>5. CASE st.op = "insert"
  <2>1. Applied(rows, st) = rows \cup {new}
    BY <1>5 DEF Applied
  <2> HIDE DEF new
  <2> QED BY <1>1, <1>4, <1>5, <2>1 DEF RowsKnown, HasRow
<1>6. CASE st.op = "update"
  <2>1. Applied(rows, st) = (rows \ Matching(rows, st)) \cup {answered(row) : row \in Matching(rows, st)}
    BY <1>6 DEF Applied
  <2> HIDE DEF answered
  <2>2. \A row \in Applied(rows, st) : row \in rows \/ \E r \in Matching(rows, st) : row = answered(r)
    BY <2>1
  <2>3. \A row \in Matching(rows, st) : answered(row) \in Applied(rows, st)
    BY <2>1
  <2>4. RowsKnown(Applied(rows, st))
    BY <1>1, <1>2, <1>3, <2>2 DEF RowsKnown
  <2>5. \A row : Reference(row.n) # Reference(st.n) => (row \in Applied(rows, st) <=> row \in rows)
    BY <1>2, <1>3, <2>1
  <2>6. ASSUME NEW n, NEW t, HasRow(rows, n, t) PROVE HasRow(Applied(rows, st), n, t)
    <3>1. PICK row \in rows : row.n = n /\ row.test = t
      BY <2>6 DEF HasRow
    <3>2. CASE row \in Matching(rows, st)
      BY <1>2, <2>3, <3>1, <3>2 DEF HasRow
    <3>3. CASE row \notin Matching(rows, st)
      BY <2>1, <3>1, <3>3 DEF HasRow
    <3> QED BY <3>2, <3>3
  <2> QED BY <1>6, <2>4, <2>5, <2>6
<1>7. CASE st.op = "delete"
  <2>1. Applied(rows, st) = rows \ Matching(rows, st)
    BY <1>7 DEF Applied
  <2> QED BY <1>1, <1>3, <1>7, <2>1 DEF RowsKnown
<1> QED BY <1>5, <1>6, <1>7 DEF Statements

-----------------------------------------------------------------------------
(* Known and AtRest are kept                                               *)

\* What a step of the queue does, if it was accepted.
LEMMA AcceptedGrows ==
  ASSUME QueueKnown, NEW st \in Statements, st.test = run, Given(st.n, run)',
         Accepted(st) \/ NotCommitted, given \subseteq given', run' = run
  PROVE  QueueKnown'
<1>1. CASE pending' = Append(pending, st)
  <2>1. /\ pending' \in Seq(Statements) /\ 1 .. Len(pending') = (1 .. Len(pending)) \cup {Len(pending) + 1}
        /\ \A i \in 1 .. Len(pending) : pending'[i] = pending[i]
        /\ pending'[Len(pending) + 1] = st
    BY <1>1, QueueGrows DEF QueueKnown
  <2> QED BY <2>1 DEF QueueKnown, Given
<1>2. CASE UNCHANGED pending
  BY <1>2 DEF QueueKnown, Given
<1> QED BY <1>1, <1>2 DEF Accepted, NotCommitted

LEMMA KnownStep == IInv /\ Known /\ AtRest /\ RunBegun /\ [Next]_vars => Known' /\ AtRest' /\ RunBegun'
<1> SUFFICES ASSUME IInv, Known, AtRest, RunBegun, [Next]_vars PROVE Known' /\ AtRest' /\ RunBegun'
  OBVIOUS
<1> USE DEF Known
<1>1. run \in Nat /\ counter \in Nat /\ Len(<<>>) = 0 /\ <<>> \in Seq(Statements)
  BY DEF IInv, CountersOK
<1>2. CASE StartUp
  <2>1. /\ run' = run + 1 /\ life' = "up" /\ conn' = "open"
        /\ UNCHANGED <<table, tx, pending, mark, given, overran, spoilt, requests, sent>> /\ ~ alive
    BY <1>2 DEF StartUp, writerVars, requestVars, alive
  <2>2. pending = <<>> /\ requests = {} /\ tx = table
    BY <2>1 DEF AtRest
  <2>3. RowsKnown(table)' /\ RowsKnown(tx)'
    BY <2>1 DEF RowsKnown, Given
  <2>4. QueueKnown'
    BY <1>1, <2>1, <2>2 DEF QueueKnown
  <2>5. RequestsKnown'
    BY <2>1, <2>2 DEF RequestsKnown, Given
  <2>6. InRange' /\ AtRest' /\ RunBegun'
    BY <1>1, <2>1, <2>2 DEF InRange, AtRest, RunBegun, Lives, alive
  <2> QED BY <2>3, <2>4, <2>5, <2>6
<1>3. CASE LogRequest
  <2>1. PICK k \in Nat : k = counter + 1
    BY <1>1
  <2> DEFINE m == [n |-> k, at |-> "channel"]
             st == Statement("insert", m)
  <2>2. /\ given' = given \cup {[n |-> k, run |-> run]} /\ requests' \subseteq requests \cup {m}
        /\ UNCHANGED <<table, tx, life, conn, overran, mark, run, spoilt, sent>> /\ alive
        /\ Accepted(st) \/ NotCommitted
    BY <1>3, <2>1 DEF LogRequest, processVars, historyVars
  <2>3. st \in Statements /\ st.test = run /\ st.n = k
    BY <1>1 DEF Statement, Statements
  <2>4. Given(k, run)' /\ given \subseteq given'
    BY <2>2 DEF Given
  <2>5. RowsKnown(table)' /\ RowsKnown(tx)'
    BY <2>2, <2>4 DEF RowsKnown, Given
  <2>6. QueueKnown'
    <3> HIDE DEF st
    <3> QED BY <2>2, <2>3, <2>4, AcceptedGrows
  <2>7. RequestsKnown'
    BY <2>2, <2>4 DEF RequestsKnown, Given
  <2>8. InRange' /\ AtRest' /\ RunBegun'
    BY <1>1, <2>2 DEF InRange, AtRest, RunBegun, alive
  <2> QED BY <2>5, <2>6, <2>7, <2>8
<1>4. ASSUME NEW m \in requests, WriteRequest(m) PROVE Known' /\ AtRest' /\ RunBegun'
  <2>1. /\ UNCHANGED <<table, tx, pending, mark, life, conn, given, overran, run, spoilt>>
        /\ requests' = (requests \ {m}) \cup {[m EXCEPT !.at = "client"]}
        /\ sent' = sent \cup {[n |-> m.n, test |-> run]}
    BY <1>4 DEF WriteRequest, processVars, referenceVars, writerVars, historyVars
  <2>2. m \in [n : Nat, at : {"channel", "client"}] /\ Given(m.n, run)
    BY DEF RequestsKnown
  <2>3. RowsKnown(table)' /\ RowsKnown(tx)'
    BY <2>1 DEF RowsKnown, Given
  <2>4. QueueKnown'
    BY <2>1 DEF QueueKnown, Given
  <2>5. RequestsKnown'
    BY <1>1, <2>1, <2>2 DEF RequestsKnown, Given
  <2>6. InRange' /\ AtRest' /\ RunBegun'
    BY <2>1 DEF InRange, AtRest, RunBegun, alive
  <2> QED BY <2>3, <2>4, <2>5, <2>6
<1>5. ASSUME NEW m \in requests, DropRequest(m) \/ RecordAnswer(m) PROVE Known' /\ AtRest' /\ RunBegun'
  <2>1. /\ UNCHANGED <<table, tx, mark, life, conn, given, overran, run, spoilt, sent>>
        /\ requests' = requests \ {m}
    BY <1>5 DEF DropRequest, RecordAnswer, processVars, referenceVars, historyVars
  <2>2. PICK op \in {"update", "delete"} : Accepted(Statement(op, m)) \/ NotCommitted
    BY <1>5 DEF DropRequest, RecordAnswer
  <2>3. m.n \in Nat /\ Given(m.n, run) /\ m \in requests
    BY DEF RequestsKnown
  <2>4. Statement(op, m) \in Statements /\ Statement(op, m).test = run /\ Statement(op, m).n = m.n
    BY <1>1, <2>3 DEF Statement, Statements
  <2>5. QueueKnown'
    BY <2>1, <2>2, <2>3, <2>4, AcceptedGrows DEF Given
  <2>6. RowsKnown(table)' /\ RowsKnown(tx)'
    BY <2>1 DEF RowsKnown, Given
  <2>7. RequestsKnown' /\ InRange' /\ RunBegun'
    BY <2>1 DEF RequestsKnown, InRange, RunBegun, Given, alive
  <2>8. AtRest'
    BY <2>1, <2>3 DEF AtRest, alive
  <2> QED BY <2>5, <2>6, <2>7, <2>8
<1>6. CASE Exec
  <2>1. /\ UNCHANGED <<table, life, conn, given, overran, run, requests, sent>> /\ spoilt' \in {spoilt, spoilt \cup {run}}
        /\ pending # <<>> /\ pending' = Tail(pending) /\ alive /\ life # "exit"
        /\ mark' = (IF mark > 0 THEN mark - 1 ELSE 0)
        /\ tx' = Applied(tx, Head(pending)) \/ tx' = tx
    BY <1>6 DEF Exec, processVars, referenceVars, requestVars
  <2>2. /\ Head(pending) \in Statements /\ Head(pending) = pending[1] /\ pending' \in Seq(Statements)
        /\ 1 \in 1 .. Len(pending)
        /\ \A i \in 1 .. Len(pending') : i + 1 \in 1 .. Len(pending) /\ pending'[i] = pending[i + 1]
    BY <2>1, QueueShrinks DEF QueueKnown
  <2>3. QueueKnown'
    BY <2>1, <2>2 DEF QueueKnown, Given
  <2>4. Head(pending).test = run /\ Given(Head(pending).n, run)
    BY <2>2 DEF QueueKnown
  <2>5. RowsKnown(tx')
    BY <2>1, <2>2, <2>4, AppliedEffect
  <2>6. RowsKnown(table)' /\ RowsKnown(tx)'
    BY <2>1, <2>5 DEF RowsKnown, Given
  <2>7. RequestsKnown' /\ InRange' /\ RunBegun'
    BY <1>1, <2>1 DEF RequestsKnown, InRange, RunBegun, Given, alive
  <2>8. AtRest'
    BY <2>1 DEF AtRest, alive
  <2> QED BY <2>3, <2>6, <2>7, <2>8
<1>7. CASE CommitTx
  <2>1. /\ UNCHANGED <<life, conn, pending, mark, given, overran, run, requests, sent>> /\ spoilt' \in {spoilt, spoilt \cup {run}}
        /\ tx # table /\ tx' = table' /\ table' \in {tx, table}
    BY <1>7 DEF CommitTx, processVars, referenceVars, requestVars
  <2>2. alive /\ life # "exit"
    BY <2>1 DEF AtRest
  <2>3. RowsKnown(table)' /\ RowsKnown(tx)'
    BY <2>1 DEF RowsKnown, Given
  <2>4. QueueKnown'
    BY <2>1 DEF QueueKnown, Given
  <2>5. RequestsKnown' /\ InRange' /\ RunBegun'
    BY <1>1, <2>1, <2>2 DEF RequestsKnown, InRange, RunBegun, Given, alive
  <2>6. AtRest'
    BY <2>1 DEF AtRest, alive
  <2> QED BY <2>3, <2>4, <2>5, <2>6
<1>8. CASE Signal \/ Drained \/ StopServer \/ CloseDB \/ Flushed \/ RegisterLate \/ UNCHANGED vars
  <2>1. UNCHANGED <<table, tx, pending, given, overran, run, requests, sent>>
    BY <1>8 DEF Signal, Drained, StopServer, CloseDB, Flushed, RegisterLate, MainUnchanged,
                vars, processVars, referenceVars, writerVars, historyVars, requestVars
  <2>2. Len(pending) \in Nat
    BY LenProperties DEF QueueKnown
  <2>3. /\ life' \in Lives /\ (alive' <=> alive) /\ conn' \in {"open", "closed"} /\ mark' \in Nat
        /\ spoilt' = spoilt \/ (spoilt' = spoilt \cup {run} /\ alive)
        /\ ~ alive => mark' = mark
        /\ life' = "exit" => tx = table
    BY <1>8, <2>2 DEF Signal, Drained, StopServer, CloseDB, Flushed, RegisterLate, MainUnchanged, AtRest,
                vars, processVars, referenceVars, writerVars, historyVars, requestVars, InRange, Lives, alive
  <2>4. RowsKnown(table)' /\ RowsKnown(tx)'
    BY <2>1 DEF RowsKnown, Given
  <2>5. QueueKnown' /\ RequestsKnown'
    BY <2>1 DEF QueueKnown, RequestsKnown, Given
  <2>6. RunBegun' /\ spoilt' \subseteq 1 .. run
    <3>1. RunBegun'
      BY <2>1, <2>3 DEF RunBegun, alive
    <3>2. alive => run \in 1 .. run
      BY <1>1 DEF RunBegun
    <3> QED BY <2>3, <3>1, <3>2 DEF InRange
  <2>8. InRange'
    BY <2>1, <2>3, <2>6 DEF InRange
  <2>7. AtRest'
    BY <2>1, <2>3 DEF AtRest
  <2> QED BY <2>4, <2>5, <2>6, <2>7, <2>8
<1>9. CASE Exit \/ Crash
  <2>1. /\ UNCHANGED <<table, given, run, sent>> /\ alive /\ ~ alive'
        /\ life' = "down" /\ conn' = "closed" /\ requests' = {} /\ tx' = table /\ pending' = <<>> /\ mark' = 0
        /\ overran' \in {overran, overran \cup {run}} /\ spoilt' \in {spoilt, spoilt \cup {run}}
    BY <1>9 DEF Exit, Crash, Gone, alive
  <2>2. RowsKnown(table)' /\ RowsKnown(tx)'
    BY <2>1 DEF RowsKnown, Given
  <2>3. QueueKnown'
    BY <1>1, <2>1 DEF QueueKnown
  <2>4. RequestsKnown'
    BY <2>1 DEF RequestsKnown, Given
  <2>5. InRange' /\ AtRest' /\ RunBegun'
    BY <1>1, <2>1 DEF InRange, AtRest, RunBegun, Lives
  <2> QED BY <2>2, <2>3, <2>4, <2>5
<1> QED BY <1>2, <1>3, <1>4, <1>5, <1>6, <1>7, <1>8, <1>9 DEF Next, serveUntilSignal

-----------------------------------------------------------------------------
(* OnePlace and PastRows are kept                                          *)

\* The next reference has not been given out.
LEMMA NextIsNew == ASSUME IInv, alive PROVE ~ Given(counter + 1, run)
<1>1. \A a \in given : a.run = run => a.n \in Nat /\ a.n <= counter
  BY DEF IInv, CountersOK, EndedBelowSeed
<1> QED BY <1>1 DEF IInv, CountersOK, Given

\* Steps that neither log, send, drop or answer, nor execute a statement
LEMMA OnePlaceKept ==
  ASSUME OnePlace, UNCHANGED <<pending, requests, sent, run>> PROVE OnePlace'
  BY DEF OnePlace

LEMMA OnePlaceStep == IInv /\ Known /\ AtRest /\ OnePlace /\ [Next]_vars => OnePlace'
<1> SUFFICES ASSUME IInv, Known, AtRest, OnePlace, [Next]_vars PROVE OnePlace'
  OBVIOUS
<1>1. /\ \A i \in 1 .. Len(pending) : Given(pending[i].n, run)
      /\ \A m \in requests : m \in [n : Nat, at : {"channel", "client"}] /\ Given(m.n, run)
      /\ \A m \in sent : m \in [n : Nat, test : Nat] /\ Given(m.n, m.test)
      /\ pending \in Seq(Statements)
  BY DEF Known, QueueKnown, RequestsKnown
<1>2. CASE StartUp \/ Exit \/ Crash
  <2>1. pending' = <<>> /\ requests' = {}
    BY <1>2 DEF StartUp, Exit, Crash, Gone, AtRest, alive, writerVars, requestVars
  <2> QED BY <2>1 DEF OnePlace
<1>3. CASE LogRequest
  <2> DEFINE new == [n |-> counter', at |-> "channel"]
  <2>1. /\ counter' = counter + 1 /\ alive /\ requests' \subseteq requests \cup {new} /\ UNCHANGED <<sent, run>>
        /\ Accepted(Statement("insert", new)) \/ NotCommitted
    BY <1>3 DEF LogRequest, historyVars
  <2>2. ~ Given(new.n, run)
    BY <2>1, NextIsNew
  <2>3. Statement("insert", new) \in Statements /\ Statement("insert", new).op = "insert"
    BY <2>1 DEF Statement, Statements, IInv, CountersOK
  <2> HIDE DEF new
  <2>4. \A i \in 1 .. Len(pending') :
          pending'[i].op = "delete" => \E j \in 1 .. Len(pending) : pending'[i] = pending[j]
    <3>1. CASE pending' = Append(pending, Statement("insert", new))
      <4>1. /\ 1 .. Len(pending') = (1 .. Len(pending)) \cup {Len(pending) + 1}
            /\ \A i \in 1 .. Len(pending) : pending'[i] = pending[i]
            /\ pending'[Len(pending) + 1].op = "insert"
        BY <1>1, <2>3, <3>1, QueueGrows
      <4> QED BY <4>1
    <3>2. CASE UNCHANGED pending
      BY <3>2
    <3> QED BY <2>1, <3>1, <3>2 DEF Accepted, NotCommitted
  <2>5. \A m, o \in requests' : m.n = o.n => m = o
    BY <1>1, <2>1, <2>2 DEF OnePlace
  <2>6. \A m \in requests' : m.at = "channel" => [n |-> m.n, test |-> run] \notin sent
    BY <1>1, <2>1, <2>2 DEF OnePlace
  <2>7. ASSUME NEW i \in 1 .. Len(pending'), pending'[i].op = "delete"
        PROVE  [n |-> pending'[i].n, test |-> run] \notin sent /\ \A m \in requests' : m.n # pending'[i].n
    <3>1. PICK j \in 1 .. Len(pending) : pending'[i] = pending[j]
      BY <2>4, <2>7
    <3>2. pending'[i].n # new.n
      BY <1>1, <2>2, <3>1
    <3> QED BY <2>1, <2>7, <3>1, <3>2 DEF OnePlace
  <2> QED BY <2>1, <2>5, <2>6, <2>7 DEF OnePlace
<1>4. ASSUME NEW m \in requests, WriteRequest(m) PROVE OnePlace'
  <2>1. /\ requests' = (requests \ {m}) \cup {[m EXCEPT !.at = "client"]}
        /\ sent' = sent \cup {[n |-> m.n, test |-> run]} /\ UNCHANGED <<pending, run>>
    BY <1>4 DEF WriteRequest, writerVars, historyVars
  <2>2. [m EXCEPT !.at = "client"].n = m.n /\ [m EXCEPT !.at = "client"].at = "client"
    BY <1>1
  <2>10. \A o, p \in requests : o.n = p.n => o = p
    BY DEF OnePlace
  <2> DEFINE moved == [m EXCEPT !.at = "client"]
  <2>11. requests' = (requests \ {m}) \cup {moved} /\ moved.n = m.n /\ moved.at = "client"
    BY <2>1, <2>2
  <2> HIDE DEF moved
  <2>12. \A o \in requests \ {m} : o.n # m.n
    BY <2>10
  <2>3. \A o, p \in requests' : o.n = p.n => o = p
    <3> SUFFICES ASSUME NEW o \in requests', NEW p \in requests', o.n = p.n PROVE o = p
      OBVIOUS
    <3>1. CASE o \in requests \ {m} /\ p \in requests \ {m}
      BY <2>10, <3>1
    <3>2. CASE o = moved \/ p = moved
      BY <2>11, <2>12, <3>2
    <3> QED BY <2>11, <3>1, <3>2
  <2>4. \A o \in requests' : o.at = "channel" => o \in requests /\ o.n # m.n
    BY <2>11, <2>12
  <2>5. \A o \in requests' : \E p \in requests : o.n = p.n
    BY <2>11
  <2>6. \A i \in 1 .. Len(pending) : pending[i].op = "delete" => pending[i].n # m.n
    BY DEF OnePlace
  <2> QED BY <2>1, <2>3, <2>4, <2>5, <2>6 DEF OnePlace
<1>5. ASSUME NEW m \in requests, DropRequest(m) \/ RecordAnswer(m) PROVE OnePlace'
  <2>1. requests' = requests \ {m} /\ UNCHANGED <<sent, run>>
    BY <1>5 DEF DropRequest, RecordAnswer, historyVars
  <2>2. PICK op \in {"update", "delete"} :
          (Accepted(Statement(op, m)) \/ NotCommitted) /\ (op = "delete" => m.at = "channel")
    BY <1>5 DEF DropRequest, RecordAnswer
  <2>3. Statement(op, m) \in Statements /\ Statement(op, m).op = op /\ Statement(op, m).n = m.n
    <3>1. m.n \in Nat /\ run \in Nat
      BY <1>1 DEF IInv, CountersOK
    <3> QED BY <3>1 DEF Statement, Statements
  <2>4. \A i \in 1 .. Len(pending') :
          \/ i \in 1 .. Len(pending) /\ pending'[i] = pending[i]
          \/ pending'[i] = Statement(op, m)
    <3>1. CASE pending' = Append(pending, Statement(op, m))
      BY <1>1, <2>3, <3>1, QueueGrows
    <3>2. CASE UNCHANGED pending
      BY <3>2
    <3> QED BY <2>2, <3>1, <3>2 DEF Accepted, NotCommitted
  <2>5. op = "delete" => /\ [n |-> m.n, test |-> run] \notin sent
                         /\ \A o \in requests' : o.n # m.n
    BY <2>1, <2>2 DEF OnePlace
  <2> QED BY <2>1, <2>3, <2>4, <2>5 DEF OnePlace
<1>6. CASE Exec
  <2>1. pending # <<>> /\ pending' = Tail(pending) /\ UNCHANGED <<requests, sent, run>>
    BY <1>6 DEF Exec, requestVars
  <2>2. \A i \in 1 .. Len(pending') : i + 1 \in 1 .. Len(pending) /\ pending'[i] = pending[i + 1]
    BY <1>1, <2>1, QueueShrinks
  <2> QED BY <2>1, <2>2 DEF OnePlace
<1>7. CASE CommitTx \/ Signal \/ Drained \/ StopServer \/ CloseDB \/ Flushed \/ RegisterLate \/ UNCHANGED vars
  <2>1. UNCHANGED <<pending, requests, sent, run>>
    BY <1>7 DEF CommitTx, Signal, Drained, StopServer, CloseDB, Flushed, RegisterLate, MainUnchanged,
                vars, writerVars, historyVars, requestVars
  <2> QED BY <2>1, OnePlaceKept
<1> QED BY <1>2, <1>3, <1>4, <1>5, <1>6, <1>7 DEF Next, serveUntilSignal

\* While no reference is repeated, a row and a statement with the same one are of the
\* same request.
LEMMA SameRequest ==
  ASSUME NoneRepeated, NEW n, NEW t, NEW o, NEW u, Given(n, t), Given(o, u), Reference(n) = Reference(o)
  PROVE  n = o /\ t = u
<1>1. [n |-> n, run |-> t] = [n |-> o, run |-> u]
  BY DEF NoneRepeated, Given
<1> QED BY <1>1

\* Nor has it become repeated before.
LEMMA NoneRepeatedBefore == ASSUME NoneRepeated', given \subseteq given' PROVE NoneRepeated
  BY DEF NoneRepeated

\* References are not taken back.
LEMMA GivenGrows == ASSUME [Next]_vars PROVE given \subseteq given'
<1>1. CASE LogRequest
  BY <1>1 DEF LogRequest
<1>2. ASSUME NEW m \in requests, WriteRequest(m) \/ DropRequest(m) \/ RecordAnswer(m) PROVE given' = given
  BY <1>2 DEF WriteRequest, DropRequest, RecordAnswer, referenceVars
<1>3. CASE StartUp \/ serveUntilSignal \/ Crash \/ RegisterLate \/ Exec \/ CommitTx \/ UNCHANGED vars
  BY <1>3 DEF StartUp, serveUntilSignal, Signal, Drained, StopServer, CloseDB, Flushed, Exit, Crash, Gone,
              RegisterLate, Exec, CommitTx, MainUnchanged, vars, referenceVars
<1> QED BY <1>1, <1>2, <1>3 DEF Next

\* What executing a statement does to the rows of earlier runs: nothing.
LEMMA PastStands ==
  ASSUME IInv, Known, NoneRepeated, Exec
  PROVE  {row \in tx' : row.test < run} = {row \in tx : row.test < run}
<1>1. CASE tx' = tx
  BY <1>1
<1>2. CASE tx' = Applied(tx, Head(pending))
  <2> DEFINE st == Head(pending)
  <2>1. st \in Statements /\ st.test = run /\ Given(st.n, run) /\ run \in Nat
    <3>1. pending \in Seq(Statements) /\ pending # <<>>
      BY DEF Known, QueueKnown, Exec
    <3>2. st \in Statements /\ st = pending[1] /\ 1 \in 1 .. Len(pending)
      BY <3>1, QueueShrinks
    <3> QED BY <3>2 DEF Known, QueueKnown, IInv, CountersOK
  <2>2. RowsKnown(tx) /\ RowsKnown(Applied(tx, st))
    BY <2>1, AppliedEffect DEF Known
  <2>3. ASSUME NEW row \in tx \cup Applied(tx, st), row.test < run PROVE Reference(row.n) # Reference(st.n)
    <3>1. Given(row.n, row.test) /\ row.test \in Nat /\ row.test # run
      BY <2>1, <2>2, <2>3 DEF RowsKnown
    <3> QED BY <2>1, <3>1, SameRequest
  <2>4. \A row : Reference(row.n) # Reference(st.n) => (row \in Applied(tx, st) <=> row \in tx)
    BY <2>1, AppliedEffect DEF Known
  <2> QED BY <1>2, <2>3, <2>4
<1> QED BY <1>1, <1>2 DEF Exec

LEMMA PastRowsStep == IInv /\ Known /\ AtRest /\ PastRows /\ [Next]_vars => PastRows'
<1> SUFFICES ASSUME IInv, Known, AtRest, PastRows, [Next]_vars, NoneRepeated'
             PROVE  {row \in tx' : row.test < run'} = {row \in table' : row.test < run'}
  BY DEF PastRows
<1>1. NoneRepeated
  BY GivenGrows, NoneRepeatedBefore
<1>2. CASE StartUp \/ Exit \/ Crash \/ CommitTx
  BY <1>2 DEF StartUp, Exit, Crash, CommitTx, Gone, AtRest, alive, writerVars
<1>3. CASE Exec
  BY <1>1, <1>3, PastStands DEF PastRows, Exec
<1>4. CASE LogRequest \/ Signal \/ Drained \/ StopServer \/ CloseDB \/ Flushed \/ RegisterLate \/ UNCHANGED vars
  BY <1>1, <1>4 DEF PastRows, LogRequest, Signal, Drained, StopServer, CloseDB, Flushed, RegisterLate, MainUnchanged,
              vars, writerVars, historyVars
<1>5. ASSUME NEW m \in requests, WriteRequest(m) \/ DropRequest(m) \/ RecordAnswer(m) PROVE UNCHANGED <<table, tx, run>>
  BY <1>5 DEF WriteRequest, DropRequest, RecordAnswer, writerVars, historyVars
<1>6. CASE UNCHANGED <<table, tx, run>>
  BY <1>1, <1>6 DEF PastRows
<1> QED BY <1>2, <1>3, <1>4, <1>5, <1>6 DEF Next, serveUntilSignal

-----------------------------------------------------------------------------
(* SentHaveRows is kept                                                    *)

\* Appending a statement covers what was covered.
LEMMA CoveredStays ==
  ASSUME Known, NEW st \in Statements, Accepted(st) \/ NotCommitted,
         UNCHANGED <<tx, life, mark, run>>, NEW n, Covered(n)
  PROVE  Covered(n)'
<1>1. pending \in Seq(Statements)
  BY DEF Known, QueueKnown
<1>2. \A i \in 1 .. Len(pending) : i \in 1 .. Len(pending') /\ pending'[i] = pending[i]
  <2>1. CASE pending' = Append(pending, st)
    BY <1>1, <2>1, QueueGrows
  <2>2. CASE UNCHANGED pending
    BY <2>2
  <2> QED BY <2>1, <2>2 DEF Accepted, NotCommitted
<1>3. CASE HasRow(tx, n, run)
  BY <1>3 DEF Covered, HasRow
<1>4. ASSUME life # "exit",
             NEW i \in 1 .. Len(pending), pending[i].op = "insert" /\ pending[i].n = n /\ (life = "flush" => i <= mark)
      PROVE  Covered(n)'
  BY <1>2, <1>4 DEF Covered
<1> QED BY <1>3, <1>4 DEF Covered

\* Executing a statement covers what was covered, but for what it deletes.
LEMMA CoveredExecuted ==
  ASSUME IInv, Known, NoneRepeated, Exec, tx' = Applied(tx, Head(pending)),
         NEW n, Given(n, run), Covered(n), Head(pending).op = "delete" => Head(pending).n # n
  PROVE  Covered(n)'
<1> DEFINE st == Head(pending)
<1>1. /\ UNCHANGED <<life, run>> /\ life # "exit"
      /\ pending' = Tail(pending) /\ pending # <<>> /\ pending \in Seq(Statements)
      /\ mark' = (IF mark > 0 THEN mark - 1 ELSE 0) /\ mark \in Nat /\ run \in Nat
  BY DEF Exec, processVars, Known, QueueKnown, InRange, IInv, CountersOK
<1>2. /\ st \in Statements /\ st = pending[1] /\ 1 \in 1 .. Len(pending)
      /\ Len(pending) \in Nat /\ Len(pending') = Len(pending) - 1
      /\ \A i \in 1 .. Len(pending') : pending'[i] = pending[i + 1]
  BY <1>1, QueueShrinks
<1>3. st.test = run /\ Given(st.n, st.test) /\ Given(st.n, run) /\ RowsKnown(tx)
  BY <1>2 DEF Known, QueueKnown
<1>4. CASE HasRow(tx, n, run)
  <2>1. CASE st.op = "delete"
    <3>1. PICK row \in tx : row.n = n /\ row.test = run
      BY <1>4 DEF HasRow
    <3>2. Reference(row.n) # Reference(st.n)
      BY <1>3, <2>1, <3>1, SameRequest
    <3>3. row \in tx'
      BY <1>2, <1>3, <3>2, AppliedEffect
    <3> QED BY <1>1, <3>1, <3>3 DEF Covered, HasRow
  <2>2. CASE st.op # "delete"
    <3>1. HasRow(Applied(tx, st), n, run)
      BY <1>2, <1>3, <1>4, <2>2, AppliedEffect
    <3> QED BY <1>1, <3>1 DEF Covered, HasRow
  <2> QED BY <2>1, <2>2
<1>5. ASSUME NEW i \in 1 .. Len(pending), pending[i].op = "insert" /\ pending[i].n = n /\ (life = "flush" => i <= mark)
      PROVE  Covered(n)'
  <2>1. CASE i = 1
    <3>1. HasRow(Applied(tx, st), n, run)
      BY <1>2, <1>3, <1>5, <2>1, AppliedEffect
    <3> QED BY <1>1, <3>1 DEF Covered, HasRow
  <2>2. CASE i # 1
    <3>1. i - 1 \in 1 .. Len(pending') /\ pending'[i - 1] = pending[i]
      BY <1>2, <2>2
    <3>2. life = "flush" => i - 1 <= mark'
      BY <1>1, <1>5, <2>2
    <3> QED BY <1>1, <1>5, <3>1, <3>2 DEF Covered
  <2> QED BY <2>1, <2>2
<1> QED BY <1>4, <1>5 DEF Covered

\* What has been sent is of a run that has begun.
LEMMA SentInRange ==
  ASSUME IInv, Known PROVE run \in Nat /\ \A m \in sent : m.test \in Nat /\ m.test <= run
<1>1. run \in Nat
  BY DEF IInv, CountersOK
<1>2. ASSUME NEW m \in sent PROVE m.test \in 1 .. run
  <2> DEFINE a == [n |-> m.n, run |-> m.test]
  <2>1. a \in given
    BY DEF Known, RequestsKnown, Given
  <2>2. a.run \in 1 .. run
    BY <2>1 DEF Known, InRange
  <2> QED BY <2>2
<1> QED BY <1>1, <1>2

LEMMA SentStep ==
  IInv /\ Known /\ AtRest /\ RunBegun /\ OnePlace /\ PastRows /\ SentHaveRows /\ [Next]_vars => SentHaveRows'
<1> SUFFICES ASSUME IInv, Known, AtRest, RunBegun, OnePlace, PastRows, SentHaveRows, [Next]_vars, NoneRepeated'
             PROVE  /\ \A m \in sent' :
                         (m.test < run' \/ ~ alive') => m.test \in spoilt' \/ HasRow(table', m.n, m.test)
                    /\ alive' /\ run' \notin spoilt' =>
                         /\ \A m \in sent' : m.test = run' => Covered(m.n)'
                         /\ Stopped' => conn' = "closed"
                         /\ ~ Stopped' => \A m \in requests' : Covered(m.n)'
  BY DEF SentHaveRows, HasRow
<1> DEFINE PastSent == \A m \in sent' :
                         (m.test < run' \/ ~ alive') => m.test \in spoilt' \/ HasRow(table', m.n, m.test)
           NowSent == alive' /\ run' \notin spoilt' =>
                         /\ \A m \in sent' : m.test = run' => Covered(m.n)'
                         /\ Stopped' => conn' = "closed"
                         /\ ~ Stopped' => \A m \in requests' : Covered(m.n)'
<1>1. NoneRepeated
  BY GivenGrows, NoneRepeatedBefore
<1>2. \A m \in sent : (m.test < run \/ ~ alive) => m.test \in spoilt \/ HasRow(table, m.n, m.test)
  BY <1>1 DEF SentHaveRows
<1>3. alive /\ run \notin spoilt =>
         /\ \A m \in sent : m.test = run => Covered(m.n)
         /\ Stopped => conn = "closed"
         /\ ~ Stopped => \A m \in requests : Covered(m.n)
  BY <1>1 DEF SentHaveRows
<1>4. run \in Nat /\ \A m \in sent : m.test \in Nat /\ m.test <= run
  BY SentInRange
<1>5. \A m \in requests : m \in [n : Nat, at : {"channel", "client"}] /\ Given(m.n, run)
  BY DEF Known, RequestsKnown
<1>6. CASE StartUp
  <2>1. /\ run' = run + 1 /\ life' = "up" /\ UNCHANGED <<table, spoilt, sent>> /\ requests' = {} /\ ~ alive
    BY <1>6 DEF StartUp, requestVars, AtRest, alive
  <2>2. PastSent
    BY <1>2, <2>1
  <2>3. NowSent
    BY <1>4, <2>1 DEF Stopped
  <2> QED BY <2>2, <2>3
<1>7. CASE LogRequest
  <2>1. PICK k \in Nat : k = counter + 1
    BY DEF IInv, CountersOK
  <2> DEFINE new == [n |-> k, at |-> "channel"]
             st == Statement("insert", new)
  <2>2. /\ UNCHANGED <<table, tx, life, conn, mark, run, spoilt, sent>> /\ alive /\ alive'
        /\ Accepted(st) \/ NotCommitted
        /\ requests' \subseteq requests \cup {new}
    BY <1>7, <2>1 DEF LogRequest, processVars, historyVars, alive
  <2>3. st \in Statements /\ st.op = "insert" /\ st.n = k /\ new.n = k
    BY <1>4 DEF Statement, Statements
  <2>4. PastSent
    BY <1>2, <2>2
  <2> HIDE DEF st
  <2>5. \A n : Covered(n) => Covered(n)'
    BY <2>2, <2>3, CoveredStays
  <2>6. ASSUME ~ Stopped PROVE Covered(k)'
    <3>1. pending' = Append(pending, st) /\ life \notin {"flush", "exit"}
      BY <2>2, <2>6 DEF Accepted, NotCommitted, Stopped
    <3>2. pending \in Seq(Statements)
      BY DEF Known, QueueKnown
    <3>3. Len(pending) + 1 \in 1 .. Len(pending') /\ pending'[Len(pending) + 1] = st
      BY <2>3, <3>1, <3>2, QueueGrows
    <3> QED BY <2>2, <2>3, <3>1, <3>3 DEF Covered
  <2> HIDE DEF new
  <2>7. ASSUME alive', run' \notin spoilt'
        PROVE  /\ \A m \in sent' : m.test = run' => Covered(m.n)'
               /\ Stopped' => conn' = "closed"
    BY <1>3, <2>2, <2>5, <2>7 DEF Stopped
  <2>8. ASSUME alive', run' \notin spoilt', ~ Stopped', NEW m \in requests' PROVE Covered(m.n)'
    <3>1. CASE m \in requests
      BY <1>3, <2>2, <2>5, <2>8, <3>1 DEF Stopped
    <3>2. CASE m = new
      BY <2>2, <2>3, <2>6, <2>8, <3>2 DEF Stopped
    <3> QED BY <2>2, <2>8, <3>1, <3>2
  <2>9. NowSent
    <3> SUFFICES ASSUME alive', run' \notin spoilt'
                 PROVE  /\ \A m \in sent' : m.test = run' => Covered(m.n)'
                        /\ Stopped' => conn' = "closed"
                        /\ ~ Stopped' => \A m \in requests' : Covered(m.n)'
      OBVIOUS
    <3>1. /\ \A m \in sent' : m.test = run' => Covered(m.n)'
          /\ Stopped' => conn' = "closed"
      BY <2>7
    <3>2. ~ Stopped' => \A m \in requests' : Covered(m.n)'
      BY <2>8
    <3> QED BY <3>1, <3>2
  <2> QED BY <2>4, <2>9
<1>8. ASSUME NEW m \in requests, WriteRequest(m) PROVE PastSent /\ NowSent
  <2>1. /\ UNCHANGED <<table, tx, pending, mark, life, conn, run, spoilt>> /\ conn = "open" /\ alive /\ alive'
        /\ requests' = (requests \ {m}) \cup {[m EXCEPT !.at = "client"]}
        /\ sent' = sent \cup {[n |-> m.n, test |-> run]}
    BY <1>8 DEF WriteRequest, processVars, writerVars, historyVars, AtRest, alive
  <2>2. PastSent
    BY <1>2, <1>4, <2>1
  <2>3. \A n : Covered(n) <=> Covered(n)'
    BY <2>1 DEF Covered, HasRow
  <2>4. [m EXCEPT !.at = "client"].n = m.n
    BY <1>5
  <2>5. ASSUME alive', run' \notin spoilt', NEW o \in sent', o.test = run' PROVE Covered(o.n)'
    BY <1>3, <2>1, <2>3, <2>5 DEF Stopped
  <2>6. ASSUME alive', run' \notin spoilt', ~ Stopped', NEW o \in requests' PROVE Covered(o.n)'
    <3>1. \E p \in requests : p.n = o.n
      BY <2>1, <2>4
    <3> QED BY <1>3, <2>1, <2>3, <2>6, <3>1 DEF Stopped
  <2>7. NowSent
    BY <1>3, <2>1, <2>5, <2>6 DEF Stopped
  <2> QED BY <2>2, <2>7
<1>9. ASSUME NEW m \in requests, DropRequest(m) \/ RecordAnswer(m) PROVE PastSent /\ NowSent
  <2>1. /\ UNCHANGED <<table, tx, mark, life, conn, run, spoilt, sent>> /\ requests' = requests \ {m}
    BY <1>9 DEF DropRequest, RecordAnswer, processVars, historyVars
  <2>2. PICK op \in {"update", "delete"} : Accepted(Statement(op, m)) \/ NotCommitted
    BY <1>9 DEF DropRequest, RecordAnswer
  <2>3. Statement(op, m) \in Statements
    BY <1>4, <1>5 DEF Statement, Statements
  <2>4. \A n : Covered(n) => Covered(n)'
    BY <2>1, <2>2, <2>3, CoveredStays
  <2>5. PastSent
    BY <1>2, <2>1 DEF alive
  <2>6. NowSent
    BY <1>3, <2>1, <2>4 DEF Stopped, alive
  <2> QED BY <2>5, <2>6
<1>10. CASE Exec
  <2>1. /\ UNCHANGED <<table, life, conn, run, requests, sent>> /\ alive /\ alive'
        /\ \/ tx' = Applied(tx, Head(pending)) /\ spoilt' = spoilt
           \/ spoilt' = spoilt \cup {run}
        /\ pending # <<>>
    BY <1>10 DEF Exec, processVars, requestVars, alive
  <2>2. PastSent
    BY <1>2, <2>1
  <2>3. CASE spoilt' = spoilt /\ tx' = Applied(tx, Head(pending))
    <3>1. Head(pending) = pending[1] /\ 1 \in 1 .. Len(pending)
      BY <2>1, QueueShrinks DEF Known, QueueKnown
    <3>2. ASSUME NEW m \in sent, m.test = run, Covered(m.n) PROVE Covered(m.n)'
      <4>1. Given(m.n, run) /\ m = [n |-> m.n, test |-> run]
        BY <3>2 DEF Known, RequestsKnown
      <4>2. Head(pending).op = "delete" => Head(pending).n # m.n
        BY <3>1, <4>1 DEF OnePlace
      <4> QED BY <1>1, <1>10, <2>3, <3>2, <4>1, <4>2, CoveredExecuted
    <3>3. ASSUME NEW m \in requests, Covered(m.n) PROVE Covered(m.n)'
      <4>1. Head(pending).op = "delete" => Head(pending).n # m.n
        BY <3>1 DEF OnePlace
      <4> QED BY <1>1, <1>5, <1>10, <2>3, <3>3, <4>1, CoveredExecuted
    <3>4. NowSent
      BY <1>3, <2>1, <2>3, <3>2, <3>3 DEF Stopped
    <3> QED BY <2>2, <3>4
  <2>4. CASE spoilt' = spoilt \cup {run}
    BY <2>1, <2>2, <2>4
  <2> QED BY <2>1, <2>3, <2>4
<1>11. CASE CommitTx
  <2>1. /\ UNCHANGED <<life, conn, pending, mark, run, requests, sent>>
        /\ \/ table' = tx /\ UNCHANGED <<tx, spoilt>>
           \/ spoilt' = spoilt \cup {run} /\ UNCHANGED table
        /\ alive /\ alive'
    BY <1>11 DEF CommitTx, processVars, requestVars, AtRest, alive
  <2>2. PastSent
    <3>1. CASE table' = tx /\ spoilt' = spoilt
      <4> SUFFICES ASSUME NEW m \in sent, m.test < run, HasRow(table, m.n, m.test) PROVE HasRow(tx, m.n, m.test)
        BY <1>2, <2>1, <3>1
      <4>1. PICK row \in table : row.n = m.n /\ row.test = m.test
        BY DEF HasRow
      <4>2. row \in {r \in tx : r.test < run}
        BY <1>1, <4>1 DEF PastRows
      <4> QED BY <4>1, <4>2 DEF HasRow
    <3>2. CASE spoilt' = spoilt \cup {run} /\ UNCHANGED table
      BY <1>2, <2>1, <3>2
    <3> QED BY <2>1, <3>1, <3>2
  <2>3. NowSent
    <3>1. CASE spoilt' = spoilt /\ tx' = tx
      <4>1. \A n : Covered(n) <=> Covered(n)'
        BY <2>1, <3>1 DEF Covered, HasRow
      <4> QED BY <1>3, <2>1, <3>1, <4>1 DEF Stopped
    <3>2. CASE spoilt' = spoilt \cup {run}
      BY <2>1, <3>2
    <3> QED BY <2>1, <3>1, <3>2
  <2> QED BY <2>2, <2>3
<1>12. CASE Signal \/ Drained \/ StopServer \/ CloseDB \/ Flushed
  <2>1. /\ UNCHANGED <<table, tx, pending, run, spoilt, requests, sent>> /\ alive /\ alive'
        /\ \/ life \in {"up", "drain"} /\ life' \in {"drain", "stop"} /\ UNCHANGED <<conn, mark>>
           \/ life = "stop" /\ life' = "close" /\ conn' = "closed" /\ UNCHANGED mark
           \/ life = "close" /\ life' = "flush" /\ mark' = Len(pending) /\ UNCHANGED conn
           \/ life = "flush" /\ life' = "exit" /\ mark = 0 /\ UNCHANGED conn
    BY <1>12 DEF Signal, Drained, StopServer, CloseDB, Flushed, MainUnchanged, alive, writerVars, historyVars, requestVars
  <2>2. PastSent
    BY <1>2, <2>1
  <2>3. Len(pending) \in Nat
    BY LenProperties DEF Known, QueueKnown
  <2>4. ASSUME NEW n, Covered(n) PROVE Covered(n)'
    BY <2>1, <2>3, <2>4 DEF Covered, HasRow
  <2>5. NowSent
    BY <1>3, <2>1, <2>4 DEF Stopped
  <2> QED BY <2>2, <2>5
<1>13. CASE RegisterLate
  <2>1. UNCHANGED <<table, life, run, requests, sent>> /\ spoilt' = spoilt \cup {run}
    BY <1>13 DEF RegisterLate, requestVars
  <2> QED BY <1>2, <2>1 DEF alive
<1>14. CASE Exit \/ Crash
  <2>1. UNCHANGED <<table, run, sent>> /\ alive /\ ~ alive'
    BY <1>14 DEF Exit, Crash, Gone, alive
  <2>2. CASE spoilt' = spoilt \cup {run}
    BY <1>2, <1>4, <2>1, <2>2
  <2>3. CASE Exit
    <3>1. spoilt' = spoilt /\ life = "exit" /\ tx = table
      BY <2>3 DEF Exit, AtRest
    <3>2. \A n : Covered(n) => HasRow(table, n, run)
      BY <3>1 DEF Covered
    <3> QED BY <1>2, <1>3, <1>4, <2>1, <3>1, <3>2
  <2> QED BY <1>14, <2>2, <2>3 DEF Crash
<1>15. CASE UNCHANGED vars
  <2>1. UNCHANGED <<table, tx, pending, mark, life, conn, run, spoilt, requests, sent>>
    BY <1>15 DEF vars, processVars, writerVars, historyVars, requestVars
  <2>2. \A n : Covered(n) <=> Covered(n)'
    BY <2>1 DEF Covered, HasRow
  <2> QED BY <1>2, <1>3, <2>1, <2>2 DEF Stopped, alive
<1> QED BY <1>6, <1>7, <1>8, <1>9, <1>10, <1>11, <1>12, <1>13, <1>14, <1>15 DEF Next, serveUntilSignal

-----------------------------------------------------------------------------
(* The log                                                                 *)

LEMMA LogInit == Init => LogInv
<1> SUFFICES ASSUME Init PROVE LogInv
  OBVIOUS
<1>1. /\ table = {} /\ tx = {} /\ requests = {} /\ pending = <<>> /\ mark = 0 /\ life = "down" /\ conn = "closed"
      /\ run = 0 /\ given = {} /\ overran = {} /\ spoilt = {} /\ sent = {} /\ ~ alive
  BY DEF Init, alive
<1>2. Len(pending) = 0 /\ pending \in Seq(Statements)
  BY <1>1
<1> QED BY <1>1, <1>2 DEF LogInv, Known, RowsKnown, QueueKnown, RequestsKnown, InRange, Lives, AtRest, RunBegun,
                          OnePlace, PastRows, SentHaveRows

LEMMA LogStep == IInv /\ LogInv /\ [Next]_vars => LogInv'
  BY KnownStep, OnePlaceStep, PastRowsStep, SentStep DEF LogInv

LEMMA LogHolds == Spec => [](IInv /\ LogInv)
<1>1. Init => IInv /\ LogInv
  BY InvInit, LogInit
<1>2. (IInv /\ LogInv) /\ [Next]_vars => (IInv /\ LogInv)'
  BY InvStep, LogStep
<1> QED BY <1>1, <1>2, PTL DEF Spec

\* Every row, statement, request and reference is of a run of the process.
THEOREM TypeCorrect == Spec => []TypeOK
<1>1. IInv /\ LogInv => TypeOK
  <2> SUFFICES ASSUME IInv, LogInv PROVE TypeOK
    OBVIOUS
  <2>1. \A n, t : Given(n, t) => t \in 1 .. run
    BY DEF LogInv, Known, InRange, Given
  <2>2. \A row \in table \cup tx : row \in [n : Nat, test : 1 .. run, answered : BOOLEAN]
    BY <2>1 DEF LogInv, Known, RowsKnown
  <2>3. pending \in Seq([op : {"insert", "update", "delete"}, n : Nat, test : 1 .. run])
    <3>1. \A i \in 1 .. Len(pending) : /\ pending[i] \in Statements
                                       /\ pending[i].test \in 1 .. run
      BY <2>1, ElementOfSeq DEF LogInv, Known, QueueKnown
    <3>2. \A i \in 1 .. Len(pending) : pending[i] \in [op : {"insert", "update", "delete"}, n : Nat, test : 1 .. run]
      BY <3>1 DEF Statements
    <3> DEFINE T == [op : {"insert", "update", "delete"}, n : Nat, test : 1 .. run]
    <3> HIDE DEF T
    <3>3. pending \in [1 .. Len(pending) -> T] /\ Len(pending) \in Nat
      BY <3>2, LenProperties DEF LogInv, Known, QueueKnown, T
    <3>4. pending \in Seq(T)
      BY <3>3, SeqDef
    <3> QED BY <3>4 DEF T
  <2>4. /\ \A m \in requests : m \in [n : Nat, at : {"channel", "client"}]
        /\ \A m \in sent : m \in [n : Nat, test : 1 .. run]
    BY <2>1 DEF LogInv, Known, RequestsKnown
  <2>5. \A a \in given : a \in [n : Nat, run : 1 .. run]
    BY DEF LogInv, Known, InRange, IInv, CountersOK
  <2> QED BY <2>2, <2>3, <2>4, <2>5 DEF TypeOK, LogInv, Known, InRange, Lives, IInv, CountersOK
<1> QED BY <1>1, LogHolds, PTL

\* After an orderly end every request that reached a client has its row, however
\* many requests are under way and whatever the batch writer has left to do when
\* the signal comes.  (Unless references are repeated, the process crashed, a
\* statement or a commit failed, or a connection registered after Stop.)
THEOREM SentAreLogged == Spec => []SentAreInTheLog
<1>1. IInv /\ LogInv => SentAreInTheLog
  <2> SUFFICES ASSUME IInv, LogInv, life \in {"down", "exit"}, NoneRepeated, NEW m \in sent, m.test \notin spoilt
               PROVE  HasRow(table, m.n, m.test)
    BY DEF SentAreInTheLog, HasRow
  <2>1. m.test \in Nat /\ m.test <= run /\ run \in Nat
    BY SentInRange DEF LogInv
  <2>2. CASE m.test < run \/ ~ alive
    BY <2>2 DEF LogInv, SentHaveRows
  <2>3. CASE m.test = run /\ alive
    <3>1. life = "exit" /\ tx = table
      BY <2>3 DEF alive, LogInv, AtRest
    <3>2. Covered(m.n)
      BY <2>3 DEF LogInv, SentHaveRows
    <3> QED BY <2>3, <3>1, <3>2 DEF Covered
  <2> QED BY <2>1, <2>2, <2>3
<1> QED BY <1>1, LogHolds, PTL

\* No step of a later run changes the rows of an earlier one, while references
\* differ: not its answers, its drops, nor what it commits or loses.
THEOREM PastStand == Spec => PastTestsStand
<1> DEFINE Stands == NoneRepeated =>
             \A id \in 1 .. run - 1 : {row \in table' : row.test = id} = {row \in table : row.test = id}
<1>1. IInv /\ LogInv /\ [Next]_vars => [Stands]_vars
  <2> SUFFICES ASSUME IInv, LogInv, Next, NoneRepeated, NEW id \in 1 .. run - 1
               PROVE  {row \in table' : row.test = id} = {row \in table : row.test = id}
    OBVIOUS
  <2>1. CASE table' = table
    BY <2>1
  <2>2. CASE CommitTx /\ table' = tx
    <3>1. id < run /\ {row \in tx : row.test < run} = {row \in table : row.test < run}
      BY DEF LogInv, PastRows, IInv, CountersOK
    <3>2. \A row : row.test = id => (row \in tx <=> row \in table)
      BY <3>1
    <3> QED BY <2>2, <3>2
  <2>3. CASE StartUp \/ serveUntilSignal \/ Crash \/ RegisterLate \/ Exec \/ LogRequest
    BY <2>1, <2>3 DEF StartUp, serveUntilSignal, Signal, Drained, StopServer, CloseDB, Flushed, Exit, Crash, Gone,
                      RegisterLate, Exec, LogRequest, MainUnchanged
  <2>4. ASSUME NEW m \in requests, WriteRequest(m) \/ DropRequest(m) \/ RecordAnswer(m) PROVE table' = table
    BY <2>4 DEF WriteRequest, DropRequest, RecordAnswer
  <2>5. CASE CommitTx
    BY <2>1, <2>2, <2>5 DEF CommitTx
  <2> QED BY <2>1, <2>3, <2>4, <2>5 DEF Next
<1> QED BY <1>1, LogHolds, PTL DEF Spec, PastTestsStand
=============================================================================
