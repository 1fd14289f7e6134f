------------------------------- MODULE Results -------------------------------
(***************************************************************************)
(* GetStressTestResults of database/dao.go, called by GetTestResults: the  *)
(* summary of one test's log rows, put together from two reads of the      *)
(* table while the batch writer commits to it.                             *)
(*                                                                         *)
(* An average is left as its sum and its count.  The rate and the number   *)
(* of follow-ups that were not sent are figures of their own and left out. *)
(***************************************************************************)
EXTENDS Naturals, FiniteSets, SequencesExt

CONSTANTS
  MTIs,      \* the MTIs in the log
  Latency,   \* the times an answer may take
  NoTime,    \* time_taken is NULL
  MaxRows    \* requests that are logged (a bound)

ASSUME ResultsAssumption ==
  /\ IsFiniteSet(MTIs) /\ Latency \subseteq Nat /\ NoTime \notin Nat
  /\ MaxRows \in Nat

VARIABLES
  table,    \* the committed rows of the test: [id, mti, time]
  logged,   \* rows inserted so far, those that were deleted included
  query,    \* GetStressTestResults: idle, or between its two queries
  groups,   \* what the first query found, for each MTI
  changed   \* something was committed since the first query (history)

vars == <<table, logged, query, groups, changed>>

OfMTI(rows, mti) == {row \in rows : row.mti = mti}
HasTime(rows) == {row \in rows : row.time # NoTime}
Times(rows) == {row.time : row \in HasTime(rows)}

-----------------------------------------------------------------------------
(* The first query: count, min, sum and max of each group, and their       *)
(* combination.  NULL scans as 0.                                          *)

\* count(time_taken)
Answered(rows) == Cardinality(HasTime(rows))

Summary(rows) ==
  [logged   |-> Cardinality(rows),
   answered |-> Answered(rows),
   min      |-> IF HasTime(rows) = {} THEN 0 ELSE Min(Times(rows)),
   sum      |-> SumFunction([row \in HasTime(rows) |-> row.time]),
   max      |-> IF HasTime(rows) = {} THEN 0 ELSE Max(Times(rows))]

Groups(rows) == [mti \in MTIs |-> Summary(OfMTI(rows, mti))]

\* A mutant of Least: a group without answers is not left out.
LeastOfAll(gs) == Min({gs[mti].min : mti \in MTIs})

\* The least time; groups without answers are left out.
Least(gs) ==
  LET answered == {mti \in MTIs : gs[mti].answered > 0}
  IN  IF answered = {} THEN 0 ELSE Min({gs[mti].min : mti \in answered})

Combined(gs) ==
  [logged   |-> SumFunction([mti \in MTIs |-> gs[mti].logged]),
   answered |-> SumFunction([mti \in MTIs |-> gs[mti].answered]),
   min      |-> Least(gs),
   sum      |-> SumFunction([mti \in MTIs |-> gs[mti].sum]),
   max      |-> Max({0} \cup {gs[mti].max : mti \in MTIs})]

-----------------------------------------------------------------------------
(* The second query: the times in order, and percentiles by nearest rank   *)

Percents == {50, 95, 99}

Sorted(rows) ==
  LET byTime == CHOOSE s \in SetToSeqs(HasTime(rows)) :
                  \A i, j \in DOMAIN s : i < j => s[i].time <= s[j].time
  IN  [i \in 1 .. Len(byTime) |-> byTime[i].time]

\* Ceil(p * len), at least 1
Rank(p, len) == Max({1, (p * len + 99) \div 100})

percentile(sorted, p) == IF sorted = <<>> THEN 0 ELSE sorted[Rank(p, Len(sorted))]

\* The times of some rows: their number and percentiles
Latencies(rows) ==
  LET sorted == Sorted(rows)
  IN  [read |-> Len(sorted), at |-> [p \in Percents |-> percentile(sorted, p)]]

-----------------------------------------------------------------------------
results(gs, rows) ==
  [overall        |-> Combined(gs),
   byMTI          |-> gs,
   latencies      |-> Latencies(rows),
   latenciesByMTI |-> [mti \in MTIs |-> Latencies(OfMTI(rows, mti))]]

Init ==
  /\ table = {} /\ logged = 0
  /\ query = "idle" /\ groups = Groups({}) /\ changed = FALSE

(* What the batch writer commits: a batch is one or more of these steps.   *)

Insert(mti) ==
  /\ logged < MaxRows
  /\ logged' = logged + 1
  /\ table' = table \cup {[id |-> logged', mti |-> mti, time |-> NoTime]}

\* A mutant of Unanswered: "AND time_taken IS NULL" is missing.
AnyRow(row) == TRUE

\* What UPDATE and DELETE look for
Unanswered(row) == row.time = NoTime

UpdateResponseTime(row, time) ==
  /\ Unanswered(row)
  /\ table' = (table \ {row}) \cup {[row EXCEPT !.time = time]}
  /\ UNCHANGED logged

DeleteRequestLog(row) ==
  /\ Unanswered(row)
  /\ table' = table \ {row}
  /\ UNCHANGED logged

Commit ==
  /\ \/ \E mti \in MTIs : Insert(mti)
     \/ \E row \in table : DeleteRequestLog(row) \/ \E time \in Latency : UpdateResponseTime(row, time)
  /\ changed' = (query # "idle")
  /\ UNCHANGED <<query, groups>>

(* The two queries; each reads one state of the table.                     *)

CountGroups ==
  /\ query = "idle"
  /\ query' = "latencies"
  /\ groups' = Groups(table)
  /\ UNCHANGED <<table, logged, changed>>

\* The times are read and the reply, results(groups, table), is made; or a query
\* has failed and an error is returned.
ReadLatencies ==
  /\ query = "latencies"
  /\ query' = "idle" /\ groups' = Groups({}) /\ changed' = FALSE
  /\ UNCHANGED <<table, logged>>

Next == Commit \/ CountGroups \/ ReadLatencies

Spec == Init /\ [][Next]_vars

-----------------------------------------------------------------------------
\* What the reply says when the times are read now
Reply == results(groups, table)

\* Nearest rank, from its meaning: the least time that p per cent are not above
NearestRank(rows, p) ==
  LET UpTo(t) == Cardinality({row \in HasTime(rows) : row.time <= t})
      enough == {t \in Times(rows) : 100 * UpTo(t) >= p * Cardinality(HasTime(rows))}
  IN  IF enough = {} THEN 0 ELSE Min(enough)

\* When nothing was committed between the two queries, the figures are those of one
\* table: the combined groups are the summary of all the rows, and percentiles,
\* overall and of each MTI, are the nearest ranks of the times that were counted.
OneMoment ==
  query = "latencies" /\ ~ changed =>
    /\ Reply.overall = Summary(table)
    /\ \A p \in Percents :
         /\ Reply.latencies.at[p] = NearestRank(table, p)
         /\ \A mti \in MTIs : Reply.latenciesByMTI[mti].at[p] = NearestRank(OfMTI(table, mti), p)

\* Whatever is committed between the queries, the percentiles are taken from every
\* answer that was counted, overall and for each MTI: a reply never counts answers
\* whose times it does not have.
CountedHaveTimes ==
  query = "latencies" =>
    /\ Reply.overall.answered <= Reply.latencies.read
    /\ \A mti \in MTIs : Reply.byMTI[mti].answered <= Reply.latenciesByMTI[mti].read
=============================================================================
