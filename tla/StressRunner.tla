---------------------------- MODULE StressRunner ----------------------------
(***************************************************************************)
(* Who runs stress tests, and one at a time: the HTTP requests that create *)
(* them (CreateTest of handlers/test_handler.go), the busy flag with       *)
(* Reserve and Release, and the goroutine of runner/stresstest_runner.go   *)
(* that takes them from an unbuffered channel and runs them (StressRun).   *)
(***************************************************************************)
EXTENDS StressRun

CONSTANTS
  Requests,   \* the POST requests to create a test
  NoTest      \* the runner has no test

ASSUME StressRunnerAssumption == NoTest \notin Requests /\ IsFiniteSet(Requests)

VARIABLES
  request,    \* CreateTest: idle, insert, send, release, or the status it returned
  testType,   \* the type of the test each asks for
  busy,       \* StressTestRunner.busy
  runner,     \* HandleChannelEvents: loop, receive, run, running or release
  current,    \* the test it has
  rows,       \* the tests in table stress_test
  finished    \* the tests that have been run, in order (a history variable)

runnerVars == <<busy, runner, current, finished>>
requestVars == <<request, testType, rows>>
vars == <<requestVars, runnerVars, runVars>>

TypeOK ==
  /\ request \in [Requests -> {"idle", "insert", "send", "release", "created", "invalid",
                               "conflict", "db_error"}]
  /\ testType \in [Requests -> {"sale", "refund", "invalid"}]
  /\ busy \in BOOLEAN
  /\ runner \in {"loop", "receive", "run", "running", "release"}
  /\ current \in Requests \cup {NoTest}
  /\ rows \subseteq Requests
  /\ finished \in Seq(Requests)
  /\ RunTypeOK

Init ==
  /\ request = [r \in Requests |-> "idle"]
  /\ testType \in [Requests -> {"sale", "refund", "invalid"}]
  /\ busy = FALSE
  /\ runner = "loop" /\ current = NoTest
  /\ rows = {} /\ finished = <<>>
  /\ RunInit

-----------------------------------------------------------------------------
(* CreateTest                                                              *)

\* A request that fails the checks of type, rate, time or node mode
Reject(r) ==
  /\ request[r] = "idle" /\ testType[r] = "invalid"
  /\ request' = [request EXCEPT ![r] = "invalid"]
  /\ UNCHANGED <<testType, rows, runnerVars, runVars>>

\* A mutant of Reserve: the flag is stored without looking at it.
ReserveAlways(r) ==
  /\ request[r] = "idle" /\ testType[r] # "invalid"
  /\ request' = [request EXCEPT ![r] = "insert"]
  /\ busy' = TRUE
  /\ UNCHANGED <<testType, rows, runner, current, finished, runVars>>

\* Compare-and-swap of busy: taken, or 409 test_in_progress
Reserve(r) ==
  /\ request[r] = "idle" /\ testType[r] # "invalid"
  /\ request' = [request EXCEPT ![r] = IF busy THEN "conflict" ELSE "insert"]
  /\ busy' = TRUE
  /\ UNCHANGED <<testType, rows, runner, current, finished, runVars>>

\* A mutant of Insert: the error is not looked at.
InsertUnchecked(r) ==
  /\ request[r] = "insert"
  /\ rows' \in {rows, rows \cup {r}}
  /\ request' = [request EXCEPT ![r] = "send"]
  /\ UNCHANGED <<testType, runnerVars, runVars>>

\* CreateStressTest: the row is there, or the database fails.
Insert(r) ==
  /\ request[r] = "insert"
  /\ \/ /\ rows' = rows \cup {r}
        /\ request' = [request EXCEPT ![r] = "send"]
     \/ /\ request' = [request EXCEPT ![r] = "release"]
        /\ UNCHANGED rows
  /\ UNCHANGED <<testType, runnerVars, runVars>>

\* A mutant of ReleaseUnused: the reservation is kept.
KeepReservation(r) ==
  /\ request[r] = "release"
  /\ request' = [request EXCEPT ![r] = "db_error"]
  /\ UNCHANGED <<testType, rows, runnerVars, runVars>>

ReleaseUnused(r) ==
  /\ request[r] = "release"
  /\ request' = [request EXCEPT ![r] = "db_error"]
  /\ busy' = FALSE
  /\ UNCHANGED <<testType, rows, runner, current, finished, runVars>>

\* The send on StressChannel meets the runner's receive.
HandOver(r) ==
  /\ request[r] = "send" /\ runner = "receive"
  /\ request' = [request EXCEPT ![r] = "created"]
  /\ current' = r
  /\ runner' = "run"
  /\ UNCHANGED <<testType, rows, busy, finished, runVars>>

CreateTest(r) == Reject(r) \/ Reserve(r) \/ Insert(r) \/ ReleaseUnused(r) \/ HandOver(r)

-----------------------------------------------------------------------------
(* HandleChannelEvents                                                     *)

Loop ==
  /\ runner = "loop"
  /\ runner' = "receive"
  /\ UNCHANGED <<requestVars, busy, current, finished, runVars>>

RunStress ==
  /\ runner = "run" /\ testType[current] = "sale"
  /\ runner' = "running"
  /\ Start
  /\ UNCHANGED <<requestVars, busy, current, finished>>

RunStressStep ==
  /\ runner = "running" /\ RunStep
  /\ UNCHANGED <<requestVars, runnerVars>>

RunStressReturns ==
  /\ runner = "running" /\ phase = "idle"
  /\ runner' = "release"
  /\ finished' = Append(finished, current)
  /\ UNCHANGED <<requestVars, busy, current, runVars>>

\* RunRefund, as one step: it always ends.
RunRefund ==
  /\ runner = "run" /\ testType[current] = "refund"
  /\ runner' = "release"
  /\ finished' = Append(finished, current)
  /\ UNCHANGED <<requestVars, busy, current, runVars>>

Release ==
  /\ runner = "release"
  /\ runner' = "loop"
  /\ busy' = FALSE
  /\ current' = NoTest
  /\ UNCHANGED <<requestVars, finished, runVars>>

Runner == Loop \/ RunStress \/ RunStressStep \/ RunStressReturns \/ RunRefund \/ Release

-----------------------------------------------------------------------------
Next ==
  \/ \E r \in Requests : CreateTest(r)
  \/ Runner
  \/ Churn /\ UNCHANGED <<requestVars, runnerVars>>

Spec == Init /\ [][Next]_vars

(***************************************************************************)
(* Fairness: goroutines that can go on do, time passes, and the calls of   *)
(* the database and sendSingleMessage return.  A select that finds both a   *)
(* tick and the end of the context takes either, as often as MaxClock      *)
(* allows; in Go it picks at random.                                       *)
(***************************************************************************)
Fairness ==
  /\ \A r \in Requests :
       WF_vars(Insert(r)) /\ WF_vars(ReleaseUnused(r)) /\ WF_vars(HandOver(r))
  /\ WF_vars(Loop) /\ WF_vars(RunStress) /\ WF_vars(RunStressReturns) /\ WF_vars(RunRefund)
  /\ WF_vars(Release)
  /\ WF_vars(runner = "running" /\ Pass /\ UNCHANGED <<requestVars, runnerVars>>)
  /\ WF_vars(runner = "running" /\ RunLoop /\ UNCHANGED <<requestVars, runnerVars>>)
  /\ \A w \in Workers :
       WF_vars(runner = "running" /\ Worker(w) /\ UNCHANGED <<requestVars, runnerVars>>)

FairSpec == Spec /\ Fairness

-----------------------------------------------------------------------------
(* Safety                                                                  *)

\* The requests between Reserve and the hand-over or the release
Holding == {r \in Requests : request[r] \in {"insert", "send", "release"}}

\* busy is held by exactly one party: a request that has reserved the runner, or
\* the runner from taking a test until it releases it.  So one test runs at a
\* time, and a runner with nothing to do is never left reserved.
OneHolder ==
  Cardinality(Holding) + (IF runner \in {"run", "running", "release"} THEN 1 ELSE 0)
    = (IF busy THEN 1 ELSE 0)

\* A test in the table is run once: it is being handed over, being run or has been
\* run; a request that was turned away has left no row.  Proved in StressRunnerProofs; in
\* TLC's runs it is a part of what TestService says.
EveryRowRunsOnce ==
  /\ \A i, j \in 1 .. Len(finished) : finished[i] = finished[j] => i = j
  /\ \A r \in Requests :
       r \in rows <=> \/ request[r] = "send"
                      \/ current = r
                      \/ \E i \in 1 .. Len(finished) : finished[i] = r

-----------------------------------------------------------------------------
(* Liveness                                                                *)

\* The runner does not stay reserved: every test ends, also when no client is
\* connected, the jobs channel is full or the context ends in mid-step.
BusyIsFreed == busy ~> ~ busy

-----------------------------------------------------------------------------
(* Refinement                                                              *)

\* Whose test is being created or run
Holder ==
  IF runner \in {"run", "running", "release"} THEN current
  ELSE IF Holding = {} THEN NoTest ELSE CHOOSE r \in Holding : TRUE

\* What the requests have been answered
Answer == [r \in Requests |-> IF request[r] \in {"idle", "insert", "send", "release"} THEN "none" ELSE request[r]]

Service == INSTANCE TestService WITH answer <- Answer, holder <- Holder, listed <- rows

\* The busy flag, the unbuffered channel and the two goroutines implement TestService:
\* tests are run one after the other, in the order in which they were created, and a
\* request is turned away for no other reason than a test that is in progress.
ImplementsTestService == Service!Spec
=============================================================================
