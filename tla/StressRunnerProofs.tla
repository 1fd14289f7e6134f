------------------------- MODULE StressRunnerProofs -------------------------
(***************************************************************************)
(* Proofs about StressRunner, for any number of requests, clients, workers *)
(* and any rate, duration and capacity of the jobs channel.                *)
(***************************************************************************)
EXTENDS StressRunner, FiniteSetTheorems, TLAPS

-----------------------------------------------------------------------------
(* Type correctness                                                        *)

\* A run begins idle, with values of the right types.
LEMMA RunInitType == RunInit => RunTypeOK
<1> SUFFICES ASSUME RunInit PROVE RunTypeOK
  OBVIOUS
<1>1. jobs \in Seq(Conns) /\ conns \in Seq(Conns) /\ targets \in Seq(Conns) /\ Len(jobs) = 0
  BY DEF RunInit
<1>2. MaxClock \in Nat /\ JobsSize \in Nat
  BY StressRunAssumption DEF StressRunAssumption
<1>3. given \in [Conns -> Nat] /\ worker \in [Workers -> {"wait", "send", "ended"}]
  BY DEF RunInit
<1>4. connected \subseteq Conns /\ phase = "idle" /\ mode \in Modes /\ churned \in BOOLEAN
  BY DEF RunInit, Modes
<1>5. clock \in 0 .. MaxClock /\ tick \in 1 .. MaxClock \cup {NoTick}
  BY <1>2 DEF RunInit
<1>6. due = 0 /\ steps = 0 /\ next = 0 /\ count = 0 /\ total = 0 /\ sends = 0
  BY DEF RunInit
<1> QED BY <1>1, <1>2, <1>3, <1>4, <1>5, <1>6 DEF RunTypeOK

\* The call of RunStress keeps the types.
LEMMA StartType == RunTypeOK /\ Start => RunTypeOK'
  BY DEF RunTypeOK, Start, Modes, jobVars

\* The connections in order are a sequence of distinct connections.
LEMMA InOrderType ==
  ASSUME NEW S \in SUBSET Conns, NEW cs \in InOrder(S)
  PROVE  /\ cs \in Seq(Conns)
         /\ \A i, j \in DOMAIN cs : cs[i] = cs[j] => i = j
<1>1. Cardinality(S) \in Nat
  BY StressRunAssumption, FS_Subset, FS_CardinalityType DEF StressRunAssumption
<1>2. cs \in [1 .. Cardinality(S) -> S] /\ \A i, j \in DOMAIN cs : i < j => cs[i] < cs[j]
  BY DEF InOrder
<1>3. cs \in Seq(Conns)
  BY <1>1, <1>2
<1>4. ASSUME NEW i \in DOMAIN cs, NEW j \in DOMAIN cs, cs[i] = cs[j]
      PROVE  i = j
  <2>1. i \in 1 .. Cardinality(S) /\ j \in 1 .. Cardinality(S)
    BY <1>2
  <2>2. cs[i] \in S /\ cs[j] \in S
    BY <1>2, <2>1
  <2>3. cs[i] \in Nat
    BY <2>2, StressRunAssumption DEF StressRunAssumption
  <2>4. (i < j => cs[i] < cs[j]) /\ (j < i => cs[j] < cs[i])
    BY <1>2
  <2>5. ~ (i < j) /\ ~ (j < i)
    BY <1>4, <2>3, <2>4
  <2> QED BY <1>1, <2>1, <2>5
<1> QED BY <1>3, <1>4

\* The division behind the number of steps due rounds down.
LEMMA DueType == ASSUME NEW t \in Nat PROVE Due(t) \in Nat
  BY StressRunAssumption DEF StressRunAssumption, Due

\* A turn of the loop keeps the types.
LEMMA RunLoopType == RunTypeOK /\ RunLoop => RunTypeOK'
<1> SUFFICES ASSUME RunTypeOK, RunLoop PROVE RunTypeOK'
  OBVIOUS
<1> USE DEF RunTypeOK, jobVars
<1>1. CASE TickReceived
  <2>1. conns' \in Seq(Conns)
    BY <1>1, InOrderType DEF TickReceived
  <2>2. due' \in Nat
    BY <1>1, DueType DEF TickReceived
  <2> QED BY <1>1, <2>1, <2>2 DEF TickReceived
<1>2. CASE NextStep
  <2>1. targets' \in Seq(Conns) /\ next' \in Nat
    <3>1. CASE mode = "advertised" \/ conns = <<>>
      BY <1>2, <3>1 DEF NextStep, NodeTargets
    <3>2. CASE ~ (mode = "advertised" \/ conns = <<>>)
      <4>1. Len(conns) \in Nat \ {0}
        BY <3>2
      <4>2. (next % Len(conns)) + 1 \in 1 .. Len(conns)
        BY <4>1
      <4>3. conns[(next % Len(conns)) + 1] \in Conns
        BY <4>2
      <4>4. <<conns[(next % Len(conns)) + 1]>> \in Seq(Conns)
        BY <4>3
      <4>5. targets' = <<conns[(next % Len(conns)) + 1]>> /\ next' = next + 1
        BY <1>2, <3>2 DEF NextStep, NodeTargets
      <4> QED BY <4>4, <4>5
    <3> QED BY <3>1, <3>2
  <2>2. steps' \in Nat
    BY <1>2 DEF NextStep
  <2> QED BY <1>2, <2>1, <2>2 DEF NextStep
<1>3. CASE QueueJob
  <2>1. Head(targets) \in Conns /\ Tail(targets) \in Seq(Conns)
    BY <1>3 DEF QueueJob
  <2>2. jobs' \in Seq(Conns) /\ Len(jobs') <= JobsSize
    <3>1. jobs' = Append(jobs, Head(targets)) /\ Len(jobs) < JobsSize
      BY <1>3 DEF QueueJob
    <3>2. jobs' \in Seq(Conns) /\ Len(jobs') = Len(jobs) + 1
      BY <3>1, <2>1
    <3> QED BY <3>1, <3>2, StressRunAssumption DEF StressRunAssumption
  <2>3. given' \in [Conns -> Nat]
    BY <1>3, <2>1 DEF QueueJob
  <2> QED BY <1>3, <2>1, <2>2, <2>3 DEF QueueJob
<1>4. CASE TurnEnds
  BY <1>4 DEF TurnEnds
<1>5. CASE ContextDone
  BY <1>5 DEF ContextDone
<1>6. CASE WorkersJoined
  BY <1>6 DEF WorkersJoined
<1>7. CASE Return
  <2>1. jobs' = <<>> /\ conns' = <<>> /\ targets' = <<>> /\ total' \in Nat /\ given' \in [Conns -> Nat]
    BY <1>7 DEF Return
  <2>2. Len(jobs') <= JobsSize /\ 0 \in 0 .. MaxClock
    BY <2>1, StressRunAssumption DEF StressRunAssumption
  <2>3. phase' = "idle" /\ mode' = "advertised" /\ clock' = 0 /\ tick' = NoTick /\ churned' = FALSE
    BY <1>7 DEF Return
  <2>4. due' = 0 /\ steps' = 0 /\ next' = 0 /\ count' = 0 /\ sends' = 0
    BY <1>7 DEF Return
  <2>5. UNCHANGED <<connected, worker>>
    BY <1>7 DEF Return
  <2>6. jobs' \in Seq(Conns) /\ conns' \in Seq(Conns) /\ targets' \in Seq(Conns)
    BY <2>1
  <2>7. clock' \in 0 .. MaxClock /\ tick' \in 1 .. MaxClock \cup {NoTick}
    BY <2>2, <2>3
  <2>8. connected' \subseteq Conns /\ worker' \in [Workers -> {"wait", "send", "ended"}]
    BY <2>5
  <2> QED BY <2>1, <2>2, <2>3, <2>4, <2>6, <2>7, <2>8 DEF Modes
<1> QED BY <1>1, <1>2, <1>3, <1>4, <1>5, <1>6, <1>7 DEF RunLoop

\* Every other step of RunStress keeps the types.
LEMMA RunStepType == RunTypeOK /\ RunStep => RunTypeOK'
<1> SUFFICES ASSUME RunTypeOK, RunStep PROVE RunTypeOK'
  OBVIOUS
<1>1. CASE RunLoop
  BY <1>1, RunLoopType
<1>2. CASE \E w \in Workers : Worker(w)
  <2> PICK w \in Workers : Worker(w)
    BY <1>2
  <2> USE DEF RunTypeOK, loopVars, jobVars
  <2>1. CASE TakeJob(w)
    <3>1. jobs # <<>> /\ jobs' = Tail(jobs)
      BY <2>1 DEF TakeJob
    <3>2. jobs' \in Seq(Conns) /\ Len(jobs') <= JobsSize
      <4>1. Tail(jobs) \in Seq(Conns) /\ Len(Tail(jobs)) = Len(jobs) - 1 /\ Len(jobs) \in Nat
        BY <3>1
      <4> QED BY <3>1, <4>1, StressRunAssumption DEF StressRunAssumption
    <3> QED BY <2>1, <3>2 DEF TakeJob
  <2>2. CASE SendReturns(w)
    BY <2>2 DEF SendReturns
  <2>3. CASE WorkerEnds(w)
    BY <2>3 DEF WorkerEnds
  <2> QED BY <2>1, <2>2, <2>3 DEF Worker
<1>3. CASE Pass
  BY <1>3, StressRunAssumption DEF StressRunAssumption, RunTypeOK, Pass, jobVars
<1> QED BY <1>1, <1>2, <1>3 DEF RunStep

\* The runner has a test from the hand-over to the release.
TypeInv ==
  /\ TypeOK
  /\ runner \in {"run", "running", "release"} => current \in Requests

\* The first state has the types.
LEMMA TypeInit == Init => TypeInv
<1> SUFFICES ASSUME Init PROVE TypeInv
  OBVIOUS
<1>1. request \in [Requests -> {"idle", "insert", "send", "release", "created", "invalid",
                                "conflict", "db_error"}]
  BY DEF Init
<1>2. finished \in Seq(Requests) /\ rows \subseteq Requests
  BY DEF Init
<1> QED BY <1>1, <1>2, RunInitType DEF Init, TypeInv, TypeOK

\* Every step keeps the types.
LEMMA TypeStep == TypeInv /\ [Next]_vars => TypeInv'
<1> SUFFICES ASSUME TypeInv, [Next]_vars PROVE TypeInv'
  OBVIOUS
<1>0. UNCHANGED runVars /\ RunTypeOK => RunTypeOK'
  BY DEF runVars, loopVars, jobVars, RunTypeOK
<1> USE DEF TypeInv, TypeOK
<1>1. ASSUME NEW r \in Requests, CreateTest(r) PROVE TypeInv'
  <2> USE <1>0 DEF runnerVars
  <2>1. CASE Reject(r)
    BY <2>1 DEF Reject
  <2>2. CASE Reserve(r)
    BY <2>2 DEF Reserve
  <2>3. CASE Insert(r)
    BY <2>3 DEF Insert
  <2>4. CASE ReleaseUnused(r)
    BY <2>4 DEF ReleaseUnused
  <2>5. CASE HandOver(r)
    BY <2>5 DEF HandOver
  <2> QED BY <1>1, <2>1, <2>2, <2>3, <2>4, <2>5 DEF CreateTest
<1>2. CASE Runner
  <2> USE DEF requestVars
  <2>1. CASE Loop
    BY <2>1, <1>0 DEF Loop
  <2>2. CASE RunStress
    BY <2>2, StartType DEF RunStress
  <2>3. CASE RunStressStep
    BY <2>3, RunStepType DEF RunStressStep, runnerVars
  <2>4. CASE RunStressReturns \/ RunRefund
    <3>1. current \in Requests
      BY <2>4 DEF RunStressReturns, RunRefund
    <3>2. Append(finished, current) \in Seq(Requests)
      BY <3>1
    <3> QED BY <2>4, <1>0, <3>1, <3>2 DEF RunStressReturns, RunRefund
  <2>5. CASE Release
    BY <2>5, <1>0 DEF Release
  <2> QED BY <1>2, <2>1, <2>2, <2>3, <2>4, <2>5 DEF Runner
<1>3. CASE Churn /\ UNCHANGED <<requestVars, runnerVars>>
  BY <1>3 DEF Churn, requestVars, runnerVars, RunTypeOK, loopVars, jobVars
<1>4. CASE UNCHANGED vars
  BY <1>4, <1>0 DEF vars, requestVars, runnerVars
<1> QED BY <1>1, <1>2, <1>3, <1>4 DEF Next

\* Every variable always has a value of its type.
THEOREM TypeCorrect == Spec => []TypeOK
<1>1. TypeInv => TypeOK
  BY DEF TypeInv
<1> QED BY <1>1, TypeInit, TypeStep, PTL DEF Spec

-----------------------------------------------------------------------------
(* One test at a time                                                      *)

Active == runner \in {"run", "running", "release"}

\* busy, said without counting.
Held ==
  /\ \A r, s \in Holding : r = s
  /\ Active => Holding = {}
  /\ busy <=> Holding # {} \/ Active

IsFinished(r) == \E i \in DOMAIN finished : finished[i] = r

\* The test the runner has, and those it has had, were handed over once.
RunOnce ==
  /\ Active => request[current] = "created"
  /\ ~ Active => current = NoTest
  /\ \A i \in DOMAIN finished : request[finished[i]] = "created"
  /\ \A i, j \in DOMAIN finished : finished[i] = finished[j] => i = j
  /\ runner \in {"run", "running"} => ~ IsFinished(current)
  /\ runner = "release" => IsFinished(current)
  /\ \A r \in Requests : r \in rows <=> request[r] = "send" \/ current = r \/ IsFinished(r)

HolderInv == TypeInv /\ Held /\ RunOnce

\* At the start nobody holds the runner.
LEMMA HolderInit == Init => Held /\ RunOnce
<1> SUFFICES ASSUME Init PROVE Held /\ RunOnce
  OBVIOUS
<1>1. ~ Active /\ current = NoTest /\ rows = {} /\ ~ busy /\ runner = "loop"
  BY DEF Init, Active
<1>2. \A r \in Requests : request[r] = "idle"
  BY DEF Init
<1>3. DOMAIN finished = {}
  BY DEF Init
<1> QED BY <1>1, <1>2, <1>3, StressRunnerAssumption
        DEF StressRunnerAssumption, Held, RunOnce, Holding, IsFinished

\* Only Reserve takes busy, and only while it is free; it is given back once.
LEMMA HeldStep == HolderInv /\ [Next]_vars => Held'
<1> SUFFICES ASSUME HolderInv, [Next]_vars PROVE Held'
  OBVIOUS
<1> USE DEF HolderInv, TypeInv, TypeOK, Held, Holding, Active
<1>1. ASSUME NEW r \in Requests, CreateTest(r) PROVE Held'
  <2> USE DEF runnerVars
  <2>1. CASE Reject(r)
    BY <2>1 DEF Reject
  <2>2. CASE Reserve(r)
    <3>1. CASE busy
      BY <2>2, <3>1 DEF Reserve
    <3>2. CASE ~ busy
      BY <2>2, <3>2 DEF Reserve
    <3> QED BY <3>1, <3>2
  <2>3. CASE Insert(r)
    BY <2>3 DEF Insert
  <2>4. CASE ReleaseUnused(r)
    BY <2>4 DEF ReleaseUnused
  <2>5. CASE HandOver(r)
    BY <2>5 DEF HandOver
  <2> QED BY <1>1, <2>1, <2>2, <2>3, <2>4, <2>5 DEF CreateTest
<1>2. CASE Runner
  BY <1>2 DEF Runner, Loop, RunStress, RunStressStep, RunStressReturns, RunRefund, Release,
              requestVars, runnerVars
<1>3. CASE Churn /\ UNCHANGED <<requestVars, runnerVars>>
  BY <1>3 DEF requestVars, runnerVars
<1>4. CASE UNCHANGED vars
  BY <1>4 DEF vars, requestVars, runnerVars
<1> QED BY <1>1, <1>2, <1>3, <1>4 DEF Next

\* A test leaves the hands of its request for the runner's, and those for the list of
\* tests that have been run.
LEMMA RunOnceStep == HolderInv /\ [Next]_vars => RunOnce'
<1> SUFFICES ASSUME HolderInv, [Next]_vars PROVE RunOnce'
  OBVIOUS
<1> USE StressRunnerAssumption
    DEF StressRunnerAssumption, HolderInv, TypeInv, TypeOK, RunOnce, Active, IsFinished
<1>1. ASSUME NEW r \in Requests, CreateTest(r) PROVE RunOnce'
  <2> USE DEF runnerVars
  <2>1. CASE Reject(r)
    BY <2>1 DEF Reject
  <2>2. CASE Reserve(r)
    BY <2>2 DEF Reserve
  <2>3. CASE Insert(r)
    BY <2>3 DEF Insert
  <2>4. CASE ReleaseUnused(r)
    BY <2>4 DEF ReleaseUnused
  <2>5. CASE HandOver(r)
    BY <2>5 DEF HandOver
  <2> QED BY <1>1, <2>1, <2>2, <2>3, <2>4, <2>5 DEF CreateTest
<1>2. CASE Loop \/ RunStress \/ RunStressStep
  BY <1>2 DEF Loop, RunStress, RunStressStep, requestVars, runnerVars
<1>3. CASE RunStressReturns \/ RunRefund
  <2>1. runner \in {"run", "running"} /\ runner' = "release" /\ finished' = Append(finished, current)
    BY <1>3 DEF RunStressReturns, RunRefund
  <2>2. UNCHANGED <<request, rows, current>> /\ current \in Requests
    BY <1>3 DEF RunStressReturns, RunRefund, requestVars
  <2> DEFINE n == Len(finished) + 1
  <2>3. /\ DOMAIN finished' = (DOMAIN finished) \cup {n} /\ n \notin DOMAIN finished
        /\ finished'[n] = current
        /\ \A i \in DOMAIN finished : finished'[i] = finished[i]
    BY <2>1, <2>2
  <2> HIDE DEF n
  <2> QED BY <2>1, <2>2, <2>3
<1>4. CASE Release
  BY <1>4 DEF Release, requestVars
<1>5. CASE (Churn /\ UNCHANGED <<requestVars, runnerVars>>) \/ UNCHANGED vars
  BY <1>5 DEF vars, requestVars, runnerVars
<1> QED BY <1>1, <1>2, <1>3, <1>4, <1>5 DEF Next, Runner

\* The two together are inductive.
THEOREM HolderInvariant == Spec => []HolderInv
<1>1. Init => HolderInv
  BY TypeInit, HolderInit DEF HolderInv
<1>2. HolderInv /\ [Next]_vars => HolderInv'
  BY TypeStep, HeldStep, RunOnceStep DEF HolderInv
<1> QED BY <1>1, <1>2, PTL DEF Spec

\* busy is held by exactly one party: a request between Reserve and the hand-over or the
\* release, or the runner.
THEOREM OneAtATime == Spec => []OneHolder
<1>1. HolderInv => OneHolder
  <2> SUFFICES ASSUME HolderInv PROVE OneHolder
    OBVIOUS
  <2>1. Held
    BY DEF HolderInv
  <2>2. CASE Holding = {}
    <3>1. Cardinality(Holding) = 0
      BY <2>2, FS_EmptySet
    <3> QED BY <2>1, <2>2, <3>1 DEF OneHolder, Held, Active, HolderInv, TypeInv, TypeOK
  <2>3. CASE Holding # {}
    <3>1. PICK r \in Holding : Holding = {r}
      BY <2>1, <2>3 DEF Held
    <3>2. Cardinality(Holding) = 1
      BY <3>1, FS_Singleton
    <3> QED BY <2>1, <2>3, <3>2 DEF OneHolder, Held, Active, HolderInv, TypeInv, TypeOK
  <2> QED BY <2>2, <2>3
<1> QED BY <1>1, HolderInvariant, PTL

\* A test in the table is run once, and a request that was turned away has left no row.
THEOREM RunsOnce == Spec => []EveryRowRunsOnce
<1>1. HolderInv => EveryRowRunsOnce
  <2> SUFFICES ASSUME HolderInv PROVE EveryRowRunsOnce
    OBVIOUS
  <2>1. DOMAIN finished = 1 .. Len(finished)
    BY DEF HolderInv, TypeInv, TypeOK
  <2> QED BY <2>1 DEF EveryRowRunsOnce, HolderInv, RunOnce, IsFinished
<1> QED BY <1>1, HolderInvariant, PTL

-----------------------------------------------------------------------------
(* One after the other                                                     *)

\* The request that has reserved the runner holds it until the hand-over; the runner then
\* does, for the test it has.
HolderKnown ==
  /\ \A r \in Holding : Holder = r /\ ~ Active
  /\ Active => Holder = current
  /\ Holding = {} /\ ~ Active => Holder = NoTest
  /\ Holder # NoTest => Holder \in Requests

LEMMA HolderIs == HolderInv => HolderKnown
<1> SUFFICES ASSUME HolderInv PROVE HolderKnown
  OBVIOUS
<1>1. ASSUME NEW r \in Holding PROVE Holder = r /\ ~ Active
  <2>1. Holding = {r} /\ ~ Active
    BY <1>1 DEF HolderInv, Held
  <2> QED BY <2>1 DEF Holder, Active
<1>2. Active => Holder = current /\ Holder \in Requests
  <2>1. Active => current \in Requests
    BY DEF HolderInv, TypeInv, Active
  <2> QED BY <2>1 DEF Holder, Active
<1>3. Holding = {} /\ ~ Active => Holder = NoTest
  BY DEF Holder, Active
<1>4. \A r \in Holding : r \in Requests
  BY DEF Holding
<1> QED BY <1>1, <1>2, <1>3, <1>4 DEF HolderKnown

\* At the start no request is answered and nobody holds the runner.
LEMMA ServiceInit == Init => Service!Init
<1> SUFFICES ASSUME Init PROVE Service!Init
  OBVIOUS
<1>1. \A r \in Requests : request[r] = "idle"
  BY DEF Init
<1>2. Answer = [r \in Requests |-> "none"]
  BY <1>1 DEF Answer
<1>3. Holding = {} /\ runner = "loop"
  BY <1>1 DEF Init, Holding
<1>4. Holder = NoTest
  BY <1>3 DEF Holder
<1> QED BY <1>2, <1>4 DEF Service!Init, Init

\* A request that goes from one status to another changes its own answer and no other.
LEMMA AnswerChanges ==
  ASSUME NEW r \in Requests, NEW s, TypeOK, request' = [request EXCEPT ![r] = s]
  PROVE  Answer' = [Answer EXCEPT ![r] = IF s \in {"idle", "insert", "send", "release"} THEN "none" ELSE s]
  BY DEF Answer, TypeOK

\* An answer is "none" until the request is answered.
LEMMA AnswerIs ==
  ASSUME NEW r \in Requests
  PROVE  Answer[r] = IF request[r] \in {"idle", "insert", "send", "release"} THEN "none" ELSE request[r]
  BY DEF Answer

\* Every step of a request is one of the service, or changes nothing it shows.
LEMMA ServiceRequest ==
  ASSUME HolderInv, HolderKnown, HolderInv', HolderKnown', NEW r \in Requests, CreateTest(r)
  PROVE  [Service!Next]_(Service!vars)
<1> USE DEF Service!vars
<1>0. TypeOK
  BY DEF HolderInv, TypeInv
<1>t. request \in [Requests -> {"idle", "insert", "send", "release", "created", "invalid",
                               "conflict", "db_error"}]
  BY <1>0 DEF TypeOK
<1>a. Answer \in [Requests -> {"none", "created", "invalid", "conflict", "db_error"}]
  BY <1>t DEF Answer
<1>r. request[r] \in {"insert", "send", "release"} => r \in Holding
  BY DEF Holding
<1>h. r \in Holding => Holder = r /\ ~ Active
  BY DEF HolderKnown
<1>n. r # NoTest
  BY StressRunnerAssumption DEF StressRunnerAssumption
<1>o. request[r] = "idle" => Holder # r
  <2> SUFFICES ASSUME request[r] = "idle", Holder = r PROVE FALSE
    OBVIOUS
  <2>1. \A s \in Holding : s # r
    BY DEF Holding
  <2>2. CASE Active
    BY <2>2, <1>n DEF HolderKnown, HolderInv, RunOnce
  <2>3. CASE ~ Active
    BY <2>1, <2>3, <1>n DEF HolderKnown
  <2> QED BY <2>2, <2>3
<1>l. request[r] \in {"insert", "release"} => r \notin rows
  BY <1>r, <1>h, <1>n DEF HolderInv, RunOnce, IsFinished
<1>s. request[r] = "send" => r \in rows
  BY DEF HolderInv, RunOnce
<1>k. UNCHANGED <<runner, current>> /\ Holding' = Holding => Holder' = Holder
  BY DEF Holder
<1>1. CASE Reject(r)
  <2>1. request[r] = "idle" /\ request' = [request EXCEPT ![r] = "invalid"]
    BY <1>1 DEF Reject
  <2>2. UNCHANGED <<rows, finished, runner, current>>
    BY <1>1 DEF Reject, runnerVars
  <2>3. Holding' = Holding
    BY <2>1, <1>t DEF Holding
  <2>4. Answer' = [Answer EXCEPT ![r] = "invalid"]
    BY <1>0, <2>1, AnswerChanges
  <2>5. Answer[r] = "none"
    BY <2>1, AnswerIs
  <2>6. Service!Refuse(r)
    BY <1>k, <1>o, <2>1, <2>2, <2>3, <2>4, <2>5 DEF Service!Refuse
  <2> QED BY <2>6 DEF Service!Next
<1>2. CASE Reserve(r)
  <2>1. request[r] = "idle" /\ request' = [request EXCEPT ![r] = IF busy THEN "conflict" ELSE "insert"]
    BY <1>2 DEF Reserve
  <2>2. UNCHANGED <<rows, finished, runner, current>>
    BY <1>2 DEF Reserve
  <2>3. Answer[r] = "none"
    BY <2>1, AnswerIs
  <2>4. CASE busy
    <3>1. Answer' = [Answer EXCEPT ![r] = "conflict"]
      BY <1>0, <2>1, <2>4, AnswerChanges
    <3>2. Holding' = Holding
      BY <2>1, <2>4, <1>t DEF Holding
    <3>3. Holder # NoTest
      <4>1. Active => current \in Requests
        BY DEF HolderInv, TypeInv, Active
      <4>2. CASE Active
        BY <4>1, <4>2, StressRunnerAssumption DEF StressRunnerAssumption, HolderKnown
      <4>3. CASE ~ Active
        <5>1. PICK s \in Holding : TRUE
          BY <2>4, <4>3 DEF HolderInv, Held
        <5>2. s \in Requests /\ Holder = s
          BY <5>1 DEF Holding, HolderKnown
        <5> QED BY <5>2, StressRunnerAssumption DEF StressRunnerAssumption
      <4> QED BY <4>2, <4>3
    <3>4. Service!Refuse(r)
      BY <1>k, <1>o, <2>1, <2>2, <2>3, <3>1, <3>2, <3>3 DEF Service!Refuse
    <3> QED BY <3>4 DEF Service!Next
  <2>5. CASE ~ busy
    <3>1. Answer' = [Answer EXCEPT ![r] = "none"]
      BY <1>0, <2>1, <2>5, AnswerChanges
    <3>2. Answer' = Answer
      BY <1>a, <2>3, <3>1
    <3>3. Holder = NoTest
      BY <2>5 DEF HolderInv, Held, HolderKnown
    <3>4. r \in Holding'
      BY <2>1, <2>5, <1>t DEF Holding
    <3>5. Holder' = r
      BY <3>4 DEF HolderKnown
    <3>6. Service!Take(r)
      BY <2>2, <2>3, <3>2, <3>3, <3>5 DEF Service!Take
    <3> QED BY <3>6 DEF Service!Next
  <2> QED BY <2>4, <2>5
<1>3. CASE Insert(r)
  <2>1. request[r] = "insert" /\ UNCHANGED <<finished, runner, current>>
    BY <1>3 DEF Insert, runnerVars
  <2>2. \/ request' = [request EXCEPT ![r] = "send"] /\ rows' = rows \cup {r}
        \/ request' = [request EXCEPT ![r] = "release"] /\ UNCHANGED rows
    BY <1>3 DEF Insert
  <2>3. Answer[r] = "none"
    BY <2>1, AnswerIs
  <2>4. Answer' = [Answer EXCEPT ![r] = "none"]
    BY <1>0, <2>2, AnswerChanges
  <2>5. Answer' = Answer
    BY <1>a, <2>3, <2>4
  <2>6. Holding' = Holding
    BY <2>1, <2>2, <1>t DEF Holding
  <2>7. Holder = r /\ r \notin rows
    BY <1>r, <1>h, <1>l, <2>1
  <2>8. CASE rows' = rows \cup {r}
    <3>1. Service!List
      BY <1>k, <2>1, <2>5, <2>6, <2>7, <2>8 DEF Service!List
    <3> QED BY <3>1 DEF Service!Next
  <2>9. CASE UNCHANGED rows
    BY <1>k, <2>1, <2>5, <2>6, <2>9
  <2> QED BY <2>2, <2>8, <2>9
<1>4. CASE ReleaseUnused(r)
  <2>1. request[r] = "release" /\ request' = [request EXCEPT ![r] = "db_error"]
    BY <1>4 DEF ReleaseUnused
  <2>2. UNCHANGED <<rows, finished, runner, current>>
    BY <1>4 DEF ReleaseUnused
  <2>3. Answer' = [Answer EXCEPT ![r] = "db_error"]
    BY <1>0, <2>1, AnswerChanges
  <2>4. Holder = r /\ r \notin rows /\ ~ Active /\ Holding = {r}
    BY <1>r, <1>h, <1>l, <2>1 DEF HolderInv, Held
  <2>5. Holding' = {}
    BY <2>1, <2>4, <1>t DEF Holding
  <2>6. ~ Active'
    BY <2>2, <2>4 DEF Active
  <2>7. Holder' = NoTest
    BY <2>5, <2>6 DEF HolderKnown
  <2>8. Service!GiveUp
    BY <2>2, <2>3, <2>4, <2>7 DEF Service!GiveUp
  <2> QED BY <2>8 DEF Service!Next
<1>5. CASE HandOver(r)
  <2>1. /\ request[r] = "send" /\ request' = [request EXCEPT ![r] = "created"]
        /\ current' = r /\ runner' = "run"
    BY <1>5 DEF HandOver
  <2>2. UNCHANGED <<rows, finished>>
    BY <1>5 DEF HandOver
  <2>3. Answer' = [Answer EXCEPT ![r] = "created"] /\ Answer[r] = "none"
    BY <1>0, <2>1, AnswerChanges, AnswerIs
  <2>4. Holder = r /\ r \in rows
    BY <1>r, <1>h, <1>s, <2>1
  <2>5. Holder' = r
    BY <2>1 DEF HolderKnown, Active
  <2>6. Service!Create
    BY <2>2, <2>3, <2>4, <2>5 DEF Service!Create
  <2> QED BY <2>6 DEF Service!Next
<1> QED BY <1>1, <1>2, <1>3, <1>4, <1>5 DEF CreateTest

\* So is every step of the runner.
LEMMA ServiceRunner ==
  ASSUME HolderInv, HolderKnown, HolderInv', HolderKnown', Runner
  PROVE  [Service!Next]_(Service!vars)
<1> USE DEF Service!vars
<1>1. UNCHANGED requestVars => Answer' = Answer /\ Holding' = Holding /\ rows' = rows
  BY DEF requestVars, Answer, Holding
<1>2. UNCHANGED requestVars
  BY DEF Runner, Loop, RunStress, RunStressStep, RunStressReturns, RunRefund, Release
<1>3. CASE Loop \/ RunStress \/ RunStressStep
  <2>1. UNCHANGED <<current, finished>> /\ (Active' <=> Active)
    BY <1>3 DEF Loop, RunStress, RunStressStep, Active, runnerVars
  <2>2. Holder' = Holder
    BY <1>1, <1>2, <2>1 DEF Holder, Active
  <2> QED BY <1>1, <1>2, <2>1, <2>2
<1>4. CASE RunStressReturns \/ RunRefund
  <2>1. /\ runner \in {"run", "running"} /\ runner' = "release" /\ UNCHANGED current
        /\ finished' = Append(finished, current)
    BY <1>4 DEF RunStressReturns, RunRefund
  <2>2. Holder = current /\ Holder' = current
    BY <2>1 DEF HolderKnown, Active
  <2>3. current \in Requests /\ request[current] = "created" /\ ~ IsFinished(current)
    BY <2>1 DEF HolderInv, TypeInv, RunOnce, Active
  <2>4. Answer[current] = "created" /\ current # NoTest
    BY <2>3, AnswerIs, StressRunnerAssumption DEF StressRunnerAssumption
  <2>5. Service!Finish
    BY <1>1, <1>2, <2>1, <2>2, <2>3, <2>4 DEF Service!Finish, Service!IsFinished, IsFinished
  <2> QED BY <2>5 DEF Service!Next
<1>5. CASE Release
  <2>1. runner = "release" /\ runner' = "loop" /\ UNCHANGED finished
    BY <1>5 DEF Release
  <2>2. Holder = current /\ current \in Requests /\ IsFinished(current) /\ Holding = {}
    BY <2>1 DEF HolderKnown, HolderInv, Held, TypeInv, RunOnce, Active
  <2>3. Holder' = NoTest
    BY <1>1, <1>2, <2>1, <2>2 DEF HolderKnown, Active
  <2>4. current # NoTest
    BY <2>2, StressRunnerAssumption DEF StressRunnerAssumption
  <2>5. Service!MakeWay
    BY <1>1, <1>2, <2>1, <2>2, <2>3, <2>4 DEF Service!MakeWay, Service!IsFinished, IsFinished
  <2> QED BY <2>5 DEF Service!Next
<1> QED BY <1>3, <1>4, <1>5 DEF Runner

\* Every step is a step of the service or changes nothing it shows.
LEMMA ServiceStep ==
  HolderInv /\ HolderKnown /\ HolderInv' /\ HolderKnown' /\ [Next]_vars
    => [Service!Next]_(Service!vars)
<1> SUFFICES ASSUME HolderInv, HolderKnown, HolderInv', HolderKnown', [Next]_vars
             PROVE  [Service!Next]_(Service!vars)
  OBVIOUS
<1>1. CASE UNCHANGED <<requestVars, runnerVars>>
  BY <1>1 DEF requestVars, runnerVars, Service!vars, Answer, Holder, Holding
<1>2. CASE UNCHANGED vars
  BY <1>1, <1>2 DEF vars
<1> QED BY <1>1, <1>2, ServiceRequest, ServiceRunner DEF Next

\* The busy flag, the unbuffered channel and the goroutines implement TestService: tests are
\* run one after the other, in the order in which they were created and each once, and a
\* request is turned away for no other reason than a test in progress.
THEOREM Implementation == Spec => ImplementsTestService
<1>1. Spec => [](HolderInv /\ HolderKnown)
  BY HolderInvariant, HolderIs, PTL
<1> QED BY <1>1, ServiceInit, ServiceStep, PTL DEF Spec, ImplementsTestService, Service!Spec

-----------------------------------------------------------------------------
(* What a run has queued, counted and sent                                 *)

Sending == {w \in Workers : worker[w] = "send"}

Counted ==
  /\ count = sends + Len(jobs) + Cardinality(Sending)
  /\ phase = "idle" => count = 0 /\ sends = 0 /\ jobs = <<>>
  /\ phase \in {"idle", "total"} => \A w \in Workers : worker[w] = "ended"
  /\ \A w \in Workers : worker[w] = "ended" => phase \in {"idle", "join", "total"} /\ jobs = <<>>

\* The steps that are due have been due by the clock, and what was queued is of those steps.
Paced ==
  /\ phase = "idle" => clock = 0 /\ tick = NoTick /\ due = 0 /\ steps = 0 /\ count = 0 /\ conns = <<>>
  /\ phase = "idle" => \A c \in Conns : given[c] = 0
  /\ steps <= due /\ due * PerSecond <= clock * Rate
  /\ tick # NoTick => tick <= clock /\ due * PerSecond <= tick * Rate
  /\ phase # "step" => targets = <<>>
  /\ targets # <<>> => steps < due
  /\ \A i, j \in DOMAIN conns : conns[i] = conns[j] => i = j
  /\ \A i, j \in DOMAIN targets : targets[i] = targets[j] => i = j
  /\ mode = "round_robin" => count <= steps /\ Len(targets) <= 1
  /\ mode = "advertised" =>
       /\ \A c \in Conns : given[c] <= due
       /\ phase \in {"select", "step"} => \A c \in Conns : given[c] <= steps + (IF targets = <<>> THEN 0 ELSE 1)
       /\ \A i \in DOMAIN targets : given[targets[i]] <= steps

\* No worker has a job yet.
LEMMA CountedInit == Init => Counted
<1> SUFFICES ASSUME Init PROVE Counted
  OBVIOUS
<1>1. /\ phase = "idle" /\ count = 0 /\ sends = 0 /\ jobs = <<>>
      /\ \A w \in Workers : worker[w] = "ended"
  BY DEF Init, RunInit
<1>2. Sending = {}
  BY <1>1 DEF Sending
<1>3. Cardinality(Sending) = 0 /\ Len(jobs) = 0
  BY <1>1, <1>2, FS_EmptySet
<1> QED BY <1>1, <1>3 DEF Counted

\* A worker is the only one to enter or to leave the sending ones.
LEMMA SendingFinite == IsFiniteSet(Sending) /\ Cardinality(Sending) \in Nat
  BY StressRunAssumption, FS_Subset, FS_CardinalityType DEF StressRunAssumption, Sending

\* A step of the loop counts each job with its queueing.
LEMMA CountedLoop == RunTypeOK /\ Counted /\ RunLoop => Counted'
<1> SUFFICES ASSUME RunTypeOK, Counted, RunLoop PROVE Counted'
  OBVIOUS
<1> USE DEF Counted, jobVars
<1>1. CASE TickReceived \/ NextStep \/ TurnEnds \/ ContextDone
  <2>1. UNCHANGED <<count, sends, jobs, worker>> /\ phase \notin {"idle", "join", "total"}
    BY <1>1 DEF TickReceived, NextStep, TurnEnds, ContextDone
  <2>2. phase' \in {"select", "step", "join"}
    BY <1>1, <2>1 DEF TickReceived, NextStep, TurnEnds, ContextDone
  <2>3. Sending' = Sending
    BY <2>1 DEF Sending
  <2> QED BY <2>1, <2>2, <2>3
<1>2. CASE QueueJob
  <2>1. /\ phase = "step" /\ phase' = "step" /\ count' = count + 1
        /\ jobs' = Append(jobs, Head(targets)) /\ targets # <<>>
    BY <1>2 DEF QueueJob
  <2>2. UNCHANGED <<sends, worker>>
    BY <1>2 DEF QueueJob
  <2>3. Head(targets) \in Conns /\ jobs \in Seq(Conns)
    BY <2>1 DEF RunTypeOK
  <2>4. Len(jobs') = Len(jobs) + 1 /\ Len(jobs) \in Nat
    BY <2>1, <2>3
  <2>5. Sending' = Sending
    BY <2>2 DEF Sending
  <2>6. \A w \in Workers : worker[w] # "ended"
    BY <2>1
  <2>7. count' = sends' + Len(jobs') + Cardinality(Sending')
    BY <2>1, <2>2, <2>4, <2>5, SendingFinite DEF RunTypeOK
  <2> QED BY <2>1, <2>2, <2>6, <2>7
<1>3. CASE WorkersJoined
  <2>1. UNCHANGED <<count, sends, jobs, worker>> /\ phase' = "total" /\ \A w \in Workers : worker[w] = "ended"
    BY <1>3 DEF WorkersJoined
  <2>2. Sending' = Sending
    BY <2>1 DEF Sending
  <2> QED BY <2>1, <2>2
<1>4. CASE Return
  <2>1. /\ phase = "total" /\ phase' = "idle" /\ count' = 0 /\ sends' = 0 /\ jobs' = <<>>
        /\ UNCHANGED worker
    BY <1>4 DEF Return
  <2>2. \A w \in Workers : worker'[w] = "ended"
    BY <2>1
  <2>3. Cardinality(Sending') = 0 /\ Len(jobs') = 0
    <3>1. Sending' = {}
      BY <2>2 DEF Sending
    <3> QED BY <2>1, <3>1, FS_EmptySet
  <2> QED BY <2>1, <2>2, <2>3
<1> QED BY <1>1, <1>2, <1>3, <1>4 DEF RunLoop

\* A job a worker takes is one it sends, and then one that was sent.
LEMMA CountedWorker ==
  ASSUME NEW w \in Workers, RunTypeOK, Counted, Worker(w)
  PROVE  Counted'
<1> USE DEF Counted, loopVars, jobVars
<1>1. CASE TakeJob(w)
  <2>1. /\ worker[w] = "wait" /\ jobs # <<>> /\ jobs' = Tail(jobs)
        /\ worker' = [worker EXCEPT ![w] = "send"] /\ UNCHANGED <<count, sends, phase>>
    BY <1>1 DEF TakeJob
  <2>2. Sending' = Sending \cup {w} /\ w \notin Sending
    BY <2>1 DEF Sending, RunTypeOK
  <2>3. Cardinality(Sending') = Cardinality(Sending) + 1
    BY <2>2, SendingFinite, FS_AddElement
  <2>4. Len(jobs') = Len(jobs) - 1 /\ Len(jobs) \in Nat
    BY <2>1 DEF RunTypeOK
  <2>5. \A v \in Workers : worker[v] # "ended"
    BY <2>1
  <2>6. \A v \in Workers : worker'[v] # "ended"
    BY <2>1, <2>5 DEF RunTypeOK
  <2>7. phase \notin {"idle", "total"}
    BY <2>1
  <2>8. count' = sends' + Len(jobs') + Cardinality(Sending')
    BY <2>1, <2>3, <2>4, SendingFinite DEF RunTypeOK
  <2> QED BY <2>1, <2>6, <2>7, <2>8
<1>2. CASE SendReturns(w)
  <2>1. /\ worker[w] = "send" /\ worker' = [worker EXCEPT ![w] = "wait"] /\ sends' = sends + 1
        /\ UNCHANGED <<count, jobs, phase>>
    BY <1>2 DEF SendReturns
  <2>2. Sending' = Sending \ {w} /\ w \in Sending
    BY <2>1 DEF Sending, RunTypeOK
  <2>3. Cardinality(Sending') = Cardinality(Sending) - 1
    BY <2>2, SendingFinite, FS_RemoveElement
  <2>4. \A v \in Workers : worker'[v] = "ended" => worker[v] = "ended"
    BY <2>1 DEF RunTypeOK
  <2>5. phase \notin {"idle", "total"}
    BY <2>1
  <2>6. count' = sends' + Len(jobs') + Cardinality(Sending')
    BY <2>1, <2>3, SendingFinite DEF RunTypeOK
  <2> QED BY <2>1, <2>4, <2>5, <2>6
<1>3. CASE WorkerEnds(w)
  <2>1. /\ worker[w] = "wait" /\ jobs = <<>> /\ phase = "join"
        /\ worker' = [worker EXCEPT ![w] = "ended"] /\ UNCHANGED <<count, sends, jobs, phase>>
    BY <1>3 DEF WorkerEnds
  <2>2. Sending' = Sending
    BY <2>1 DEF Sending, RunTypeOK
  <2> QED BY <2>1, <2>2
<1> QED BY <1>1, <1>2, <1>3 DEF Worker

\* Calling RunStress and everything outside it leave the jobs alone.
LEMMA CountedOther ==
  RunTypeOK /\ Counted /\ (Start \/ Pass \/ Churn \/ UNCHANGED runVars) => Counted'
<1> SUFFICES ASSUME RunTypeOK, Counted, Start \/ Pass \/ Churn \/ UNCHANGED runVars PROVE Counted'
  OBVIOUS
<1> USE DEF Counted, runVars, loopVars, jobVars
<1>1. CASE Start
  <2>1. /\ phase = "idle" /\ phase' = "select" /\ worker' = [w \in Workers |-> "wait"]
        /\ UNCHANGED <<count, jobs, sends>>
    BY <1>1 DEF Start
  <2>2. Sending = {} /\ Sending' = {}
    BY <2>1 DEF Sending
  <2> QED BY <2>1, <2>2
<1>2. CASE Pass \/ Churn \/ UNCHANGED runVars
  <2>1. UNCHANGED <<count, jobs, sends, worker, phase>>
    BY <1>2 DEF Pass, Churn
  <2>2. Sending' = Sending
    BY <2>1 DEF Sending
  <2> QED BY <2>1, <2>2
<1> QED BY <1>1, <1>2

\* The variables of RunStress change only by its call, its steps and the connections.
LEMMA RunNext == [Next]_vars => Start \/ RunStep \/ Churn \/ UNCHANGED runVars
  BY DEF Next, vars, CreateTest, Reject, Reserve, Insert, ReleaseUnused, HandOver, Runner, Loop,
         RunStress, RunStressStep, RunStressReturns, RunRefund, Release

CountedInv == TypeInv /\ Counted

\* The jobs counted are those that have been sent, are being sent or wait to be; when the total
\* is recorded all of them have been sent.
THEOREM CountedIsSent == Spec => []CountedAreSent
<1>1. Init => CountedInv
  BY TypeInit, CountedInit DEF CountedInv
<1>2. CountedInv /\ [Next]_vars => CountedInv'
  <2> SUFFICES ASSUME CountedInv, [Next]_vars PROVE Counted'
    BY TypeStep DEF CountedInv
  <2>1. RunTypeOK /\ Counted
    BY DEF CountedInv, TypeInv, TypeOK
  <2> QED BY <2>1, RunNext, CountedLoop, CountedWorker, CountedOther DEF RunStep
<1>3. CountedInv => CountedAreSent
  <2> SUFFICES ASSUME CountedInv PROVE CountedAreSent
    OBVIOUS
  <2>1. Counted
    BY DEF CountedInv
  <2>2. ASSUME phase = "total" PROVE count = sends
    <3>1. PICK w \in Workers : worker[w] = "ended"
      BY <2>1, <2>2, StressRunAssumption DEF StressRunAssumption, Counted
    <3>2. Len(jobs) = 0
      BY <2>1, <3>1 DEF Counted
    <3>3. Sending = {}
      BY <2>1, <2>2 DEF Counted, Sending
    <3>4. Cardinality(Sending) = 0
      BY <3>3, FS_EmptySet
    <3> QED BY <2>1, <3>2, <3>4 DEF Counted, CountedInv, TypeInv, TypeOK, RunTypeOK
  <2> QED BY <2>1, <2>2 DEF Counted, CountedAreSent, Sending
<1> QED BY <1>1, <1>2, <1>3, PTL DEF Spec

-----------------------------------------------------------------------------
(* The pace                                                                *)

\* Multiplying keeps the order.
LEMMA TimesMono == ASSUME NEW a \in Nat, NEW b \in Nat, NEW p \in Nat, a <= b
                   PROVE  a * p <= b * p
<1> PICK d \in Nat : b = a + d
  <2>1. b - a \in Nat /\ b = a + (b - a)
    OBVIOUS
  <2> QED BY <2>1
<1>1. b * p = a * p + d * p /\ d * p \in Nat /\ a * p \in Nat
  OBVIOUS
<1> QED BY <1>1

\* The number of steps due is the largest whose load is not ahead of the clock.
LEMMA DueLargest ==
  ASSUME NEW t \in Nat
  PROVE  /\ Due(t) * PerSecond <= t * Rate
         /\ \A q \in Nat : q * PerSecond <= t * Rate => q <= Due(t)
<1>1. t * Rate \in Nat /\ PerSecond \in Nat /\ PerSecond > 0
  BY StressRunAssumption DEF StressRunAssumption
<1> DEFINE n == t * Rate
           d == n \div PerSecond
<1>2. d \in Nat /\ d * PerSecond <= n /\ n < (d + 1) * PerSecond
  <2> HIDE DEF n
  <2>1. n \in Nat
    BY <1>1 DEF n
  <2> QED BY <1>1, <2>1
<1>3. ASSUME NEW q \in Nat, q * PerSecond <= n PROVE q <= d
  <2>1. CASE d + 1 <= q
    <3>1. (d + 1) * PerSecond <= q * PerSecond
      BY <1>1, <1>2, <2>1, TimesMono
    <3> HIDE DEF n, d
    <3>2. d + 1 \in Nat /\ (d + 1) * PerSecond \in Nat /\ q * PerSecond \in Nat /\ n \in Nat
      BY <1>1, <1>2 DEF n
    <3> QED BY <1>2, <1>3, <3>1, <3>2
  <2> HIDE DEF d
  <2> QED BY <1>2, <2>1
<1> QED BY <1>2, <1>3 DEF Due

\* The variables Paced is about
pacedVars == <<phase, mode, clock, tick, conns, due, targets, steps, count, given>>

\* At the start nothing is due and nothing was queued.
LEMMA PacedInit == Init => Paced
<1> SUFFICES ASSUME Init PROVE Paced
  OBVIOUS
<1>1. /\ phase = "idle" /\ mode = "advertised" /\ clock = 0 /\ tick = NoTick /\ conns = <<>>
      /\ due = 0 /\ targets = <<>> /\ steps = 0 /\ count = 0
  BY DEF Init, RunInit
<1>2. \A c \in Conns : given[c] = 0
  BY DEF Init, RunInit
<1>3. DOMAIN conns = {} /\ DOMAIN targets = {}
  BY <1>1
<1>4. due * PerSecond = 0 /\ clock * Rate = 0
  BY <1>1, StressRunAssumption DEF StressRunAssumption
<1> QED BY <1>1, <1>2, <1>3, <1>4 DEF Paced

\* A turn begins with what is due by its tick.
LEMMA PacedTick == RunTypeOK /\ Paced /\ TickReceived => Paced'
<1> SUFFICES ASSUME RunTypeOK, Paced, TickReceived PROVE Paced'
  OBVIOUS
<1>1. /\ phase = "select" /\ phase' = "step" /\ tick # NoTick /\ tick' = NoTick /\ due' = Due(tick)
      /\ conns' \in InOrder(connected)
      /\ UNCHANGED <<mode, clock, targets, steps, count, given>>
  BY DEF TickReceived, jobVars
<1>2. tick \in Nat /\ clock \in Nat /\ tick <= clock /\ due \in Nat /\ Due(tick) \in Nat
  BY <1>1, DueType, StressRunAssumption DEF StressRunAssumption, RunTypeOK, Paced
<1>3. due <= Due(tick)
  BY <1>1, <1>2, DueLargest DEF Paced
<1>4. due' * PerSecond <= clock' * Rate
  <2>1. Due(tick) * PerSecond <= tick * Rate
    BY <1>2, DueLargest
  <2>2. tick * Rate <= clock * Rate
    BY <1>2, TimesMono, StressRunAssumption DEF StressRunAssumption
  <2>3. Due(tick) * PerSecond \in Nat /\ tick * Rate \in Nat /\ clock * Rate \in Nat
    BY <1>2, StressRunAssumption DEF StressRunAssumption
  <2> QED BY <1>1, <2>1, <2>2, <2>3
<1>5. \A i, j \in DOMAIN conns' : conns'[i] = conns'[j] => i = j
  BY <1>1, InOrderType DEF RunTypeOK
<1>6. targets = <<>> /\ steps <= due' /\ \A c \in Conns : mode = "advertised" => given[c] <= due'
  BY <1>1, <1>2, <1>3 DEF Paced, RunTypeOK
<1>7. DOMAIN targets = {}
  BY <1>6
<1> QED BY <1>1, <1>4, <1>5, <1>6, <1>7 DEF Paced

\* The targets of a step are distinct, and none has had its job of this step.
LEMMA PacedStep == RunTypeOK /\ Paced /\ NextStep => Paced'
<1> SUFFICES ASSUME RunTypeOK, Paced, NextStep PROVE Paced'
  OBVIOUS
<1>1. /\ phase = "step" /\ targets = <<>> /\ steps < due /\ NodeTargets(conns)
      /\ steps' = steps + (IF conns = <<>> THEN 1 ELSE 0)
      /\ UNCHANGED <<phase, mode, clock, tick, conns, due, count, given>>
  BY DEF NextStep, jobVars
<1>2. steps \in Nat /\ due \in Nat /\ given \in [Conns -> Nat] /\ conns \in Seq(Conns) /\ count \in Nat
  BY DEF RunTypeOK
<1>3. steps' \in {steps, steps + 1} /\ (conns # <<>> => steps' = steps)
  BY <1>1, <1>2
<1>4. /\ targets' \in Seq(Conns)
      /\ \A i, j \in DOMAIN targets' : targets'[i] = targets'[j] => i = j
      /\ targets' # <<>> => conns # <<>>
      /\ mode = "round_robin" => Len(targets') <= 1
  <2>1. CASE mode = "advertised" \/ conns = <<>>
    <3>1. targets' = conns
      BY <1>1, <2>1 DEF NodeTargets
    <3>2. mode = "round_robin" => conns = <<>>
      BY <2>1
    <3>3. mode = "round_robin" => Len(conns) = 0
      BY <3>2
    <3> QED BY <1>2, <3>1, <3>3 DEF Paced
  <2>2. CASE ~ (mode = "advertised" \/ conns = <<>>)
    <3>1. PICK c : c = conns[(next % Len(conns)) + 1]
      OBVIOUS
    <3>2. targets' = <<c>>
      BY <1>1, <2>2, <3>1 DEF NodeTargets
    <3>3. c \in Conns
      <4>1. Len(conns) \in Nat \ {0} /\ next \in Nat
        BY <1>2, <2>2 DEF RunTypeOK
      <4>2. (next % Len(conns)) + 1 \in 1 .. Len(conns)
        BY <4>1
      <4> QED BY <1>2, <3>1, <4>2
    <3>4. targets' \in Seq(Conns) /\ Len(targets') = 1 /\ DOMAIN targets' = {1}
      BY <3>2, <3>3
    <3> QED BY <2>2, <3>4
  <2> QED BY <2>1, <2>2
<1>5. mode = "advertised" => \A c \in Conns : given[c] <= steps
  BY <1>1, <1>2 DEF Paced
<1>6. \A i \in DOMAIN targets' : targets'[i] \in Conns
  BY <1>4
<1>7. mode = "advertised" =>
        /\ \A c \in Conns : given'[c] <= due'
        /\ \A c \in Conns : given'[c] <= steps' + (IF targets' = <<>> THEN 0 ELSE 1)
        /\ \A i \in DOMAIN targets' : given'[targets'[i]] <= steps'
  BY <1>1, <1>2, <1>3, <1>5, <1>6
<1>8. steps' <= due' /\ (targets' # <<>> => steps' < due') /\ (mode = "round_robin" => count <= steps')
  BY <1>1, <1>2, <1>3, <1>4 DEF Paced
<1> QED BY <1>1, <1>4, <1>7, <1>8 DEF Paced

\* A job takes its connection out of the targets.
LEMMA PacedJob == RunTypeOK /\ Paced /\ QueueJob => Paced'
<1> SUFFICES ASSUME RunTypeOK, Paced, QueueJob PROVE Paced'
  OBVIOUS
<1>1. PICK h : h = Head(targets)
  OBVIOUS
<1>2. /\ phase = "step" /\ targets # <<>> /\ given' = [given EXCEPT ![h] = @ + 1] /\ count' = count + 1
      /\ targets' = Tail(targets)
      /\ steps' = steps + (IF Len(targets) = 1 THEN 1 ELSE 0)
      /\ UNCHANGED <<phase, mode, clock, tick, conns, due>>
  BY <1>1 DEF QueueJob
<1>3. steps \in Nat /\ due \in Nat /\ given \in [Conns -> Nat] /\ targets \in Seq(Conns) /\ count \in Nat
  BY DEF RunTypeOK
<1>4. /\ h = targets[1] /\ 1 \in DOMAIN targets /\ h \in Conns /\ Len(targets) \in Nat \ {0}
      /\ DOMAIN targets = 1 .. Len(targets)
  BY <1>1, <1>2, <1>3
<1>5. /\ targets' \in Seq(Conns) /\ Len(targets') = Len(targets) - 1
      /\ DOMAIN targets' = 1 .. Len(targets) - 1
      /\ \A i \in DOMAIN targets' : targets'[i] = targets[i + 1] /\ i + 1 \in DOMAIN targets /\ i \in Nat
  BY <1>2, <1>3, <1>4
<1>6. steps < due /\ \A i, j \in DOMAIN targets : targets[i] = targets[j] => i = j
  BY <1>2 DEF Paced
<1>7. \A i, j \in DOMAIN targets' : targets'[i] = targets'[j] => i = j
  BY <1>5, <1>6
<1>8. /\ targets' = <<>> => Len(targets) = 1 /\ steps' = steps + 1
      /\ targets' # <<>> => steps' = steps
  <2>1. targets' = <<>> <=> Len(targets') = 0
    BY <1>5
  <2> QED BY <2>1, <1>2, <1>3, <1>4, <1>5
<1>9. given'[h] = given[h] + 1 /\ given' \in [Conns -> Nat] /\ \A c \in Conns \ {h} : given'[c] = given[c]
  BY <1>2, <1>3, <1>4
<1>10. ASSUME mode = "advertised"
       PROVE  /\ \A c \in Conns : given'[c] <= due'
              /\ \A c \in Conns : given'[c] <= steps' + (IF targets' = <<>> THEN 0 ELSE 1)
              /\ \A i \in DOMAIN targets' : given'[targets'[i]] <= steps'
  <2>1. given[h] <= steps /\ \A c \in Conns : given[c] <= steps + 1
    BY <1>2, <1>4, <1>10 DEF Paced
  <2>2. \A c \in Conns : given'[c] <= steps + 1
    BY <1>3, <1>4, <1>9, <2>1
  <2>3. \A i \in DOMAIN targets' : targets'[i] # h
    BY <1>4, <1>5, <1>6
  <2>4. \A i \in DOMAIN targets' : targets'[i] \in Conns /\ given[targets'[i]] <= steps
    BY <1>3, <1>5, <1>10 DEF Paced
  <2>5. \A i \in DOMAIN targets' : given'[targets'[i]] <= steps
    BY <1>9, <2>3, <2>4
  <2>6. \A c \in Conns : given'[c] <= due'
    BY <1>2, <1>3, <1>6, <1>9, <2>2
  <2>7. \A c \in Conns : given'[c] <= steps' + (IF targets' = <<>> THEN 0 ELSE 1)
    BY <1>3, <1>8, <1>9, <2>2
  <2>8. steps <= steps' /\ steps' \in Nat /\ \A i \in DOMAIN targets' : given'[targets'[i]] \in Nat
    BY <1>3, <1>8, <1>9, <2>4
  <2>9. \A i \in DOMAIN targets' : given'[targets'[i]] <= steps'
    BY <1>3, <2>5, <2>8
  <2> QED BY <2>6, <2>7, <2>9
<1>11. mode = "round_robin" => count' <= steps' /\ Len(targets') <= 1
  <2> SUFFICES ASSUME mode = "round_robin" PROVE count' <= steps' /\ Len(targets') <= 1
    OBVIOUS
  <2>1. count <= steps /\ Len(targets) = 1
    BY <1>4 DEF Paced
  <2> QED BY <1>2, <1>3, <1>5, <2>1
<1>12. steps' <= due' /\ (targets' # <<>> => steps' < due')
  BY <1>2, <1>3, <1>6, <1>8
<1> QED BY <1>2, <1>7, <1>10, <1>11, <1>12 DEF Paced

\* The other steps of RunStress queue nothing.
LEMMA PacedRest ==
  RunTypeOK /\ Paced /\ (TurnEnds \/ ContextDone \/ WorkersJoined \/ Return \/ Start) => Paced'
<1> SUFFICES ASSUME RunTypeOK, Paced, TurnEnds \/ ContextDone \/ WorkersJoined \/ Return \/ Start
             PROVE  Paced'
  OBVIOUS
<1>1. CASE TurnEnds \/ ContextDone \/ WorkersJoined
  <2>1. /\ UNCHANGED <<mode, clock, tick, conns, due, steps, count, given>>
        /\ targets' = <<>> /\ phase' \in {"select", "join", "total"}
        /\ phase' = "select" => phase = "step" /\ targets = <<>>
    BY <1>1 DEF TurnEnds, ContextDone, WorkersJoined, jobVars, Paced
  <2>2. DOMAIN targets' = {} /\ Len(targets') = 0
    BY <2>1
  <2> QED BY <2>1, <2>2 DEF Paced
<1>2. CASE Return
  <2>1. /\ phase' = "idle" /\ mode' = "advertised" /\ clock' = 0 /\ tick' = NoTick /\ conns' = <<>>
        /\ due' = 0 /\ targets' = <<>> /\ steps' = 0 /\ count' = 0
    BY <1>2 DEF Return
  <2>2. \A c \in Conns : given'[c] = 0
    BY <1>2 DEF Return
  <2>3. DOMAIN conns' = {} /\ DOMAIN targets' = {}
    BY <2>1
  <2>4. due' * PerSecond = 0 /\ clock' * Rate = 0
    BY <2>1, StressRunAssumption DEF StressRunAssumption
  <2> QED BY <2>1, <2>2, <2>3, <2>4 DEF Paced
<1>3. CASE Start
  <2>1. /\ phase = "idle" /\ phase' = "select"
        /\ UNCHANGED <<clock, tick, conns, due, targets, steps, count, given>>
    BY <1>3 DEF Start, jobVars
  <2>2. targets = <<>> /\ steps = 0 /\ due = 0 /\ count = 0 /\ \A c \in Conns : given[c] = 0
    BY <2>1 DEF Paced
  <2>3. DOMAIN targets = {} /\ Len(targets) = 0
    BY <2>2
  <2> QED BY <2>1, <2>2, <2>3 DEF Paced
<1> QED BY <1>1, <1>2, <1>3

\* A second more on the clock is no less load that may be due.
LEMMA PacedPass == RunTypeOK /\ Paced /\ Pass => Paced'
<1> SUFFICES ASSUME RunTypeOK, Paced, Pass PROVE Paced'
  OBVIOUS
<1>1. /\ phase # "idle" /\ clock' = clock + 1 /\ tick' = IF tick = NoTick THEN clock + 1 ELSE tick
      /\ UNCHANGED <<phase, mode, conns, due, targets, steps, count, given>>
  BY DEF Pass, jobVars
<1>2. clock \in Nat /\ due \in Nat /\ PerSecond \in Nat /\ Rate \in Nat
  BY StressRunAssumption DEF StressRunAssumption, RunTypeOK
<1>3. clock * Rate <= (clock + 1) * Rate
  BY <1>2, TimesMono
<1>4. due * PerSecond \in Nat /\ clock * Rate \in Nat /\ (clock + 1) * Rate \in Nat
  BY <1>2
<1>5. due * PerSecond <= (clock + 1) * Rate
  BY <1>3, <1>4 DEF Paced
<1>6. tick' # NoTick => tick' <= clock' /\ due' * PerSecond <= tick' * Rate
  <2>1. CASE tick = NoTick
    BY <1>1, <1>2, <1>5, <2>1
  <2>2. CASE tick # NoTick
    <3>1. tick \in Nat /\ tick <= clock
      BY <2>2, StressRunAssumption DEF StressRunAssumption, RunTypeOK, Paced
    <3> QED BY <1>1, <1>2, <2>2, <3>1 DEF Paced
  <2> QED BY <2>1, <2>2
<1> QED BY <1>1, <1>5, <1>6 DEF Paced

\* Workers and connections do not touch the pace.
LEMMA PacedSame == Paced /\ UNCHANGED pacedVars => Paced'
  BY DEF Paced, pacedVars

PacedInv == TypeInv /\ Paced

\* The types and the pace are kept by every step.
LEMMA PacedStays == PacedInv /\ [Next]_vars => PacedInv'
<1> SUFFICES ASSUME PacedInv, [Next]_vars PROVE Paced'
  BY TypeStep DEF PacedInv
<1>1. RunTypeOK /\ Paced
  BY DEF PacedInv, TypeInv, TypeOK
<1>2. CASE RunLoop \/ Start \/ Pass
  BY <1>1, <1>2, PacedTick, PacedStep, PacedJob, PacedRest, PacedPass DEF RunLoop
<1>3. CASE Churn \/ (\E w \in Workers : Worker(w)) \/ UNCHANGED runVars
  <2>1. UNCHANGED pacedVars
    BY <1>3 DEF Churn, Worker, TakeJob, SendReturns, WorkerEnds, runVars, loopVars, jobVars, pacedVars
  <2> QED BY <1>1, <2>1, PacedSame
<1> QED BY <1>2, <1>3, RunNext DEF RunStep

\* The load is never ahead of the clock, in all and for each node, however late the loop is.
THEOREM LoadIsPaced == Spec => []NeverAhead
<1>1. Init => PacedInv
  BY TypeInit, PacedInit DEF PacedInv
<1>2. PacedInv => NeverAhead
  <2> SUFFICES ASSUME PacedInv PROVE NeverAhead
    OBVIOUS
  <2>1. /\ steps \in Nat /\ due \in Nat /\ count \in Nat /\ clock \in Nat /\ given \in [Conns -> Nat]
        /\ PerSecond \in Nat /\ Rate \in Nat
    BY StressRunAssumption DEF StressRunAssumption, PacedInv, TypeInv, TypeOK, RunTypeOK
  <2>2. Paced
    BY DEF PacedInv
  <2>3. ASSUME NEW n \in Nat, n <= due PROVE n * PerSecond <= clock * Rate
    <3>1. n * PerSecond <= due * PerSecond /\ due * PerSecond <= clock * Rate
      BY <2>1, <2>2, <2>3, TimesMono DEF Paced
    <3>2. n * PerSecond \in Nat /\ due * PerSecond \in Nat /\ clock * Rate \in Nat
      BY <2>1
    <3> QED BY <3>1, <3>2
  <2>4. steps <= due /\ (mode = "round_robin" => count <= due)
    BY <2>1, <2>2 DEF Paced
  <2>5. mode = "advertised" => \A c \in Conns : given[c] \in Nat /\ given[c] <= due
    BY <2>1, <2>2 DEF Paced
  <2> QED BY <2>1, <2>3, <2>4, <2>5 DEF NeverAhead
<1> QED BY <1>1, <1>2, PacedStays, PTL DEF Spec

-----------------------------------------------------------------------------
(* The load is even                                                        *)

\* The place of a connected client among all that are connected, from 0
Rank(c) == Cardinality({d \in connected : d < c})

\* Whose turn it is in round_robin mode: the rank that gets the next job
Turn == (next - Len(targets)) % Cardinality(connected)

IsTarget(c) == \E i \in DOMAIN targets : targets[i] = c

\* In advertised mode whoever is not, or no longer, a target of this step is one
\* job ahead of those that are.
AdvertisedEven == \E q \in Int : \A c \in connected : given[c] = q + (IF IsTarget(c) THEN 0 ELSE 1)

\* In round_robin mode those whose turn has been are one job ahead.
RoundRobinEven == \E q \in Int : \A c \in connected : given[c] = q + (IF Rank(c) < Turn THEN 1 ELSE 0)

Level == \A c, d \in connected : given[c] <= given[d] + 1

Even ==
  /\ phase = "idle" => next = 0
  /\ mode = "round_robin" => Len(targets) <= next
  /\ phase # "idle" /\ ~ churned =>
       /\ phase = "step" => conns \in InOrder(connected)
       /\ \A c \in Conns \ connected : given[c] = 0
       /\ \A i \in DOMAIN targets : targets[i] \in connected
       /\ phase \in {"select", "step"} /\ mode = "advertised" => AdvertisedEven
       /\ phase \in {"select", "step"} /\ mode = "round_robin" =>
            RoundRobinEven /\ (targets # <<>> => Rank(Head(targets)) = Turn)
       /\ phase \in {"join", "total"} => Level

\* The connections in order are all of them, and the place of each is the number of those before it.
LEMMA InOrderRank ==
  ASSUME NEW S \in SUBSET Conns, NEW cs \in InOrder(S)
  PROVE  /\ Cardinality(S) \in Nat /\ DOMAIN cs = 1 .. Cardinality(S) /\ Len(cs) = Cardinality(S)
         /\ \A c \in S : \E i \in DOMAIN cs : cs[i] = c
         /\ \A i \in DOMAIN cs : cs[i] \in S /\ Cardinality({d \in S : d < cs[i]}) = i - 1
<1> DEFINE n == Cardinality(S)
<1>1. IsFiniteSet(S) /\ n \in Nat
  BY StressRunAssumption, FS_Subset, FS_CardinalityType DEF StressRunAssumption
<1>2. cs \in [1 .. n -> S] /\ \A i, j \in DOMAIN cs : i < j => cs[i] < cs[j]
  BY DEF InOrder
<1>3. S \subseteq Nat
  BY StressRunAssumption DEF StressRunAssumption
<1> HIDE DEF n
<1>4. DOMAIN cs = 1 .. n /\ \A i \in 1 .. n : cs[i] \in S /\ cs[i] \in Nat
  BY <1>2, <1>3
<1>5. \A i, j \in 1 .. n : cs[i] = cs[j] => i = j
  BY <1>1, <1>4, InOrderType
<1>6. \A c \in S : \E i \in 1 .. n : cs[i] = c
  <2>1. cs \in Injection(1 .. n, S)
    BY <1>2, <1>4, <1>5 DEF Injection, IsInjective
  <2>2. Cardinality(1 .. n) = Cardinality(S)
    BY <1>1, FS_Interval DEF n
  <2>3. cs \in Surjection(1 .. n, S)
    BY <1>1, <2>1, <2>2, FS_Injection
  <2> QED BY <2>3 DEF Surjection
<1>7. ASSUME NEW i \in 1 .. n PROVE Cardinality({d \in S : d < cs[i]}) = i - 1
  <2> DEFINE T == {d \in S : d < cs[i]}
             f == [j \in 1 .. i - 1 |-> cs[j]]
  <2>1. i \in Nat /\ i - 1 \in Nat /\ \A j \in 1 .. i - 1 : j \in 1 .. n /\ j < i
    BY <1>1
  <2>2. \A j \in 1 .. i - 1 : cs[j] \in T
    BY <1>2, <1>4, <2>1
  <2>3. ASSUME NEW d \in T PROVE \E j \in 1 .. i - 1 : cs[j] = d
    <3>1. PICK j \in 1 .. n : cs[j] = d
      BY <1>6
    <3>2. ~ (i < j) /\ i # j
      <4>1. cs[j] < cs[i] /\ cs[j] \in Nat /\ cs[i] \in Nat
        BY <1>4, <3>1
      <4>2. i < j => cs[i] < cs[j]
        BY <1>2, <1>4
      <4> QED BY <4>1, <4>2
    <3>3. j \in 1 .. i - 1
      BY <1>1, <2>1, <3>2
    <3> QED BY <3>1, <3>3
  <2>4. f \in Bijection(1 .. i - 1, T)
    <3>1. f \in [1 .. i - 1 -> T] /\ \A j \in 1 .. i - 1 : f[j] = cs[j]
      BY <2>2
    <3>2. \A a, b \in 1 .. i - 1 : f[a] = f[b] => a = b
      BY <1>5, <2>1, <3>1
    <3>3. \A d \in T : \E j \in 1 .. i - 1 : f[j] = d
      BY <2>3, <3>1
    <3> QED BY <3>1, <3>2, <3>3 DEF Bijection, Injection, IsInjective, Surjection
  <2>5. ExistsBijection(1 .. i - 1, T)
    BY <2>4 DEF ExistsBijection
  <2> HIDE DEF T
  <2>6. Cardinality(T) = i - 1
    BY <2>1, <2>5, FS_CountingElements
  <2> QED BY <2>6 DEF T
<1>8. Len(cs) = n
  BY <1>1, <1>4, InOrderType
<1> QED BY <1>1, <1>4, <1>6, <1>7, <1>8 DEF n

\* While the snapshot is of the clients that are connected, ranks are 0 to one less than their
\* number, and no two clients have the same.
LEMMA Ranks ==
  ASSUME connected \subseteq Conns, conns \in InOrder(connected)
  PROVE  /\ \A c \in connected : Rank(c) \in 0 .. Len(conns) - 1 /\ conns[Rank(c) + 1] = c
         /\ \A c, d \in connected : Rank(c) = Rank(d) => c = d
         /\ \A i \in 1 .. Len(conns) : conns[i] \in connected /\ Rank(conns[i]) = i - 1
<1>1. /\ DOMAIN conns = 1 .. Len(conns) /\ Len(conns) \in Nat
      /\ \A c \in connected : \E i \in DOMAIN conns : conns[i] = c
      /\ \A i \in DOMAIN conns : conns[i] \in connected /\ Rank(conns[i]) = i - 1
  BY InOrderRank DEF Rank
<1>2. ASSUME NEW c \in connected PROVE Rank(c) \in 0 .. Len(conns) - 1 /\ conns[Rank(c) + 1] = c
  <2>1. PICK i \in DOMAIN conns : conns[i] = c
    BY <1>1
  <2>2. Rank(c) = i - 1 /\ i \in Nat /\ i >= 1 /\ i <= Len(conns)
    BY <1>1, <2>1
  <2> QED BY <1>1, <2>1, <2>2
<1>3. \A c, d \in connected : Rank(c) = Rank(d) => c = d
  BY <1>2
<1> QED BY <1>1, <1>2, <1>3

\* A quotient and a remainder are the only ones.
LEMMA OneRemainder ==
  ASSUME NEW n \in Nat \ {0}, NEW p \in Nat, NEW q \in Nat, NEW r \in 0 .. n - 1, NEW s \in 0 .. n - 1,
         p * n + r = q * n + s
  PROVE  r = s
<1>0. p * n \in Nat /\ q * n \in Nat /\ (p + 1) * n = p * n + n /\ (q + 1) * n = q * n + n
  OBVIOUS
<1>1. ~ (p < q)
  <2>1. p < q => (p + 1) * n <= q * n
    BY TimesMono
  <2> QED BY <1>0, <2>1
<1>2. ~ (q < p)
  <2>1. q < p => (q + 1) * n <= p * n
    BY TimesMono
  <2> QED BY <1>0, <2>1
<1>3. p = q
  BY <1>1, <1>2
<1> QED BY <1>0, <1>3

\* The turn after the last is the first again.
LEMMA NextTurn ==
  ASSUME NEW n \in Nat \ {0}, NEW k \in Nat
  PROVE  /\ k % n \in 0 .. n - 1
         /\ (k + 1) % n = IF k % n = n - 1 THEN 0 ELSE (k % n) + 1
<1> DEFINE q == k \div n
           r == k % n
           p == (k + 1) \div n
           s == (k + 1) % n
<1>1. k = q * n + r /\ q \in Nat /\ r \in 0 .. n - 1
  OBVIOUS
<1>2. k + 1 = p * n + s /\ p \in Nat /\ s \in 0 .. n - 1
  OBVIOUS
<1> HIDE DEF q, r, p, s
<1>3. CASE r = n - 1
  <2>1. (q + 1) * n + 0 = p * n + s
    <3>1. (q + 1) * n = q * n + n /\ q * n \in Nat
      BY <1>1
    <3> QED BY <1>1, <1>2, <1>3, <3>1
  <2>2. s = 0
    BY <1>1, <1>2, <2>1, OneRemainder
  <2> QED BY <1>1, <1>3, <2>2 DEF r, s
<1>4. CASE r # n - 1
  <2>1. r + 1 \in 0 .. n - 1
    BY <1>1, <1>4
  <2>2. q * n + (r + 1) = p * n + s
    <3>1. q * n \in Nat /\ p * n \in Nat
      BY <1>1, <1>2
    <3> QED BY <1>1, <1>2, <3>1
  <2>3. s = r + 1
    BY <1>1, <1>2, <2>1, <2>2, OneRemainder
  <2> QED BY <1>1, <1>4, <2>3 DEF r, s
<1> QED BY <1>3, <1>4

\* The variables Even is about
evenVars == <<connected, phase, mode, conns, targets, next, given, churned>>

\* At the start nobody has had a job.
LEMMA EvenInit == Init => Even
<1> SUFFICES ASSUME Init PROVE Even
  OBVIOUS
<1>1. phase = "idle" /\ next = 0 /\ mode = "advertised"
  BY DEF Init, RunInit
<1> QED BY <1>1 DEF Even

\* A run begins with nothing given, and with the turn of the first client.
LEMMA EvenStart == RunTypeOK /\ Paced /\ Even /\ Start => Even'
<1> SUFFICES ASSUME RunTypeOK, Paced, Even, Start PROVE Even'
  OBVIOUS
<1>1. /\ phase = "idle" /\ phase' = "select" /\ targets' = targets /\ next' = next
      /\ given' = given /\ connected' = connected
  BY DEF Start, jobVars
<1>2. targets = <<>> /\ Len(targets) = 0 /\ DOMAIN targets = {} /\ next = 0 /\ (\A c \in Conns : given[c] = 0)
  BY <1>1 DEF Paced, Even
<1>3. connected \subseteq Conns /\ IsFiniteSet(connected)
  BY FS_Subset, StressRunAssumption DEF StressRunAssumption, RunTypeOK
<1>4. AdvertisedEven'
  <2>1. \A c \in connected : given'[c] = -1 + (IF IsTarget(c)' THEN 0 ELSE 1)
    BY <1>1, <1>2, <1>3 DEF IsTarget
  <2> QED BY <1>1, <2>1 DEF AdvertisedEven
<1>5. RoundRobinEven'
  <2>1. ASSUME NEW c \in connected PROVE given'[c] = 0 + (IF Rank(c)' < Turn' THEN 1 ELSE 0)
    <3>1. Cardinality(connected) \in Nat \ {0}
      BY <1>3, FS_CardinalityType, FS_EmptySet
    <3>2. Turn' = 0
      <4>1. Turn' = 0 % Cardinality(connected)
        BY <1>1, <1>2 DEF Turn
      <4> QED BY <3>1, <4>1
    <3>3. Rank(c)' \in Nat
      <4>1. Rank(c)' = Rank(c)
        BY <1>1 DEF Rank
      <4> QED BY <1>3, <4>1, FS_Subset, FS_CardinalityType DEF Rank
    <3> QED BY <1>1, <1>2, <1>3, <3>2, <3>3
  <2> QED BY <1>1, <2>1 DEF RoundRobinEven
<1> QED BY <1>1, <1>2, <1>4, <1>5 DEF Even

\* A turn of the loop begins with the clients that are connected.
LEMMA EvenTick == RunTypeOK /\ Paced /\ Even /\ TickReceived => Even'
<1> SUFFICES ASSUME RunTypeOK, Paced, Even, TickReceived PROVE Even'
  OBVIOUS
<1>1. /\ phase = "select" /\ phase' = "step" /\ targets' = targets /\ next' = next /\ mode' = mode
      /\ given' = given /\ connected' = connected /\ churned' = churned /\ conns' \in InOrder(connected)
  BY DEF TickReceived, jobVars
<1>2. targets = <<>>
  BY <1>1 DEF Paced
<1>3. (AdvertisedEven => AdvertisedEven') /\ (RoundRobinEven => RoundRobinEven')
  BY <1>1 DEF AdvertisedEven, RoundRobinEven, IsTarget, Rank, Turn
<1> QED BY <1>1, <1>2, <1>3 DEF Even

\* A step in advertised mode makes everybody a target again.
LEMMA EvenStepAll ==
  RunTypeOK /\ Paced /\ Even /\ NextStep /\ (mode = "advertised" \/ conns = <<>>) => Even'
<1> SUFFICES ASSUME RunTypeOK, Paced, Even, NextStep, mode = "advertised" \/ conns = <<>> PROVE Even'
  OBVIOUS
<1>1. /\ phase = "step" /\ phase' = "step" /\ targets = <<>> /\ targets' = conns /\ next' = next /\ mode' = mode
      /\ given' = given /\ connected' = connected /\ churned' = churned /\ conns' = conns
  BY DEF NextStep, NodeTargets, jobVars
<1>2. next \in Nat /\ (mode = "round_robin" => Len(targets') <= next')
  <2>1. conns = <<>> => Len(conns) = 0
    OBVIOUS
  <2> QED BY <1>1, <2>1 DEF RunTypeOK, Modes
<1>3. ASSUME ~ churned
      PROVE  /\ \A c \in Conns \ connected : given'[c] = 0
             /\ \A i \in DOMAIN targets' : targets'[i] \in connected
             /\ mode = "advertised" => AdvertisedEven'
             /\ mode = "round_robin" => RoundRobinEven' /\ targets' = <<>>
  <2>1. conns \in InOrder(connected) /\ \A c \in Conns \ connected : given[c] = 0
    BY <1>1, <1>3 DEF Even
  <2>2. /\ \A c \in connected : \E i \in DOMAIN conns : conns[i] = c
        /\ \A i \in DOMAIN conns : conns[i] \in connected
    <3>1. connected \in SUBSET Conns
      BY DEF RunTypeOK
    <3> QED BY <2>1, <3>1, InOrderRank
  <2>3. ASSUME mode = "advertised" PROVE AdvertisedEven'
    <3>1. PICK q \in Int : \A c \in connected : given[c] = q + (IF IsTarget(c) THEN 0 ELSE 1)
      BY <1>1, <1>3, <2>3 DEF Even, AdvertisedEven
    <3>2. \A c \in connected : ~ IsTarget(c) /\ IsTarget(c)'
      BY <1>1, <2>2 DEF IsTarget
    <3>3. \A c \in connected : given'[c] = (q + 1) + (IF IsTarget(c)' THEN 0 ELSE 1)
      BY <1>1, <3>1, <3>2
    <3>4. q + 1 \in Int
      OBVIOUS
    <3> QED BY <1>1, <3>3, <3>4 DEF AdvertisedEven
  <2>4. ASSUME mode = "round_robin" PROVE RoundRobinEven' /\ targets' = <<>>
    <3>1. targets' = targets /\ RoundRobinEven
      BY <1>1, <1>3, <2>4 DEF Even
    <3> QED BY <1>1, <3>1 DEF RoundRobinEven, Rank, Turn
  <2> QED BY <1>1, <2>1, <2>2, <2>3, <2>4
<1>4. conns \in InOrder(connected) \/ churned
  BY <1>1 DEF Even
<1> QED BY <1>1, <1>2, <1>3, <1>4 DEF Even

\* A step in round_robin mode picks the client whose turn it is.
LEMMA EvenStepOne ==
  RunTypeOK /\ Paced /\ Even /\ NextStep /\ ~ (mode = "advertised" \/ conns = <<>>) => Even'
<1> SUFFICES ASSUME RunTypeOK, Paced, Even, NextStep, ~ (mode = "advertised" \/ conns = <<>>) PROVE Even'
  OBVIOUS
<1>1. /\ phase = "step" /\ phase' = "step" /\ targets = <<>> /\ next' = next + 1 /\ mode' = mode
      /\ given' = given /\ connected' = connected /\ churned' = churned /\ conns' = conns
      /\ targets' = <<conns[(next % Len(conns)) + 1]>>
  BY DEF NextStep, NodeTargets, jobVars
<1>2. next \in Nat /\ Len(conns) \in Nat \ {0} /\ mode = "round_robin" /\ conns \in Seq(Conns)
  BY DEF RunTypeOK, Modes
<1> DEFINE i == (next % Len(conns)) + 1
<1>3. i \in 1 .. Len(conns) /\ i - 1 = next % Len(conns)
  BY <1>2
<1> HIDE DEF i
<1>4. targets' = <<conns[i]>> /\ Len(targets') = 1 /\ Head(targets') = conns[i] /\ DOMAIN targets' = {1}
      /\ targets'[1] = conns[i]
  BY <1>1 DEF i
<1>5. ASSUME ~ churned
      PROVE  /\ conns \in InOrder(connected)
             /\ \A c \in Conns \ connected : given'[c] = 0
             /\ \A k \in DOMAIN targets' : targets'[k] \in connected'
             /\ RoundRobinEven' /\ Rank(Head(targets))' = Turn'
  <2>1. conns \in InOrder(connected) /\ RoundRobinEven /\ \A c \in Conns \ connected : given[c] = 0
    BY <1>1, <1>2, <1>5 DEF Even
  <2>2. conns[i] \in connected /\ Rank(conns[i]) = i - 1 /\ Cardinality(connected) = Len(conns)
    BY <1>3, <2>1, Ranks, InOrderRank DEF RunTypeOK
  <2>3. Turn = next % Len(conns) /\ Turn' = Turn
    <3>1. Len(targets) = 0 /\ next - 0 = next /\ (next + 1) - 1 = next
      BY <1>1, <1>2
    <3> QED BY <1>1, <1>4, <2>2, <3>1 DEF Turn
  <2>4. RoundRobinEven'
    BY <1>1, <2>1, <2>3 DEF RoundRobinEven, Rank
  <2>5. Rank(Head(targets))' = Turn'
    BY <1>1, <1>3, <1>4, <2>2, <2>3 DEF Rank
  <2> QED BY <1>1, <1>4, <2>1, <2>2, <2>4, <2>5
<1> QED BY <1>1, <1>2, <1>4, <1>5 DEF Even

\* A job in advertised mode: its client is one ahead now, as those before it.
LEMMA AdvertisedJob ==
  ASSUME RunTypeOK, Paced, QueueJob, AdvertisedEven, connected \subseteq Conns
  PROVE  AdvertisedEven'
<1>1. PICK h : h = Head(targets)
  OBVIOUS
<1>2. /\ targets \in Seq(Conns) /\ targets # <<>> /\ given \in [Conns -> Nat]
      /\ targets' = Tail(targets) /\ given' = [given EXCEPT ![h] = @ + 1] /\ connected' = connected
  BY <1>1 DEF QueueJob, RunTypeOK
<1>3. /\ h = targets[1] /\ 1 \in DOMAIN targets /\ h \in Conns /\ Len(targets) \in Nat \ {0}
      /\ DOMAIN targets = 1 .. Len(targets) /\ DOMAIN targets' = 1 .. Len(targets) - 1
      /\ \A i \in DOMAIN targets' : targets'[i] = targets[i + 1]
  BY <1>1, <1>2
<1>4. \A i, j \in DOMAIN targets : targets[i] = targets[j] => i = j
  BY DEF Paced
<1>5. PICK q \in Int : \A c \in connected : given[c] = q + (IF IsTarget(c) THEN 0 ELSE 1)
  BY DEF AdvertisedEven
<1>6. \A c : IsTarget(c)' <=> IsTarget(c) /\ c # h
  <2>1. \A c : IsTarget(c)' => IsTarget(c) /\ c # h
    BY <1>3, <1>4 DEF IsTarget
  <2>2. ASSUME NEW c, IsTarget(c), c # h PROVE IsTarget(c)'
    <3>1. PICK i \in DOMAIN targets : targets[i] = c
      BY <2>2 DEF IsTarget
    <3>2. i - 1 \in DOMAIN targets' /\ (i - 1) + 1 = i
      BY <1>3, <2>2, <3>1
    <3>3. targets'[i - 1] = c
      BY <1>3, <3>1, <3>2
    <3> QED BY <3>2, <3>3 DEF IsTarget
  <2> QED BY <2>1, <2>2
<1>7. IsTarget(h)
  BY <1>3 DEF IsTarget
<1>8. ASSUME NEW c \in connected PROVE given'[c] = q + (IF IsTarget(c)' THEN 0 ELSE 1)
  <2>1. CASE c = h
    BY <1>2, <1>3, <1>5, <1>6, <1>7, <2>1
  <2>2. CASE c # h
    BY <1>2, <1>5, <1>6, <2>2
  <2> QED BY <2>1, <2>2
<1> QED BY <1>2, <1>8 DEF AdvertisedEven

\* A job in round_robin mode: the turn goes to the next rank, or a new round begins.
LEMMA RoundRobinJob ==
  ASSUME RunTypeOK, Paced, QueueJob, mode = "round_robin", RoundRobinEven, conns \in InOrder(connected),
         Head(targets) \in connected, Rank(Head(targets)) = Turn, Len(targets) <= next
  PROVE  RoundRobinEven'
<1>1. PICK h : h = Head(targets)
  OBVIOUS
<1>2. /\ targets # <<>> /\ targets \in Seq(Conns) /\ given \in [Conns -> Nat] /\ next' = next /\ next \in Nat
      /\ targets' = Tail(targets) /\ given' = [given EXCEPT ![h] = @ + 1] /\ connected' = connected
      /\ connected \in SUBSET Conns /\ h \in connected
  BY <1>1 DEF QueueJob, RunTypeOK
<1>3. Len(targets) = 1 /\ Len(targets') = 0
  <2>1. Len(targets) \in Nat \ {0} /\ Len(targets) <= 1 /\ Len(targets') = Len(targets) - 1
    BY <1>2 DEF Paced
  <2> QED BY <2>1
<1> DEFINE n == Cardinality(connected)
           t == Turn
<1>4. /\ n \in Nat /\ Len(conns) = n
      /\ \A c \in connected : Rank(c) \in 0 .. n - 1
      /\ \A c, d \in connected : Rank(c) = Rank(d) => c = d
  BY <1>2, InOrderRank, Ranks
<1>5. n \in Nat \ {0} /\ Rank(h) = t
  BY <1>1, <1>2, <1>4
<1>6. Turn' = IF t = n - 1 THEN 0 ELSE t + 1
  <2>1. next - 1 \in Nat /\ (next - 1) + 1 = next /\ next - 0 = next
    BY <1>2, <1>3
  <2>2. t = (next - 1) % n /\ Turn' = next % n
    BY <1>2, <1>3, <2>1 DEF Turn
  <2> HIDE DEF n, t
  <2> QED BY <1>5, <2>1, <2>2, NextTurn
<1>7. PICK q \in Int : \A c \in connected : given[c] = q + (IF Rank(c) < t THEN 1 ELSE 0)
  BY DEF RoundRobinEven
<1>8. \A c : Rank(c)' = Rank(c)
  BY <1>2 DEF Rank
<1> HIDE DEF n, t
<1>9. \A c \in connected : given'[c] = q + (IF Rank(c) < t \/ Rank(c) = t THEN 1 ELSE 0)
  <2> SUFFICES ASSUME NEW c \in connected
               PROVE  given'[c] = q + (IF Rank(c) < t \/ Rank(c) = t THEN 1 ELSE 0)
    OBVIOUS
  <2>1. CASE c = h
    <3>1. given'[c] = given[c] + 1 /\ ~ (Rank(c) < t) /\ Rank(c) = t
      BY <1>2, <1>4, <1>5, <2>1
    <3> QED BY <1>7, <3>1
  <2>2. CASE c # h
    <3>1. given'[c] = given[c] /\ Rank(c) # t
      BY <1>2, <1>4, <1>5, <2>2
    <3> QED BY <1>7, <3>1
  <2> QED BY <2>1, <2>2
<1>10. CASE t = n - 1
  <2>1. \A c \in connected : given'[c] = (q + 1) + (IF Rank(c)' < Turn' THEN 1 ELSE 0)
    BY <1>4, <1>5, <1>6, <1>8, <1>9, <1>10
  <2>2. q + 1 \in Int
    OBVIOUS
  <2> QED BY <1>2, <2>1, <2>2 DEF RoundRobinEven
<1>11. CASE t # n - 1
  <2>1. t \in 0 .. n - 1
    BY <1>2, <1>4, <1>5
  <2>2. \A c \in connected : given'[c] = q + (IF Rank(c)' < Turn' THEN 1 ELSE 0)
    <3>1. Turn' = t + 1
      BY <1>6, <1>11
    <3>2. \A c \in connected : Rank(c) < t + 1 <=> Rank(c) < t \/ Rank(c) = t
      BY <1>4, <2>1
    <3> QED BY <1>8, <1>9, <3>1, <3>2
  <2> QED BY <1>2, <2>2 DEF RoundRobinEven
<1> QED BY <1>10, <1>11

\* A job keeps the load even.
LEMMA EvenJob == RunTypeOK /\ Paced /\ Even /\ QueueJob => Even'
<1> SUFFICES ASSUME RunTypeOK, Paced, Even, QueueJob PROVE Even'
  OBVIOUS
<1>1. PICK h : h = Head(targets)
  OBVIOUS
<1>2. /\ phase = "step" /\ phase' = "step" /\ targets # <<>> /\ targets \in Seq(Conns)
      /\ targets' = Tail(targets) /\ given' = [given EXCEPT ![h] = @ + 1] /\ given \in [Conns -> Nat]
      /\ next' = next /\ mode' = mode /\ connected' = connected /\ churned' = churned /\ conns' = conns
      /\ next \in Nat /\ connected \in SUBSET Conns
  BY <1>1 DEF QueueJob, RunTypeOK
<1>3. /\ h = targets[1] /\ 1 \in DOMAIN targets /\ Len(targets) \in Nat \ {0}
      /\ DOMAIN targets = 1 .. Len(targets) /\ DOMAIN targets' = 1 .. Len(targets) - 1
      /\ Len(targets') = Len(targets) - 1
      /\ \A i \in DOMAIN targets' : targets'[i] = targets[i + 1] /\ i + 1 \in DOMAIN targets
  BY <1>1, <1>2
<1>4. mode = "round_robin" => Len(targets') <= next'
  BY <1>2, <1>3 DEF Even
<1>5. ASSUME ~ churned
      PROVE  /\ conns \in InOrder(connected)
             /\ \A c \in Conns \ connected : given'[c] = 0
             /\ \A i \in DOMAIN targets' : targets'[i] \in connected
             /\ mode = "advertised" => AdvertisedEven'
             /\ mode = "round_robin" => RoundRobinEven' /\ targets' = <<>>
  <2>1. /\ conns \in InOrder(connected) /\ \A c \in Conns \ connected : given[c] = 0
        /\ \A i \in DOMAIN targets : targets[i] \in connected
    BY <1>2, <1>5 DEF Even
  <2>2. h \in connected
    BY <1>3, <2>1
  <2>3. \A c \in Conns \ connected : given'[c] = 0
    BY <1>2, <2>1, <2>2
  <2>4. \A i \in DOMAIN targets' : targets'[i] \in connected
    BY <1>3, <2>1
  <2>5. mode = "advertised" => AdvertisedEven'
    BY <1>2, <1>5, AdvertisedJob DEF Even
  <2>6. ASSUME mode = "round_robin" PROVE RoundRobinEven' /\ targets' = <<>>
    <3>1. RoundRobinEven /\ Rank(Head(targets)) = Turn /\ Len(targets) <= next
      BY <1>2, <1>5, <2>6 DEF Even
    <3>2. RoundRobinEven'
      BY <1>1, <2>1, <2>2, <2>6, <3>1, RoundRobinJob
    <3>3. Len(targets) <= 1
      BY <2>6 DEF Paced
    <3>4. Len(targets') = 0 /\ targets' \in Seq(Conns)
      BY <1>2, <1>3, <3>3
    <3> QED BY <3>2, <3>4
  <2> QED BY <2>1, <2>3, <2>4, <2>5, <2>6
<1> QED BY <1>2, <1>4, <1>5 DEF Even

\* Wherever the loop is left, nobody is ahead by more than one job.
LEMMA EvenLevel ==
  ASSUME RunTypeOK, AdvertisedEven \/ RoundRobinEven
  PROVE  Level
<1>1. PICK q \in Int : \A c \in connected : given[c] = q \/ given[c] = q + 1
  BY DEF AdvertisedEven, RoundRobinEven
<1> QED BY <1>1 DEF Level

\* The other steps of RunStress give nobody a job.
LEMMA EvenRest ==
  RunTypeOK /\ Paced /\ Even /\ (TurnEnds \/ ContextDone \/ WorkersJoined \/ Return) => Even'
<1> SUFFICES ASSUME RunTypeOK, Paced, Even, TurnEnds \/ ContextDone \/ WorkersJoined \/ Return
             PROVE  Even'
  OBVIOUS
<1>1. CASE TurnEnds
  <2>1. /\ phase = "step" /\ phase' = "select" /\ UNCHANGED <<connected, mode, conns, targets, next, given, churned>>
        /\ targets = <<>>
    BY <1>1 DEF TurnEnds, jobVars
  <2>2. AdvertisedEven => AdvertisedEven'
    BY <2>1 DEF AdvertisedEven, IsTarget
  <2>3. RoundRobinEven => RoundRobinEven'
    BY <2>1 DEF RoundRobinEven, IsTarget, Rank, Turn
  <2> QED BY <2>1, <2>2, <2>3 DEF Even
<1>2. CASE ContextDone \/ WorkersJoined
  <2>1. /\ phase' \in {"join", "total"} /\ phase \in {"select", "step", "join"} /\ targets' = <<>>
        /\ UNCHANGED <<connected, mode, conns, next, given, churned>>
    BY <1>2 DEF ContextDone, WorkersJoined, jobVars, Paced
  <2>2. phase # "idle" /\ ~ churned => Level
    BY <2>1, EvenLevel DEF Even, RunTypeOK, Modes
  <2>3. Level => Level'
    BY <2>1 DEF Level
  <2>4. Len(targets') = 0 /\ DOMAIN targets' = {} /\ next \in Nat
    BY <2>1 DEF RunTypeOK
  <2> QED BY <2>1, <2>2, <2>3, <2>4 DEF Even
<1>3. CASE Return
  <2>1. phase' = "idle" /\ next' = 0 /\ mode' = "advertised"
    BY <1>3 DEF Return
  <2> QED BY <2>1 DEF Even
<1> QED BY <1>1, <1>2, <1>3

\* When a client comes or goes the balance is over.
LEMMA EvenChurn == RunTypeOK /\ Even /\ Churn => Even'
  BY DEF Even, Churn, loopVars

\* The clock and the workers do not touch it.
LEMMA EvenSame == Even /\ UNCHANGED evenVars => Even'
  BY DEF Even, evenVars, AdvertisedEven, RoundRobinEven, Level, IsTarget, Rank, Turn

EvenInv == PacedInv /\ Even

\* While no connection comes or goes, no connected client has had more than one job more than
\* another, in both modes and wherever the loop is interrupted.
THEOREM LoadIsEven == Spec => []EvenLoad
<1>1. Init => EvenInv
  BY TypeInit, PacedInit, EvenInit DEF EvenInv, PacedInv
<1>2. EvenInv /\ [Next]_vars => EvenInv'
  <2> SUFFICES ASSUME EvenInv, [Next]_vars PROVE Even'
    BY PacedStays DEF EvenInv
  <2>1. RunTypeOK /\ Paced /\ Even
    BY DEF EvenInv, PacedInv, TypeInv, TypeOK
  <2>2. CASE RunLoop \/ Start
    BY <2>1, <2>2, EvenStart, EvenTick, EvenStepAll, EvenStepOne, EvenJob, EvenRest DEF RunLoop
  <2>3. CASE Churn
    BY <2>1, <2>3, EvenChurn
  <2>4. CASE Pass \/ (\E w \in Workers : Worker(w)) \/ UNCHANGED runVars
    <3>1. UNCHANGED evenVars
      BY <2>4 DEF Pass, Worker, TakeJob, SendReturns, WorkerEnds, runVars, loopVars, jobVars, evenVars
    <3> QED BY <2>1, <3>1, EvenSame
  <2> QED BY <2>2, <2>3, <2>4, RunNext DEF RunStep
<1>3. EvenInv => EvenLoad
  <2> SUFFICES ASSUME EvenInv, phase # "idle", ~ churned
               PROVE  Level /\ \A c \in Conns \ connected : given[c] = 0
    BY DEF EvenLoad, Level
  <2>1. RunTypeOK /\ Even
    BY DEF EvenInv, PacedInv, TypeInv, TypeOK
  <2> QED BY <2>1, EvenLevel DEF Even, RunTypeOK, Modes
<1> QED BY <1>1, <1>2, <1>3, PTL DEF Spec
=============================================================================
