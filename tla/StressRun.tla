------------------------------ MODULE StressRun ------------------------------
(***************************************************************************)
(* RunStress of network/server/iso_server.go: the loop that works out from *)
(* the clock how many steps are due, the channel of jobs, and the workers  *)
(* that send them (sendSingleMessage, the subject of IsoConnection).       *)
(*                                                                         *)
(* Time is counted in ticks of the ticker.  A job is the connection it     *)
(* sends on; connections are numbers, in the order of their client IDs.    *)
(***************************************************************************)
EXTENDS Naturals, Sequences, FiniteSets

CONSTANTS
  Conns,      \* the clients that may be connected
  Workers,    \* the goroutines of the pool, stressWorkers of them
  JobsSize,   \* the capacity of the jobs channel
  Rate,       \* steps due per second (RequestPerSecond)
  PerSecond,  \* ticks per second
  Duration,   \* the ticks until the context ends (TestTimeSecs)
  MaxClock,   \* the clock is followed this far (a bound)
  NoTick      \* ticker.C is empty

ASSUME StressRunAssumption ==
  /\ Conns \subseteq Nat /\ IsFiniteSet(Conns)
  /\ IsFiniteSet(Workers) /\ Workers # {}
  /\ JobsSize \in Nat \ {0}
  /\ Rate \in Nat \ {0} /\ PerSecond \in Nat \ {0}
  /\ Duration \in Nat \ {0} /\ MaxClock \in Nat /\ MaxClock >= Duration
  /\ NoTick \notin Nat

VARIABLES
  connected,  \* the clients in connMap
  phase,      \* RunStress: idle, select, step, join or total
  mode,       \* advertised or round_robin
  clock,      \* ticks since the test began
  tick,       \* ticker.C
  conns,      \* the snapshot of the connections for this turn of the loop
  due,        \* the steps due in this turn
  targets,    \* the connections of the step that have yet to be queued
  steps, next, count,
  jobs,       \* the channel of jobs
  total,      \* total_requests of the test's row
  worker,     \* each worker: wait, send or ended
  \* history variables
  given,      \* the jobs queued for each connection in this test
  sends,      \* the calls of sendSingleMessage that have returned
  churned     \* connections have come or gone during this test

loopVars == <<phase, mode, total, tick, conns, due, targets, steps, next>>
jobVars == <<count, jobs, given>>
runVars == <<connected, clock, loopVars, jobVars, worker, sends, churned>>

Modes == {"advertised", "round_robin"}

-----------------------------------------------------------------------------
RunInit ==
  /\ connected \in SUBSET Conns
  /\ phase = "idle" /\ mode = "advertised" /\ total = 0
  /\ worker = [w \in Workers |-> "ended"]
  /\ clock = 0 /\ tick = NoTick
  /\ conns = <<>> /\ due = 0 /\ targets = <<>>
  /\ steps = 0 /\ next = 0 /\ count = 0 /\ jobs = <<>>
  /\ given = [c \in Conns |-> 0] /\ sends = 0 /\ churned = FALSE

\* RunStress is called: the workers are started and the clock is read.
Start ==
  /\ phase = "idle"
  /\ phase' = "select"
  /\ mode' \in Modes
  /\ worker' = [w \in Workers |-> "wait"]
  /\ total' = 0
  /\ UNCHANGED <<connected, clock, tick, conns, due, targets, steps, next, jobVars, sends,
                 churned>>

-----------------------------------------------------------------------------
(* The loop                                                                *)

\* A mutant of Due: a step is due at once.
DueEarly(t) == (t * Rate) \div PerSecond + 1

\* int(now.Sub(start).Seconds() * RequestPerSecond)
Due(t) == (t * Rate) \div PerSecond

\* connections: a snapshot of the map, sorted
InOrder(S) ==
  {cs \in [1 .. Cardinality(S) -> S] : \A i, j \in DOMAIN cs : i < j => cs[i] < cs[j]}

\* A tick is received: the steps due are worked out from its time, which may be
\* long past, and the connections are looked up.
TickReceived ==
  /\ phase = "select" /\ tick # NoTick
  /\ due' = Due(tick)
  /\ tick' = NoTick
  /\ conns' \in InOrder(connected)
  /\ phase' = "step"
  /\ UNCHANGED <<connected, clock, total, mode, targets, steps, next, jobVars, worker, sends, churned>>

\* A mutant of NodeTargets: the position is not kept from one tick to the next.
FirstTarget(cs) ==
  IF mode = "advertised" \/ cs = <<>>
  THEN targets' = cs /\ UNCHANGED next
  ELSE targets' = <<cs[1]>> /\ UNCHANGED next

\* nodeTargets: everyone, or the next one in turn
NodeTargets(cs) ==
  IF mode = "advertised" \/ cs = <<>>
  THEN targets' = cs /\ UNCHANGED next
  ELSE /\ targets' = <<cs[(next % Len(cs)) + 1]>>
       /\ next' = next + 1

\* The next step that is due; with no connection at all it is over at once.
NextStep ==
  /\ phase = "step" /\ targets = <<>> /\ steps < due
  /\ NodeTargets(conns)
  /\ steps' = steps + (IF conns = <<>> THEN 1 ELSE 0)
  /\ UNCHANGED <<connected, clock, total, phase, mode, tick, conns, due, jobVars, worker, sends,
                 churned>>

\* A job is queued when there is room; with its last one the step has been made.
QueueJob ==
  /\ phase = "step" /\ targets # <<>> /\ Len(jobs) < JobsSize
  /\ jobs' = Append(jobs, Head(targets))
  /\ given' = [given EXCEPT ![Head(targets)] = @ + 1]
  /\ count' = count + 1
  /\ targets' = Tail(targets)
  /\ steps' = steps + (IF Len(targets) = 1 THEN 1 ELSE 0)
  /\ UNCHANGED <<connected, clock, total, phase, mode, tick, conns, due, next, worker, sends,
                 churned>>

\* The turn is over: everything due has been queued.
TurnEnds ==
  /\ phase = "step" /\ targets = <<>> /\ steps >= due
  /\ phase' = "select"
  /\ UNCHANGED <<connected, clock, total, mode, tick, conns, due, targets, steps, next, jobVars,
                 worker, sends, churned>>

\* ctx.Done is picked by either select: the loop is left, maybe in the middle of
\* a step, and jobs is closed.
ContextDone ==
  /\ phase = "select" \/ (phase = "step" /\ targets # <<>>)
  /\ clock >= Duration
  /\ phase' = "join"
  /\ targets' = <<>>
  /\ UNCHANGED <<connected, clock, total, mode, tick, conns, due, steps, next, jobVars, worker, sends,
                 churned>>

\* A mutant of WorkersJoined: RunStress does not wait for its workers.
NotJoined ==
  /\ phase = "join"
  /\ phase' = "total"
  /\ UNCHANGED <<connected, clock, total, mode, tick, conns, due, targets, steps, next, jobVars,
                 worker, sends, churned>>

\* workers.Wait returns.
WorkersJoined ==
  /\ phase = "join"
  /\ \A w \in Workers : worker[w] = "ended"
  /\ phase' = "total"
  /\ UNCHANGED <<connected, clock, total, mode, tick, conns, due, targets, steps, next, jobVars,
                 worker, sends, churned>>

\* SetTotalRequests, whose write may be lost, and RunStress returns; its
\* locals are as before the next call.
Return ==
  /\ phase = "total"
  /\ phase' = "idle"
  /\ total' \in {count, total}
  /\ clock' = 0 /\ tick' = NoTick
  /\ conns' = <<>> /\ due' = 0 /\ targets' = <<>>
  /\ steps' = 0 /\ next' = 0 /\ count' = 0 /\ jobs' = <<>>
  /\ given' = [c \in Conns |-> 0] /\ sends' = 0 /\ churned' = FALSE
  /\ mode' = "advertised"
  /\ UNCHANGED <<connected, worker>>

-----------------------------------------------------------------------------
(* The workers                                                             *)

TakeJob(w) ==
  /\ worker[w] = "wait" /\ jobs # <<>>
  /\ worker' = [worker EXCEPT ![w] = "send"]
  /\ jobs' = Tail(jobs)
  /\ UNCHANGED <<connected, clock, loopVars, count, given, sends, churned>>

\* sendSingleMessage returns, whatever has become of the message.
SendReturns(w) ==
  /\ worker[w] = "send"
  /\ worker' = [worker EXCEPT ![w] = "wait"]
  /\ sends' = sends + 1
  /\ UNCHANGED <<connected, clock, loopVars, jobVars, churned>>

\* jobs is closed and empty.
WorkerEnds(w) ==
  /\ worker[w] = "wait" /\ jobs = <<>> /\ phase = "join"
  /\ worker' = [worker EXCEPT ![w] = "ended"]
  /\ UNCHANGED <<connected, clock, loopVars, jobVars, sends, churned>>

-----------------------------------------------------------------------------
\* Time passes; the ticker drops its tick while the last one has not been taken.
Pass ==
  /\ phase \in {"select", "step"} /\ clock < MaxClock
  /\ clock' = clock + 1
  /\ tick' = IF tick = NoTick THEN clock + 1 ELSE tick
  /\ UNCHANGED <<connected, phase, mode, total, conns, due, targets, steps, next, jobVars, worker, sends,
                 churned>>

\* A client connects, or a connection is closed.
Churn ==
  /\ phase \in {"select", "step"} /\ ~ churned
  /\ connected' \in (SUBSET Conns) \ {connected}
  /\ churned' = TRUE
  /\ UNCHANGED <<clock, loopVars, jobVars, worker, sends>>

RunLoop == TickReceived \/ NextStep \/ QueueJob \/ TurnEnds \/ ContextDone \/ WorkersJoined \/ Return
Worker(w) == TakeJob(w) \/ SendReturns(w) \/ WorkerEnds(w)

\* What happens in RunStress once it has been called
RunStep == RunLoop \/ (\E w \in Workers : Worker(w)) \/ Pass

-----------------------------------------------------------------------------
RunTypeOK ==
  /\ connected \subseteq Conns
  /\ phase \in {"idle", "select", "step", "join", "total"}
  /\ mode \in Modes
  /\ clock \in 0 .. MaxClock
  /\ tick \in 1 .. MaxClock \cup {NoTick}
  /\ conns \in Seq(Conns) /\ targets \in Seq(Conns)
  /\ due \in Nat /\ steps \in Nat
  /\ next \in Nat /\ count \in Nat /\ total \in Nat /\ sends \in Nat
  /\ jobs \in Seq(Conns) /\ Len(jobs) <= JobsSize
  /\ worker \in [Workers -> {"wait", "send", "ended"}]
  /\ given \in [Conns -> Nat]
  /\ churned \in BOOLEAN

\* The jobs counted are exactly those that workers have sent, are sending or have
\* yet to take; when the total is recorded every one has been sent, and no worker
\* is left that could still send, also when the context ends in mid-step.
CountedAreSent ==
  /\ phase # "idle" =>
       count = sends + Len(jobs) + Cardinality({w \in Workers : worker[w] = "send"})
  /\ phase = "total" => count = sends

\* The load stays below the rate the test asks for, at each moment and for each
\* node, however late the loop is: what is late is made up for, and no more.
NeverAhead ==
  /\ steps * PerSecond <= clock * Rate
  /\ mode = "round_robin" => count * PerSecond <= clock * Rate
  /\ mode = "advertised" => \A c \in Conns : given[c] * PerSecond <= clock * Rate

\* While no connection comes or goes, the connected nodes have had the same number
\* of messages but for one, in both modes and wherever the loop is interrupted.
EvenLoad ==
  phase # "idle" /\ ~ churned =>
    /\ \A c, d \in connected : given[c] <= given[d] + 1
    /\ \A c \in Conns \ connected : given[c] = 0
=============================================================================
