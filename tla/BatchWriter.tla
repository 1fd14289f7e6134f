---------------------------- MODULE BatchWriter -----------------------------
(***************************************************************************)
(* database/batch_writer.go: callers queue writes with enqueue, one        *)
(* goroutine (run) groups what is queued into transactions, and Close      *)
(* stops accepting writes and flushes.                                     *)
(*                                                                         *)
(* A write is [caller, n]: the n-th write a goroutine tries to queue.  The *)
(* statement it carries is not looked at here; what matters is which       *)
(* writes reach the database and in which order.                           *)
(***************************************************************************)
EXTENDS Naturals, Sequences

CONSTANTS
  Callers,    \* the goroutines that call enqueue
  MaxCalls,   \* how many writes each of them tries to queue (a bound)
  QueueSize,  \* writeQueueSize
  MaxBatch,   \* maxBatchSize
  NotClosed   \* closeMark before Close is called

ASSUME BatchWriterAssumption ==
  /\ MaxCalls \in Nat
  /\ QueueSize \in Nat \ {0}
  /\ MaxBatch \in Nat \ {0}
  /\ NotClosed \notin Nat

VARIABLES
  writes,    \* the buffered channel of queued writes
  done,      \* the done channel has been closed
  run,       \* where the run goroutine is: wait, fill, commit or stopped
  flushing,  \* run has left its main loop for the flush loop
  batch,     \* the writes of the transaction being put together
  pc,        \* where each caller is: idle, or at the second select of enqueue
  calls,     \* how many times each caller has called enqueue
  closer,    \* the goroutine that calls Close: idle, waiting or returned
  \* history variables
  accepted,  \* the writes whose send on the channel succeeded, in order
  journal,   \* the writes that went through commit, with their outcome
  closeMark  \* how many writes were accepted when done was closed

runVars == <<run, flushing, batch, journal>>
callerVars == <<pc, calls, accepted>>
closeVars == <<done, closer, closeMark>>
vars == <<writes, runVars, callerVars, closeVars>>

Op == [caller : Callers, n : 1 .. MaxCalls]

\* run closes the finished channel on its way out
finished == run = "stopped"

\* The writes of the journal, without their outcomes
Settled == [i \in 1 .. Len(journal) |-> journal[i].op]

TypeOK ==
  /\ writes \in Seq(Op) /\ Len(writes) <= QueueSize
  /\ done \in BOOLEAN
  /\ run \in {"wait", "fill", "commit", "stopped"}
  /\ flushing \in BOOLEAN
  /\ batch \in Seq(Op) /\ Len(batch) <= MaxBatch
  /\ pc \in [Callers -> {"idle", "select"}]
  /\ calls \in [Callers -> 0 .. MaxCalls]
  /\ \A p \in Callers : pc[p] = "select" => calls[p] >= 1
  /\ closer \in {"idle", "waiting", "returned"}
  /\ accepted \in Seq(Op)
  /\ journal \in Seq([op : Op, applied : BOOLEAN])
  /\ closeMark \in Nat \cup {NotClosed}

-----------------------------------------------------------------------------
Init ==
  /\ writes = <<>>
  /\ done = FALSE
  /\ run = "wait" /\ flushing = FALSE /\ batch = <<>>
  /\ pc = [p \in Callers |-> "idle"]
  /\ calls = [p \in Callers |-> 0]
  /\ closer = "idle"
  /\ accepted = <<>> /\ journal = <<>> /\ closeMark = NotClosed

-----------------------------------------------------------------------------
(* enqueue: a non-blocking look at done, then a select on the send and done.*)

\* A mutant of EnqueueCheck, without the first select.
EnqueueNoCheck(p) ==
  /\ pc[p] = "idle" /\ calls[p] < MaxCalls
  /\ calls' = [calls EXCEPT ![p] = @ + 1]
  /\ pc' = [pc EXCEPT ![p] = "select"]
  /\ UNCHANGED <<writes, accepted, runVars, closeVars>>

\* The first select: a caller that finds done closed gets errDBClosed at once.
EnqueueCheck(p) ==
  /\ pc[p] = "idle" /\ calls[p] < MaxCalls
  /\ calls' = [calls EXCEPT ![p] = @ + 1]
  /\ pc' = IF done THEN pc ELSE [pc EXCEPT ![p] = "select"]
  /\ UNCHANGED <<writes, accepted, runVars, closeVars>>

\* The second select when it picks the send; blocked while the channel is full.
EnqueueSend(p) ==
  /\ pc[p] = "select"
  /\ Len(writes) < QueueSize
  /\ LET op == [caller |-> p, n |-> calls[p]]
     IN  /\ writes' = Append(writes, op)
         /\ accepted' = Append(accepted, op)
  /\ pc' = [pc EXCEPT ![p] = "idle"]
  /\ UNCHANGED <<calls, runVars, closeVars>>

\* A mutant of EnqueueClosed: the second select does not look at done.
EnqueueBlocks(p) == FALSE

\* The second select when it picks done: errDBClosed.
EnqueueClosed(p) ==
  /\ pc[p] = "select"
  /\ done
  /\ pc' = [pc EXCEPT ![p] = "idle"]
  /\ UNCHANGED <<writes, calls, accepted, runVars, closeVars>>

-----------------------------------------------------------------------------
(* run: the goroutine that owns the database connection for writes.        *)

\* The outer select picks a queued write and starts a batch with it.
Receive ==
  /\ run = "wait" /\ writes # <<>>
  /\ batch' = <<Head(writes)>>
  /\ writes' = Tail(writes)
  /\ run' = "fill"
  /\ UNCHANGED <<flushing, journal, callerVars, closeVars>>

\* A mutant of SeeDone: done is noticed only when a write wakes the goroutine.
SeeDoneLate ==
  /\ run = "wait" /\ done /\ writes # <<>>
  /\ flushing' = TRUE
  /\ batch' = <<>>
  /\ run' = "fill"
  /\ UNCHANGED <<writes, journal, callerVars, closeVars>>

\* The outer select picks done, even when writes are queued.
SeeDone ==
  /\ run = "wait" /\ done
  /\ flushing' = TRUE
  /\ batch' = <<>>
  /\ run' = "fill"
  /\ UNCHANGED <<writes, journal, callerVars, closeVars>>

CanFill == Len(batch) < MaxBatch /\ writes # <<>>

\* One turn of the loop that drains the channel into the batch.
Fill ==
  /\ run = "fill" /\ CanFill
  /\ batch' = Append(batch, Head(writes))
  /\ writes' = Tail(writes)
  /\ UNCHANGED <<run, flushing, journal, callerVars, closeVars>>

\* The end of that loop; only the flush loop can end it with nothing to commit.
EndFill ==
  /\ run = "fill" /\ ~ CanFill
  /\ run' = IF batch = <<>> THEN "stopped" ELSE "commit"
  /\ UNCHANGED <<writes, flushing, batch, journal, callerVars, closeVars>>

\* A mutant of AfterCommit: after a batch, run returns at once when done is closed.
StopAfterCommit == IF done THEN "stopped" ELSE "wait"

\* Where commit returns to: the flush loop or the main loop
AfterCommit == IF flushing THEN "fill" ELSE "wait"

\* The outcomes of a batch, appended to the journal
Journalled(b) ==
  \E outcome \in [1 .. Len(b) -> BOOLEAN] :
    journal' = journal \o [i \in 1 .. Len(b) |-> [op |-> b[i], applied |-> outcome[i]]]

\* A mutant of Commit: the batch is not emptied before the next one is built.
CommitKeepsBatch ==
  /\ run = "commit"
  /\ Journalled(batch)
  /\ UNCHANGED batch
  /\ run' = AfterCommit
  /\ UNCHANGED <<writes, flushing, callerVars, closeVars>>

\* commit: a failed Begin or Commit loses the batch, a failed Prepare or Exec
\* one write of it; the error is logged and run goes on.
Commit ==
  /\ run = "commit"
  /\ Journalled(batch)
  /\ batch' = <<>>
  /\ run' = AfterCommit
  /\ UNCHANGED <<writes, flushing, callerVars, closeVars>>

-----------------------------------------------------------------------------
(* Close is called once, by StressTestDB.Close at shutdown.                *)

CloseDone ==
  /\ closer = "idle"
  /\ done' = TRUE
  /\ closeMark' = Len(accepted)
  /\ closer' = "waiting"
  /\ UNCHANGED <<writes, runVars, callerVars>>

CloseReturn ==
  /\ closer = "waiting" /\ finished
  /\ closer' = "returned"
  /\ UNCHANGED <<writes, done, closeMark, runVars, callerVars>>

-----------------------------------------------------------------------------
Enqueue(p) == EnqueueCheck(p) \/ EnqueueSend(p) \/ EnqueueClosed(p)
Run == Receive \/ SeeDone \/ Fill \/ EndFill \/ Commit
Close == CloseDone \/ CloseReturn

\* Everything has come to an end (the bound on calls included).
Terminated ==
  /\ closer = "returned"
  /\ \A p \in Callers : pc[p] = "idle" /\ calls[p] = MaxCalls
  /\ UNCHANGED vars

Next == (\E p \in Callers : Enqueue(p)) \/ Run \/ Close \/ Terminated

Spec == Init /\ [][Next]_vars

(***************************************************************************)
(* Fairness: the Go scheduler runs every goroutine that can run, and       *)
(* SQLite ends every call (its busy timeout is finite).  Weak fairness of  *)
(* a send is enough here because MaxCalls bounds the other senders; in Go  *)
(* a blocked sender waits in the channel's FIFO list.  Nobody has to call  *)
(* enqueue or Close.                                                       *)
(***************************************************************************)
Fairness ==
  /\ WF_vars(Run)
  /\ WF_vars(CloseReturn)
  /\ \A p \in Callers : WF_vars(EnqueueSend(p) \/ EnqueueClosed(p))

FairSpec == Spec /\ Fairness

-----------------------------------------------------------------------------
(* Safety                                                                  *)

\* Every write that enqueue accepted is in exactly one place, in the order of
\* acceptance: settled by commit, in the batch being built, or still queued.
\* Nothing is lost, doubled or reordered between a channel and a reused slice
\* (batch[:0]), whatever fails in commit.
Conserved == accepted = Settled \o batch \o writes

\* The writes of one goroutine reach the database in the order it queued them,
\* with none repeated: what "the single FIFO queue keeps a request's INSERT
\* ahead of its response's UPDATE" rests on (batch_writer.go, dao.go).
AppliedInOrder ==
  \A i, j \in 1 .. Len(journal) :
    (i < j /\ journal[i].op.caller = journal[j].op.caller)
      => journal[i].op.n < journal[j].op.n

\* Once the writer has stopped, every write accepted before done was closed has
\* been through commit: the flush loop is not cut short by a queue longer than a
\* batch, nor by a batch in hand when done is closed.
FlushedOnClose == finished => Len(journal) >= closeMark

\* After done is closed a goroutine gets at most one more write accepted (the
\* call that was between the two selects), and none once it has made a new call.
LateAcceptBound ==
  done => /\ \A i, j \in closeMark + 1 .. Len(accepted) :
               accepted[i].caller = accepted[j].caller => i = j
          /\ \A p \in Callers : pc[p] = "select" =>
               \A i \in closeMark + 1 .. Len(accepted) : accepted[i].caller # p

\* What the comment on Close says, read with enqueue's: when Close has returned,
\* every write that enqueue reported as queued has been committed.  The code
\* breaks it: a send that wins the second select after the flush is stranded.
ClosedMeansCommitted == closer = "returned" => Len(journal) = Len(accepted)

-----------------------------------------------------------------------------
(* Liveness                                                                *)

\* Close returns, however much is queued and whatever commits fail.
CloseReturns == closer = "waiting" ~> closer = "returned"

\* A caller of enqueue is never parked for good on a full queue, also when the
\* writer has stopped and will not drain it.
EnqueueReturns == \A p \in Callers : pc[p] = "select" ~> pc[p] = "idle"

-----------------------------------------------------------------------------
(* Refinement                                                              *)

WL == INSTANCE WriteLog WITH Open <- NotClosed, closed <- finished

\* The goroutine, the channel and the batches implement the log of WriteLog.
ImplementsWriteLog == WL!Spec
=============================================================================
