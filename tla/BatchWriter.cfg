\* Three writers and two places, so that a writer is left blocked on a full queue
\* when the run goroutine stops, and a flush that takes more than one batch.
SPECIFICATION FairSpec
CONSTANTS
  p1 = p1
  p2 = p2
  p3 = p3
  Callers = {p1, p2, p3}
  MaxCalls = 2
  QueueSize = 2
  MaxBatch = 2
  NotClosed = NotClosed
INVARIANTS Conserved AppliedInOrder LateAcceptBound
PROPERTIES ImplementsWriteLog CloseReturns EnqueueReturns
