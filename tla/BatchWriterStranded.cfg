\* One write that passes the first select before Close and wins the second after.
SPECIFICATION Spec
CONSTANTS
  p1 = p1
  p2 = p2
  Callers = {p1, p2}
  MaxCalls = 2
  QueueSize = 2
  MaxBatch = 2
  NotClosed = NotClosed
INVARIANTS ClosedMeansCommitted
