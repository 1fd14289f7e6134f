\* One sale and one connection are enough: two tests follow each other closely.
\* Deadlock is not checked: tests end.
SPECIFICATION Spec
CONSTANTS
  Sales = {1}
  Reversible = {}
  Conns = {1}
  MaxTests = 2
  QueueSize = 1
  WriteQueueSize = 2
  MaxFaults = 0
CHECK_DEADLOCK FALSE
INVARIANTS RefundedOnce
