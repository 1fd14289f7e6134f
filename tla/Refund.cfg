\* Two refund tests of two sales over two connections of one queue place, of which
\* each may come and go; one statement may be lost.
\* Deadlock is not checked: tests end.
SPECIFICATION Spec
CONSTANTS
  Sales = {1, 2}
  Reversible = {1}
  Conns = {1, 2}
  MaxTests = 2
  QueueSize = 1
  WriteQueueSize = 2
  MaxFaults = 1
CHECK_DEADLOCK FALSE
INVARIANTS RefundedTwiceOnlyUnseen FailuresAreRetried
