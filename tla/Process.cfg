\* Two requests in three runs of the process.  A run may take more references than
\* its time allows, and the clock goes far enough for the references to come round.
\* Deadlock is not checked: the process ends.
SPECIFICATION FairSpec
CONSTANTS
  PerMs = 2
  Modulus = 4
  MaxRuns = 3
  MaxSends = 2
  MaxClock = 2
CHECK_DEADLOCK FALSE
INVARIANTS ReferencesDiffer SentAreInTheLog
PROPERTIES PastTestsStand ShutdownEnds
