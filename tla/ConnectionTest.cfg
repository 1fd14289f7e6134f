\* Three tests, so that a second of them can find its channel taken twice.
\* Deadlock is not checked: tests end.
SPECIFICATION FairSpec
CONSTANTS
  NoTest = NoTest
  t1 = t1
  t2 = t2
  t3 = t3
  Tests = {t1, t2, t3}
  Timeout = 2
  Seconds = 4
CHECK_DEADLOCK FALSE
 
PROPERTIES  TestsEnd
