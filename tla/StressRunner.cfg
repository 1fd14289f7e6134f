\* Two requests, tests of two ticks with three steps due every two ticks, two
\* clients that come and go, and a jobs channel shorter than what is due at once.
\* Deadlock is not checked: when every request has been answered nothing is left to do.
SPECIFICATION FairSpec
CONSTANTS
  NoTest = NoTest
  NoTick = NoTick
  r1 = r1
  r2 = r2
  w1 = w1
  w2 = w2
  Requests = {r1, r2}
  Conns = {1, 2}
  Workers = {w1, w2}
  JobsSize = 2
  Rate = 3
  PerSecond = 2
  Duration = 2
  MaxClock = 3
CHECK_DEADLOCK FALSE
INVARIANTS OneHolder CountedAreSent NeverAhead EvenLoad
PROPERTIES BusyIsFreed ImplementsTestService
