\* Two connections that may have the same address, used again also while
\* the earlier connection is being closed; Stop at any time.
\* Deadlock is not checked: a server that has been stopped does nothing more.
SPECIFICATION FairSpec
CONSTANTS
  NoConn = NoConn
  c1 = c1
  c2 = c2
  a1 = a1
  a2 = a2
  Conns = {c1, c2}
  ClientIds = {a1, a2}
CHECK_DEADLOCK FALSE
INVARIANTS NoDeadEntries LiveIsRegistered OpenHasOwner
PROPERTIES StopLeavesLatecomers GoneIsRemoved StopReturns
