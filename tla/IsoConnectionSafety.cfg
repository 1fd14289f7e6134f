\* Two requests share a channel of one place with a plain message, one statement
\* may be lost, the connection and the database may be closed at any time.
\* Deadlock is not checked: a connection ends with its goroutines.
SPECIFICATION Spec
CONSTANTS
  NoMTI = NoMTI
  r1 = r1
  r2 = r2
  References = {r1, r2}
  Templates <- MCTemplates
  ResponseMTIs <- MCResponseMTIs
  QueueSize = 1
  MaxPlain = 1
  MaxFaults = 1
SYMMETRY ReferenceSymmetry
CHECK_DEADLOCK FALSE
INVARIANTS AwaitedHasItsRow RightRowAnswered UnansweredIsOnItsWay  SentOnceInOrder FollowUpHasItsOriginal
