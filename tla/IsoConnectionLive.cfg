\* Two requests, a channel of one place: drops, follow-ups and answers in any order; one
\* statement may be lost, the connection and the database may be closed at any time.
\* No plain message: it would only take a place in the channel, as the second request does.
\* Deadlock is not checked: a connection ends with its goroutines.
SPECIFICATION FairSpec
CONSTANTS
  NoMTI = NoMTI
  r1 = r1
  r2 = r2
  References = {r1, r2}
  Templates <- MCTemplates
  ResponseMTIs <- MCResponseMTIs
  QueueSize = 1
  MaxPlain = 0
  MaxFaults = 1
CHECK_DEADLOCK FALSE
PROPERTIES ImplementsRequestLog AnsweredOrDropped FollowUpsTaken
