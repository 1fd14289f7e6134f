\* The largest sets that the assumption on the constants allows: the exchanges of
\* smaller ones are among these.  Deadlock is not checked: an exchange ends with its
\* reply.
SPECIFICATION Spec
CONSTANTS
  MTIs = {100, 101, 200, 201, 420, 421, 800}
  LastDigits = {0, 1, 2, 3, 4, 5, 6, 7, 8, 9}
  Amounts = {0, 1, 2, 3, 4, 5, 6, 7, 8, 9}
  TagSets = {
    {}, {"SUPPORT"}, {"RETURNBAL"}, {"SUPPORT", "RETURNBAL"},
    {"CV"}, {"SUPPORT", "CV"}, {"RETURNBAL", "CV"}, {"SUPPORT", "RETURNBAL", "CV"},
    {"OtherCV"}, {"SUPPORT", "OtherCV"}, {"RETURNBAL", "OtherCV"},
    {"SUPPORT", "RETURNBAL", "OtherCV"}}
  Unread = Unread
CHECK_DEADLOCK FALSE
INVARIANTS ReadsAsMeant ReplyFindsRequest
