\* One page, three calls: a question and its follow-ups, re-runs from history.
CONSTANTS
  Question = {q1}
  MaxAsks = 3
  MaxAdrift = 1
SPECIFICATION FairSpec
INVARIANTS
  PageIsOfOneReply
  ClarificationsEnd
PROPERTIES
  LoadingEnds
