\* Two successive runs on one thread, one correction each.
CONSTANTS
  MaxAttempts = 1
  MaxRuns = 2
SPECIFICATION Spec
INVARIANTS
  TypeOK
  ExecutesVerifiedSql
  FreshHighIsClean
  StoresHoldGoodAnswers
  HistoryLinksLearnedExample
PROPERTIES
  ImplementsContract
