\* One run with the default correction budget, fair steps.
CONSTANTS
  MaxAttempts = 3
  MaxRuns = 1
SPECIFICATION FairSpec
INVARIANTS
  AnswerIsOfShownSql
  BudgetSpentBeforeGivingUp
  DiagnosisOfParsedSql
PROPERTIES
  RunsTerminate
