SPECIFICATION Spec
CONSTANTS
  Caller = {c1, c2}
  TTL = 2
INVARIANTS CachedAnswerIsRecent DegradedSaysWhy
PROPERTY HealthIsRegained
