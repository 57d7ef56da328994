SPECIFICATION Spec
CONSTANTS
  Run = {r1, r2}
  Evictor = {e1, e2}
  Question = {q1}
  Target = {h, k}
  Home = h
  max_age = 0
  max_entries = 1
  MaxId = 3
  MaxClock = 1
  MaxSwitches = 1
INVARIANTS
  CapMetAfterEviction
  StaleOnlyFromOldApi
  EvictsLeastRecent
CONSTRAINT ThreeAtWork
SYMMETRY Symmetry
