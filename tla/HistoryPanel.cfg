SPECIFICATION Spec
CONSTANTS
  Session = {s1, s2}
  PAGE_SIZE = 1
  MaxRows = 3
  MaxActs = 4
CHECK_DEADLOCK FALSE
INVARIANTS SentOnce SettledVerdictsAgree SettledListIsOfScope
PROPERTY StagedEnds
