SPECIFICATION FairSpec
CONSTANTS
  Container = {c1, c2}
  Dim = {768, 1536}
  DeclaredDim = 1536
  FirstDim = 1536
  LastVersion = 3
  MaxTroubles = 1
  MaxSwitches = 2
INVARIANTS ServingIsMigrated ServingAligned
PROPERTY DeclaredBootServes
CHECK_DEADLOCK FALSE
