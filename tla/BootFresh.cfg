SPECIFICATION FairSpec
CONSTANTS
  Container = {c1, c2}
  Dim = {768, 1536}
  DeclaredDim = 1536
  FirstDim = 768
  LastVersion = 3
  MaxTroubles = 1
  MaxSwitches = 2
PROPERTY FreshBootServes
CHECK_DEADLOCK FALSE
