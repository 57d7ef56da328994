SPECIFICATION Spec
CONSTANTS
  Thread = {t1, t2}
  Seeder = {s1}
  Question = {q1}
  Query = {a1}
  MaxRuns = 2
  MaxIds = 3
  MaxRebuilds = 1
INVARIANTS
  IdsAreSound
  RejectDisables
  DuplicatesOnlyFromRaces
  LinksStayOnThread
CHECK_DEADLOCK FALSE
SYMMETRY Symmetry
