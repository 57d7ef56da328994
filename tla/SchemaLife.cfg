SPECIFICATION Spec
CONSTANTS
  Table = {t1, t2}
  Column = {a, b}
  Described = {t1}
  Manifest = {m1, m2}
  Embedder = {e1, e2}
  MaxAlters = 1
  MaxEdits = 2
  MaxEmbeds = 2
  NoManifest = none
SYMMETRY Alike
INVARIANTS EmbedCures InSyncIsEmbedded RowsOfOneEmbed
CHECK_DEADLOCK FALSE
