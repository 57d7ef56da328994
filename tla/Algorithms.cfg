\* Every algorithm on every input of its set.
SPECIFICATION Draws
CHECK_DEADLOCK FALSE
CONSTANTS
  schema <- MCschema
  Unqualified = ""
  Preview = 2
  Plotted = 3
  pie_max_slices = 3
  multi_series_max = 2
  Null = 9
  MAX_GEN_COLS = 3
  Window = 1
  Name = {"plans", "public", "sales", "db"}
  Column = {"a"}
  Metric = {"m1", "m2"}
  Public = "public"
  ROW_FETCH_LIMIT = 2
  Queries <- MCQueries
  Results <- MCResults
  Pairs <- MCPairs
  Explained <- MCExplained
  Catalogs <- MCCatalogs
  Requests <- MCRequests
  Batches <- MCBatches
INVARIANTS
  GroundingVerdict
  ChartIsTrue
  GradeIsRight
  ExplanationIsHonest
  DescriptionsAreOwned
  CapIsLabelled
  RequestsAreAnswered
