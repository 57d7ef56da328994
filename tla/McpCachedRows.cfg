\* Expected violation: the tool `query' of the MCP server on a cached answer.
SPECIFICATION Draws
INVARIANT QueryReturnsRows
CHECK_DEADLOCK FALSE
CONSTANTS
  schema <- MCschema
  Unqualified = ""
  Preview = 2
  Plotted = 3
  pie_max_slices = 3
  multi_series_max = 2
  Null = 9
  MAX_GEN_COLS = 3
  Window = 1
  Name = {"plans", "public", "sales", "db"}
  Column = {"a"}
  Metric = {"m1", "m2"}
  Public = "public"
  ROW_FETCH_LIMIT = 2
  Queries = {}
  Results = {}
  Pairs = {}
  Explained = {}
  Catalogs = {}
  Requests <- MCRequests
  Batches = {}
