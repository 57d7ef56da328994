---------------------------- MODULE ChartClassifier ----------------------------
(***************************************************************************)
(* classify_chart_node (graph/nodes/classify_chart.py): which chart, if     *)
(* any, shows a result.  A column has a kind, given by its name and its    *)
(* values: a date, a measure, a share of a whole, or a category; a row is  *)
(* a tuple of small values.  Of a result served from the cache the node    *)
(* sees the preview and the true number of rows.                           *)
(***************************************************************************)
EXTENDS Integers, Sequences, FiniteSets

CONSTANTS Preview,            \* rows the cache keeps
          Plotted,            \* rows of a result that are looked at, and drawn
          pie_max_slices, multi_series_max,
          Null                \* a value there is not, of any kind

Kind == {"date", "measure", "share", "category"}

\* `ranked': the SQL has an ORDER BY and a LIMIT below the default one.
Result == [kinds : Seq(Kind), rows : Seq(Seq(Int)), ranked : BOOLEAN, cached : BOOLEAN]
WellFormed(r) == r \in Result /\ \A k \in DOMAIN r.rows : Len(r.rows[k]) = Len(r.kinds)

-----------------------------------------------------------------------------
\* The rows the node is given, those it looks at, and row_count.
FirstRows(rows, n) == IF Len(rows) > n THEN SubSeq(rows, 1, n) ELSE rows
Given(r) == IF r.cached THEN FirstRows(r.rows, Preview) ELSE r.rows
Shown(r) == FirstRows(Given(r), Plotted)
shown_rows(r) == Len(Shown(r))     \* variant: the preview is taken for the result
total_rows(r) == Len(r.rows)

Shows(r, i) == {Shown(r)[k][i] : k \in 1..Len(Shown(r))} \ {Null}
nunique(r, i) == Cardinality(Shows(r, i))

\* A column of nothing but nulls is a category, unless it is named as a date.
kind(r, i) == IF Shows(r, i) = {} /\ r.kinds[i] # "date" THEN "category" ELSE r.kinds[i]
Columns(r, kinds) == {i \in DOMAIN r.kinds : kind(r, i) \in kinds}
First(cols) == CHOOSE i \in cols : \A j \in cols : i <= j

numeric_cols(r) == Columns(r, {"measure", "share"})
categorical_cols(r) == Columns(r, {"category"})

NoChart == [type |-> "none", x |-> 0, y |-> 0, color |-> 0]

\* The category that splits a line into series, 0 if none does.
multi_series_col(r, x) ==
  LET fits == {i \in categorical_cols(r) : nunique(r, i) \in 2..multi_series_max}
  IN  IF nunique(r, x) >= Len(Shown(r)) \/ fits = {} THEN 0 ELSE First(fits)

\* (axis, series) of a grouped bar: the last and the first category in a stable
\* sort by cardinality.
grouped_bar_cols(r) ==
  LET cats == categorical_cols(r)
      series == CHOOSE i \in cats : \A j \in cats :
                  nunique(r, i) < nunique(r, j) \/ (nunique(r, i) = nunique(r, j) /\ i <= j)
      axis == CHOOSE i \in cats : \A j \in cats :
                  nunique(r, i) > nunique(r, j) \/ (nunique(r, i) = nunique(r, j) /\ i >= j)
  IN  IF Cardinality(cats) >= 2 /\ nunique(r, series) \in 2..multi_series_max
         /\ nunique(r, axis) >= 2
      THEN <<axis, series>> ELSE <<0, 0>>

Line(r) ==
  LET x == First(Columns(r, {"date"}))
  IN  [type |-> "line", x |-> x, y |-> First(numeric_cols(r)), color |-> multi_series_col(r, x)]

Scatter(r) ==
  LET m == Columns(r, {"measure"})
  IN  [type |-> "scatter", x |-> First(m), y |-> First(m \ {First(m)}),
       color |-> IF categorical_cols(r) = {} THEN 0 ELSE First(categorical_cols(r))]

is_composition(r, cat, num) ==
  /\ ~r.ranked /\ Cardinality(categorical_cols(r)) = 1
  /\ nunique(r, cat) <= pie_max_slices /\ total_rows(r) <= pie_max_slices
  /\ nunique(r, cat) = total_rows(r)
  /\ \A v \in Shows(r, num) : v >= 0

BarOrPie(r) ==
  LET shares == Columns(r, {"share"})
      num == First(IF shares # {} THEN shares ELSE Columns(r, {"measure"}))
      cat == First(categorical_cols(r))
      grouped == IF shares = {} THEN grouped_bar_cols(r) ELSE <<0, 0>>
  IN  CASE grouped # <<0, 0>> ->
             [type |-> "bar", x |-> grouped[1], y |-> num, color |-> grouped[2]]
        [] grouped = <<0, 0>> /\ is_composition(r, cat, num) ->
             [type |-> "pie", x |-> cat, y |-> num, color |-> 0]
        [] OTHER -> [type |-> "bar", x |-> cat, y |-> num, color |-> 0]

classify(r) ==
  IF Len(Given(r)) < 2 THEN NoChart
  ELSE IF Columns(r, {"date"}) # {} /\ numeric_cols(r) # {} THEN Line(r)
  ELSE IF Cardinality(Columns(r, {"measure"})) >= 2 THEN Scatter(r)
  ELSE IF categorical_cols(r) # {} /\ numeric_cols(r) # {} THEN BarOrPie(r)
  ELSE NoChart

-----------------------------------------------------------------------------
\* The parts of a pie are the whole result, each part once and none of it
\* negative, whatever the node was shown of it (classify_chart.py:139-141).
PieIsTheWhole(r) ==
  LET chart == classify(r)
  IN  chart.type = "pie" =>
        /\ Shown(r) = r.rows
        /\ \A k, l \in 1..Len(r.rows) : k # l => r.rows[k][chart.x] # r.rows[l][chart.x]
        /\ \A k \in 1..Len(r.rows) : r.rows[k][chart.y] = Null \/ r.rows[k][chart.y] >= 0

\* No series of a chart is told by the column of an axis, and the legend is
\* readable: 2 to multi_series_max series (classify_chart.py:73-80, 94-101).
SeriesAreReadable(r) ==
  LET chart == classify(r)
  IN  (chart.type \in {"line", "bar"} /\ chart.color # 0) =>
        /\ chart.color \notin {chart.x, chart.y}
        /\ nunique(r, chart.color) \in 2..multi_series_max

\* A result the preview holds whole gets the same chart from the cache.
SameChartFromCache(r) ==
  Len(r.rows) <= Preview => classify([r EXCEPT !.cached = TRUE]) = classify([r EXCEPT !.cached = FALSE])

\* A chart shows what the result says, read from the database or from the
\* cache (classify_chart.py:73-80, 139-141).
ChartIsTrue(r) == PieIsTheWhole(r) /\ SeriesAreReadable(r) /\ SameChartFromCache(r)
===============================================================================
