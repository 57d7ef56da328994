------------------------------- MODULE Algorithms -------------------------------
(***************************************************************************)
(* The algorithms of the program that keep no state.  Each of the seven     *)
(* modules says what one computes and what the result is for; a behaviour  *)
(* here draws one input of one of them.                                    *)
(***************************************************************************)
EXTENDS Integers, Sequences, FiniteSets

CONSTANTS schema, Unqualified,                            \* of Grounding
          Preview, Plotted, pie_max_slices, multi_series_max, Null, \* of ChartClassifier
          MAX_GEN_COLS,                                    \* of ResultEquivalence
          Window,                                          \* of ExplanationCheck
          Name, Column, Metric, Public,                    \* of Descriptions
          ROW_FETCH_LIMIT                                  \* of GuardedResult

\* The inputs of each.
CONSTANTS Queries, Results, Pairs, Explained, Catalogs, Requests, Batches

G == INSTANCE Grounding
C == INSTANCE ChartClassifier
R == INSTANCE ResultEquivalence
E == INSTANCE ExplanationCheck
D == INSTANCE Descriptions
X == INSTANCE GuardedResult
M == INSTANCE McpServer

ASSUME LimitsAssumption ==
  {Preview, Plotted, pie_max_slices, multi_series_max, MAX_GEN_COLS, Window, ROW_FETCH_LIMIT}
    \subseteq Nat

\* What a SELECT, a result, a draft, ... is.
ASSUME InputsAssumption ==
  /\ \A q \in Queries : G!WellFormed(q)
  /\ \A r \in Results : C!WellFormed(r)
  /\ \A p \in Pairs : R!WellFormed(p.gen) /\ R!WellFormed(p.gold) /\ p.ordered \in BOOLEAN
  /\ \A e \in Explained : E!WellFormed(e.drafts, e.result)
  /\ Catalogs \subseteq D!Catalog
  /\ Requests \subseteq X!Request
  /\ Batches \subseteq Seq(M!Item)

VARIABLES of, input      \* the algorithm and its input

-----------------------------------------------------------------------------
Undrawn == of = "none" /\ input = <<>>

Draw(algorithm, inputs) == of = "none" /\ of' = algorithm /\ input' \in inputs

DrawQuery == Draw("grounding", Queries)
DrawResult == Draw("chart", Results)
DrawPair == Draw("results", Pairs)
DrawExplained == Draw("explanation", Explained)
DrawCatalog == Draw("descriptions", Catalogs)
DrawRequest == Draw("reply", Requests)
DrawBatch == Draw("batch", Batches)

DrawAny ==
  DrawQuery \/ DrawResult \/ DrawPair \/ DrawExplained \/ DrawCatalog \/ DrawRequest \/ DrawBatch

Draws == Undrawn /\ [][DrawAny]_<<of, input>>

-----------------------------------------------------------------------------
\* The grounding check never flags valid SQL, and flags every name of a table
\* there is not and every plain wrong column (grounding.py; Grounding).
GroundingVerdict == of = "grounding" => G!GroundingVerdict(input)

\* A pie is the whole of its result, series can be told apart, and a cached
\* result gets the chart it got when it was computed (classify_chart.py;
\* ChartClassifier).
ChartIsTrue == of = "chart" => C!ChartIsTrue(input)

\* A generated result is graded as equivalent only if the gold columns are in
\* it, however it presents them (result_equivalence.py; ResultEquivalence).
GradeIsRight == of = "results" => R!GradeIsRight(input.gen, input.gold, input.ordered)

\* What is published of two drafts says nothing false of the result, and a good
\* first draft is published as written (explanation_check.py; ExplanationCheck).
ExplanationIsHonest == of = "explanation" => E!ExplanationIsHonest(input.drafts, input.result)

\* A description reaches the table its model names and no other, the last model
\* wins, and each metric is listed with the tables it declares (dbt.py,
\* registry.py, enrichment.py; Descriptions).
DescriptionsAreOwned ==
  of = "descriptions" => D!DescriptionsAreOwned(input.tables, input.nodes, input.entries)

\* A reply of a surface that caps its rows says so when, and mostly only when,
\* rows are missing (export_service.py, mcp_server.py, check_result.py;
\* GuardedResult).
CapIsLabelled == of = "reply" => X!CapIsLabelled(input.surface, input.sql)

\* Each request of a JSON-RPC batch is answered once, in its turn, and a
\* notification executes nothing (mcp_server.py; McpServer).
RequestsAreAnswered == of = "batch" => M!RequestsAreAnswered(input)

\* What the MCP server says of its tool query; not so of a cached answer.
QueryReturnsRows ==
  of = "reply" /\ input.surface = "query" => X!QueryReturnsRows(input.sql, input.cached)
===============================================================================
