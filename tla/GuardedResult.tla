----------------------------- MODULE GuardedResult -----------------------------
(***************************************************************************)
(* The row cap as a reader meets it: the export of a SELECT as CSV, XLSX   *)
(* or JSON (services/export_service.py, api/export.py), the tool run_sql   *)
(* of the MCP server, and the answer of a run of the graph, which the tool *)
(* query of that server hands on (mcp_server.py).                          *)
(***************************************************************************)
EXTENDS Integers

CONSTANT ROW_FETCH_LIMIT

Export == {"csv", "xlsx", "json"}
Surface == Export \cup {"run_sql", "query"}

\* `total': the rows the SQL has now; `cached': a cache entry answers the
\* question the SQL was made for.
Sql == [read_only : BOOLEAN, fails : BOOLEAN, total : Nat]
Request == [surface : Surface, sql : Sql, cached : BOOLEAN]

-----------------------------------------------------------------------------
Least(a, b) == IF a < b THEN a ELSE b

\* One row more than the cap is fetched, and never kept.
no_probe(total) == Least(total, ROW_FETCH_LIMIT)            \* variant
probed(total) == Least(total, ROW_FETCH_LIMIT + 1)

execute_guarded(sql) ==
  [ok |-> TRUE, row_count |-> Least(probed(sql.total), ROW_FETCH_LIMIT),
   capped |-> probed(sql.total) > ROW_FETCH_LIMIT]

Refused == [ok |-> FALSE, row_count |-> 0, capped |-> FALSE]

\* The label is a header of the three exports, and in the JSON payload too.
export_response(sql) == IF sql.read_only /\ ~sql.fails THEN execute_guarded(sql) ELSE Refused

tool_run_sql(sql) == IF sql.read_only /\ ~sql.fails THEN execute_guarded(sql) ELSE Refused

\* execute_query fetches up to the cap; check_result says OVERFLOW of a full fetch.
\* A run answered from the cache executes nothing: there is no execution_result.
execution_result(sql, cached) ==
  IF cached \/ ~sql.read_only \/ sql.fails THEN Refused
  ELSE [ok |-> TRUE, row_count |-> Least(sql.total, ROW_FETCH_LIMIT),
        capped |-> Least(sql.total, ROW_FETCH_LIMIT) >= ROW_FETCH_LIMIT]

tool_query(sql, cached) == [execution_result(sql, cached) EXCEPT !.ok = cached \/ @]

reply(surface, sql, cached) ==
  CASE surface \in Export   -> export_response(sql)
    [] surface = "run_sql"  -> tool_run_sql(sql)
    [] surface = "query"    -> tool_query(sql, cached)

-----------------------------------------------------------------------------
\* A reply made by executing the SQL holds its whole result or says that it does
\* not; the export and run_sql say so only of a result that is not whole, the
\* graph of one that fills the cap (export_service.py:5-8, check_result.py:34).
CapIsLabelled(surface, sql) ==
  LET r == reply(surface, sql, FALSE)
  IN  r.ok => /\ r.row_count < sql.total => r.capped
              /\ r.capped => r.row_count = ROW_FETCH_LIMIT
              /\ surface # "query" => (r.capped => r.row_count < sql.total)

\* What the server says of the tool query: "Returns the SQL, rows, explanation,
\* and confidence" (mcp_server.py:90).  A cached answer with rows has none.
QueryReturnsRows(sql, cached) ==
  LET r == reply("query", sql, cached)
  IN  sql.read_only /\ ~sql.fails /\ sql.total > 0 => r.row_count > 0
===============================================================================
