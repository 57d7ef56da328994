------------------------------- MODULE McpServer -------------------------------
(***************************************************************************)
(* The dispatch of the MCP server (mcp_server.py): the response to one     *)
(* decoded JSON-RPC message, a request, a notification or a batch of them, *)
(* and the tools it executes on the way, in order.  A batch in a batch is  *)
(* left out.                                                               *)
(***************************************************************************)
EXTENDS Integers, Sequences, FiniteSets

Method == {"missing", "initialize", "notifications/initialized", "tools/list",
           "tools/call", "ping", "unknown"}
Tool == {"answers", "raises", "unknown", "bad_arguments"}

\* `id': the member is present; `params': it is an object, or absent; `tool':
\* what tools/call meets.
Item == [object : BOOLEAN, id : BOOLEAN, method : Method, params : BOOLEAN, tool : Tool]

None == [kind |-> "none"]
\* A response carries the id of the item it answers, here its number in the
\* batch; without one, null.
result(k, i) == [kind |-> "result", id |-> IF i.id THEN k ELSE 0]
rpc_error(k, i, code) == [kind |-> code, id |-> IF i.object /\ i.id THEN k ELSE 0]

-----------------------------------------------------------------------------
\* _call_tool: whatever goes wrong in the tool is a result that says so.
tool_lost(k, i) == IF i.tool = "raises" THEN None ELSE result(k, i)   \* variant: not caught
call_tool(k, i) ==
  IF i.tool = "answers" THEN result(k, i) ELSE [result(k, i) EXCEPT !.kind = "isError"]

Executes(i) ==
  i.object /\ i.method = "tools/call" /\ i.params /\ i.id /\ i.tool \in {"answers", "raises"}

Respond(k, i) ==
  CASE ~i.object -> rpc_error(k, i, "INVALID_REQUEST")
    [] i.object /\ i.method = "missing" ->
         IF i.id THEN rpc_error(k, i, "INVALID_REQUEST") ELSE None
    [] i.object /\ i.method \in {"initialize", "tools/list", "ping"} -> result(k, i)
    [] i.object /\ i.method = "notifications/initialized" -> None
    [] i.object /\ i.method = "tools/call" ->
         IF ~i.id THEN None
         ELSE IF ~i.params THEN rpc_error(k, i, "INVALID_PARAMS") ELSE call_tool(k, i)
    [] i.object /\ i.method = "unknown" ->
         IF i.id THEN rpc_error(k, i, "METHOD_NOT_FOUND") ELSE None

\* The members of a set of positions, in their order.
InOrder(S) == [n \in 1..Cardinality(S) |-> CHOOSE k \in S : Cardinality({j \in S : j <= k}) = n]

\* The response to a batch, in its order; the empty sequence is still written.
handle_message(batch) ==
  LET answered == InOrder({k \in DOMAIN batch : Respond(k, batch[k]) # None})
  IN  [responses |-> [n \in DOMAIN answered |-> Respond(answered[n], batch[answered[n]])],
       executed |-> InOrder({k \in DOMAIN batch : Executes(batch[k])})]

-----------------------------------------------------------------------------
\* Of a batch, every request is answered once, under its id and in its turn,
\* whatever became of the ones before it, and a notification executes nothing
\* (mcp_server.py:13, 228-230, 259).
RequestsAreAnswered(batch) ==
  LET out == handle_message(batch)
      requests == {k \in DOMAIN batch : batch[k].object /\ batch[k].id
                                          /\ batch[k].method # "notifications/initialized"}
      answers == {n \in DOMAIN out.responses : out.responses[n].id # 0}
  IN  /\ {out.responses[n].id : n \in answers} = requests
      /\ \A m, n \in answers : m < n => out.responses[m].id < out.responses[n].id
      /\ \A n \in DOMAIN out.executed :
           /\ out.executed[n] \in requests
           /\ \E m \in answers : /\ out.responses[m].id = out.executed[n]
                                /\ out.responses[m].kind \in {"result", "isError"}
===============================================================================
