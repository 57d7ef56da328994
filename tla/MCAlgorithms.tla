------------------------------ MODULE MCAlgorithms ------------------------------
(***************************************************************************)
(* The inputs of the algorithms: for each the product of what its           *)
(* properties tell apart.                                                  *)
(***************************************************************************)
EXTENDS Algorithms, SequencesExt

-----------------------------------------------------------------------------
Columns == {"a", "b", "z"}
MCschema == [t1 |-> {"a"}, t2 |-> {"a", "b"}]
Sources(names) == [name : names, ref : {"r"}] \cup {[name |-> n, ref |-> n] : n \in names}
Refs == [table : {"", "t1", "t2", "r", "c"}, name : Columns]
OuterSelects ==
  [from : {s \in SUBSET Sources({"t1", "t2", "x", "c"}) : Cardinality(s) \in 1..2},
   column : Refs, aliases : {{}, {"z"}}]
InnerSelects ==
  [from : {{s} : s \in Sources({"t1", "t2"})},
   column : [table : {"", "t1", "r"}, name : Columns], aliases : {{}, {"z"}}]
MCQueries ==
  {[outer |-> o, inner |-> {}, role |-> "none", name |-> "c"] : o \in OuterSelects}
  \cup {q \in [outer : OuterSelects, inner : {{x} : x \in InnerSelects},
                 role : G!Roles \ {"none"}, name : {"c", "t2"}] :
            q.role = "derived" => \E s \in q.outer.from : s.name = q.name}

Values(kind) == CASE kind = "measure" -> {-1, 1, 9} [] kind = "share" -> {1} [] OTHER -> {1, 2, 9}
Rows(kinds) == {r \in [1..Len(kinds) -> {-1, 1, 2, 9}] : \A i \in 1..Len(kinds) : r[i] \in Values(kinds[i])}
Kinds == [1..2 -> C!Kind] \cup {<<"date", "category", "measure">>, <<"category", "category", "measure">>,
                                <<"category", "share", "measure">>, <<"measure", "category", "measure">>}
MCResults ==
  UNION {[kinds : {ks}, rows : SeqOf(Rows(ks), 3) \ {<<>>}, ranked : BOOLEAN, cached : BOOLEAN] : ks \in Kinds}
  \cup UNION {[kinds : {ks}, rows : TupleOf(Rows(ks), 4), ranked : {FALSE}, cached : BOOLEAN] :
               ks \in {<<"category", "measure">>, <<"category", "share">>, <<"date", "measure">>}}

Tuples(n) == [1..n -> {1, 2}]
Ragged == SeqOf(Tuples(1) \cup Tuples(2), 2)
MCPairs == [gold : SeqOf(Tuples(2), 3) \cup SeqOf(Tuples(1), 2) \cup Ragged,
            gen : SeqOf(Tuples(2), 3) \cup SeqOf(Tuples(3), 2) \cup Ragged, ordered : BOOLEAN]
Count(n, s, g) == [kind |-> "count", n |-> n, selected |-> s, grouped |-> g]
Value(n) == [kind |-> "value", n |-> n]
Tokens == {Count(n, s, g) : n \in 1..2, s \in {FALSE}, g \in BOOLEAN}
          \cup {Count(1, TRUE, TRUE)} \cup {Value(5), Value(15)}
          \cup [kind : {"marker"}, guarded : BOOLEAN]
          \cup [kind : {"derived", "data", "mechanics"}]
Rendered ==
  {[rows |-> rs, row_count |-> Len(rs), question |-> q] :
     rs \in {<<>>, <<<<Value(5)>>>>, <<<<Value(15)>>, <<Value(5)>>>>,
             <<<<Count(2, FALSE, FALSE), Value(15)>>>>}, q \in {{}, {15}}}
MCExplained == [drafts : SeqOf(Tokens, 3) \X SeqOf(Tokens, 1), result : Rendered]

Tables == {[schema |-> s, name |-> "plans", columns |-> {"a"}] : s \in {"public", "sales"}}
Nodes == [model : {TRUE},
          relation : {<<"plans">>, <<"public", "plans">>, <<"sales", "plans">>, <<"db", "sales", "plans">>},
          described : BOOLEAN, columns : {{}, {"a"}}]
         \cup {[model |-> FALSE, relation |-> <<"public", "plans">>, described |-> TRUE, columns |-> {}]}
Entries == [name : {"m1", "m2"}, valid : BOOLEAN,
            tables : {<<<<"plans">>>>, <<<<"sales", "plans">>, <<"plans">>>>, <<<<"plans">>, <<"plans">>>>}]
MCCatalogs == [tables : (SUBSET Tables) \ {{}}, nodes : SeqOf(Nodes, 2), entries : {<<>>}]
              \cup [tables : {Tables}, nodes : {<<>>}, entries : SeqOf(Entries, 3)]

MCRequests == [surface : X!Surface, sql : [read_only : BOOLEAN, fails : BOOLEAN, total : 0..4],
               cached : BOOLEAN]

Items == {[object |-> FALSE, id |-> FALSE, method |-> "missing", params |-> FALSE, tool |-> "unknown"]}
         \cup [object : {TRUE}, id : BOOLEAN, method : M!Method \ {"tools/call"}, params : {TRUE}, tool : {"unknown"}]
         \cup [object : {TRUE}, id : BOOLEAN, method : {"tools/call"}, params : BOOLEAN, tool : M!Tool]
MCBatches == SeqOf(Items, 3)
=================================================================================
