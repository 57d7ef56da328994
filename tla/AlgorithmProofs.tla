---------------------------- MODULE AlgorithmProofs ----------------------------
(***************************************************************************)
(* Proofs about the algorithms, for every schema, result, draft, catalog,  *)
(* request and batch that is well formed and all limits, and, at the end,  *)
(* about Health, whose names meet none of theirs.  An algorithm keeps no   *)
(* state: that its input is drawn from its set is the invariant, and a     *)
(* lemma says of every input what the property does.                       *)
(***************************************************************************)
EXTENDS Algorithms, Health, FiniteSetTheorems, WellFoundedInduction, TLAPS

(* What has been drawn is an input of its algorithm.                       *)
DrawnFrom ==
  /\ of = "grounding" => input \in Queries
  /\ of = "chart" => input \in Results
  /\ of = "results" => input \in Pairs
  /\ of = "explanation" => input \in Explained
  /\ of = "descriptions" => input \in Catalogs
  /\ of = "reply" => input \in Requests
  /\ of = "batch" => input \in Batches

-----------------------------------------------------------------------------
(* The input drawn is one of the set it is drawn from, so what is assumed  *)
(* of the members of that set holds of it.                                 *)
LEMMA InputsAreDrawn == Draws => []DrawnFrom
<1>1. Undrawn => DrawnFrom
  BY DEF Undrawn, DrawnFrom
<1>2. DrawnFrom /\ [DrawAny]_<<of, input>> => DrawnFrom'
  BY DEF DrawnFrom, DrawAny, Draw, DrawQuery, DrawResult, DrawPair, DrawExplained, DrawCatalog,
         DrawRequest, DrawBatch
<1> QED
  BY <1>1, <1>2, PTL DEF Draws

(* A set of natural numbers that is not empty has a least member.          *)
LEMMA LeastMember ==
  ASSUME NEW S \in SUBSET Nat, S # {}
  PROVE  \E m \in S : \A k \in S : m <= k
<1>1. IsWellFoundedOn({p \in Nat \X Nat : p[1] < p[2]}, Nat)
  BY NatLessThanWellFounded, Zenon DEF OpToRel
<1>2. PICK m \in S : \A k \in S : ~(<<k, m>> \in {p \in Nat \X Nat : p[1] < p[2]})
  BY <1>1, WFMin
<1>3. ASSUME NEW k \in S  PROVE m <= k
  <2>1. k \in Nat /\ m \in Nat
    OBVIOUS
  <2>2. ~(k < m)
    BY <1>2, <2>1
  <2> QED
    BY <2>1, <2>2
<1> QED
  BY <1>3

(* A set of positions that is not empty has a greatest member.             *)
LEMMA GreatestMember ==
  ASSUME NEW n \in Nat, NEW S \in SUBSET (0..n), S # {}
  PROVE  \E m \in S : \A k \in S : k <= m
<1> DEFINE below == {n - k : k \in S}
<1>1. \A k \in S : k \in Nat /\ k <= n
  OBVIOUS
<1>2. below \in SUBSET Nat /\ below # {}
  <2>1. \A k \in S : n - k \in Nat
    BY <1>1
  <2> QED
    BY <2>1
<1>3. PICK d \in below : \A e \in below : d <= e
  <2> HIDE DEF below
  <2> QED
    BY <1>2, LeastMember
<1>4. PICK m \in S : d = n - m
  OBVIOUS
<1>5. ASSUME NEW k \in S  PROVE k <= m
  <2>1. d <= n - k
    BY <1>3
  <2> QED
    BY <1>1, <1>4, <2>1
<1> QED
  BY <1>5

-----------------------------------------------------------------------------
(* GuardedResult.                                                          *)

(* A reply made by executing the SQL is labelled when rows are missing.     *)
LEMMA CappedReplies ==
  ASSUME NEW r \in X!Request
  PROVE  X!CapIsLabelled(r.surface, r.sql)
<1>1. ROW_FETCH_LIMIT \in Nat
  BY LimitsAssumption
<1>2. /\ r.surface \in {"csv", "xlsx", "json", "run_sql", "query"}
      /\ r.sql.read_only \in BOOLEAN /\ r.sql.fails \in BOOLEAN /\ r.sql.total \in Nat
  BY DEF X!Request, X!Surface, X!Export, X!Sql
<1> DEFINE answer == X!reply(r.surface, r.sql, FALSE)
           n == r.sql.total
<1> SUFFICES ASSUME answer.ok
             PROVE  /\ answer.row_count < n => answer.capped
                    /\ answer.capped => answer.row_count = ROW_FETCH_LIMIT
                    /\ r.surface # "query" => (answer.capped => answer.row_count < n)
  BY Zenon DEF X!CapIsLabelled
<1>3. CASE r.surface \in X!Export \cup {"run_sql"}
  <2>1. answer = IF r.sql.read_only /\ ~r.sql.fails THEN X!execute_guarded(r.sql) ELSE X!Refused
    BY <1>2, <1>3 DEF X!reply, X!export_response, X!tool_run_sql, X!Export
  <2>2. answer = X!execute_guarded(r.sql)
    <3>1. ~X!Refused.ok
      BY DEF X!Refused
    <3> QED
      BY <2>1, <3>1, Zenon
  <2> HIDE DEF answer
  <2>3. /\ answer.row_count = X!Least(X!probed(n), ROW_FETCH_LIMIT)
        /\ answer.capped <=> X!probed(n) > ROW_FETCH_LIMIT
    BY <2>2 DEF X!execute_guarded
  <2> QED
    BY <1>1, <1>2, <2>3 DEF X!probed, X!Least
<1>4. CASE r.surface = "query"
  <2>1. answer = X!tool_query(r.sql, FALSE)
    BY <1>4 DEF X!reply, X!Export
  <2> HIDE DEF answer
  <2>2. /\ answer.row_count = X!Least(n, ROW_FETCH_LIMIT)
        /\ answer.capped <=> X!Least(n, ROW_FETCH_LIMIT) >= ROW_FETCH_LIMIT
    BY <1>2, <2>1 DEF X!tool_query, X!execution_result, X!Refused
  <2> QED
    BY <1>1, <1>2, <1>4, <2>2 DEF X!Least
<1> QED
  BY <1>2, <1>3, <1>4 DEF X!Export, X!Surface, X!Request

(* Exports and MCP replies say when the row cap cut them, for every cap and *)
(* every number of rows.                                                   *)
THEOREM CapsAreLabelled == Draws => []CapIsLabelled
<1>1. DrawnFrom => CapIsLabelled
  BY CappedReplies, InputsAssumption DEF DrawnFrom, CapIsLabelled
<1> QED
  BY <1>1, InputsAreDrawn, PTL

-----------------------------------------------------------------------------
(* Grounding.                                                              *)

(* The module Grounding counts as FiniteSets does.                         *)
LEMMA GroundingCounts ==
  \A S : /\ G!IsFiniteSet(S) <=> IsFiniteSet(S)
         /\ G!Cardinality(S) = Cardinality(S)
BY DEF G!IsFiniteSet, IsFiniteSet, G!Cardinality, Cardinality

(* A query has finitely many sources, none of them unnamed.                *)
LEMMA SourcesAreNamed ==
  ASSUME NEW q, G!WellFormed(q), NEW x \in G!Selects(q)
  PROVE  IsFiniteSet(x.from) /\ \A s \in x.from : s.ref # Unqualified
BY GroundingCounts DEF G!WellFormed, G!Selects

(* Where Postgres finds a column, the code finds it in a table of the       *)
(* schema or does not look for it.                                         *)
LEMMA FoundIsKnown ==
  ASSUME NEW q, G!WellFormed(q), NEW x \in G!Selects(q), NEW outer \in BOOLEAN,
         outer => x = q.outer, ~outer => x \in q.inner,
         NEW s \in x.from, NEW name, name \in G!SourceColumns(q, s, outer)
  PROVE  \/ s \in G!RealTables(q) /\ name \in schema[s.name]
         \/ s.ref \in G!non_checkable(q)
<1>1. CASE outer /\ G!IsInner(q, s) /\ q.role = "derived"
  <2>1. s.ref \in G!subquery_aliases(q)
    BY <1>1 DEF G!subquery_aliases
  <2> QED
    BY <2>1 DEF G!non_checkable
<1>2. CASE outer /\ G!IsInner(q, s) /\ q.role = "cte"
  <2>1. s \in G!TableNodes(q)
    BY <1>2 DEF G!TableNodes
  <2>2. s.name \in G!cte_names(q)
    BY <1>2 DEF G!cte_names, G!IsInner
  <2> QED
    BY <2>1, <2>2 DEF G!non_checkable, G!RealTables
<1>3. CASE ~(outer /\ G!IsInner(q, s))
  <2>1. s.name \in DOMAIN schema /\ name \in schema[s.name]
    BY <1>3 DEF G!SourceColumns
  <2>2. s \in G!TableNodes(q)
    BY <1>3 DEF G!TableNodes
  <2> QED
    BY <2>1, <2>2 DEF G!RealTables, G!non_checkable, G!has_table
<1> QED
  BY <1>1, <1>2, <1>3 DEF G!IsInner

(* The real tables of a query are finitely many.                           *)
LEMMA RealTablesAreFinite ==
  ASSUME NEW q, G!WellFormed(q)
  PROVE  IsFiniteSet({s.name : s \in G!RealTables(q)})
<1> DEFINE inner == UNION {x.from : x \in q.inner}
           sources == q.outer.from \cup inner
           names == {s.name : s \in G!RealTables(q)}
           f == [s \in G!RealTables(q) |-> s.name]
<1>1. IsFiniteSet(inner)
  <2>1. CASE q.inner = {}
    <3>1. inner = {}
      BY <2>1
    <3> QED
      BY <3>1, FS_EmptySet
  <2>2. ASSUME NEW x \in q.inner, q.inner = {x}  PROVE IsFiniteSet(inner)
    <3>1. inner = x.from
      BY <2>2
    <3> QED
      BY <3>1, SourcesAreNamed DEF G!Selects
  <2> QED
    BY <2>1, <2>2 DEF G!WellFormed
<1>2. IsFiniteSet(q.outer.from)
  BY SourcesAreNamed DEF G!Selects
<1>3. IsFiniteSet(sources)
  <2> HIDE DEF inner
  <2> QED
    BY <1>1, <1>2, FS_Union
<1>4. G!RealTables(q) \in SUBSET sources
  BY DEF G!RealTables, G!TableNodes
<1>5. IsFiniteSet(G!RealTables(q))
  <2> HIDE DEF sources
  <2> QED
    BY <1>3, <1>4, FS_Subset
<1>6. f \in Surjection(G!RealTables(q), names)
  BY DEF Surjection
<1> QED
  BY <1>5, <1>6, FS_Surjection

(* A column that names what it may be found in is then not flagged.        *)
LEMMA KnownIsNotFlagged ==
  ASSUME NEW q, G!WellFormed(q), NEW c, NEW s, s.ref # Unqualified, c.table \in {Unqualified, s.ref},
         \/ s \in G!RealTables(q) /\ c.name \in schema[s.name]
         \/ s.ref \in G!non_checkable(q)
  PROVE  /\ c.table # Unqualified => ~G!FlaggedQualified(q, c)
         /\ \A t \in G!single_table(q) : c.table = Unqualified => G!column_exists(t, c.name)
<1>1. ASSUME c.table # Unqualified PROVE ~G!FlaggedQualified(q, c)
  <2>1. c.table = s.ref
    BY <1>1
  <2>2. CASE s.ref \in G!non_checkable(q)
    BY <2>1, <2>2 DEF G!FlaggedQualified
  <2>3. CASE s \in G!RealTables(q) /\ c.name \in schema[s.name]
    <3>1. s.name \in G!alias_real_tables(q, c.table)
      BY <2>1, <2>3 DEF G!alias_real_tables
    <3> QED
      BY <2>3, <3>1 DEF G!FlaggedQualified, G!column_exists
  <2> QED
    BY <2>2, <2>3
<1>2. ASSUME NEW t \in G!single_table(q), c.table = Unqualified
      PROVE  G!column_exists(t, c.name)
  <2> DEFINE real == {r.name : r \in G!RealTables(q)}
  <2>1. Cardinality(real) = 1 /\ G!non_checkable(q) = {} /\ t \in real
    <3>1. \/ G!single_table(q) = {}
          \/ G!single_table(q) = real /\ G!Cardinality(real) = 1 /\ G!non_checkable(q) = {}
      BY DEF G!single_table
    <3> QED
      BY <1>2, <3>1, GroundingCounts
  <2>2. s \in G!RealTables(q) /\ c.name \in schema[s.name] /\ s.name \in real
    BY <2>1
  <2>3. \E u : real = {u}
    <3>1. IsFiniteSet(real)
      BY RealTablesAreFinite
    <3> HIDE DEF real
    <3> QED
      BY <2>1, <3>1, FS_Singleton
  <2>4. t = s.name
    BY <2>1, <2>2, <2>3
  <2> QED
    BY <2>2, <2>4 DEF G!column_exists
<1> QED
  BY <1>1, <1>2

(* A column found in the scope of a SELECT is found in a known source.      *)
LEMMA FoundSomewhere ==
  ASSUME NEW q, G!WellFormed(q), NEW y \in G!Selects(q), NEW outer \in BOOLEAN,
         outer => y = q.outer, ~outer => y \in q.inner,
         NEW c, G!Cardinality(G!Found(q, y.from, c, outer)) = 1
  PROVE  \E s : /\ c.table \in {Unqualified, s.ref} /\ s.ref # Unqualified
                /\ \/ s \in G!RealTables(q) /\ c.name \in schema[s.name]
                   \/ s.ref \in G!non_checkable(q)
<1>1. G!Found(q, y.from, c, outer) # {}
  BY GroundingCounts, FS_EmptySet
<1>2. PICK s \in y.from : /\ c.table \in {Unqualified, s.ref}
                          /\ c.name \in G!SourceColumns(q, s, outer)
  BY <1>1 DEF G!Found
<1>3. s.ref # Unqualified
  BY SourcesAreNamed
<1> QED
  BY <1>2, <1>3, FoundIsKnown

(* Every column of a valid query is found, hence not flagged, and every      *)
(* source is a table or the inner SELECT.                                  *)
LEMMA ValidIsNotFlagged ==
  ASSUME NEW q, G!WellFormed(q), G!Valid(q)
  PROVE  G!is_grounded(q)
<1>1. G!hallucinated_tables(q) = {}
  <2>1. ASSUME NEW s \in G!TableNodes(q), s.name \notin G!cte_names(q)
        PROVE  s.name \in DOMAIN schema
    <3>1. CASE s \in q.outer.from /\ ~(q.role = "derived" /\ G!IsInner(q, s))
      <4>1. ~G!IsInner(q, s)
        BY <2>1, <3>1 DEF G!IsInner, G!cte_names
      <4> QED
        BY <3>1, <4>1 DEF G!Valid, G!Scope, G!SourceExists
    <3>2. CASE s \in UNION {x.from : x \in q.inner}
      BY <3>2 DEF G!Valid, G!Scope, G!SourceExists
    <3> QED
      BY <3>1, <3>2 DEF G!TableNodes
  <2> QED
    BY <2>1 DEF G!hallucinated_tables
<1>2. G!hallucinated_columns(q) = {}
  <2> SUFFICES ASSUME NEW x \in G!Selects(q), x.column.name \notin G!defined_aliases(q)
               PROVE  /\ x.column.table # Unqualified => ~G!FlaggedQualified(q, x.column)
                      /\ x.column.table = Unqualified =>
                           \A t \in G!single_table(q) : G!column_exists(t, x.column.name)
    BY Zenon DEF G!hallucinated_columns
  <2> DEFINE c == x.column
  <2>1. c.name \notin x.aliases
    BY DEF G!defined_aliases
  <2>2. \E s : /\ c.table \in {Unqualified, s.ref} /\ s.ref # Unqualified
               /\ \/ s \in G!RealTables(q) /\ c.name \in schema[s.name]
                  \/ s.ref \in G!non_checkable(q)
    <3>1. CASE x = q.outer
      <4>1. G!Cardinality(G!Found(q, q.outer.from, c, TRUE)) = 1
        BY <2>1, <3>1 DEF G!Valid, G!Scope
      <4> QED
        BY <4>1, FoundSomewhere DEF G!Selects
    <3>2. CASE x \in q.inner
      <4>1. \/ G!Cardinality(G!Found(q, x.from, c, FALSE)) = 1
            \/ G!Cardinality(G!Found(q, q.outer.from, c, TRUE)) = 1
        BY <2>1, <3>2 DEF G!Valid, G!Scope
      <4>2. q.outer \in G!Selects(q) /\ x \in G!Selects(q)
        BY DEF G!Selects
      <4> QED
        BY <3>2, <4>1, <4>2, FoundSomewhere
    <3> QED
      BY <3>1, <3>2 DEF G!Selects
  <2> QED
    BY <2>2, KnownIsNotFlagged
<1> QED
  BY <1>1, <1>2 DEF G!is_grounded

(* A query of one SELECT on one known table, whose column is not an alias, is *)
(* valid if nothing is flagged.                                            *)
LEMMA PlainErrorsAreFlagged ==
  ASSUME NEW q, G!WellFormed(q), q.inner = {}
  PROVE  G!FlagsPlainErrors(q)
<1>1. /\ q.role = "none" /\ \A s : ~G!IsInner(q, s)
      /\ IsFiniteSet(q.outer.from)
  <2>1. q.role = "none"
    BY DEF G!WellFormed
  <2> QED
    BY <2>1, SourcesAreNamed DEF G!IsInner, G!Selects
<1>2. /\ G!Selects(q) = {q.outer} /\ G!TableNodes(q) = q.outer.from
      /\ G!cte_names(q) = {} /\ G!subquery_aliases(q) = {}
      /\ G!defined_aliases(q) = q.outer.aliases
  BY <1>1 DEF G!Selects, G!TableNodes, G!cte_names, G!subquery_aliases, G!defined_aliases
<1>3. G!hallucinated_tables(q) = {s.name : s \in q.outer.from} \ DOMAIN schema
  BY <1>2 DEF G!hallucinated_tables
<1>4. ASSUME Cardinality(q.outer.from) = 1,
             q.outer.column.table \in {Unqualified} \cup {s.ref : s \in q.outer.from},
             q.outer.column.name \notin q.outer.aliases, G!is_grounded(q)
      PROVE  G!Valid(q)
  <2> DEFINE c == q.outer.column
  <2>1. PICK s : q.outer.from = {s}
    BY <1>1, <1>4, FS_Singleton
  <2>2. s.name \in DOMAIN schema
    BY <1>3, <1>4, <2>1 DEF G!is_grounded
  <2>3. G!RealTables(q) = {s} /\ G!non_checkable(q) = {}
    BY <1>2, <2>1, <2>2 DEF G!RealTables, G!non_checkable, G!has_table
  <2>4. /\ c.table # Unqualified => ~G!FlaggedQualified(q, c)
        /\ c.table = Unqualified => \A t \in G!single_table(q) : G!column_exists(t, c.name)
    <3>1. c \notin G!hallucinated_columns(q)
      BY <1>4 DEF G!is_grounded
    <3> QED
      BY <1>2, <1>4, <3>1 DEF G!hallucinated_columns
  <2>5. c.name \in schema[s.name]
    <3>1. CASE c.table = Unqualified
      <4>1. {r.name : r \in G!RealTables(q)} = {s.name}
        BY <2>3
      <4>2. G!single_table(q) = {s.name}
        BY <2>3, <4>1, FS_Singleton, GroundingCounts DEF G!single_table
      <4> QED
        BY <2>4, <3>1, <4>2 DEF G!column_exists
    <3>2. CASE c.table # Unqualified
      <4>1. c.table = s.ref
        BY <1>4, <2>1, <3>2
      <4>2. G!alias_real_tables(q, c.table) = {s.name}
        BY <2>3, <4>1 DEF G!alias_real_tables
      <4> QED
        BY <2>3, <2>4, <3>2, <4>2 DEF G!FlaggedQualified, G!column_exists
    <3> QED
      BY <3>1, <3>2
  <2>6. G!SourceColumns(q, s, TRUE) = schema[s.name]
    BY <1>1, <2>2 DEF G!SourceColumns
  <2>7. G!Found(q, q.outer.from, c, TRUE) = {s}
    BY <1>4, <2>1, <2>5, <2>6 DEF G!Found
  <2>8. Cardinality(G!Found(q, q.outer.from, c, TRUE)) = 1
    BY <2>7, FS_Singleton
  <2> QED
    <3>1. G!Scope(q, q.outer, TRUE)
      BY <2>1, <2>2, <2>8, GroundingCounts DEF G!Scope, G!SourceExists
    <3> QED
      BY <3>1 DEF G!Valid
<1>5. ASSUME NEW s \in q.outer.from, s.name \notin DOMAIN schema
      PROVE  ~G!is_grounded(q)
  BY <1>3, <1>5 DEF G!is_grounded
<1> QED
  BY <1>4, <1>5, GroundingCounts DEF G!FlagsPlainErrors

(* Both halves of the verdict hold of every well-formed query.             *)
LEMMA QueryIsJudged ==
  ASSUME NEW q, G!WellFormed(q)
  PROVE  G!GroundingVerdict(q)
<1>1. G!NeverFlagsValid(q)
  BY ValidIsNotFlagged DEF G!NeverFlagsValid
<1>2. CASE q.inner = {}
  BY <1>1, <1>2, PlainErrorsAreFlagged DEF G!GroundingVerdict
<1>3. CASE q.inner # {}
  BY <1>1, <1>3 DEF G!GroundingVerdict, G!FlagsPlainErrors
<1> QED
  BY <1>2, <1>3

(* Valid SQL is never flagged and a plain error always is, whatever the    *)
(* schema and however many sources a query has.                            *)
THEOREM GroundingIsRight == Draws => []GroundingVerdict
<1>1. DrawnFrom => GroundingVerdict
  BY QueryIsJudged, InputsAssumption DEF DrawnFrom, GroundingVerdict
<1> QED
  BY <1>1, InputsAreDrawn, PTL

-----------------------------------------------------------------------------
(* ExplanationCheck.                                                       *)

\* What a published text may say of a result.
NothingFalse(text, r) ==
  /\ \A i \in DOMAIN text :
       text[i].kind = "count" /\ ~text[i].selected => text[i].n = r.row_count
  /\ \A i \in DOMAIN text :
       text[i].kind = "value" /\ r.row_count > 0 =>
         \/ \E k \in DOMAIN r.rows : \E c \in E!Cells(r.rows[k]) :
              c.kind \in {"value", "count"} /\ c.n = text[i].n
         \/ E!Echoed(text[i].n, r.question)
         \/ \E j \in DOMAIN text : text[j].kind = "derived"

(* A draft that passes the checks says nothing false.                      *)
LEMMA PassedSaysNothingFalse ==
  ASSUME NEW text, NEW r, E!Passes(text, r)
  PROVE  NothingFalse(text, r)
<1>1. E!explanation_matches_result(text, r)
  BY DEF E!Passes
<1>2. ASSUME NEW i \in DOMAIN text, text[i].kind = "count", ~text[i].selected
      PROVE  text[i].n = r.row_count
  BY <1>1, <1>2 DEF E!explanation_matches_result, E!row_count_claims
<1>3. ASSUME NEW i \in DOMAIN text, text[i].kind = "value", r.row_count > 0
      PROVE  \/ \E k \in DOMAIN r.rows : \E c \in E!Cells(r.rows[k]) :
                  c.kind \in {"value", "count"} /\ c.n = text[i].n
             \/ E!Echoed(text[i].n, r.question)
             \/ \E j \in DOMAIN text : text[j].kind = "derived"
  <2>1. i \in E!cited_values(text)
    BY <1>3 DEF E!cited_values, E!row_count_claims
  <2>2. \/ E!derived_figure(text, i) \/ E!Echoed(text[i].n, r.question)
        \/ text[i].n \in E!CellValues(r.rows)
    BY <1>1, <1>3, <2>1 DEF E!explanation_matches_result
  <2>3. ASSUME E!derived_figure(text, i)
        PROVE  \E j \in DOMAIN text : text[j].kind = "derived"
    BY <2>3 DEF E!derived_figure, E!Near
  <2>4. ASSUME text[i].n \in E!CellValues(r.rows)
        PROVE  \E k \in DOMAIN r.rows : \E c \in E!Cells(r.rows[k]) :
                 c.kind \in {"value", "count"} /\ c.n = text[i].n
    BY <2>4 DEF E!CellValues
  <2> QED
    BY <2>2, <2>3, <2>4
<1> QED
  BY <1>2, <1>3 DEF NothingFalse

(* The plain rendering is the count, and then cells of the first row.      *)
LEMMA PlainIsCountAndCells ==
  ASSUME NEW drafts, NEW r, E!WellFormed(drafts, r)
  PROVE  LET text == E!describe_result_plainly(r)
         IN  /\ 1 \in DOMAIN text /\ text[1].kind = "count" /\ text[1].n = r.row_count
             /\ \A i \in DOMAIN text \ {1} :
                  1 \in DOMAIN r.rows /\ text[i] \in E!Cells(r.rows[1])
<1> DEFINE count == [kind |-> "count", n |-> r.row_count, selected |-> FALSE, grouped |-> FALSE]
           text == E!describe_result_plainly(r)
<1>1. /\ r.rows \in Seq(Seq(E!Token)) /\ r.row_count \in Nat
      /\ r.row_count > 0 => r.rows # <<>>
  BY DEF E!WellFormed
<1>2. CASE r.row_count = 0
  <2>1. text = <<count>> \o << >>
    BY <1>2 DEF E!describe_result_plainly
  <2>2. text = <<count>>
    BY <2>1
  <2> QED
    BY <2>2
<1>3. CASE r.row_count # 0
  <2>1. 1 \in DOMAIN r.rows /\ r.rows[1] \in Seq(E!Token)
    BY <1>1, <1>3
  <2> DEFINE row == r.rows[1]
  <2>2. text = <<count>> \o row
    BY <1>3 DEF E!describe_result_plainly
  <2>3. <<count>> \in Seq({count}) /\ Len(<<count>>) = 1 /\ Len(row) \in Nat
    BY <2>1
  <2>4. /\ DOMAIN text = 1..(Len(row) + 1) /\ text[1] = count
        /\ \A i \in DOMAIN text \ {1} : text[i] = row[i - 1] /\ i - 1 \in DOMAIN row
    <3> HIDE DEF count, row
    <3>1. text = [i \in 1..(Len(<<count>>) + Len(row)) |->
                    IF i <= Len(<<count>>) THEN <<count>>[i] ELSE row[i - Len(<<count>>)]]
      BY <2>1, <2>2
    <3> QED
      BY <2>1, <2>3, <3>1
  <2> QED
    BY <2>1, <2>4 DEF E!Cells
<1> QED
  BY <1>2, <1>3

(* A draft that claims nothing, and counts and cites as the result does,   *)
(* passes the checks.                                                      *)
LEMMA GoodDraftPasses ==
  ASSUME NEW text, NEW r,
         \A i \in DOMAIN text :
           CASE text[i].kind = "marker" -> FALSE
             [] text[i].kind = "count" -> text[i].n = r.row_count /\ ~text[i].selected
             [] text[i].kind = "value" -> text[i].n \in E!CellValues(r.rows)
             [] OTHER -> TRUE
  PROVE  E!Passes(text, r)
<1>1. \A i \in DOMAIN text :
        /\ text[i].kind # "marker"
        /\ text[i].kind = "count" => text[i].n = r.row_count /\ ~text[i].selected
        /\ text[i].kind = "value" => text[i].n \in E!CellValues(r.rows)
  OBVIOUS
<1>2. ~E!is_overstated(text)
  BY <1>1 DEF E!is_overstated
<1>3. E!explanation_matches_result(text, r)
  BY <1>1 DEF E!explanation_matches_result, E!row_count_claims, E!cited_values
<1> QED
  BY <1>2, <1>3 DEF E!Passes

(* Whatever the drafts are, what is published of them is honest, and a good *)
(* first draft is published as it is.                                      *)
LEMMA PublishedIsHonest ==
  ASSUME NEW drafts, NEW r, E!WellFormed(drafts, r)
  PROVE  E!ExplanationIsHonest(drafts, r)
<1> DEFINE plain == E!describe_result_plainly(r)
           text == E!explanation(drafts, r)
<1> DEFINE InRows(i) == \E k \in DOMAIN r.rows : \E c \in E!Cells(r.rows[k]) :
                          c.kind \in {"value", "count"} /\ c.n = text[i].n
<1>1. NothingFalse(text, r) \/ text = plain
  BY PassedSaysNothingFalse DEF E!explanation
<1>2. ASSUME NEW i \in DOMAIN text, text[i].kind = "count", ~text[i].selected, text = plain => i = 1
      PROVE  text[i].n = r.row_count
  <2> HIDE DEF text, plain
  <2>1. CASE text = plain
    BY <1>2, <2>1, PlainIsCountAndCells DEF plain
  <2> QED
    BY <1>1, <1>2, <2>1 DEF NothingFalse
<1>3. ASSUME NEW i \in DOMAIN text, text[i].kind = "value", r.row_count > 0
      PROVE  \/ InRows(i) \/ E!Echoed(text[i].n, r.question)
             \/ \E j \in DOMAIN text : text[j].kind = "derived"
  <2> HIDE DEF text, plain
  <2>1. CASE text = plain
    <3>1. i # 1
      BY <1>3, <2>1, PlainIsCountAndCells DEF plain
    <3>2. 1 \in DOMAIN r.rows /\ text[i] \in E!Cells(r.rows[1])
      BY <2>1, <3>1, PlainIsCountAndCells DEF plain
    <3> QED
      BY <1>3, <3>2
  <2> QED
    BY <1>1, <1>3, <2>1 DEF NothingFalse
<1>4. E!PublishedIsFaithful(drafts, r)
  BY <1>2, <1>3, Zenon DEF E!PublishedIsFaithful
<1>5. E!GoodDraftIsKept(drafts, r)
  BY GoodDraftPasses DEF E!GoodDraftIsKept, E!explanation
<1> QED
  BY <1>5, <1>4 DEF E!ExplanationIsHonest

(* What is published of two drafts of any length says nothing false of the *)
(* rows, and a good first draft is kept.                                   *)
THEOREM ExplanationsAreHonest == Draws => []ExplanationIsHonest
<1>1. DrawnFrom => ExplanationIsHonest
  BY PublishedIsHonest, InputsAssumption DEF DrawnFrom, ExplanationIsHonest
<1> QED
  BY <1>1, InputsAreDrawn, PTL

-----------------------------------------------------------------------------
(* McpServer.                                                              *)

(* The module McpServer counts as FiniteSets does.                         *)
LEMMA BatchesCount == \A S : M!Cardinality(S) = Cardinality(S)
BY DEF M!Cardinality, Cardinality

(* The members of a set of positions, in order, are all of them, in order. *)
LEMMA InOrderListsAll ==
  ASSUME NEW n \in Nat, NEW S \in SUBSET (1..n)
  PROVE  LET list == M!InOrder(S)
         IN  /\ list \in Surjection(1..Cardinality(S), S)
             /\ \A i, j \in DOMAIN list : i < j => list[i] < list[j]
<1> DEFINE UpTo(p) == {q \in S : q <= p}
           N == Cardinality(S)
           rank == [p \in S |-> Cardinality(UpTo(p))]
           list == M!InOrder(S)
<1>0. \A k \in S : k \in Nat
  OBVIOUS
<1>1. IsFiniteSet(S) /\ N \in Nat
  <2>1. IsFiniteSet(1..n)
    BY FS_Interval
  <2>2. IsFiniteSet(S)
    BY <2>1, FS_Subset
  <2> QED
    BY <2>2, FS_CardinalityType
<1>2. \A k \in S : /\ IsFiniteSet(UpTo(k)) /\ rank[k] \in Nat /\ rank[k] >= 1 /\ rank[k] <= N
  <2> SUFFICES ASSUME NEW k \in S
               PROVE  /\ IsFiniteSet(UpTo(k)) /\ Cardinality(UpTo(k)) \in Nat
                      /\ Cardinality(UpTo(k)) >= 1 /\ Cardinality(UpTo(k)) <= N
    OBVIOUS
  <2>1. UpTo(k) \in SUBSET S /\ k \in UpTo(k)
    BY <1>0
  <2> HIDE DEF UpTo
  <2>2. IsFiniteSet(UpTo(k)) /\ Cardinality(UpTo(k)) \in Nat /\ Cardinality(UpTo(k)) <= N
    BY <1>1, <2>1, FS_Subset, FS_CardinalityType
  <2>3. Cardinality(UpTo(k)) # 0
    BY <2>1, <2>2, FS_EmptySet
  <2> QED
    BY <2>2, <2>3
<1>3. ASSUME NEW k \in S, NEW l \in S, k < l
      PROVE  rank[k] < rank[l]
  <2>1. UpTo(k) \in SUBSET UpTo(l) /\ l \in UpTo(l) /\ l \notin UpTo(k)
    <3>1. k \in Int /\ l \in Int /\ \A j \in S : j \in Int
      BY <1>0
    <3>2. ~(l <= k) /\ \A j \in S : j <= k => j <= l
      BY <1>3, <3>1
    <3>3. UpTo(k) \in SUBSET UpTo(l)
      BY <3>2
    <3>4. l \in UpTo(l)
      BY <3>1
    <3>5. l \notin UpTo(k)
      BY <3>2
    <3> QED
      BY <3>3, <3>4, <3>5
  <2> HIDE DEF UpTo
  <2>2. /\ Cardinality(UpTo(k)) <= Cardinality(UpTo(l))
        /\ Cardinality(UpTo(k)) # Cardinality(UpTo(l))
    BY <1>2, <2>1, FS_Subset
  <2> QED
    BY <1>2, <2>2
<1>4. rank \in Injection(S, 1..N)
  <2>1. rank \in [S -> 1..N]
    BY <1>1, <1>2
  <2>2. ASSUME NEW k \in S, NEW l \in S, rank[k] = rank[l]  PROVE k = l
    <3>1. ~(k < l) /\ ~(l < k)
      BY <1>2, <1>3, <2>2
    <3> QED
      BY <1>0, <3>1
  <2> HIDE DEF rank
  <2> QED
    BY <2>1, <2>2 DEF Injection, IsInjective
<1>5. rank \in Surjection(S, 1..N)
  <2>1. IsFiniteSet(1..N) /\ Cardinality(1..N) = N
    BY <1>1, FS_Interval
  <2> HIDE DEF rank
  <2> QED
    BY <1>4, <2>1, FS_Injection
<1>6. list = [i \in 1..N |-> CHOOSE k \in S : M!Cardinality(UpTo(k)) = i]
  <2>1. list = [i \in 1..M!Cardinality(S) |-> CHOOSE k \in S : M!Cardinality(UpTo(k)) = i]
    BY DEF M!InOrder
  <2> QED
    BY <2>1, BatchesCount
<1>7. ASSUME NEW i \in 1..N
      PROVE  list[i] \in S /\ rank[list[i]] = i
  <2>1. PICK k \in S : rank[k] = i
    <3> HIDE DEF rank
    <3> QED
      BY <1>5 DEF Surjection
  <2>2. M!Cardinality(UpTo(k)) = i
    BY <2>1, BatchesCount
  <2>3. list[i] \in S /\ M!Cardinality(UpTo(list[i])) = i
    <3> DEFINE P(p) == M!Cardinality(UpTo(p)) = i
    <3>1. list[i] = CHOOSE p \in S : P(p)
      BY <1>6
    <3>2. P(k)
      BY <2>2
    <3> HIDE DEF P, list
    <3>3. list[i] \in S /\ P(list[i])
      BY <3>1, <3>2
    <3> QED
      BY <3>3 DEF P
  <2> QED
    BY <2>3, BatchesCount
<1>8. \A k \in S : list[rank[k]] = k
  <2> HIDE DEF rank, list
  <2> QED
    BY <1>4, <1>7 DEF Injection, IsInjective
<1>9. list \in Surjection(1..N, S)
  <2> HIDE DEF rank, list
  <2>1. list \in [1..N -> S]
    BY <1>6, <1>7
  <2>2. \A k \in S : \E i \in 1..N : list[i] = k
    BY <1>4, <1>8 DEF Injection, IsInjective
  <2> QED
    BY <2>1, <2>2 DEF Surjection
<1>10. ASSUME NEW i \in 1..N, NEW j \in 1..N, i < j
       PROVE  list[i] < list[j]
  <2> HIDE DEF rank, list
  <2>1. list[i] \in S /\ list[j] \in S /\ rank[list[i]] = i /\ rank[list[j]] = j
    BY <1>7
  <2>2. list[i] \in Int /\ list[j] \in Int
    <3>1. list[i] \in Nat /\ list[j] \in Nat
      BY <1>0, <2>1, Zenon
    <3> QED
      BY <3>1
  <2>4. i # j /\ ~(j < i)
    BY <1>1, <1>10
  <2>3. list[j] < list[i] => j < i
    BY <1>3, <2>1
  <2> QED
    BY <2>1, <2>2, <2>3, <2>4
<1>11. DOMAIN list = 1..N
  BY <1>6
<1> QED
  BY <1>9, <1>10, <1>11

(* What becomes of one item of a batch.                                    *)
LEMMA ItemsAnswered ==
  ASSUME NEW i \in M!Item, NEW k \in Nat \ {0}
  PROVE  LET request == i.object /\ i.id /\ i.method # "notifications/initialized"
             r == M!Respond(k, i)
         IN  /\ request => r # M!None /\ r.id = k
             /\ r # M!None /\ ~request => r.id = 0
             /\ M!Executes(i) => request /\ r.kind \in {"result", "isError"}
<1>1. /\ i.object \in BOOLEAN /\ i.id \in BOOLEAN /\ i.params \in BOOLEAN
      /\ i.method \in M!Method /\ i.tool \in M!Tool
  BY DEF M!Item
<1>2. ASSUME NEW code \in {"INVALID_REQUEST", "INVALID_PARAMS", "METHOD_NOT_FOUND"}
      PROVE  /\ M!rpc_error(k, i, code) # M!None
             /\ M!rpc_error(k, i, code).id = IF i.object /\ i.id THEN k ELSE 0
  BY <1>2 DEF M!rpc_error, M!None
<1>3. /\ M!result(k, i) # M!None /\ M!result(k, i).id = IF i.id THEN k ELSE 0
      /\ M!result(k, i).kind = "result"
  BY DEF M!result, M!None
<1>4. /\ M!call_tool(k, i) # M!None /\ M!call_tool(k, i).id = IF i.id THEN k ELSE 0
      /\ M!call_tool(k, i).kind \in {"result", "isError"}
  BY DEF M!call_tool, M!result, M!None
<1> USE DEF M!Respond, M!Executes
<1>5. CASE ~i.object
  BY <1>2, <1>5
<1>6. CASE i.object /\ i.method = "missing"
  BY <1>2, <1>6
<1>7. CASE i.object /\ i.method \in {"initialize", "tools/list", "ping"}
  BY <1>1, <1>3, <1>7
<1>8. CASE i.object /\ i.method = "notifications/initialized"
  BY <1>8
<1>9. CASE i.object /\ i.method = "tools/call"
  BY <1>1, <1>2, <1>4, <1>9
<1>10. CASE i.object /\ i.method = "unknown"
  BY <1>2, <1>10
<1> QED
  BY <1>1, <1>5, <1>6, <1>7, <1>8, <1>9, <1>10 DEF M!Method

(* The responses to a batch are those of its requests, in their order.     *)
LEMMA BatchIsAnswered ==
  ASSUME NEW batch \in Seq(M!Item)
  PROVE  M!RequestsAreAnswered(batch)
<1> DEFINE requests == {k \in DOMAIN batch : batch[k].object /\ batch[k].id
                                              /\ batch[k].method # "notifications/initialized"}
           A == {k \in DOMAIN batch : M!Respond(k, batch[k]) # M!None}
           Ex == {k \in DOMAIN batch : M!Executes(batch[k])}
           a == M!InOrder(A)
           x == M!InOrder(Ex)
           out == [n \in DOMAIN a |-> M!Respond(a[n], batch[a[n]])]
           answers == {n \in DOMAIN out : out[n].id # 0}
<1>1. Len(batch) \in Nat /\ DOMAIN batch = 1..Len(batch)
  OBVIOUS
<1>2. \A k \in DOMAIN batch :
        /\ k \in Nat \ {0}
        /\ k \in requests => k \in A /\ M!Respond(k, batch[k]).id = k
        /\ k \in A /\ k \notin requests => M!Respond(k, batch[k]).id = 0
        /\ k \in Ex => k \in requests /\ M!Respond(k, batch[k]).kind \in {"result", "isError"}
  BY ItemsAnswered
<1>3. A \in SUBSET (1..Len(batch)) /\ Ex \in SUBSET (1..Len(batch))
  BY <1>1
<1>4. /\ a \in Surjection(1..Cardinality(A), A) /\ x \in Surjection(1..Cardinality(Ex), Ex)
      /\ \A i, j \in DOMAIN a : i < j => a[i] < a[j]
  <2> HIDE DEF A, Ex
  <2> QED
    BY <1>1, <1>3, InOrderListsAll
<1>5. /\ \A n \in DOMAIN a : a[n] \in A
      /\ \A k \in A : \E n \in DOMAIN a : a[n] = k
      /\ \A n \in DOMAIN x : x[n] \in Ex
  <2> HIDE DEF A, Ex, a, x
  <2> QED
    BY <1>4 DEF Surjection
<1>6. requests \subseteq DOMAIN batch /\ A \subseteq DOMAIN batch /\ Ex \subseteq DOMAIN batch
  OBVIOUS
<1> HIDE DEF requests, A, Ex, a, x
<1>7. \A n \in DOMAIN a : /\ n \in answers <=> a[n] \in requests
                          /\ n \in answers => out[n].id = a[n]
  BY <1>2, <1>5, <1>6
<1>8. {out[n].id : n \in answers} = requests
  <2>1. ASSUME NEW k \in requests  PROVE \E n \in answers : out[n].id = k
    <3>1. k \in A
      BY <1>2, <1>6
    <3>2. PICK n \in DOMAIN a : a[n] = k
      BY <1>5, <3>1
    <3> QED
      BY <1>7, <3>2
  <2> HIDE DEF out, answers
  <2>2. \A n \in answers : n \in DOMAIN a
    BY DEF answers, out
  <2> QED
    BY <1>7, <2>1, <2>2
<1>9. \A m, n \in answers : m < n => out[m].id < out[n].id
  BY <1>4, <1>7
<1>10. ASSUME NEW n \in DOMAIN x
       PROVE  /\ x[n] \in requests
              /\ \E m \in answers : out[m].id = x[n] /\ out[m].kind \in {"result", "isError"}
  <2>1. x[n] \in Ex /\ x[n] \in DOMAIN batch
    BY <1>5, <1>6
  <2>2. x[n] \in requests /\ x[n] \in A /\ M!Respond(x[n], batch[x[n]]).kind \in {"result", "isError"}
    BY <1>2, <2>1
  <2>3. PICK m \in DOMAIN a : a[m] = x[n]
    BY <1>5, <2>2
  <2> QED
    BY <1>7, <2>2, <2>3
<1>11. /\ M!handle_message(batch).responses = out
       /\ M!handle_message(batch).executed = x
  BY DEF M!handle_message, A, Ex, a, x
<1> HIDE DEF out, answers
<1> QED
  BY <1>8, <1>9, <1>10, <1>11 DEF M!RequestsAreAnswered, answers, requests

(* Of a batch of any length every request is answered once and in its      *)
(* turn, and only requests execute a tool.                                 *)
THEOREM BatchesAreAnswered == Draws => []RequestsAreAnswered
<1>1. DrawnFrom => RequestsAreAnswered
  BY BatchIsAnswered, InputsAssumption DEF DrawnFrom, RequestsAreAnswered
<1> QED
  BY <1>1, InputsAreDrawn, PTL

-----------------------------------------------------------------------------
(* Descriptions.                                                           *)

(* A model is registered under the name of a table of the catalog exactly  *)
(* when its relation names that table, schema and all.                     *)
LEMMA KeysAreNames ==
  ASSUME NEW tables \in SUBSET D!Table, NEW t \in tables, NEW node \in D!Node
  PROVE  D!qualified_name(t) \in D!MatchKeys(node, {D!qualified_name(u) : u \in tables})
           <=> D!Names(node, t)
<1> DEFINE live == {D!qualified_name(u) : u \in tables}
           key == D!qualified_name(t)
           rel == node.relation
           L == Len(rel)
           schemaOf == rel[L - 1]
           nameOf == rel[L]
           q == <<schemaOf, nameOf>>
<1>1. rel \in Seq(Name) /\ L \in Nat
  BY DEF D!Node
<1>2. CASE L < 2
  BY <1>2 DEF D!Names, D!MatchKeys, D!resolved, D!normalize_relation
<1>3. CASE L >= 2
  <2>1. D!normalize_relation(rel) = {q}
    <3> DEFINE last == SubSeq(rel, L - 1, L)
    <3>1. last \in Seq(Name) /\ Len(last) = 2
      BY <1>1, <1>3
    <3>2. last[1] = schemaOf /\ last[2] = nameOf
      BY <1>1, <1>3
    <3>3. last = q
      <4> HIDE DEF last, schemaOf, nameOf
      <4>1. last = <<last[1], last[2]>>
        BY <3>1
      <4> QED
        BY <3>2, <4>1
    <3>4. ~(L < 2)
      BY <1>1, <1>3
    <3> QED
      BY <3>3, <3>4 DEF D!normalize_relation
  <2> DEFINE registered == D!resolved(node, live)
  <2>2. registered = IF q \in live \/ (schemaOf = Public /\ <<nameOf>> \in live) THEN {q} ELSE {}
    <3>1. D!resolved(node, live) = {p \in {q} : p \in live \/ (p[1] = Public /\ <<p[2]>> \in live)}
      BY <2>1 DEF D!resolved
    <3>2. q[1] = schemaOf /\ q[2] = nameOf
      OBVIOUS
    <3> HIDE DEF q, live, schemaOf, nameOf
    <3> QED
      BY <3>1, <3>2
  <2>3. D!Names(node, t) <=> nameOf = t.name /\ schemaOf = t.schema
    BY <1>1, <1>3 DEF D!Names
  <2>4. key \in live
    OBVIOUS
  <2>5. key = IF t.schema = Public THEN <<t.name>> ELSE <<t.schema, t.name>>
    BY DEF D!qualified_name
  <2> DEFINE bare == {<<p[2]>> : p \in {r \in registered : r[1] = Public}}
  <2>6. D!MatchKeys(node, live) = registered \cup bare
    BY DEF D!MatchKeys
  <2>7. bare = IF registered = {q} /\ schemaOf = Public THEN {<<nameOf>>} ELSE {}
    <3>1. registered = {q} \/ registered = {}
      BY <2>2
    <3>2. q[1] = schemaOf /\ q[2] = nameOf
      OBVIOUS
    <3> HIDE DEF q, registered, schemaOf, nameOf
    <3> QED
      BY <3>1, <3>2
  <2>8. /\ <<t.name>> = <<nameOf>> <=> t.name = nameOf
        /\ <<t.schema, t.name>> = q <=> t.schema = schemaOf /\ t.name = nameOf
        /\ <<t.schema, t.name>> # <<nameOf>> /\ <<t.name>> # q
    OBVIOUS
  <2> HIDE DEF live, registered, bare, key
  <2>9. key \in registered \cup bare <=> nameOf = t.name /\ schemaOf = t.schema
    <3>1. CASE t.schema = Public
      <4>1. key = <<t.name>> /\ key \notin registered
        <5>1. key = <<t.name>>
          BY <2>5, <3>1
        <5>2. registered \subseteq {q}
          BY <2>2
        <5> QED
          BY <2>8, <5>1, <5>2
      <4>2. ASSUME nameOf = t.name, schemaOf = t.schema  PROVE key \in bare
        <5>1. registered = {q}
          <6>1. schemaOf = Public /\ <<nameOf>> \in live
            BY <2>4, <3>1, <4>1, <4>2
          <6> QED
            BY <2>2, <6>1
        <5> QED
          BY <2>7, <3>1, <4>1, <4>2, <5>1
      <4>3. ASSUME key \in bare  PROVE nameOf = t.name /\ schemaOf = t.schema
        BY <2>7, <2>8, <3>1, <4>1, <4>3
      <4> QED
        BY <4>1, <4>2, <4>3
    <3>2. CASE t.schema # Public
      <4>1. key = <<t.schema, t.name>> /\ key \notin bare
        BY <2>5, <2>7, <2>8, <3>2
      <4>2. ASSUME nameOf = t.name, schemaOf = t.schema  PROVE key \in registered
        <5>1. key = q
          BY <2>8, <4>1, <4>2
        <5> QED
          BY <2>2, <2>4, <5>1
      <4>3. ASSUME key \in registered  PROVE nameOf = t.name /\ schemaOf = t.schema
        <5>1. key = q
          BY <2>2, <4>3
        <5> QED
          BY <2>8, <4>1, <5>1
      <4> QED
        BY <4>1, <4>2, <4>3
    <3> QED
      BY <3>1, <3>2
  <2> QED
    BY <2>3, <2>6, <2>9 DEF live, key
<1> QED
  BY <1>1, <1>2, <1>3

(* The model a table is matched to is the last one that names it.          *)
LEMMA MatchIsLast ==
  ASSUME NEW tables \in SUBSET D!Table, NEW nodes \in Seq(D!Node), NEW t \in tables
  PROVE  LET i == D!match_of(D!qualified_name(t), nodes, {D!qualified_name(u) : u \in tables})
             is == {j \in D!models(nodes) : D!Names(nodes[j], t)}
         IN  /\ is = {} => i = 0
             /\ is # {} => i \in is /\ i # 0 /\ \A j \in is : j <= i
<1> DEFINE live == {D!qualified_name(u) : u \in tables}
           key == D!qualified_name(t)
           is == {j \in D!models(nodes) : D!Names(nodes[j], t)}
           i == D!match_of(key, nodes, live)
<1>1. D!models(nodes) \subseteq 1..Len(nodes) /\ Len(nodes) \in Nat
      /\ \A j \in D!models(nodes) : nodes[j] \in D!Node
  BY DEF D!models
<1>2. {j \in D!models(nodes) : key \in D!MatchKeys(nodes[j], live)} = is
  <2>1. \A j \in D!models(nodes) : key \in D!MatchKeys(nodes[j], live) <=> D!Names(nodes[j], t)
    BY <1>1, KeysAreNames
  <2> HIDE DEF key, live
  <2> QED
    BY <2>1
<1>3. i = IF is = {} THEN 0 ELSE CHOOSE k \in is : \A j \in is : j <= k
  <2> DEFINE js == {j \in D!models(nodes) : key \in D!MatchKeys(nodes[j], live)}
  <2>1. i = IF js = {} THEN 0 ELSE CHOOSE k \in js : \A j \in js : j <= k
    <3> HIDE DEF key, live
    <3> QED
      BY Zenon DEF D!match_of
  <2>2. js = is
    BY <1>2
  <2> HIDE DEF is, js, i
  <2> QED
    BY <2>1, <2>2
<1>4. ASSUME is # {}  PROVE i \in is /\ i # 0 /\ \A j \in is : j <= i
  <2>1. is \in SUBSET (0..Len(nodes)) /\ 0 \notin is
    BY <1>1
  <2> HIDE DEF is, i
  <2>2. \E k \in is : \A j \in is : j <= k
    BY <1>1, <1>4, <2>1, GreatestMember
  <2> QED
    BY <1>3, <1>4, <2>1, <2>2
<1> QED
  BY <1>3, <1>4

(* The parts of a table's text come from the model it is matched to.       *)
LEMMA DescriptionsAreMatched ==
  ASSUME NEW tables \in SUBSET D!Table, NEW nodes \in Seq(D!Node), NEW entries
  PROVE  D!NeverGuessed(tables, nodes, entries) /\ D!ManifestOwns(tables, nodes, entries)
<1> DEFINE live == {D!qualified_name(u) : u \in tables}
           d(u) == D!descriptions(tables, nodes, entries)[u].from
           i(u) == D!match_of(D!qualified_name(u), nodes, live)
           is(u) == {j \in D!models(nodes) : D!Names(nodes[j], u)}
<1>1. ASSUME NEW u \in tables
      PROVE  /\ d(u).comment = IF i(u) # 0 /\ nodes[i(u)].described THEN i(u) ELSE 0
             /\ \A c \in u.columns : d(u).columns[c] = IF i(u) # 0 /\ c \in nodes[i(u)].columns
                                                       THEN i(u) ELSE 0
  <2>1. d(u) = D!apply_manifest(u, nodes, live)
    BY DEF D!descriptions
  <2> HIDE DEF d, live
  <2> QED
    BY <2>1 DEF D!apply_manifest
<1>2. ASSUME NEW u \in tables
      PROVE  /\ is(u) = {} => i(u) = 0
             /\ is(u) # {} => i(u) \in is(u) /\ i(u) # 0 /\ \A j \in is(u) : j <= i(u)
  BY MatchIsLast
<1>3. \A u \in tables : \A j \in is(u) : j \in Nat
  BY DEF D!models
<1>4. D!NeverGuessed(tables, nodes, entries)
  <2> SUFFICES ASSUME NEW u \in tables, NEW j \in {d(u).comment} \cup {d(u).columns[c] : c \in u.columns},
                      j # 0
               PROVE  j \in D!models(nodes) /\ D!Names(nodes[j], u)
    BY DEF D!NeverGuessed
  <2>1. j = i(u)
    <3> HIDE DEF d, i
    <3> QED
      BY <1>1
  <2>2. j \in is(u)
    <3> HIDE DEF i, is
    <3> QED
      BY <1>2, <2>1
  <2> QED
    BY <2>2
<1>5. D!ManifestOwns(tables, nodes, entries)
  <2>1. ASSUME NEW u \in tables, is(u) = {}
        PROVE  d(u).comment = 0 /\ \A c \in u.columns : d(u).columns[c] = 0
    <3> HIDE DEF d, i, is
    <3> QED
      BY <1>1, <1>2, <2>1
  <2>2. ASSUME NEW u \in tables, NEW j \in is(u), \A k \in is(u) : k <= j
        PROVE  /\ d(u).comment = IF nodes[j].described THEN j ELSE 0
               /\ \A c \in u.columns : d(u).columns[c] = IF c \in nodes[j].columns THEN j ELSE 0
    <3>1. i(u) = j /\ i(u) # 0
      <4> HIDE DEF d, i, is
      <4> QED
        BY <1>2, <1>3, <2>2
    <3> HIDE DEF d, i, is
    <3> QED
      BY <1>1, <3>1
  <2> QED
    BY <2>1, <2>2 DEF D!ManifestOwns
<1> QED
  BY <1>4, <1>5

(* The module Descriptions counts as FiniteSets does.                      *)
LEMMA DescriptionsCount ==
  \A S : D!Cardinality(S) = Cardinality(S)
BY DEF D!Cardinality, Cardinality

(* Of the valid entries of a name the first one is kept, and it alone.     *)
LEMMA FirstIsKept ==
  ASSUME NEW entries \in Seq(D!Entry), NEW i \in DOMAIN entries, entries[i].valid
  PROVE  /\ D!parse_metrics(entries) =
              {k \in DOMAIN entries : entries[k].valid
                 /\ \A j \in 1..k-1 : entries[j].valid => entries[j].name # entries[k].name}
         /\ \E m \in D!parse_metrics(entries) :
              /\ entries[m].name = entries[i].name
              /\ \A f \in D!parse_metrics(entries) : entries[f].name = entries[i].name => f = m
<1> DEFINE first == {k \in DOMAIN entries : entries[k].valid
                       /\ \A j \in 1..k-1 : entries[j].valid => entries[j].name # entries[k].name}
           named == {k \in DOMAIN entries : entries[k].valid /\ entries[k].name = entries[i].name}
<1>1. \A k \in DOMAIN entries : k \in Nat /\ 1..k-1 \subseteq DOMAIN entries
  OBVIOUS
<1>2. D!parse_metrics(entries) = first
  <2>1. \A k \in DOMAIN entries : D!kept(entries, k) <=>
           entries[k].valid /\ \A j \in 1..k-1 : entries[j].valid => entries[j].name # entries[k].name
    BY DEF D!kept, D!ValidBefore
  <2> QED
    BY <2>1 DEF D!parse_metrics
<1>3. PICK m \in named : \A k \in named : m <= k
  <2>1. named \in SUBSET Nat /\ named # {}
    BY <1>1
  <2> HIDE DEF named
  <2> QED
    BY <2>1, LeastMember
<1>4. m \in first
  <2> SUFFICES ASSUME NEW j \in 1..m-1, entries[j].valid, entries[j].name = entries[i].name
               PROVE  FALSE
    BY <1>3
  <2>1. j \in named
    BY <1>1, <1>3
  <2> QED
    BY <1>1, <1>3, <2>1
<1>5. ASSUME NEW f \in first, entries[f].name = entries[i].name  PROVE f = m
  <2>1. f \in named /\ m <= f
    BY <1>3, <1>5
  <2>2. ~(m \in 1..f-1)
    BY <1>3, <1>5
  <2> QED
    BY <1>1, <1>3, <2>1, <2>2
<1> QED
  BY <1>2, <1>3, <1>4, <1>5

(* The lines of a name are those of its kept entry, one for each time it    *)
(* declares the table.                                                     *)
LEMMA MetricsAreServed ==
  ASSUME NEW tables \in SUBSET D!Table, NEW nodes, NEW entries \in Seq(D!Entry)
  PROVE  D!MetricsReachTheirTables(tables, nodes, entries)
<1> DEFINE first == {k \in DOMAIN entries : entries[k].valid
                       /\ \A j \in 1..k-1 : entries[j].valid => entries[j].name # entries[k].name}
           served(t) == D!descriptions(tables, nodes, entries)[t].metrics
<1>1. ASSUME NEW t \in tables, NEW i \in DOMAIN entries, entries[i].valid
      PROVE  LET m == CHOOSE f \in first : entries[f].name = entries[i].name
             IN  D!Cardinality({line \in served(t) : entries[line[1]].name = entries[i].name})
                   = D!Cardinality({j \in DOMAIN entries[m].tables :
                                      entries[m].tables[j] = D!qualified_name(t)})
  <2> DEFINE m == CHOOSE f \in first : entries[f].name = entries[i].name
             key == D!qualified_name(t)
             lines == {line \in served(t) : entries[line[1]].name = entries[i].name}
             declared(k) == {j \in DOMAIN entries[k].tables : entries[k].tables[j] = key}
             line_of == [j \in declared(m) |-> <<m, j>>]
  <2>1. /\ m \in first /\ entries[m].name = entries[i].name
        /\ \A f \in first : entries[f].name = entries[i].name => f = m
    <3>1. \E f \in D!parse_metrics(entries) :
            /\ entries[f].name = entries[i].name
            /\ \A g \in D!parse_metrics(entries) : entries[g].name = entries[i].name => g = f
      BY <1>1, FirstIsKept
    <3>2. D!parse_metrics(entries) = first
      BY <1>1, FirstIsKept
    <3> HIDE DEF first
    <3> QED
      BY <3>1, <3>2
  <2>2. served(t) = UNION {{<<k, j>> : j \in declared(k)} : k \in first}
    <3>1. D!parse_metrics(entries) = first
      BY <1>1, FirstIsKept
    <3>2. served(t) = D!metric_vocabulary(key, entries)
      BY DEF D!descriptions
    <3> HIDE DEF first, served, key
    <3> QED
      BY <3>1, <3>2 DEF D!metric_vocabulary
  <2>3. lines = {<<m, j>> : j \in declared(m)}
    <3> HIDE DEF first, m, served, declared
    <3>1. ASSUME NEW line \in lines  PROVE line \in {<<m, j>> : j \in declared(m)}
      <4>1. PICK k \in first : \E j \in declared(k) : line = <<k, j>>
        BY <2>2
      <4>2. k = m
        BY <2>1, <4>1
      <4> QED
        BY <4>1, <4>2
    <3>2. ASSUME NEW j \in declared(m)  PROVE <<m, j>> \in lines
      BY <2>1, <2>2
    <3> QED
      BY <3>1, <3>2
  <2>4. IsFiniteSet(declared(m))
    <3>1. m \in DOMAIN entries
      BY <2>1
    <3>2. entries[m] \in D!Entry
      BY <3>1
    <3>3. Len(entries[m].tables) \in Nat /\ DOMAIN entries[m].tables = 1..Len(entries[m].tables)
      <4> HIDE DEF m
      <4> QED
        BY <3>2 DEF D!Entry
    <3>4. declared(m) \in SUBSET (1..Len(entries[m].tables))
      BY <3>3
    <3>5. IsFiniteSet(1..Len(entries[m].tables))
      BY <3>3, FS_Interval
    <3> HIDE DEF declared, m
    <3> QED
      BY <3>4, <3>5, FS_Subset
  <2>5. line_of \in Bijection(declared(m), lines)
    <3> HIDE DEF m, declared, lines
    <3>1. line_of \in Surjection(declared(m), lines)
      BY <2>3 DEF Surjection
    <3>2. \A j, k \in declared(m) : line_of[j] = line_of[k] => j = k
      OBVIOUS
    <3> QED
      BY <3>1, <3>2 DEF Bijection, Injection, IsInjective, Surjection
  <2>6. Cardinality(lines) = Cardinality(declared(m))
    <3> HIDE DEF lines, declared, line_of, m
    <3> QED
      BY <2>4, <2>5, FS_Bijection DEF ExistsBijection
  <2>7. D!Cardinality(lines) = D!Cardinality(declared(m))
    <3> HIDE DEF lines, declared, m
    <3> QED
      BY <2>6, DescriptionsCount
  <2> QED
    BY <2>7
<1> QED
  BY <1>1, Zenon DEF D!MetricsReachTheirTables

(* The descriptions of a drawn catalog are their owners'.                  *)
LEMMA CatalogIsOwned ==
  ASSUME NEW c \in D!Catalog
  PROVE  D!DescriptionsAreOwned(c.tables, c.nodes, c.entries)
<1>1. c.tables \in SUBSET D!Table /\ c.nodes \in Seq(D!Node) /\ c.entries \in Seq(D!Entry)
  BY DEF D!Catalog
<1> QED
  BY <1>1, DescriptionsAreMatched, MetricsAreServed DEF D!DescriptionsAreOwned

(* Every part of a description comes from its owner, for any catalog,      *)
(* manifest and metrics file.                                              *)
THEOREM CatalogsAreOwned == Draws => []DescriptionsAreOwned
<1>1. DrawnFrom => DescriptionsAreOwned
  BY CatalogIsOwned, InputsAssumption DEF DrawnFrom, DescriptionsAreOwned
<1> QED
  BY <1>1, InputsAreDrawn, PTL

-----------------------------------------------------------------------------
(* ChartClassifier.                                                        *)

(* The module ChartClassifier counts as FiniteSets does.                   *)
LEMMA ChartCounts ==
  \A S : C!Cardinality(S) = Cardinality(S)
BY DEF C!Cardinality, Cardinality

(* The first rows are all of them when there are as many.                  *)
LEMMA FirstOfRows ==
  ASSUME NEW rows \in Seq(Seq(Int)), NEW n \in Nat
  PROVE  /\ C!FirstRows(rows, n) \in Seq(Seq(Int)) /\ Len(C!FirstRows(rows, n)) \in Nat
         /\ Len(C!FirstRows(rows, n)) <= Len(rows)
         /\ Len(C!FirstRows(rows, n)) = Len(rows) => C!FirstRows(rows, n) = rows
<1>1. Len(rows) \in Nat
  OBVIOUS
<1>2. CASE Len(rows) > n
  <2>1. C!FirstRows(rows, n) = SubSeq(rows, 1, n)
    BY <1>2 DEF C!FirstRows
  <2>2. SubSeq(rows, 1, n) \in Seq(Seq(Int)) /\ Len(SubSeq(rows, 1, n)) = n
    BY <1>1, <1>2
  <2> QED
    BY <1>1, <1>2, <2>1, <2>2
<1>3. CASE ~(Len(rows) > n)
  BY <1>1, <1>3 DEF C!FirstRows
<1> QED
  BY <1>2, <1>3

(* What the node looks at of a result is its first rows, and all of them    *)
(* when there are as many.                                                 *)
LEMMA ShownIsPrefix ==
  ASSUME NEW r \in C!Result
  PROVE  /\ r.rows \in Seq(Seq(Int)) /\ Len(r.rows) \in Nat
         /\ C!Shown(r) \in Seq(Seq(Int)) /\ Len(C!Shown(r)) \in Nat
         /\ Len(C!Shown(r)) <= Len(r.rows)
         /\ Len(C!Shown(r)) = Len(r.rows) => C!Shown(r) = r.rows
<1>1. r.rows \in Seq(Seq(Int)) /\ Len(r.rows) \in Nat /\ Preview \in Nat /\ Plotted \in Nat
  BY LimitsAssumption DEF C!Result
<1>2. /\ C!Given(r) \in Seq(Seq(Int)) /\ Len(C!Given(r)) \in Nat /\ Len(C!Given(r)) <= Len(r.rows)
      /\ Len(C!Given(r)) = Len(r.rows) => C!Given(r) = r.rows
  BY <1>1, FirstOfRows DEF C!Given
<1>3. /\ C!Shown(r) \in Seq(Seq(Int)) /\ Len(C!Shown(r)) \in Nat
      /\ Len(C!Shown(r)) <= Len(C!Given(r))
      /\ Len(C!Shown(r)) = Len(C!Given(r)) => C!Shown(r) = C!Given(r)
  BY <1>1, <1>2, FirstOfRows DEF C!Shown
<1> QED
  BY <1>1, <1>2, <1>3

(* A column shows at most one value a row, and as many as there are rows    *)
(* only if the rows differ in it.                                          *)
LEMMA ValuesAreCounted ==
  ASSUME NEW r \in C!Result, NEW i
  PROVE  /\ C!nunique(r, i) \in Nat /\ C!nunique(r, i) <= Len(C!Shown(r))
         /\ C!nunique(r, i) = Len(C!Shown(r)) =>
              \A k, l \in 1..Len(C!Shown(r)) : k # l => C!Shown(r)[k][i] # C!Shown(r)[l][i]
<1> DEFINE n == Len(C!Shown(r))
           value == [k \in 1..n |-> C!Shown(r)[k][i]]
           V == {C!Shown(r)[k][i] : k \in 1..n}
<1>1. n \in Nat /\ IsFiniteSet(1..n) /\ Cardinality(1..n) = n
  <2>1. n \in Nat
    BY ShownIsPrefix
  <2> HIDE DEF n
  <2> QED
    BY <2>1, FS_Interval
<1>2. value \in Surjection(1..n, V)
  BY DEF Surjection
<1>3. /\ IsFiniteSet(V) /\ Cardinality(V) <= n
      /\ Cardinality(V) = n => value \in Injection(1..n, V)
  <2> HIDE DEF n, V, value
  <2> QED
    BY <1>1, <1>2, FS_Surjection
<1>4. Cardinality(V) \in Nat
  <2> HIDE DEF V
  <2> QED
    BY <1>3, FS_CardinalityType
<1>5. /\ C!nunique(r, i) \in Nat /\ C!nunique(r, i) <= Cardinality(V)
  <2>1. C!Shows(r, i) \in SUBSET V
    BY DEF C!Shows
  <2>2. C!nunique(r, i) = Cardinality(C!Shows(r, i))
    BY ChartCounts DEF C!nunique
  <2> HIDE DEF V
  <2> QED
    BY <1>3, <2>1, <2>2, FS_Subset, FS_CardinalityType
<1>6. ASSUME C!nunique(r, i) = n, NEW k \in 1..n, NEW l \in 1..n, k # l
      PROVE  C!Shown(r)[k][i] # C!Shown(r)[l][i]
  <2>1. value \in Injection(1..n, V)
    <3> HIDE DEF n, V, value
    <3> QED
      BY <1>1, <1>3, <1>4, <1>5, <1>6
  <2>2. value[k] # value[l]
    <3> HIDE DEF n, V, value
    <3> QED
      BY <1>6, <2>1 DEF Injection, IsInjective
  <2> QED
    BY <2>2
<1> QED
  <2> HIDE DEF V
  <2> QED
    BY <1>1, <1>3, <1>4, <1>5, <1>6

(* The columns of a result, and the first of some of them.                 *)
LEMMA FirstColumn ==
  ASSUME NEW r \in C!Result, NEW kinds
  PROVE  /\ C!Columns(r, kinds) \in SUBSET (1..Len(r.kinds)) /\ Len(r.kinds) \in Nat
         /\ \A cols \in SUBSET (1..Len(r.kinds)) : cols # {} => C!First(cols) \in cols
<1>1. C!Columns(r, kinds) \in SUBSET (1..Len(r.kinds)) /\ Len(r.kinds) \in Nat
  BY DEF C!Columns, C!Result
<1>2. ASSUME NEW cols \in SUBSET (1..Len(r.kinds)), cols # {}  PROVE C!First(cols) \in cols
  <2>1. \E m \in cols : \A k \in cols : m <= k
    BY <1>2, LeastMember
  <2> QED
    BY <2>1 DEF C!First
<1> QED
  BY <1>1, <1>2

(* A pie is drawn only of a composition.                                    *)
LEMMA PieIsAComposition ==
  ASSUME NEW r, C!classify(r).type = "pie"
  PROVE  C!is_composition(r, C!classify(r).x, C!classify(r).y)
<1>1. C!classify(r) = C!BarOrPie(r)
  BY DEF C!classify, C!NoChart, C!Line, C!Scatter
<1> DEFINE shares == C!Columns(r, {"share"})
           num == C!First(IF shares # {} THEN shares ELSE C!Columns(r, {"measure"}))
           cat == C!First(C!categorical_cols(r))
           grouped == IF shares = {} THEN C!grouped_bar_cols(r) ELSE <<0, 0>>
           pie == [type |-> "pie", x |-> cat, y |-> num, color |-> 0]
<1>2. \/ C!BarOrPie(r) = [type |-> "bar", x |-> grouped[1], y |-> num, color |-> grouped[2]]
      \/ C!BarOrPie(r) = pie /\ C!is_composition(r, cat, num)
      \/ C!BarOrPie(r) = [type |-> "bar", x |-> cat, y |-> num, color |-> 0]
  <2> HIDE DEF num, cat, grouped
  <2>1. C!BarOrPie(r) =
          CASE grouped # <<0, 0>> -> [type |-> "bar", x |-> grouped[1], y |-> num, color |-> grouped[2]]
            [] grouped = <<0, 0>> /\ C!is_composition(r, cat, num) -> pie
            [] OTHER -> [type |-> "bar", x |-> cat, y |-> num, color |-> 0]
    BY Zenon DEF C!BarOrPie, num, cat, grouped
  <2> QED
    BY <2>1
<1>3. C!BarOrPie(r) = pie /\ C!is_composition(r, cat, num)
  <2> HIDE DEF num, cat, grouped
  <2> QED
    BY <1>1, <1>2
<1> QED
  BY <1>1, <1>3

(* A composition is the whole of its result.                                *)
LEMMA PieShowsAll ==
  ASSUME NEW r \in C!Result
  PROVE  C!PieIsTheWhole(r)
<1> DEFINE x == C!classify(r).x
           y == C!classify(r).y
<1> SUFFICES ASSUME C!classify(r).type = "pie"
             PROVE  /\ C!Shown(r) = r.rows
                    /\ \A k, l \in 1..Len(r.rows) : k # l => r.rows[k][x] # r.rows[l][x]
                    /\ \A k \in 1..Len(r.rows) : r.rows[k][y] = Null \/ r.rows[k][y] >= 0
  BY DEF C!PieIsTheWhole
<1>1. C!nunique(r, x) = Len(r.rows) /\ \A v \in C!Shows(r, y) : v >= 0
  BY PieIsAComposition DEF C!is_composition, C!total_rows
<1> HIDE DEF x, y
<1>2. C!Shown(r) = r.rows
  BY <1>1, ShownIsPrefix, ValuesAreCounted
<1>3. \A k, l \in 1..Len(r.rows) : k # l => r.rows[k][x] # r.rows[l][x]
  BY <1>1, <1>2, ValuesAreCounted
<1>4. ASSUME NEW k \in 1..Len(r.rows), r.rows[k][y] # Null  PROVE r.rows[k][y] >= 0
  <2>1. r.rows[k][y] \in C!Shows(r, y)
    BY <1>2, <1>4 DEF C!Shows
  <2> QED
    BY <1>1, <2>1
<1> QED
  BY <1>2, <1>3, <1>4

(* A column of one kind is not one of another.                             *)
LEMMA KindsAreDisjoint ==
  ASSUME NEW r, NEW i \in C!categorical_cols(r)
  PROVE  \A kinds \in SUBSET {"date", "measure", "share"} : i \notin C!Columns(r, kinds)
BY DEF C!categorical_cols, C!Columns

(* A grouped bar has an axis and series of two categories.                 *)
LEMMA GroupedBarHasTwo ==
  ASSUME NEW r \in C!Result, C!grouped_bar_cols(r) # <<0, 0>>
  PROVE  \E axis, series \in C!categorical_cols(r) :
           /\ C!grouped_bar_cols(r) = <<axis, series>> /\ axis # series
           /\ C!nunique(r, series) \in 2..multi_series_max
<1> DEFINE cats == C!categorical_cols(r)
           n == Len(C!Shown(r))
           nu(i) == C!nunique(r, i)
           Lowest(i) == \A j \in cats : nu(i) < nu(j) \/ (nu(i) = nu(j) /\ i <= j)
           Highest(i) == \A j \in cats : nu(i) > nu(j) \/ (nu(i) = nu(j) /\ i >= j)
           series == CHOOSE i \in cats : Lowest(i)
           axis == CHOOSE i \in cats : Highest(i)
<1>1. /\ Cardinality(cats) >= 2 /\ nu(series) \in 2..multi_series_max
      /\ C!grouped_bar_cols(r) = <<axis, series>>
  <2>1. C!grouped_bar_cols(r) =
          IF C!Cardinality(cats) >= 2 /\ nu(series) \in 2..multi_series_max /\ nu(axis) >= 2
          THEN <<axis, series>> ELSE <<0, 0>>
    BY Zenon DEF C!grouped_bar_cols
  <2> HIDE DEF cats, nu, series, axis
  <2> QED
    BY <2>1, ChartCounts
<1>2. /\ cats \in SUBSET (1..Len(r.kinds)) /\ Len(r.kinds) \in Nat
      /\ \A i \in cats : i \in Nat /\ i \in 0..Len(r.kinds)
  BY FirstColumn DEF C!categorical_cols
<1>3. n \in Nat /\ \A i : nu(i) \in 0..n
  <2>1. \A i : nu(i) \in Nat /\ nu(i) <= n
    BY ValuesAreCounted
  <2>2. n \in Nat
    BY ShownIsPrefix
  <2> HIDE DEF n, nu
  <2> QED
    BY <2>1, <2>2
<1>4. cats # {}
  <2> HIDE DEF cats
  <2> QED
    BY <1>1, FS_EmptySet
<1> HIDE DEF cats, n, nu
<1>5. \E i \in cats : Lowest(i)
  <2>1. PICK low \in {nu(i) : i \in cats} : \A v \in {nu(i) : i \in cats} : low <= v
    <3>1. {nu(i) : i \in cats} \in SUBSET Nat /\ {nu(i) : i \in cats} # {}
      BY <1>3, <1>4
    <3> QED
      BY <3>1, LeastMember
  <2> DEFINE lowest == {i \in cats : nu(i) = low}
  <2>2. PICK i \in lowest : \A j \in lowest : i <= j
    <3>1. lowest \in SUBSET Nat /\ lowest # {}
      BY <1>2, <2>1
    <3> HIDE DEF lowest
    <3> QED
      BY <3>1, LeastMember
  <2>3. ASSUME NEW j \in cats  PROVE nu(i) < nu(j) \/ (nu(i) = nu(j) /\ i <= j)
    <3>1. nu(i) = low /\ low <= nu(j) /\ nu(i) \in Nat /\ nu(j) \in Nat
      BY <1>3, <2>1, <2>2
    <3>2. nu(j) = low => i <= j
      BY <2>2
    <3> QED
      BY <3>1, <3>2
  <2> QED
    BY <2>2, <2>3
<1>6. \E i \in cats : Highest(i)
  <2> DEFINE values == {nu(i) : i \in cats}
  <2>1. PICK top \in values : \A v \in values : v <= top
    <3>1. values \in SUBSET (0..n) /\ values # {}
      BY <1>3, <1>4
    <3> HIDE DEF values
    <3> QED
      BY <1>3, <3>1, GreatestMember
  <2> DEFINE highest == {i \in cats : nu(i) = top}
  <2>2. PICK i \in highest : \A j \in highest : j <= i
    <3>1. highest \in SUBSET (0..Len(r.kinds)) /\ highest # {}
      BY <1>2, <2>1
    <3> HIDE DEF highest
    <3> QED
      BY <1>2, <3>1, GreatestMember
  <2>3. ASSUME NEW j \in cats  PROVE nu(i) > nu(j) \/ (nu(i) = nu(j) /\ i >= j)
    <3>1. nu(i) = top /\ nu(j) <= top /\ nu(i) \in Nat /\ nu(j) \in Nat
      BY <1>3, <2>1, <2>2
    <3>2. nu(j) = top => j <= i
      BY <2>2
    <3>3. i \in Nat /\ j \in Nat
      BY <1>2, <2>2
    <3> QED
      BY <3>1, <3>2, <3>3
  <2> QED
    BY <2>2, <2>3
<1>7. series \in cats /\ axis \in cats /\ Lowest(series) /\ Highest(axis)
  <2> HIDE DEF Lowest, Highest
  <2> QED
    BY <1>5, <1>6
<1>8. axis # series
  <2> SUFFICES ASSUME axis = series  PROVE FALSE
    OBVIOUS
  <2> HIDE DEF axis, series
  <2>1. \A j \in cats : j = axis
    <3> SUFFICES ASSUME NEW j \in cats  PROVE j = axis
      OBVIOUS
    <3>1. nu(j) \in Nat /\ nu(axis) \in Nat /\ j \in Nat /\ axis \in Nat
      BY <1>2, <1>3, <1>7
    <3> QED
      BY <1>7, <3>1
  <2>2. cats = {axis}
    BY <1>7, <2>1
  <2>3. Cardinality(cats) = 1
    <3>1. Cardinality({axis}) = 1
      BY FS_Singleton
    <3> QED
      BY <2>2, <3>1
  <2>4. ~(Cardinality(cats) >= 2)
    BY <2>3
  <2> QED
    BY <1>1, <2>4
<1> QED
  <2> HIDE DEF axis, series
  <2> QED
    BY <1>1, <1>7, <1>8 DEF cats, nu

(* The category that splits a chart is none of its axes.                    *)
LEMMA SeriesAreSplit ==
  ASSUME NEW r \in C!Result
  PROVE  C!SeriesAreReadable(r)
<1> DEFINE chart == C!classify(r)
<1> SUFFICES ASSUME chart.type \in {"line", "bar"}, chart.color # 0
             PROVE  /\ chart.color # chart.x /\ chart.color # chart.y
                    /\ C!nunique(r, chart.color) \in 2..multi_series_max
  BY DEF C!SeriesAreReadable
<1>1. \A cols \in SUBSET (1..Len(r.kinds)) : cols # {} => C!First(cols) \in cols
  BY FirstColumn
<1>2. \A kinds : C!Columns(r, kinds) \in SUBSET (1..Len(r.kinds))
  BY FirstColumn
<1>3. CASE C!Columns(r, {"date"}) # {} /\ C!numeric_cols(r) # {} /\ chart = C!Line(r)
  <2> DEFINE x == C!First(C!Columns(r, {"date"}))
             y == C!First(C!numeric_cols(r))
             fits == {i \in C!categorical_cols(r) : C!nunique(r, i) \in 2..multi_series_max}
  <2>1. chart.x = x /\ chart.y = y /\ chart.color = C!multi_series_col(r, x)
    BY <1>3 DEF C!Line
  <2>2. chart.color \in fits
    <3>1. chart.color = IF C!nunique(r, x) >= Len(C!Shown(r)) \/ fits = {} THEN 0 ELSE C!First(fits)
      BY <2>1 DEF C!multi_series_col
    <3>2. fits \in SUBSET (1..Len(r.kinds))
      BY <1>2 DEF C!categorical_cols
    <3> HIDE DEF fits
    <3> QED
      BY <1>1, <3>1, <3>2
  <2>3. x \in C!Columns(r, {"date"}) /\ y \in C!Columns(r, {"measure", "share"})
    BY <1>1, <1>2, <1>3 DEF C!numeric_cols
  <2>4. chart.color \in C!categorical_cols(r) /\ C!nunique(r, chart.color) \in 2..multi_series_max
    BY <2>2
  <2> HIDE DEF x, y, fits, chart
  <2> QED
    BY <2>1, <2>3, <2>4, KindsAreDisjoint
<1>4. CASE C!categorical_cols(r) # {} /\ C!numeric_cols(r) # {} /\ chart = C!BarOrPie(r)
  <2> DEFINE shares == C!Columns(r, {"share"})
             nums == IF shares # {} THEN shares ELSE C!Columns(r, {"measure"})
             num == C!First(nums)
             cat == C!First(C!categorical_cols(r))
             grouped == IF shares = {} THEN C!grouped_bar_cols(r) ELSE <<0, 0>>
  <2>1. /\ grouped # <<0, 0>>
        /\ chart = [type |-> "bar", x |-> grouped[1], y |-> num, color |-> grouped[2]]
    <3> HIDE DEF num, cat, grouped
    <3>1. C!BarOrPie(r) =
            CASE grouped # <<0, 0>> -> [type |-> "bar", x |-> grouped[1], y |-> num, color |-> grouped[2]]
              [] grouped = <<0, 0>> /\ C!is_composition(r, cat, num) ->
                   [type |-> "pie", x |-> cat, y |-> num, color |-> 0]
              [] OTHER -> [type |-> "bar", x |-> cat, y |-> num, color |-> 0]
      BY Zenon DEF C!BarOrPie, num, cat, grouped
    <3> HIDE DEF chart
    <3> QED
      BY <1>4, <3>1
  <2>2. PICK axis \in C!categorical_cols(r), series \in C!categorical_cols(r) :
          /\ grouped = <<axis, series>> /\ axis # series
          /\ C!nunique(r, series) \in 2..multi_series_max
    <3>1. grouped = C!grouped_bar_cols(r)
      BY <2>1
    <3> HIDE DEF grouped
    <3> QED
      BY <2>1, <3>1, GroupedBarHasTwo
  <2>3. num \in nums /\ nums = C!Columns(r, IF shares # {} THEN {"share"} ELSE {"measure"})
    <3>1. nums # {}
      BY <1>4 DEF C!numeric_cols, C!Columns
    <3>2. nums = C!Columns(r, IF shares # {} THEN {"share"} ELSE {"measure"})
      OBVIOUS
    <3> HIDE DEF nums
    <3> QED
      BY <1>1, <1>2, <3>1, <3>2
  <2>4. series # num
    <3> HIDE DEF nums, num, shares
    <3> QED
      BY <2>3, KindsAreDisjoint
  <2> HIDE DEF num, grouped, chart
  <2> QED
    BY <2>1, <2>2, <2>4
<1> QED
  <2>1. chart.type \notin {"none", "scatter"}
    OBVIOUS
  <2>2. C!NoChart.type = "none" /\ C!Scatter(r).type = "scatter"
    BY DEF C!NoChart, C!Scatter
  <2> HIDE DEF chart
  <2>3. \/ chart = C!NoChart \/ chart = C!Scatter(r)
        \/ C!Columns(r, {"date"}) # {} /\ C!numeric_cols(r) # {} /\ chart = C!Line(r)
        \/ C!categorical_cols(r) # {} /\ C!numeric_cols(r) # {} /\ chart = C!BarOrPie(r)
    BY DEF C!classify, chart
  <2> QED
    BY <1>3, <1>4, <2>1, <2>2, <2>3

(* The chart depends on the rows given and on the size of the result only.  *)
LEMMA SameShownSameChart ==
  ASSUME NEW a, NEW b, a.kinds = b.kinds, a.rows = b.rows, a.ranked = b.ranked,
         C!Given(a) = C!Given(b)
  PROVE  C!classify(a) = C!classify(b)
<1>0. C!Shown(a) = C!Shown(b)
  BY DEF C!Shown
<1>1. \A i : C!Shows(a, i) = C!Shows(b, i)
  BY <1>0 DEF C!Shows
<1>2. \A i : C!nunique(a, i) = C!nunique(b, i) /\ C!kind(a, i) = C!kind(b, i)
  BY <1>1 DEF C!nunique, C!kind
<1>3. \A kinds : C!Columns(a, kinds) = C!Columns(b, kinds)
  BY <1>2 DEF C!Columns
<1>4. C!numeric_cols(a) = C!numeric_cols(b) /\ C!categorical_cols(a) = C!categorical_cols(b)
  BY <1>3 DEF C!numeric_cols, C!categorical_cols
<1>5. C!Line(a) = C!Line(b)
  <2> DEFINE x == C!First(C!Columns(a, {"date"}))
  <2>1. C!multi_series_col(a, x) = C!multi_series_col(b, x)
    <3>1. {i \in C!categorical_cols(a) : C!nunique(a, i) \in 2..multi_series_max}
            = {i \in C!categorical_cols(b) : C!nunique(b, i) \in 2..multi_series_max}
      BY <1>2, <1>4
    <3>2. C!nunique(a, x) = C!nunique(b, x)
      BY <1>2
    <3> HIDE DEF x
    <3> QED
      BY <1>0, <3>1, <3>2, Zenon DEF C!multi_series_col
  <2>2. x = C!First(C!Columns(b, {"date"}))
    BY <1>3
  <2> HIDE DEF x
  <2> QED
    BY <1>3, <1>4, <2>1, <2>2 DEF C!Line, x
<1>6. C!Scatter(a) = C!Scatter(b)
  BY <1>3, <1>4 DEF C!Scatter
<1>7. C!grouped_bar_cols(a) = C!grouped_bar_cols(b)
  <2> DEFINE Low(r, i) == \A j \in C!categorical_cols(r) :
               C!nunique(r, i) < C!nunique(r, j) \/ (C!nunique(r, i) = C!nunique(r, j) /\ i <= j)
             High(r, i) == \A j \in C!categorical_cols(r) :
               C!nunique(r, i) > C!nunique(r, j) \/ (C!nunique(r, i) = C!nunique(r, j) /\ i >= j)
             series(r) == CHOOSE i \in C!categorical_cols(r) : Low(r, i)
             axis(r) == CHOOSE i \in C!categorical_cols(r) : High(r, i)
  <2>1. \A i : (Low(a, i) <=> Low(b, i)) /\ (High(a, i) <=> High(b, i))
    BY <1>2, <1>4
  <2>2. series(a) = series(b) /\ axis(a) = axis(b)
    <3> HIDE DEF Low, High
    <3> QED
      BY <1>4, <2>1
  <2>3. \A r : C!grouped_bar_cols(r) =
                 IF C!Cardinality(C!categorical_cols(r)) >= 2
                    /\ C!nunique(r, series(r)) \in 2..multi_series_max /\ C!nunique(r, axis(r)) >= 2
                 THEN <<axis(r), series(r)>> ELSE <<0, 0>>
    BY Zenon DEF C!grouped_bar_cols
  <2> HIDE DEF series, axis
  <2> QED
    BY <1>2, <1>4, <2>2, <2>3
<1>8. \A i, j : C!is_composition(a, i, j) <=> C!is_composition(b, i, j)
  BY <1>1, <1>2, <1>4 DEF C!is_composition, C!total_rows
<1>9. C!BarOrPie(a) = C!BarOrPie(b)
  BY <1>3, <1>4, <1>7, <1>8 DEF C!BarOrPie
<1> QED
  BY <1>3, <1>4, <1>5, <1>6, <1>9 DEF C!classify

(* A result the preview holds is seen whole.                               *)
LEMMA PreviewIsEnough ==
  ASSUME NEW r \in C!Result
  PROVE  C!SameChartFromCache(r)
<1> SUFFICES ASSUME Len(r.rows) <= Preview
             PROVE  C!classify([r EXCEPT !.cached = TRUE]) = C!classify([r EXCEPT !.cached = FALSE])
  BY DEF C!SameChartFromCache
<1> DEFINE a == [r EXCEPT !.cached = TRUE]
           b == [r EXCEPT !.cached = FALSE]
<1>1. a.kinds = b.kinds /\ a.rows = b.rows /\ a.ranked = b.ranked /\ a.rows = r.rows
  BY DEF C!Result
<1>2. ~(Len(r.rows) > Preview)
  <2>1. Len(r.rows) \in Nat /\ Preview \in Nat
    BY ShownIsPrefix, LimitsAssumption
  <2> QED
    BY <2>1
<1>3. C!Given(a) = r.rows /\ C!Given(b) = r.rows
  <2> HIDE DEF a, b
  <2> QED
    BY <1>1, <1>2 DEF C!Given, C!FirstRows
<1> QED
  <2> HIDE DEF a, b
  <2>1. C!classify(a) = C!classify(b)
    BY <1>1, <1>3, SameShownSameChart
  <2> QED
    BY <2>1 DEF a, b

(* The chart of a well-formed result is true to it.                        *)
LEMMA ResultIsCharted ==
  ASSUME NEW r, C!WellFormed(r)
  PROVE  C!ChartIsTrue(r)
BY PieShowsAll, SeriesAreSplit, PreviewIsEnough DEF C!WellFormed, C!ChartIsTrue

(* A pie is the whole of its result, series can be told apart and a        *)
(* preview changes no chart of a result it holds, for results of any size  *)
(* and all limits.                                                         *)
THEOREM ChartsAreTrue == Draws => []ChartIsTrue
<1>1. DrawnFrom => ChartIsTrue
  BY ResultIsCharted, InputsAssumption DEF DrawnFrom, ChartIsTrue
<1> QED
  BY <1>1, InputsAreDrawn, PTL

-----------------------------------------------------------------------------
(* ResultEquivalence.                                                      *)

(* The module ResultEquivalence counts as FiniteSets does.                 *)
LEMMA ResultsCount ==
  \A S : R!Cardinality(S) = Cardinality(S)
BY DEF R!Cardinality, Cardinality

(* A one-to-one map of a finite set into itself has an inverse.            *)
LEMMA PermutationHasInverse ==
  ASSUME NEW S, IsFiniteSet(S), NEW p \in R!OneToOne(S, S)
  PROVE  \E q \in R!OneToOne(S, S) : \A x \in S : p[q[x]] = x /\ q[p[x]] = x
<1>1. p \in [S -> S] /\ \A x, y \in S : p[x] = p[y] => x = y
  BY DEF R!OneToOne
<1>2. p \in Injection(S, S)
  BY <1>1 DEF Injection, IsInjective
<1>3. p \in Surjection(S, S)
  BY <1>2, FS_Injection
<1>4. \A y \in S : \E x \in S : p[x] = y
  BY <1>3 DEF Surjection
<1> DEFINE q == [y \in S |-> CHOOSE x \in S : p[x] = y]
<1>5. \A y \in S : q[y] \in S /\ p[q[y]] = y
  BY <1>4
<1>6. q \in [S -> S]
  BY <1>5
<1> HIDE DEF q
<1>7. \A x \in S : q[p[x]] = x
  BY <1>1, <1>5
<1>8. q \in R!OneToOne(S, S)
  <2>1. \A x, y \in S : q[x] = q[y] => x = y
    BY <1>5
  <2> QED
    BY <1>6, <2>1 DEF R!OneToOne
<1> QED
  BY <1>5, <1>7, <1>8

\* A function on S is another one with its values moved.
Moved(S, f, h) == \E p \in R!OneToOne(S, S) : \A k \in S : f[k] = h[p[k]]

\* Where a function on S has a value.
Places(S, f, v) == {k \in S : f[k] = v}

(* Values that are only moved are counted the same.                         *)
LEMMA MovedIsCountedTheSame ==
  ASSUME NEW S, IsFiniteSet(S), NEW p \in R!OneToOne(S, S), NEW f, NEW h,
         \A k \in S : f[k] = h[p[k]]
  PROVE  \A v : Cardinality(Places(S, f, v)) = Cardinality(Places(S, h, v))
<1> SUFFICES ASSUME NEW v
             PROVE  Cardinality(Places(S, f, v)) = Cardinality(Places(S, h, v))
  OBVIOUS
<1> DEFINE A == {k \in S : f[k] = v}
           B == {k \in S : h[k] = v}
           w == [k \in A |-> p[k]]
<1>1. p \in [S -> S] /\ \A x, y \in S : p[x] = p[y] => x = y
  BY DEF R!OneToOne
<1>2. PICK q \in R!OneToOne(S, S) : \A x \in S : p[q[x]] = x /\ q[p[x]] = x
  BY PermutationHasInverse
<1>3. q \in [S -> S]
  BY DEF R!OneToOne
<1>4. \A k \in A : k \in S /\ p[k] \in B
  BY <1>1
<1>5. \A l \in B : q[l] \in A /\ p[q[l]] = l
  <2> SUFFICES ASSUME NEW l \in B  PROVE q[l] \in A /\ p[q[l]] = l
    OBVIOUS
  <2>1. l \in S /\ q[l] \in S /\ p[q[l]] = l
    BY <1>2, <1>3
  <2>2. f[q[l]] = h[l]
    BY <2>1
  <2> QED
    BY <2>1, <2>2
<1>6. IsFiniteSet(A)
  BY FS_Subset
<1>7. w \in Bijection(A, B)
  <2> HIDE DEF A, B
  <2>1. w \in Surjection(A, B)
    BY <1>4, <1>5 DEF Surjection
  <2>2. w \in Injection(A, B)
    BY <1>1, <1>4 DEF Injection, IsInjective
  <2> QED
    BY <2>1, <2>2 DEF Bijection
<1> HIDE DEF A, B, w
<1>8. Cardinality(A) = Cardinality(B)
  BY <1>6, <1>7, FS_Bijection DEF ExistsBijection
<1> QED
  BY <1>8 DEF A, B, Places

(* Values that are counted the same are only moved.                         *)
LEMMA CountedTheSameIsMoved ==
  ASSUME NEW S, IsFiniteSet(S), NEW f, NEW h,
         \A k \in S : Cardinality(Places(S, f, f[k])) = Cardinality(Places(S, h, f[k]))
  PROVE  Moved(S, f, h)
<1> DEFINE A(v) == {l \in S : f[l] = v}
           B(v) == {l \in S : h[l] = v}
           b(v) == CHOOSE w : w \in Bijection(A(v), B(v))
           p == [k \in S |-> b(f[k])[k]]
<1>1. ASSUME NEW k \in S  PROVE b(f[k]) \in Bijection(A(f[k]), B(f[k]))
  <2>1. IsFiniteSet(A(f[k])) /\ IsFiniteSet(B(f[k]))
    BY FS_Subset
  <2>2. Cardinality(A(f[k])) = Cardinality(B(f[k]))
    BY DEF Places
  <2> HIDE DEF A, B
  <2>3. \E w : w \in Bijection(A(f[k]), B(f[k]))
    BY <2>1, <2>2, FS_SameCardinalityBij DEF ExistsBijection
  <2> QED
    BY <2>3
<1>2. ASSUME NEW k \in S
      PROVE  /\ b(f[k])[k] \in S /\ h[b(f[k])[k]] = f[k]
             /\ \A l \in S : f[l] = f[k] /\ b(f[k])[l] = b(f[k])[k] => l = k
  <2> DEFINE w == b(f[k])
  <2>1. w \in Bijection(A(f[k]), B(f[k]))
    BY <1>1
  <2> HIDE DEF w
  <2>2. w \in [A(f[k]) -> B(f[k])] /\ \A x, y \in A(f[k]) : w[x] = w[y] => x = y
    <3> HIDE DEF A, B
    <3> QED
      BY <2>1 DEF Bijection, Injection, IsInjective
  <2>3. k \in A(f[k]) /\ \A l \in S : f[l] = f[k] => l \in A(f[k])
    OBVIOUS
  <2>4. w[k] \in B(f[k])
    <3> HIDE DEF A, B
    <3> QED
      BY <2>2, <2>3
  <2>5. w[k] \in S /\ h[w[k]] = f[k]
    BY <2>4
  <2>6. \A l \in S : f[l] = f[k] /\ w[l] = w[k] => l = k
    <3> HIDE DEF A, B
    <3> QED
      BY <2>2, <2>3
  <2> QED
    BY <2>5, <2>6 DEF w
<1>3. p \in [S -> S] /\ \A k \in S : f[k] = h[p[k]]
  <2> HIDE DEF b
  <2> QED
    BY <1>2
<1>4. ASSUME NEW k \in S, NEW l \in S, p[k] = p[l]  PROVE k = l
  <2>1. f[k] = f[l]
    <3> HIDE DEF p
    <3> QED
      BY <1>3, <1>4
  <2>2. b(f[k])[k] = b(f[k])[l]
    <3>1. p[k] = b(f[k])[k] /\ p[l] = b(f[l])[l]
      OBVIOUS
    <3> HIDE DEF b, p
    <3> QED
      BY <1>4, <2>1, <3>1
  <2> HIDE DEF b
  <2> QED
    BY <1>2, <2>1, <2>2
<1> QED
  <2> HIDE DEF p
  <2>1. p \in R!OneToOne(S, S)
    BY <1>3, <1>4 DEF R!OneToOne
  <2> QED
    BY <1>3, <2>1 DEF Moved

(* The rows of a result are numbered, and finitely many.                   *)
LEMMA RowsAreNumbered ==
  ASSUME NEW rows \in Seq(Seq(Int))
  PROVE  /\ Len(rows) \in Nat /\ DOMAIN rows = 1..Len(rows) /\ IsFiniteSet(1..Len(rows))
         /\ \A combo : DOMAIN R!Project(rows, combo) = 1..Len(rows)
<1>1. Len(rows) \in Nat /\ DOMAIN rows = 1..Len(rows)
  OBVIOUS
<1>2. IsFiniteSet(1..Len(rows))
  BY <1>1, FS_Interval
<1> QED
  BY <1>1, <1>2 DEF R!Project

(* Rows match exactly when they are the gold rows, moved unless their order *)
(* counts.                                                                 *)
LEMMA MatchIsAMove ==
  ASSUME NEW gold \in Seq(Seq(Int)), NEW proj, DOMAIN proj = DOMAIN gold
  PROVE  R!matches(gold, proj, FALSE) <=> Moved(DOMAIN gold, gold, proj)
<1> DEFINE S == DOMAIN gold
<1>1. IsFiniteSet(S)
  BY RowsAreNumbered
<1>2. R!matches(gold, proj, FALSE) <=>
        \A k \in S : Cardinality(Places(S, gold, gold[k])) = Cardinality(Places(S, proj, gold[k]))
  BY ResultsCount DEF R!matches, R!Times, Places
<1>3. ASSUME NEW p \in R!OneToOne(S, S), \A k \in S : gold[k] = proj[p[k]]
      PROVE  \A v : Cardinality(Places(S, gold, v)) = Cardinality(Places(S, proj, v))
  <2> HIDE DEF S
  <2> QED
    BY <1>1, <1>3, MovedIsCountedTheSame
<1>4. ASSUME R!matches(gold, proj, FALSE)
      PROVE  Moved(S, gold, proj)
  <2> HIDE DEF S
  <2>1. \A k \in S : Cardinality(Places(S, gold, gold[k])) = Cardinality(Places(S, proj, gold[k]))
    BY <1>2, <1>4
  <2> QED
    BY <1>1, <2>1, CountedTheSameIsMoved
<1>5. ASSUME NEW p \in R!OneToOne(S, S), \A k \in S : gold[k] = proj[p[k]]
      PROVE  R!matches(gold, proj, FALSE)
  <2> HIDE DEF S
  <2> QED
    BY <1>2, <1>3, <1>5
<1> QED
  BY <1>4, <1>5 DEF Moved

(* Rows in the same order are a move of the gold rows too.                  *)
LEMMA OrderedMatches ==
  ASSUME NEW gold \in Seq(Seq(Int)), NEW proj, R!matches(gold, proj, TRUE)
  PROVE  R!matches(gold, proj, FALSE)
BY DEF R!matches

(* Whatever matches is a move of the gold rows.                             *)
LEMMA VerdictIsAMove ==
  ASSUME NEW gen \in Seq(Seq(Int)), NEW gold \in Seq(Seq(Int)), NEW ordered \in BOOLEAN,
         R!results_equivalent(gen, gold, ordered), gold # <<>>
  PROVE  /\ Len(gold) = Len(gen)
         /\ \E combo \in R!OneToOne(1..Len(gold[1]), 1..Len(gen[1])),
               p \in R!OneToOne(1..Len(gen), 1..Len(gen)) :
              \A k \in 1..Len(gen) : gold[k] = R!Project(gen, combo)[p[k]]
<1>1. /\ Len(gold) = Len(gen)
      /\ \E combo \in R!OneToOne(1..Len(gold[1]), 1..Len(gen[1])) :
           R!matches(gold, R!Project(gen, combo), ordered)
  BY DEF R!results_equivalent, R!Candidates
<1>2. PICK combo \in R!OneToOne(1..Len(gold[1]), 1..Len(gen[1])) :
        R!matches(gold, R!Project(gen, combo), ordered)
  BY <1>1
<1>3. R!matches(gold, R!Project(gen, combo), FALSE)
  BY <1>2, OrderedMatches
<1>4. DOMAIN gold = 1..Len(gen) /\ DOMAIN R!Project(gen, combo) = 1..Len(gen)
  BY <1>1, RowsAreNumbered
<1>5. \E p \in R!OneToOne(1..Len(gen), 1..Len(gen)) :
        \A k \in 1..Len(gen) : gold[k] = R!Project(gen, combo)[p[k]]
  <2> DEFINE proj == R!Project(gen, combo)
  <2> HIDE DEF proj
  <2>1. DOMAIN proj = DOMAIN gold /\ R!matches(gold, proj, FALSE)
    BY <1>3, <1>4 DEF proj
  <2>2. Moved(DOMAIN gold, gold, proj)
    BY <2>1, MatchIsAMove
  <2> QED
    BY <1>4, <2>2 DEF proj, Moved
<1> QED
  BY <1>1, <1>5

(* Each gold column is a generated one.                                     *)
LEMMA ColumnsAreFound ==
  ASSUME NEW gen \in Seq(Seq(Int)), NEW gold \in Seq(Seq(Int)), NEW ordered \in BOOLEAN
  PROVE  R!GoldColumnsAreFound(gen, gold, ordered)
<1> DEFINE S == 1..Len(gen)
           T == 1..Len(gold[1])
           U == 1..Len(gen[1])
<1> SUFFICES ASSUME R!results_equivalent(gen, gold, ordered)
             PROVE  /\ Len(gen) = Len(gold)
                    /\ gold # <<>> => \A j \in T : \E c \in U : R!ColumnBag(gold, j) = R!ColumnBag(gen, c)
  BY DEF R!GoldColumnsAreFound
<1>1. Len(gen) = Len(gold)
  BY DEF R!results_equivalent
<1>2. ASSUME gold # <<>>, NEW j \in T
      PROVE  \E c \in U : R!ColumnBag(gold, j) = R!ColumnBag(gen, c)
  <2>1. PICK combo \in R!OneToOne(T, U), p \in R!OneToOne(S, S) :
          \A k \in S : gold[k] = R!Project(gen, combo)[p[k]]
    BY <1>2, VerdictIsAMove
  <2>2. DOMAIN gold = S /\ DOMAIN gen = S /\ IsFiniteSet(S)
    BY <1>1, RowsAreNumbered
  <2> HIDE DEF S, T, U
  <2>3. combo \in [T -> U] /\ p \in [S -> S]
    BY <2>1 DEF R!OneToOne
  <2> DEFINE c == combo[j]
             f == [k \in S |-> gold[k][j]]
             h == [k \in S |-> gen[k][c]]
  <2>4. \A k \in S : f[k] = h[p[k]]
    <3> SUFFICES ASSUME NEW k \in S  PROVE gold[k][j] = gen[p[k]][c]
      BY <2>3
    <3>1. R!Project(gen, combo)[p[k]] = [i \in T |-> gen[p[k]][combo[i]]]
      BY <2>2, <2>3 DEF R!Project
    <3> QED
      BY <1>2, <2>1, <3>1
  <2>5. \A v : Cardinality({k \in S : gold[k][j] = v}) = Cardinality({k \in S : gen[k][c] = v})
    <3>1. \A v : Cardinality(Places(S, f, v)) = Cardinality(Places(S, h, v))
      <4> HIDE DEF f, h
      <4>1. p \in R!OneToOne(S, S) /\ IsFiniteSet(S)
        BY <2>1, <2>2
      <4> QED
        BY <2>4, <4>1, MovedIsCountedTheSame, Zenon
    <3>2. \A v : Places(S, f, v) = {k \in S : gold[k][j] = v}
                 /\ Places(S, h, v) = {k \in S : gen[k][c] = v}
      BY DEF Places
    <3> QED
      BY <3>1, <3>2
  <2>6. {gold[k][j] : k \in S} = {gen[k][c] : k \in S}
    <3>1. PICK q \in R!OneToOne(S, S) : \A k \in S : p[q[k]] = k /\ q[p[k]] = k
      BY <2>1, <2>2, PermutationHasInverse
    <3>2. q \in [S -> S]
      BY DEF R!OneToOne
    <3>3. \A k \in S : p[k] \in S /\ gold[k][j] = gen[p[k]][c]
      BY <2>3, <2>4
    <3>4. \A k \in S : q[k] \in S /\ gold[q[k]][j] = gen[k][c]
      <4> SUFFICES ASSUME NEW k \in S  PROVE q[k] \in S /\ gold[q[k]][j] = gen[k][c]
        OBVIOUS
      <4>1. q[k] \in S /\ p[q[k]] = k
        BY <3>1, <3>2
      <4> QED
        BY <3>3, <4>1
    <3> HIDE DEF c
    <3>5. ASSUME NEW v \in {gold[k][j] : k \in S}  PROVE v \in {gen[k][c] : k \in S}
      <4>1. PICK k \in S : v = gold[k][j]
        BY <3>5
      <4>2. p[k] \in S /\ v = gen[p[k]][c]
        BY <3>3, <4>1
      <4> QED
        BY <4>2
    <3>6. ASSUME NEW v \in {gen[k][c] : k \in S}  PROVE v \in {gold[k][j] : k \in S}
      <4>1. PICK k \in S : v = gen[k][c]
        BY <3>6
      <4>2. q[k] \in S /\ v = gold[q[k]][j]
        BY <3>4, <4>1
      <4> QED
        BY <4>2
    <3> QED
      BY <3>5, <3>6
  <2>7. R!ColumnBag(gold, j) = R!ColumnBag(gen, c)
    <3> DEFINE count(rows, i, v) == Cardinality({k \in S : rows[k][i] = v})
    <3>1. /\ R!ColumnBag(gold, j) = [v \in {gold[k][j] : k \in S} |-> count(gold, j, v)]
          /\ R!ColumnBag(gen, c) = [v \in {gen[k][c] : k \in S} |-> count(gen, c, v)]
      BY <2>2, ResultsCount DEF R!ColumnBag
    <3>2. \A v : count(gold, j, v) = count(gen, c, v)
      BY <2>5
    <3> HIDE DEF count, c
    <3> QED
      BY <2>6, <3>1, <3>2
  <2> QED
    BY <1>2, <2>3, <2>7
<1> QED
  BY <1>1, <1>2

(* One-to-one maps compose.                                                *)
LEMMA MapsCompose ==
  ASSUME NEW S, NEW T, NEW U, NEW f \in R!OneToOne(S, T), NEW h \in R!OneToOne(T, U)
  PROVE  [x \in S |-> h[f[x]]] \in R!OneToOne(S, U)
BY DEF R!OneToOne

(* The generated rows with their columns moved have the same columns.      *)
LEMMA ColumnsAreMoved ==
  ASSUME NEW gen \in Seq(Seq(Int)), gen # <<>>, ~R!Ragged(gen),
         NEW p \in R!OneToOne(1..Len(gen[1]), 1..Len(gen[1]))
  PROVE  /\ Len(R!Project(gen, p)) = Len(gen) /\ ~R!Ragged(R!Project(gen, p))
         /\ Len(R!Project(gen, p)[1]) = Len(gen[1])
         /\ \A g \in Nat : \A combo \in R!OneToOne(1..g, 1..Len(gen[1])) :
              R!Project(R!Project(gen, p), combo) = R!Project(gen, [j \in 1..g |-> p[combo[j]]])
<1> DEFINE n == Len(gen)
           m == Len(gen[1])
           moved == R!Project(gen, p)
<1>1. n \in Nat /\ DOMAIN gen = 1..n /\ 1 \in 1..n /\ m \in Nat
  <2>1. n \in Nat /\ n # 0 /\ gen[1] \in Seq(Int)
    OBVIOUS
  <2> QED
    BY <2>1
<1>2. p \in [1..m -> 1..m]
  BY DEF R!OneToOne
<1>3. \A k \in 1..n : gen[k] \in Seq(Int) /\ Len(gen[k]) = m
  <2>1. \A k \in 1..n : gen[k] \in Seq(Int)
    BY <1>1
  <2>2. \A k \in 1..n : Len(gen[k]) = m
    <3> HIDE DEF n
    <3> QED
      BY <1>1 DEF R!Ragged
  <2> QED
    BY <2>1, <2>2
<1>4. moved = [k \in 1..n |-> [j \in 1..m |-> gen[k][p[j]]]]
  BY <1>1, <1>2 DEF R!Project
<1>5. \A k \in 1..n : moved[k] \in Seq(Int) /\ Len(moved[k]) = m
  <2> SUFFICES ASSUME NEW k \in 1..n  PROVE moved[k] \in Seq(Int) /\ Len(moved[k]) = m
    OBVIOUS
  <2>1. moved[k] = [j \in 1..m |-> gen[k][p[j]]]
    BY <1>4
  <2>2. \A j \in 1..m : gen[k][p[j]] \in Int
    <3>1. gen[k] \in Seq(Int) /\ Len(gen[k]) = m
      BY <1>3
    <3>2. gen[k] \in [1..m -> Int]
      <4> HIDE DEF m
      <4> QED
        BY <3>1
    <3> HIDE DEF m
    <3> QED
      BY <1>2, <3>2
  <2> HIDE DEF moved, m
  <2> QED
    BY <1>1, <2>1, <2>2
<1> HIDE DEF n, m, moved
<1>6. Len(moved) = n /\ DOMAIN moved = 1..n
  <2>1. moved \in Seq(Seq(Int))
    BY <1>1, <1>4, <1>5
  <2>2. DOMAIN moved = 1..n
    BY <1>4
  <2> QED
    BY <1>1, <2>1, <2>2
<1>7. ~R!Ragged(moved)
  BY <1>1, <1>5, <1>6 DEF R!Ragged
<1>8. ASSUME NEW g \in Nat, NEW combo \in R!OneToOne(1..g, 1..m)
      PROVE  R!Project(moved, combo) = R!Project(gen, [j \in 1..g |-> p[combo[j]]])
  <2>1. combo \in [1..g -> 1..m]
    BY DEF R!OneToOne
  <2>2. R!Project(moved, combo) = [k \in 1..n |-> [j \in 1..g |-> moved[k][combo[j]]]]
    BY <1>6, <2>1 DEF R!Project
  <2>3. R!Project(gen, [j \in 1..g |-> p[combo[j]]]) = [k \in 1..n |-> [j \in 1..g |-> gen[k][p[combo[j]]]]]
    BY <1>1 DEF R!Project
  <2>4. \A k \in 1..n : \A j \in 1..g : moved[k][combo[j]] = gen[k][p[combo[j]]]
    BY <1>4, <2>1
  <2>5. \A k \in 1..n : [j \in 1..g |-> moved[k][combo[j]]] = [j \in 1..g |-> gen[k][p[combo[j]]]]
    BY <2>4
  <2> QED
    BY <2>2, <2>3, <2>5
<1> QED
  BY <1>1, <1>5, <1>6, <1>7, <1>8 DEF n, m, moved

(* The order of the generated columns does not count.                      *)
LEMMA ColumnOrderIsFree ==
  ASSUME NEW gen \in Seq(Seq(Int)), NEW gold \in Seq(Seq(Int)), NEW ordered \in BOOLEAN,
         gen # <<>>, ~R!Ragged(gen), NEW p \in R!OneToOne(1..Len(gen[1]), 1..Len(gen[1]))
  PROVE  R!results_equivalent(R!Project(gen, p), gold, ordered) <=> R!results_equivalent(gen, gold, ordered)
<1> DEFINE g == Len(gold[1])
           U == 1..Len(gen[1])
           moved == R!Project(gen, p)
<1>1. CASE gold = <<>>
  BY <1>1, ColumnsAreMoved DEF R!results_equivalent
<1>2. CASE gold # <<>>
  <2>1. g \in Nat
    BY <1>2
  <2>2. /\ Len(moved) = Len(gen) /\ ~R!Ragged(moved) /\ Len(moved[1]) = Len(gen[1])
        /\ \A combo \in R!OneToOne(1..g, U) :
             R!Project(moved, combo) = R!Project(gen, [j \in 1..g |-> p[combo[j]]])
    BY <2>1, ColumnsAreMoved
  <2>3. IsFiniteSet(U)
    <3>1. Len(gen[1]) \in Nat
      OBVIOUS
    <3> QED
      BY <3>1, FS_Interval
  <2>4. PICK q \in R!OneToOne(U, U) : \A x \in U : p[q[x]] = x /\ q[p[x]] = x
    BY <2>3, PermutationHasInverse
  <2>5. ASSUME NEW combo \in R!OneToOne(1..g, U)
        PROVE  /\ [j \in 1..g |-> p[combo[j]]] \in R!OneToOne(1..g, U)
               /\ [j \in 1..g |-> q[combo[j]]] \in R!OneToOne(1..g, U)
               /\ R!Project(moved, [j \in 1..g |-> q[combo[j]]]) = R!Project(gen, combo)
    <3> DEFINE back == [j \in 1..g |-> q[combo[j]]]
               there == [j \in 1..g |-> p[back[j]]]
    <3>1. [j \in 1..g |-> p[combo[j]]] \in R!OneToOne(1..g, U) /\ back \in R!OneToOne(1..g, U)
      BY MapsCompose
    <3>2. there = combo
      <4>1. combo \in [1..g -> U]
        BY DEF R!OneToOne
      <4>2. \A j \in 1..g : there[j] = combo[j]
        BY <2>4, <4>1
      <4> HIDE DEF U
      <4> QED
        BY <4>1, <4>2
    <3>3. R!Project(moved, back) = R!Project(gen, there)
      <4> HIDE DEF back, U, moved
      <4> QED
        BY <2>2, <3>1
    <3> QED
      BY <3>1, <3>2, <3>3
  <2> HIDE DEF U, moved, g
  <2>6. (\E combo \in R!OneToOne(1..g, U) : R!matches(gold, R!Project(moved, combo), ordered))
          <=> (\E combo \in R!OneToOne(1..g, U) : R!matches(gold, R!Project(gen, combo), ordered))
    <3>1. ASSUME NEW combo \in R!OneToOne(1..g, U), R!matches(gold, R!Project(moved, combo), ordered)
          PROVE  \E other \in R!OneToOne(1..g, U) : R!matches(gold, R!Project(gen, other), ordered)
      <4>1. [j \in 1..g |-> p[combo[j]]] \in R!OneToOne(1..g, U)
        BY <2>5
      <4>2. R!matches(gold, R!Project(gen, [j \in 1..g |-> p[combo[j]]]), ordered)
        BY <2>2, <3>1
      <4> QED
        BY <4>1, <4>2
    <3>2. ASSUME NEW combo \in R!OneToOne(1..g, U), R!matches(gold, R!Project(gen, combo), ordered)
          PROVE  \E other \in R!OneToOne(1..g, U) : R!matches(gold, R!Project(moved, other), ordered)
      <4>1. [j \in 1..g |-> q[combo[j]]] \in R!OneToOne(1..g, U)
        BY <2>5
      <4>2. R!matches(gold, R!Project(moved, [j \in 1..g |-> q[combo[j]]]), ordered)
        BY <2>5, <3>2
      <4> QED
        BY <4>1, <4>2
    <3> QED
      BY <3>1, <3>2
  <2>7. R!results_equivalent(moved, gold, ordered) <=>
          /\ Len(gold) = Len(gen) /\ ~R!Ragged(gold) /\ ~R!Ragged(gen)
          /\ g <= Len(gen[1]) /\ Len(gen[1]) <= MAX_GEN_COLS
          /\ \E combo \in R!OneToOne(1..g, U) : R!matches(gold, R!Project(moved, combo), ordered)
    BY <1>2, <2>2 DEF R!results_equivalent, R!Candidates, g, U
  <2>8. R!results_equivalent(gen, gold, ordered) <=>
          /\ Len(gold) = Len(gen) /\ ~R!Ragged(gold) /\ ~R!Ragged(gen)
          /\ g <= Len(gen[1]) /\ Len(gen[1]) <= MAX_GEN_COLS
          /\ \E combo \in R!OneToOne(1..g, U) : R!matches(gold, R!Project(gen, combo), ordered)
    BY <1>2, <2>2 DEF R!results_equivalent, R!Candidates, g, U
  <2> QED
    BY <2>6, <2>7, <2>8 DEF moved
<1> QED
  BY <1>1, <1>2

(* The generated rows moved are as many and as long.                       *)
LEMMA RowsAreMoved ==
  ASSUME NEW gen \in Seq(Seq(Int)), NEW p \in R!OneToOne(DOMAIN gen, DOMAIN gen)
  PROVE  LET moved == R!Reorder(gen, p)
         IN  /\ moved \in Seq(Seq(Int)) /\ Len(moved) = Len(gen) /\ DOMAIN moved = DOMAIN gen
             /\ ~R!Ragged(gen) => ~R!Ragged(moved)
             /\ gen # <<>> /\ ~R!Ragged(gen) => Len(moved[1]) = Len(gen[1])
<1> DEFINE n == Len(gen)
           moved == R!Reorder(gen, p)
<1>1. n \in Nat /\ DOMAIN gen = 1..n /\ \A k \in 1..n : gen[k] \in Seq(Int)
  OBVIOUS
<1>2. \A k \in 1..n : p[k] \in 1..n
  BY <1>1 DEF R!OneToOne
<1>3. moved = [k \in 1..n |-> gen[p[k]]]
  BY <1>1 DEF R!Reorder
<1> HIDE DEF moved, n
<1>4. moved \in Seq(Seq(Int)) /\ Len(moved) = n /\ DOMAIN moved = 1..n
  <2>1. \A k \in 1..n : gen[p[k]] \in Seq(Int)
    BY <1>1, <1>2
  <2>2. moved \in Seq(Seq(Int)) /\ DOMAIN moved = 1..n
    BY <1>1, <1>3, <2>1
  <2> QED
    BY <1>1, <2>2
<1>5. ASSUME ~R!Ragged(gen)  PROVE \A k \in 1..n : Len(moved[k]) = Len(gen[1])
  <2>1. \A k \in 1..n : Len(gen[k]) = Len(gen[1])
    BY <1>1, <1>5 DEF R!Ragged
  <2> QED
    BY <1>2, <1>3, <2>1
<1>6. gen # <<>> => 1 \in 1..n
  BY <1>1 DEF n
<1>7. ASSUME ~R!Ragged(gen)  PROVE ~R!Ragged(moved)
  <2>1. ASSUME NEW k \in 1..n  PROVE Len(moved[k]) = Len(moved[1])
    <3>1. 1 \in 1..n
      BY <1>1
    <3> QED
      BY <1>5, <1>7, <3>1
  <2> QED
    BY <1>4, <2>1 DEF R!Ragged
<1> QED
  BY <1>1, <1>4, <1>5, <1>6, <1>7 DEF moved, n

(* A result that answers as the gold one does so in any order of its rows.  *)
LEMMA MovedStillMatches ==
  ASSUME NEW gen \in Seq(Seq(Int)), NEW gold \in Seq(Seq(Int)),
         NEW p \in R!OneToOne(DOMAIN gen, DOMAIN gen), R!results_equivalent(gen, gold, FALSE)
  PROVE  R!results_equivalent(R!Reorder(gen, p), gold, FALSE)
<1> DEFINE S == DOMAIN gen
           moved == R!Reorder(gen, p)
<1>1. /\ moved \in Seq(Seq(Int)) /\ Len(moved) = Len(gen) /\ DOMAIN moved = S
      /\ ~R!Ragged(gen) => ~R!Ragged(moved)
      /\ gen # <<>> /\ ~R!Ragged(gen) => Len(moved[1]) = Len(gen[1])
  BY RowsAreMoved
<1>2. CASE gold = <<>>
  BY <1>1, <1>2 DEF R!results_equivalent
<1>3. CASE gold # <<>>
  <2>1. PICK combo \in R!Candidates(Len(gold[1]), Len(gen[1])) :
          R!matches(gold, R!Project(gen, combo), FALSE)
    BY <1>3 DEF R!results_equivalent
  <2>2. Len(gold) = Len(gen) /\ ~R!Ragged(gold) /\ ~R!Ragged(gen)
        /\ Len(gold[1]) <= Len(gen[1]) /\ Len(gen[1]) <= MAX_GEN_COLS
    BY <1>3 DEF R!results_equivalent
  <2>3. gen # <<>> /\ DOMAIN gold = S /\ IsFiniteSet(S)
    <3>1. DOMAIN gold = 1..Len(gold) /\ S = 1..Len(gen) /\ IsFiniteSet(1..Len(gen))
      BY RowsAreNumbered
    <3> QED
      BY <1>3, <2>2, <3>1
  <2> DEFINE before == R!Project(gen, combo)
             after == R!Project(moved, combo)
  <2>4. DOMAIN before = S /\ DOMAIN after = S
    BY <1>1 DEF R!Project
  <2>5. PICK w \in R!OneToOne(S, S) : \A k \in S : gold[k] = before[w[k]]
    <3> HIDE DEF before, S
    <3>1. DOMAIN before = DOMAIN gold
      BY <2>3, <2>4
    <3>2. Moved(S, gold, before)
      BY <2>1, <2>3, <3>1, MatchIsAMove DEF before
    <3> QED
      BY <3>2 DEF Moved
  <2>6. PICK q \in R!OneToOne(S, S) : \A x \in S : p[q[x]] = x /\ q[p[x]] = x
    BY <2>3, PermutationHasInverse
  <2>7. [k \in S |-> q[w[k]]] \in R!OneToOne(S, S)
    BY MapsCompose
  <2>8. \A k \in S : after[k] = before[p[k]]
    <3>1. \A k \in S : p[k] \in S
      BY DEF R!OneToOne
    <3> HIDE DEF S
    <3>2. \A k \in S : moved[k] = gen[p[k]]
      BY DEF R!Reorder, S
    <3>3. /\ before = [k \in S |-> [j \in DOMAIN combo |-> gen[k][combo[j]]]]
          /\ after = [k \in S |-> [j \in DOMAIN combo |-> moved[k][combo[j]]]]
      BY <1>1 DEF R!Project, S
    <3> HIDE DEF before, after, moved
    <3> QED
      BY <3>1, <3>2, <3>3
  <2>9. \A k \in S : gold[k] = after[[l \in S |-> q[w[l]]][k]]
    <3> HIDE DEF before, after, S, moved
    <3>1. \A k \in S : w[k] \in S /\ q[w[k]] \in S
      BY DEF R!OneToOne
    <3> SUFFICES ASSUME NEW k \in S  PROVE gold[k] = after[q[w[k]]]
      OBVIOUS
    <3>2. p[q[w[k]]] = w[k]
      BY <2>6, <3>1
    <3>3. after[q[w[k]]] = before[p[q[w[k]]]]
      BY <2>8, <3>1
    <3> QED
      BY <2>5, <3>2, <3>3
  <2>10. R!matches(gold, after, FALSE)
    <3> HIDE DEF after, S, before, moved
    <3>1. Moved(S, gold, after)
      BY <2>7, <2>9 DEF Moved
    <3> QED
      BY <2>3, <2>4, <3>1, MatchIsAMove
  <2>11. R!results_equivalent(moved, gold, FALSE)
    <3> HIDE DEF moved, S
    <3> QED
      BY <1>1, <1>3, <2>1, <2>2, <2>3, <2>10 DEF R!results_equivalent
  <2> QED
    BY <2>11
<1> QED
  BY <1>2, <1>3

(* Nor does the order of the generated rows.                               *)
LEMMA RowOrderIsFree ==
  ASSUME NEW gen \in Seq(Seq(Int)), NEW gold \in Seq(Seq(Int)),
         NEW p \in R!OneToOne(DOMAIN gen, DOMAIN gen)
  PROVE  R!results_equivalent(R!Reorder(gen, p), gold, FALSE)
           <=> R!results_equivalent(gen, gold, FALSE)
<1> DEFINE S == DOMAIN gen
           moved == R!Reorder(gen, p)
<1>1. moved \in Seq(Seq(Int)) /\ DOMAIN moved = S
  BY RowsAreMoved
<1>2. PICK q \in R!OneToOne(S, S) : \A x \in S : p[q[x]] = x /\ q[p[x]] = x
  <2>1. IsFiniteSet(S)
    BY RowsAreNumbered
  <2> QED
    BY <2>1, PermutationHasInverse
<1>3. R!Reorder(moved, q) = gen
  <2>1. \A k \in S : q[k] \in S /\ p[q[k]] = k
    BY <1>2 DEF R!OneToOne
  <2>2. \A k \in S : moved[q[k]] = gen[k]
    BY <2>1 DEF R!Reorder
  <2>3. gen = [k \in S |-> gen[k]]
    OBVIOUS
  <2> HIDE DEF moved, S
  <2> QED
    BY <1>1, <2>2, <2>3 DEF R!Reorder
<1>4. ASSUME R!results_equivalent(moved, gold, FALSE)  PROVE R!results_equivalent(gen, gold, FALSE)
  <2>1. R!results_equivalent(R!Reorder(moved, q), gold, FALSE)
    <3>1. q \in R!OneToOne(DOMAIN moved, DOMAIN moved)
      BY <1>1, <1>2
    <3> HIDE DEF moved, S
    <3> QED
      BY <1>1, <1>4, <3>1, MovedStillMatches
  <2> QED
    BY <1>3, <2>1
<1> QED
  BY <1>4, MovedStillMatches

(* A result that answers in its order answers in any.                       *)
LEMMA OrderedAnswersAll ==
  ASSUME NEW gen \in Seq(Seq(Int)), NEW gold \in Seq(Seq(Int)), R!results_equivalent(gen, gold, TRUE)
  PROVE  R!results_equivalent(gen, gold, FALSE)
BY OrderedMatches DEF R!results_equivalent

(* The verdict on two well-formed results is right.                         *)
LEMMA PairIsGraded ==
  ASSUME NEW gen \in Seq(Seq(Int)), NEW gold \in Seq(Seq(Int)), NEW ordered \in BOOLEAN
  PROVE  R!GradeIsRight(gen, gold, ordered)
<1>1. R!PresentationIsFree(gen, gold, ordered)
  <2>1. ASSUME gen # <<>>, ~R!Ragged(gen), NEW p \in R!OneToOne(1..Len(gen[1]), 1..Len(gen[1]))
        PROVE  R!results_equivalent(R!Project(gen, p), gold, ordered)
                 <=> R!results_equivalent(gen, gold, ordered)
    BY <2>1, ColumnOrderIsFree
  <2>2. ASSUME ~ordered, NEW p \in R!OneToOne(DOMAIN gen, DOMAIN gen)
        PROVE  R!results_equivalent(R!Reorder(gen, p), gold, FALSE)
                 <=> R!results_equivalent(gen, gold, ordered)
    <3>1. ordered = FALSE
      BY <2>2
    <3>2. R!results_equivalent(gen, gold, ordered) <=> R!results_equivalent(gen, gold, FALSE)
      BY <3>1
    <3>3. R!results_equivalent(R!Reorder(gen, p), gold, FALSE)
            <=> R!results_equivalent(gen, gold, FALSE)
      BY <2>2, RowOrderIsFree
    <3> QED
      BY <3>2, <3>3
  <2>3. ordered /\ R!results_equivalent(gen, gold, ordered) => R!results_equivalent(gen, gold, FALSE)
    BY OrderedAnswersAll
  <2> QED
    BY <2>1, <2>2, <2>3 DEF R!PresentationIsFree
<1> QED
  BY <1>1, ColumnsAreFound DEF R!GradeIsRight

(* The gold columns of a result graded as equivalent are in it, and the    *)
(* order of its columns and rows does not change the grade, for results of *)
(* any size.                                                               *)
THEOREM GradesAreRight == Draws => []GradeIsRight
<1>1. DrawnFrom => GradeIsRight
  BY PairIsGraded, InputsAssumption DEF DrawnFrom, GradeIsRight, R!WellFormed
<1> QED
  BY <1>1, InputsAreDrawn, PTL

-----------------------------------------------------------------------------
(* Health.                                                                 *)

(* For any number of concurrent callers and any TTL.  What /health answers *)
(* depends on what the cache holds when it answers, which another caller   *)
(* may have refreshed in between; HealthInv says what the cache and the    *)
(* probes under way may hold.                                              *)

\* A result of a refresh, as the callers rely on it.
Says(llm) ==
  /\ llm.status = "ok" <=> llm.reasons = {}
  /\ llm.status \in {"ok", "degraded"}
  /\ llm.reasons \subseteq {"anthropic", provider}

\* Once refreshed, the cache blames the services in use that are not connected,
\* and what it reports is no older than the cache.
CacheSays ==
  /\ cache.status # "unknown" => cache.reasons = Reasons(cache.connected) /\ Says(cache)
  /\ cache.seen <= cache.age

\* The inductive invariant.
HealthInv == TypeOK /\ CacheSays /\ CachedAnswerIsRecent /\ DegradedSaysWhy

-----------------------------------------------------------------------------
(* Lemmas about the operators of the model. *)

(* Ages are counted up to the TTL, in the order they are.                  *)
LEMMA OlderAges ==
  ASSUME NEW a \in Age
  PROVE  Older(a) \in Age /\ \A b \in Age : b <= a => Older(b) <= Older(a)
BY TTLAssumption DEF Older, Age

(* A refresh names as reasons the services in use that it did not reach,   *)
(* and stamps its result with the age it is given.                         *)
LEMMA RefreshedSays ==
  ASSUME provider \in Provider, NEW anthropic \in BOOLEAN, NEW embeddings \in BOOLEAN,
         NEW age \in Age
  PROVE  LET llm == Refreshed(anthropic, embeddings, age)
         IN  /\ llm \in LlmHealth /\ Says(llm)
             /\ llm.status = "ok" <=> {"anthropic", provider} \subseteq llm.connected
             /\ llm.reasons = Reasons(llm.connected)
             /\ llm.age = age /\ llm.seen = age
BY DEF Refreshed, Reasons, LlmHealth, Says, Provider, Blamed

(* The states a handler is put into are states of a handler.               *)
LEMMA CallsTyped ==
  /\ Waiting \in Call /\ Waiting.answer = {}
  /\ \A a \in Answer : /\ [Waiting EXCEPT !.answer = {a}] \in Call
                        /\ [Waiting EXCEPT !.answer = {a}].answer = {a}
<1>1. 0 \in Age
  BY TTLAssumption DEF Age
<1>2. Waiting \in Call /\ Waiting.answer = {}
  BY <1>1 DEF Waiting, Call
<1>3. ASSUME NEW a \in Answer
      PROVE  /\ [Waiting EXCEPT !.answer = {a}] \in Call
             /\ [Waiting EXCEPT !.answer = {a}].answer = {a}
  <2>1. {a} \in {{}} \cup {{x} : x \in Answer}
    OBVIOUS
  <2> QED
    BY <1>1, <2>1 DEF Waiting, Call
<1> QED
  BY <1>2, <1>3

(* A reply made from a sound result is a sound answer, whoever refreshed   *)
(* the result.                                                             *)
LEMMA ReplyIsSound ==
  ASSUME HealthInv, NEW c \in Caller, NEW llm \in LlmHealth, Says(llm),
         NEW cached \in BOOLEAN, cached => llm.seen < TTL,
         Reply(c, llm, cached), provider' = provider
  PROVE  /\ call' \in [Caller -> Call]
         /\ CachedAnswerIsRecent' /\ DegradedSaysWhy'
<1> DEFINE a == [status |-> IF call[c].db /\ llm.status = "ok" THEN "ok" ELSE "degraded",
                 reasons |-> llm.reasons \cup (IF call[c].db THEN {} ELSE {"db"}),
                 cached |-> cached, seen |-> llm.seen]
           made == [Waiting EXCEPT !.answer = {a}]
<1>1. call \in [Caller -> Call] /\ provider \in Provider
  BY DEF HealthInv, TypeOK
<1>2. a \in Answer
  BY DEF LlmHealth, Answer, Blamed
<1>3. made \in Call /\ made.answer = {a}
  BY <1>2, CallsTyped
<1>4. call' = [call EXCEPT ![c] = made]
  BY DEF Reply
<1>5. call' \in [Caller -> Call]
  BY <1>1, <1>3, <1>4
<1>6. \A d \in Caller : call'[d].answer = IF d = c THEN {a} ELSE call[d].answer
  BY <1>1, <1>3, <1>4
<1>7. a.cached => a.seen < TTL
  OBVIOUS
<1>8. /\ a.status = "degraded" <=> a.reasons # {}
      /\ a.reasons \subseteq {"anthropic", provider, "db"}
  BY DEF Says
<1>9. \A x \in Answers' : x = a \/ x \in Answers
  BY <1>6 DEF Answers
<1>10. CachedAnswerIsRecent'
  BY <1>7, <1>9 DEF HealthInv, CachedAnswerIsRecent
<1>11. DegradedSaysWhy'
  BY <1>8, <1>9 DEF HealthInv, DegradedSaysWhy
<1> QED
  BY <1>5, <1>10, <1>11

(* A step that leaves the answers and the provider in use alone leaves     *)
(* what is said of them alone.                                             *)
LEMMA AnswersKept ==
  ASSUME HealthInv, provider' = provider,
         \A c \in Caller : call'[c].answer \subseteq call[c].answer
  PROVE  CachedAnswerIsRecent' /\ DegradedSaysWhy'
<1>1. Answers' \subseteq Answers
  BY DEF Answers
<1> QED
  BY <1>1 DEF HealthInv, CachedAnswerIsRecent, DegradedSaysWhy

-----------------------------------------------------------------------------
(* The invariant holds of every reachable state, for any callers and TTL.  *)
THEOREM HealthInvariant == Spec => []HealthInv
<1>1. Init => HealthInv
  <2> SUFFICES ASSUME Init PROVE HealthInv
    OBVIOUS
  <2>1. cache \in LlmHealth
    BY TTLAssumption DEF Init, LlmHealth, Age
  <2>2. TypeOK
    BY <2>1, CallsTyped DEF Init, TypeOK
  <2>3. Answers = {}
    BY DEF Init, Answers, Waiting
  <2>4. CacheSays
    BY TTLAssumption DEF Init, CacheSays
  <2> QED
    BY <2>2, <2>3, <2>4 DEF HealthInv, CachedAnswerIsRecent, DegradedSaysWhy
<1>2. HealthInv /\ [Next]_vars => HealthInv'
  <2> SUFFICES ASSUME HealthInv, [Next]_vars PROVE HealthInv'
    OBVIOUS
  <2>0. TypeOK /\ CacheSays /\ call \in [Caller -> Call] /\ cache \in LlmHealth
    BY DEF HealthInv, TypeOK
  <2>1. CASE Tick
    <3>1. cache.age \in Age /\ cache.seen \in Age /\ \A c \in Caller : call[c].age \in Age
      BY <2>0 DEF LlmHealth, Call
    <3>2. /\ cache' \in LlmHealth /\ cache'.seen <= cache'.age
          /\ cache'.status = cache.status /\ cache'.connected = cache.connected
          /\ cache'.reasons = cache.reasons
      BY <2>0, <2>1, <3>1, OlderAges DEF Tick, LlmHealth, CacheSays
    <3>3. call' \in [Caller -> Call] /\ \A c \in Caller : call'[c].answer = call[c].answer
      BY <2>0, <2>1, <3>1, OlderAges DEF Tick, Call
    <3> QED
      BY <2>0, <2>1, <3>2, <3>3, AnswersKept
         DEF Tick, HealthInv, TypeOK, CacheSays, Says, Reasons
  <2>2. CASE \E s \in Service : Changes(s)
    BY <2>0, <2>2, AnswersKept
       DEF Changes, HealthInv, TypeOK, CacheSays, Says, Reasons
  <2>3. ASSUME NEW c \in Caller, CheckDb(c)
        PROVE  HealthInv'
    <3>1. call' \in [Caller -> Call] /\ \A d \in Caller : call'[d].answer \subseteq call[d].answer
      <4> DEFINE asked(b) == [Waiting EXCEPT !.pc = "llm", !.db = b]
      <4>1. asked(TRUE) \in Call /\ asked(FALSE) \in Call
        BY CallsTyped DEF Call
      <4>2. asked(TRUE).answer = {} /\ asked(FALSE).answer = {}
        BY CallsTyped DEF Call
      <4>3. call' = [call EXCEPT ![c] = IF "db" \in up THEN asked(TRUE) ELSE asked(FALSE)]
        <5>1. ("db" \in up) \in BOOLEAN
          OBVIOUS
        <5> QED
          BY <2>3, <5>1, Zenon DEF CheckDb
      <4> QED
        BY <2>0, <4>1, <4>2, <4>3
    <3> QED
      BY <2>0, <2>3, <3>1, AnswersKept
         DEF CheckDb, HealthInv, TypeOK, CacheSays, Says, Reasons
  <2>4. ASSUME NEW c \in Caller, AnswerFromCache(c)
        PROVE  HealthInv'
    <3>1. Says(cache) /\ cache.seen < TTL
      BY <2>0, <2>4, TTLAssumption DEF AnswerFromCache, Fresh, CacheSays, LlmHealth, Age
    <3>2. call' \in [Caller -> Call] /\ CachedAnswerIsRecent' /\ DegradedSaysWhy'
      BY <2>0, <2>4, <3>1, ReplyIsSound DEF AnswerFromCache
    <3> QED
      BY <2>0, <2>4, <3>2 DEF AnswerFromCache, HealthInv, TypeOK, CacheSays, Says, Reasons
  <2>5. ASSUME NEW c \in Caller, Refresh(c)
        PROVE  HealthInv'
    <3>1. CASE Probed
      <4>1. call' \in [Caller -> Call] /\ \A d \in Caller : call'[d].answer \subseteq call[d].answer
        BY <2>0, <2>5, <3>1 DEF Refresh, AnthropicAnswers, Call
      <4> QED
        BY <2>0, <2>5, <3>1, <4>1, AnswersKept
           DEF Refresh, HealthInv, TypeOK, CacheSays, Says, Reasons
    <3>2. CASE ~Probed
      <4>1. /\ Reply(c, cache', FALSE) /\ UNCHANGED <<keyed, provider, up>>
            /\ cache' = Refreshed(AnthropicAnswers, FALSE, 0)
        BY <2>5, <3>2 DEF Refresh
      <4>2. 0 \in Age /\ provider \in Provider
        BY <2>0, TTLAssumption DEF Age, TypeOK
      <4>3. /\ cache' \in LlmHealth /\ Says(cache') /\ cache'.reasons = Reasons(cache'.connected)
            /\ cache'.status = "ok" <=> {"anthropic", provider} \subseteq cache'.connected
            /\ cache'.seen = 0 /\ cache'.age = 0
        BY <4>1, <4>2 DEF Refreshed, Reasons, LlmHealth, Says, Provider, Blamed
      <4>4. call' \in [Caller -> Call] /\ CachedAnswerIsRecent' /\ DegradedSaysWhy'
        BY <4>1, <4>3, ReplyIsSound
      <4>5. cache'.seen <= cache'.age
        BY <4>3
      <4> QED
        BY <2>0, <4>1, <4>3, <4>4, <4>5 DEF HealthInv, TypeOK, CacheSays, Says, Reasons
    <3> QED
      BY <3>1, <3>2
  <2>6. ASSUME NEW c \in Caller, Finish(c)
        PROVE  HealthInv'
    <3>1. /\ cache' = Refreshed(call[c].anthropic, EmbeddingsAnswer, call[c].age)
          /\ Reply(c, cache', FALSE) /\ UNCHANGED <<keyed, provider, up>>
      BY <2>6 DEF Finish
    <3>2. /\ call[c].age \in Age /\ call[c].anthropic \in BOOLEAN
          /\ EmbeddingsAnswer \in BOOLEAN /\ provider \in Provider
      BY <2>0 DEF TypeOK, Call, EmbeddingsAnswer
    <3>3. /\ cache' \in LlmHealth /\ Says(cache') /\ cache'.reasons = Reasons(cache'.connected)
          /\ cache'.status = "ok" <=> {"anthropic", provider} \subseteq cache'.connected
          /\ cache'.seen = call[c].age /\ cache'.age = call[c].age
      BY <3>1, <3>2, RefreshedSays
    <3>4. call' \in [Caller -> Call] /\ CachedAnswerIsRecent' /\ DegradedSaysWhy'
      BY <3>1, <3>3, ReplyIsSound
    <3>5. cache'.seen <= cache'.age
      BY <3>2, <3>3, TTLAssumption DEF Age
    <3> QED
      BY <2>0, <3>1, <3>3, <3>4, <3>5 DEF HealthInv, TypeOK, CacheSays, Says, Reasons
  <2>7. CASE UNCHANGED vars
    BY <2>0, <2>7, AnswersKept DEF vars, HealthInv, TypeOK, CacheSays, Says, Reasons
  <2> QED
    BY <2>1, <2>2, <2>3, <2>4, <2>5, <2>6, <2>7 DEF Next, Handler
<1> QED
  BY <1>1, <1>2, PTL DEF Spec

(* No answer served from the cache is about a state TTL or more ago,       *)
(* however long a probe took and whichever caller made it.                 *)
THEOREM CachedIsRecent == Spec => []CachedAnswerIsRecent
<1>1. HealthInv => CachedAnswerIsRecent
  BY DEF HealthInv
<1> QED
  BY <1>1, HealthInvariant, PTL

(* An answer is degraded exactly when it gives a reason, and the reasons   *)
(* are services in use, for any number of callers.                         *)
THEOREM DegradedIsExplained == Spec => []DegradedSaysWhy
<1>1. HealthInv => DegradedSaysWhy
  BY DEF HealthInv
<1> QED
  BY <1>1, HealthInvariant, PTL
=============================================================================
