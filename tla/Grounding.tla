------------------------------- MODULE Grounding -------------------------------
(***************************************************************************)
(* check_grounding (graph/grounding.py): does a SELECT name only tables and *)
(* columns of the schema?  Its rule is that valid SQL is never flagged.    *)
(*                                                                         *)
(* A query is an outer SELECT and at most one inner one, which is a        *)
(* subquery of a predicate, a derived table or a CTE.  A SELECT has its    *)
(* FROM sources, one column reference and at most one alias it defines.    *)
(* The code sees the whole tree at once, without scopes; Postgres resolves *)
(* each name in its scope and then in the enclosing ones, and that is      *)
(* what Valid says, independently of the code.  Case is folded.            *)
(***************************************************************************)
EXTENDS FiniteSets

CONSTANTS schema,   \* SchemaView.tables: table -> columns
          Unqualified

\* source: [name, ref], ref the alias if it has one and else the name;
\* select: [from, column : [table, name], aliases];
\* query: [outer, inner : set of at most one select, role, name], the name that
\* the inner SELECT has as a derived table or as a CTE; a table may have it too.
Roles == {"none", "where", "derived", "cte"}

\* A derived table is a source of the outer SELECT; no source is named "".
WellFormed(q) ==
  /\ q.role \in Roles
  /\ q.role = "none" => q.inner = {}
  /\ q.role # "none" => \E x \in q.inner : q.inner = {x}
  /\ q.role = "derived" => \E s \in q.outer.from : s.name = q.name
  /\ \A x \in {q.outer} \cup q.inner :
       IsFiniteSet(x.from) /\ \A s \in x.from : s.ref # Unqualified

-----------------------------------------------------------------------------
Selects(q) == {q.outer} \cup q.inner

\* The source of the outer FROM that is the inner SELECT; a derived table is a
\* Subquery node of the tree, a CTE is named by a Table node.
IsInner(q, s) == q.role \in {"derived", "cte"} /\ s.name = q.name
TableNodes(q) ==
  {s \in q.outer.from : ~(q.role = "derived" /\ IsInner(q, s))}
  \cup UNION {x.from : x \in q.inner}
cte_names(q) == IF q.role = "cte" THEN {q.name} ELSE {}
defined_aliases(q) == UNION {x.aliases : x \in Selects(q)}
subquery_aliases(q) ==
  IF q.role = "derived" THEN {s.ref : s \in {x \in q.outer.from : IsInner(q, x)}} ELSE {}

has_table(name) == name \in DOMAIN schema
column_exists(table, column) == column \in schema[table]

hallucinated_tables(q) == {s.name : s \in {t \in TableNodes(q) : t.name \notin cte_names(q)}}
                          \ DOMAIN schema

RealTables(q) ==
  {s \in TableNodes(q) : s.name \notin cte_names(q) /\ has_table(s.name)}
alias_real_tables(q, ref) == {s.name : s \in {t \in RealTables(q) : t.ref = ref}}
non_checkable(q) == {s.ref : s \in TableNodes(q) \ RealTables(q)} \cup subquery_aliases(q)

\* The table an unqualified column is looked up in: the only real one there is,
\* when there is nothing else the column could come from.
FirstTable(q) == {s.name : s \in RealTables(q)}    \* variant: whatever real table there is
single_table(q) ==
  LET real == {s.name : s \in RealTables(q)}
  IN  IF Cardinality(real) = 1 /\ non_checkable(q) = {} THEN real ELSE {}

FlaggedQualified(q, c) ==
  LET reals == alias_real_tables(q, c.table)
  IN  /\ c.table \notin non_checkable(q) /\ reals # {}
      /\ ~\E t \in reals : column_exists(t, c.name)

hallucinated_columns(q) ==
  {c \in {x.column : x \in Selects(q)} :
     /\ c.name \notin defined_aliases(q)
     /\ IF c.table # Unqualified THEN FlaggedQualified(q, c)
        ELSE \E t \in single_table(q) : ~column_exists(t, c.name)}

is_grounded(q) == hallucinated_tables(q) = {} /\ hallucinated_columns(q) = {}

-----------------------------------------------------------------------------
(* What Postgres accepts.                                                  *)

\* The columns a source has in the scope of the outer or of the inner SELECT,
\* where a name of the outer one's is a table again.
SourceColumns(q, s, outer) ==
  CASE outer /\ IsInner(q, s)                             -> UNION {{x.column.name} \cup x.aliases : x \in q.inner}
    [] ~(outer /\ IsInner(q, s)) /\ s.name \in DOMAIN schema -> schema[s.name]
    [] OTHER                                              -> {}
SourceExists(q, s, outer) == (outer /\ IsInner(q, s)) \/ s.name \in DOMAIN schema

\* An unqualified name must be found once; a qualifier names one source.
Found(q, from, c, outer) ==
  {s \in from : c.table \in {Unqualified, s.ref} /\ c.name \in SourceColumns(q, s, outer)}

Hides(q, x, c) ==
  \/ \E s \in x.from : s.ref = c.table
  \/ c.table = Unqualified /\ Found(q, x.from, c, FALSE) # {}

Scope(q, x, outer) ==
  /\ \A s \in x.from : SourceExists(q, s, outer)
  /\ \A s, t \in x.from : s.ref = t.ref => s = t
  /\ \/ Cardinality(Found(q, x.from, x.column, outer)) = 1
     \/ x.column.table = Unqualified /\ x.column.name \in x.aliases   \* in ORDER BY
     \/ /\ q.role = "where" /\ ~outer /\ ~Hides(q, x, x.column)       \* correlated
        /\ Cardinality(Found(q, q.outer.from, x.column, TRUE)) = 1

Valid(q) == Scope(q, q.outer, TRUE) /\ \A x \in q.inner : Scope(q, x, FALSE)

-----------------------------------------------------------------------------
\* Valid SQL is never flagged (grounding.py:10-11).
NeverFlagsValid(q) == Valid(q) => is_grounded(q)

\* A query of one SELECT on one table that is not valid is flagged, unless the
\* column has the name of an alias, and so is every name of a table there is not
\* (grounding.py:12-18).
FlagsPlainErrors(q) ==
  /\ (q.inner = {} /\ Cardinality(q.outer.from) = 1
      /\ q.outer.column.table \in {Unqualified} \cup {s.ref : s \in q.outer.from}
      /\ q.outer.column.name \notin q.outer.aliases
      /\ is_grounded(q)) => Valid(q)
  /\ (q.inner = {} /\ \E s \in q.outer.from : s.name \notin DOMAIN schema) => ~is_grounded(q)

\* The verdict a run is corrected for: never on valid SQL, always on a plain
\* error (grounding.py:10-18).
GroundingVerdict(q) == NeverFlagsValid(q) /\ FlagsPlainErrors(q)
===============================================================================
