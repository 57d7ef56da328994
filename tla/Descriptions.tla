------------------------------ MODULE Descriptions ------------------------------
(***************************************************************************)
(* The text the retrieval index holds of each table (schema/embed.py): the *)
(* catalog's comments, overridden by the descriptions of a dbt manifest    *)
(* (schema/dbt.py), followed by the curated metrics that declare the table *)
(* (semantic/registry.py).  A text is represented by where its parts come  *)
(* from.  Names are folded to lower case, but for columns' (dbt.py:282).   *)
(***************************************************************************)
EXTENDS Integers, Sequences, FiniteSets

CONSTANTS Name,         \* of schemas, tables and databases
          Column, Metric,
          Public        \* the schema whose tables are known by their bare name

Table == [schema : Name, name : Name, columns : SUBSET Column]
\* A node of the manifest, and an entry of the metrics file.
Node == [model : BOOLEAN, relation : Seq(Name), described : BOOLEAN, columns : SUBSET Column]
Entry == [name : Metric, valid : BOOLEAN, tables : Seq(Seq(Name))]
Catalog == [tables : SUBSET Table, nodes : Seq(Node), entries : Seq(Entry)]

qualified_name(t) == IF t.schema = Public THEN <<t.name>> ELSE <<t.schema, t.name>>

-----------------------------------------------------------------------------
(* The manifest.                                                           *)

\* parse_manifest: the nodes that are models; none is an error, after which
\* the catalog stands alone.
models(nodes) == {i \in DOMAIN nodes : nodes[i].model}

BareToo(relation) ==                  \* variant: the schema of a bare name is guessed
  IF Len(relation) < 2 THEN {<<Public>> \o relation}
  ELSE {SubSeq(relation, Len(relation) - 1, Len(relation))}

\* The last two parts of a relation's name, if it has as many.
normalize_relation(relation) ==
  IF Len(relation) < 2 THEN {} ELSE {SubSeq(relation, Len(relation) - 1, Len(relation))}

resolved(model, live) ==
  {q \in normalize_relation(model.relation) :
     q \in live \/ (q[1] = Public /\ <<q[2]>> \in live)}

\* The keys a model is registered under: a table of Public is looked up bare.
MatchKeys(model, live) ==
  resolved(model, live) \cup {<<q[2]>> : q \in {x \in resolved(model, live) : x[1] = Public}}

\* The model registered last under a key, 0 if none.
match_of(key, nodes, live) ==
  LET is == {i \in models(nodes) : key \in MatchKeys(nodes[i], live)}
  IN  IF is = {} THEN 0 ELSE CHOOSE i \in is : \A j \in is : j <= i

\* Where the table's comment and its columns' come from; 0 is the catalog.
apply_manifest(t, nodes, live) ==
  LET i == match_of(qualified_name(t), nodes, live)
  IN  [comment |-> IF i # 0 /\ nodes[i].described THEN i ELSE 0,
       columns |-> [c \in t.columns |-> IF i # 0 /\ c \in nodes[i].columns THEN i ELSE 0]]

-----------------------------------------------------------------------------
(* The metrics file.                                                       *)

\* An entry is kept unless it is invalid or its name was already kept.
ValidBefore(entries, i) == {entries[j].name : j \in {k \in 1..i-1 : entries[k].valid}}
kept(entries, i) == entries[i].valid /\ entries[i].name \notin ValidBefore(entries, i)

parse_metrics(entries) == {i \in DOMAIN entries : kept(entries, i)}

\* One line for each time a metric declares the table, in their order: that of
\* the j-th table of entry i is <<i, j>>.
metric_vocabulary(table, entries) ==
  UNION {{<<i, j>> : j \in {k \in DOMAIN entries[i].tables : entries[i].tables[k] = table}}
           : i \in parse_metrics(entries)}

\* What is embedded of each table.
descriptions(tables, nodes, entries) ==
  LET live == {qualified_name(t) : t \in tables}
  IN  [t \in tables |-> [from |-> apply_manifest(t, nodes, live),
                        metrics |-> metric_vocabulary(qualified_name(t), entries)]]

-----------------------------------------------------------------------------
Names(node, t) ==
  Len(node.relation) >= 2 /\ node.relation[Len(node.relation)] = t.name
    /\ node.relation[Len(node.relation) - 1] = t.schema

\* A description is given only to the very table its model names, schema and
\* all: "unmatched models are logged, never guessed" (dbt.py:95-98, 222).
NeverGuessed(tables, nodes, entries) ==
  \A t \in tables :
    LET d == descriptions(tables, nodes, entries)[t].from
    IN  \A i \in {d.comment} \cup {d.columns[c] : c \in t.columns} :
          i # 0 => i \in models(nodes) /\ Names(nodes[i], t)

\* The manifest owns the descriptions it has, and only those: of the last model
\* of a table, a description that is not empty wins, any other leaves the
\* catalog's (dbt.py:13-16, 259-260).
ManifestOwns(tables, nodes, entries) ==
  \A t \in tables :
    LET d == descriptions(tables, nodes, entries)[t].from
        is == {i \in models(nodes) : Names(nodes[i], t)}
    IN  /\ is = {} => d.comment = 0 /\ \A c \in t.columns : d.columns[c] = 0
        /\ \A i \in is : (\A j \in is : j <= i) =>
             /\ d.comment = IF nodes[i].described THEN i ELSE 0
             /\ \A c \in t.columns : d.columns[c] = IF c \in nodes[i].columns THEN i ELSE 0

\* A valid entry is never lost to an invalid one of its name, nor served twice
\* for one declaration, and reaches only the tables it declares
\* (registry.py:16-19, enrichment.py:3-5).
MetricsReachTheirTables(tables, nodes, entries) ==
  \A t \in tables :
    LET served == descriptions(tables, nodes, entries)[t].metrics
        first == {i \in DOMAIN entries : entries[i].valid
                    /\ \A j \in 1..i-1 : entries[j].valid => entries[j].name # entries[i].name}
    IN  \A i \in DOMAIN entries : entries[i].valid =>
          LET m == CHOOSE f \in first : entries[f].name = entries[i].name
          IN  Cardinality({line \in served : entries[line[1]].name = entries[i].name})
                = Cardinality({j \in DOMAIN entries[m].tables :
                                 entries[m].tables[j] = qualified_name(t)})

\* Every part of a table's text is of its owner, and none is lost or guessed
\* (dbt.py:13-16, registry.py:16-19).
DescriptionsAreOwned(tables, nodes, entries) ==
  /\ NeverGuessed(tables, nodes, entries)
  /\ ManifestOwns(tables, nodes, entries)
  /\ MetricsReachTheirTables(tables, nodes, entries)
===============================================================================
