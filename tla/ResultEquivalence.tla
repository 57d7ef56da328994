--------------------------- MODULE ResultEquivalence ---------------------------
(***************************************************************************)
(* results_equivalent (eval/result_equivalence.py): the benchmark's verdict *)
(* that a generated result answers as the gold one does.  Rows are tuples  *)
(* of normalized values; only whether two values are equal matters here.   *)
(***************************************************************************)
EXTENDS Integers, Sequences, FiniteSets

CONSTANT MAX_GEN_COLS

OneToOne(S, T) == {f \in [S -> T] : \A x, y \in S : f[x] = f[y] => x = y}

WellFormed(rows) == rows \in Seq(Seq(Int))

Ragged(rows) == \E k \in DOMAIN rows : Len(rows[k]) # Len(rows[1])

Times(rows, row) == Cardinality({k \in DOMAIN rows : rows[k] = row})

matches(gold, proj, ordered) ==
  IF ordered THEN gold = proj
  ELSE \A k \in DOMAIN gold : Times(gold, gold[k]) = Times(proj, gold[k])

Project(rows, combo) == [k \in DOMAIN rows |-> [j \in DOMAIN combo |-> rows[k][combo[j]]]]

\* Candidate mappings of the gold columns into the generated ones.
Candidates(g, n) == OneToOne(1..g, 1..n)

\* Variant: each row is matched under a mapping of its own (the old overlap).
RowByRow(gen, gold, ordered) ==
  /\ Len(gold) = Len(gen)
  /\ gold # <<>> =>
       /\ ~Ragged(gold) /\ ~Ragged(gen)
       /\ Len(gold[1]) <= Len(gen[1]) /\ Len(gen[1]) <= MAX_GEN_COLS
       /\ \A k \in DOMAIN gold : \E combo \in Candidates(Len(gold[1]), Len(gen[1])) :
            Project(gen, combo)[k] = gold[k]

results_equivalent(gen, gold, ordered) ==
  /\ Len(gold) = Len(gen)
  /\ gold # <<>> =>
       /\ ~Ragged(gold) /\ ~Ragged(gen)
       /\ Len(gold[1]) <= Len(gen[1]) /\ Len(gen[1]) <= MAX_GEN_COLS
       /\ \E combo \in Candidates(Len(gold[1]), Len(gen[1])) :
            matches(gold, Project(gen, combo), ordered)

-----------------------------------------------------------------------------
ColumnBag(rows, j) == [x \in {rows[k][j] : k \in DOMAIN rows} |->
                         Cardinality({k \in DOMAIN rows : rows[k][j] = x})]

\* The values of every gold column are, one for one, those of one generated
\* column: a coincidence of single rows is not a match
\* (result_equivalence.py:27-30).
GoldColumnsAreFound(gen, gold, ordered) ==
  results_equivalent(gen, gold, ordered) =>
    /\ Len(gen) = Len(gold)
    /\ gold # <<>> => \A j \in 1..Len(gold[1]) : \E c \in 1..Len(gen[1]) :
                        ColumnBag(gold, j) = ColumnBag(gen, c)

Reorder(rows, p) == [k \in DOMAIN rows |-> rows[p[k]]]

\* How the generated SQL presents its result does not change the verdict:
\* neither the order of its columns nor, unless the question fixes it, that of
\* its rows (result_equivalence.py:18-26).
PresentationIsFree(gen, gold, ordered) ==
  LET verdict == results_equivalent(gen, gold, ordered)
  IN  /\ (gen # <<>> /\ ~Ragged(gen)) =>
           \A p \in OneToOne(1..Len(gen[1]), 1..Len(gen[1])) :
             results_equivalent(Project(gen, p), gold, ordered) <=> verdict
      /\ ~ordered =>
           \A p \in OneToOne(DOMAIN gen, DOMAIN gen) :
             results_equivalent(Reorder(gen, p), gold, FALSE) <=> verdict
      /\ ordered /\ verdict => results_equivalent(gen, gold, FALSE)

\* The grade is of the result: what is found is there, and how it is presented
\* does not count (result_equivalence.py:18-30).
GradeIsRight(gen, gold, ordered) ==
  GoldColumnsAreFound(gen, gold, ordered) /\ PresentationIsFree(gen, gold, ordered)
===============================================================================
