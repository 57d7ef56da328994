------------------------------ MODULE MCQueryCache ------------------------------
(* Small instances of QueryCache: the slots of the runs are interchangeable,  *)
(* and so are those of the evictions.                                         *)
EXTENDS QueryCache, TLC

Symmetry == Permutations(Run) \cup Permutations(Evictor)

(* Of the runs, the evictions and the script, at most three are at work at    *)
(* the same time.                                                             *)
AtWork ==
  Cardinality({r \in Run : run[r].pc # "idle"})
  + Cardinality({e \in Evictor : evictor[e].pc # "idle"})
  + IF script = "idle" THEN 0 ELSE 1
ThreeAtWork == AtWork <= 3

=============================================================================
