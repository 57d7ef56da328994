---------------------------- MODULE MCFewshotCorpus ----------------------------
(* Small instances of FewshotCorpus: threads, questions and queries are       *)
(* interchangeable, no definition tells one from another.                     *)
EXTENDS FewshotCorpus, TLC

Symmetry == Permutations(Thread) \cup Permutations(Question) \cup Permutations(Query)

=============================================================================
