---------------------------- MODULE MCSchemaStore ----------------------------
(* SchemaStore for TLC: embedding processes are alike, and so are manifests. *)
EXTENDS SchemaStore, TLC

Alike == Permutations(Embedder) \cup Permutations(Manifest)
===============================================================================
