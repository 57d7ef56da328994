-------------------------- MODULE QueryRunRefinement --------------------------
(***************************************************************************)
(* The query graph implements the answer contract.  Nothing is added to    *)
(* the state: the run's phase, reply, evidence and served text are read off *)
(* the channels, and the knowledge is the SQL of the two stores.           *)
(***************************************************************************)
EXTENDS QueryRun

Phase == CASE pc = "idle" -> "idle"
           [] pc = "record_history" -> "replied"
           [] OTHER -> "open"

\* Texts of this run that the target database answered.
Evidence == {e.sql : e \in {x \in execution : x.result # "error"}}
Served == {c.sql : c \in hit}
Known == {c.sql : c \in cache} \cup {l.sql : l \in corpus}

ReplyKind ==
  IF pc # "record_history" THEN "none"
  ELSE IF outcome = "NEEDS_CLARIFICATION" THEN "clarification"
  ELSE IF outcome # "ANSWERED" THEN "refusal"
  ELSE IF hit # {} THEN "cached"
  ELSE IF Evidence # {} THEN "data"
  ELSE "no_data"

Contract == INSTANCE AnswerContract WITH
  phase <- Phase, reply <- ReplyKind, evidence <- Evidence,
  served <- Served, known <- Known

(* Every step of the graph is a step of the contract or a stutter: an answer *)
(* is backed by a text that ran for the question or by one learned from a    *)
(* text that ran, a refused or clarified question runs nothing, and neither  *)
(* store ever takes a text that did not just succeed (graph.py's routing     *)
(* with explain_result's writes).                                            *)
ImplementsContract == Contract!Spec

=============================================================================
