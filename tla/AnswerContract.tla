---------------------------- MODULE AnswerContract ----------------------------
(***************************************************************************)
(* What a session promises its client, with the graph left out: a question *)
(* is answered, declined or given up; an answer is backed by one SQL text, *)
(* which either ran for this very question or was learned from a question  *)
(* for which it ran; and nothing enters the knowledge of the system except *)
(* a text that has just run.                                               *)
(***************************************************************************)
VARIABLES
  phase,      \* "idle", "open" (a question is being worked on) or "replied"
  reply,      \* kind of the reply, "none" before it is given
  evidence,   \* the text that ran for the question at hand, if one did
  served,     \* the known text that answers it instead, if one does
  known       \* texts in the cache and in the few-shot corpus

vars == <<phase, reply, evidence, served, known>>

Init == phase = "idle" /\ reply = "none" /\ evidence = {} /\ served = {} /\ known = {}

Ask ==
  /\ phase = "idle" /\ phase' = "open"
  /\ evidence' = {} /\ served' = {}
  /\ UNCHANGED <<reply, known>>

\* A text runs on the target database and returns rows.
Run(s) ==
  /\ phase = "open" /\ evidence = {} /\ served = {}
  /\ evidence' = {s}
  /\ UNCHANGED <<phase, reply, served, known>>

Serve(s) ==
  /\ phase = "open" /\ evidence = {} /\ served = {}
  /\ s \in known
  /\ served' = {s}
  /\ UNCHANGED <<phase, reply, evidence, known>>

Learn ==
  /\ phase = "open"
  /\ known' = known \cup evidence
  /\ UNCHANGED <<phase, reply, evidence, served>>

\* A declined question ran and served nothing; an answer has its backing.
Reply(kind) ==
  /\ phase = "open" /\ phase' = "replied"
  /\ \/ kind \in {"clarification", "refusal", "no_data"} /\ evidence = {} /\ served = {}
     \/ kind = "data" /\ evidence # {}
     \/ kind = "cached" /\ served # {}
  /\ reply' = kind
  /\ UNCHANGED <<evidence, served, known>>

\* The reply is delivered, or the question fails on the way.
Close ==
  /\ phase # "idle" /\ phase' = "idle"
  /\ reply' = "none"
  /\ UNCHANGED <<evidence, served, known>>

Next ==
  \/ Ask \/ Learn \/ Close
  \/ \E kind \in {"clarification", "refusal", "no_data", "data", "cached"} : Reply(kind)
  \/ \E s \in evidence' : Run(s)
  \/ \E s \in known : Serve(s)

Spec == Init /\ [][Next]_vars

=============================================================================
