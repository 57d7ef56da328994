------------------------------- MODULE QueryRun -------------------------------
(***************************************************************************)
(* One session thread of the NIXUS query graph (nixus/graph/graph.py): the *)
(* successive runs a client makes under one session id.  A step of the     *)
(* specification is one node of the compiled StateGraph together with the  *)
(* edge that leaves it; `pc' is the node to run next.                      *)
(*                                                                         *)
(* The graph is compiled with a Postgres checkpointer keyed by session id, *)
(* and a run's input (services/query_service.py) omits the NotRequired     *)
(* channels of SQLAgentState.  Those channels - grounding, preview,        *)
(* confidence, fewshotId - therefore start a run with whatever the last    *)
(* checkpoint of the thread holds, and only the others are reset by Start. *)
(*                                                                         *)
(* A channel that may be absent (or None) is a set: {} when absent, a      *)
(* singleton when written.  Every value that was derived from a SQL text   *)
(* carries that text, so that a property can tell whose result it is.      *)
(***************************************************************************)
EXTENDS Integers, Sequences

CONSTANTS
  MaxAttempts,   \* settings.max_correction_attempts
  MaxRuns        \* bound: runs made on the thread

ASSUME MaxAttemptsAssumption == MaxAttempts \in Nat
ASSUME MaxRunsAssumption == MaxRuns \in Nat \ {0}

VARIABLES
  pc,           \* node to run next; "idle" between runs
  run,          \* number of runs started on this thread
  clarified,    \* the request carried a clarification context or round
  outcome,      \* response-outcome discriminator of the scope gate
  sql,          \* generated_sql
  attempts,     \* correction_attempts
  validation,   \* validation_result
  grounding,    \* grounding_result           (NotRequired: survives a run)
  preview,      \* guardrail_preview          (NotRequired: survives a run)
  execution,    \* execution_result
  quality,      \* result_quality
  hit,          \* cache_result of a hit; served_from_cache is hit # {}
  confidence,   \* confidence                 (NotRequired: survives a run)
  fewshotId,    \* fewshot_example_id         (NotRequired: survives a run)
  error,        \* error
  complete,     \* is_complete
  corrections,  \* correction_history
  minted,       \* id returned by store_fewshot_example, local to the node
  cache,        \* table query_cache
  corpus,       \* auto-learned rows of table fewshot_examples
  history       \* table query_history

channels == <<clarified, outcome, sql, attempts, validation, grounding, preview,
              execution, quality, hit, confidence, fewshotId, error, complete,
              corrections>>
stores == <<minted, cache, corpus, history>>
vars == <<pc, run, channels, stores>>

-----------------------------------------------------------------------------
(* Data. *)

\* What a SQL text is to the nodes that read it: "" ; the literal the prompt
\* asks for when the schema cannot answer; text the tokenizer or the parser
\* rejects; a parsable statement that is not a SELECT; a SELECT naming an
\* unknown table or column; a SELECT whose identifiers all exist.
SqlKind == {"blank", "cannot_answer", "untokenizable", "unparsable",
            "not_select", "ungrounded", "grounded"}

Sql == [run : 0..MaxRuns, attempt : 0..MaxAttempts, kind : SqlKind]
NoSql == [run |-> 0, attempt |-> 0, kind |-> "blank"]

\* execute_query's outcomes, told apart the way check_result reads them: a
\* database error, 0 rows, 1..999 rows, and ROW_FETCH_LIMIT rows.
ExecOutcome == {"error", "empty", "rows", "full"}
Execution == [sql : Sql, result : ExecOutcome]
Validation == [sql : Sql, valid : BOOLEAN]
Grounding == [sql : Sql, grounded : BOOLEAN, checked : BOOLEAN]
Quality == {"none", "ERROR", "EMPTY", "OVERFLOW", "GOOD"}
Level == {"HIGH", "MEDIUM", "LOW"}
Confidence == [run : 0..MaxRuns, level : Level]
Correction == [failed : Sql, reason : {"execution", "quality", "validation", "unknown"},
               about : Sql]
CacheEntry == [sql : Sql, result : ExecOutcome, attempts : 0..MaxAttempts,
               clean : BOOLEAN, explained : BOOLEAN]
Learned == [sql : Sql, result : ExecOutcome]

Outcome == {"none", "ANSWERED", "NEEDS_CLARIFICATION", "REFUSED_OUT_OF_SCOPE",
            "REFUSED_WRITE", "REFUSED_AMBIGUOUS"}
HistoryRow == [run : 1..MaxRuns, status : Outcome, example : SUBSET Learned]

Category == {"IN_SCOPE", "OUT_OF_SCOPE", "WRITE_REFUSAL", "NEEDS_CLARIFICATION"}
CLARIFICATION_ROUND_CAP == 2

\* The four nodes below write no channel that another guard reads.
FixedEdge == [parse_intent     |-> "check_cache",
              retrieve_schema  |-> "retrieve_fewshot",
              retrieve_fewshot |-> "generate_sql",
              classify_chart   |-> "explain_result"]

Node == {"idle", "scope_classifier", "scope_response", "parse_intent", "check_cache",
         "retrieve_schema", "retrieve_fewshot", "generate_sql", "validate_syntax",
         "verify_grounding", "guardrail_preview", "execute_query", "check_result",
         "self_correct", "classify_chart", "explain_result", "store_fewshot",
         "store_cache", "explained", "record_history"}

-----------------------------------------------------------------------------
(* Decisions of the code. *)

outcome_for(category, round) ==
  CASE category = "IN_SCOPE"      -> "ANSWERED"
    [] category = "OUT_OF_SCOPE"  -> "REFUSED_OUT_OF_SCOPE"
    [] category = "WRITE_REFUSAL" -> "REFUSED_WRITE"
    [] OTHER -> IF round >= CLARIFICATION_ROUND_CAP THEN "REFUSED_AMBIGUOUS"
                                                    ELSE "NEEDS_CLARIFICATION"

\* is_read_only_sql on text the model produced: it must parse, to a SELECT.
\* The empty text parses to no statement at all and passes.
is_read_only_sql(kind) == kind \in {"blank", "ungrounded", "grounded"}

QualityOfMisreadsCap(result) ==
  CASE result = "error" -> "ERROR" [] result = "empty" -> "EMPTY" [] OTHER -> "GOOD"

QualityOf(result) ==
  CASE result = "error" -> "ERROR"
    [] result = "empty" -> "EMPTY"
    [] result = "full"  -> "OVERFLOW"
    [] OTHER            -> "GOOD"

EmptyIsNotAcceptable(q) == q \notin {"ERROR", "EMPTY"}

IsAcceptable(q) == q # "ERROR"

AfterFailureUncapped == "self_correct"
AfterFailureOneShort ==
  IF attempts + 1 < MaxAttempts THEN "self_correct" ELSE "explain_result"

\* Where a failed check goes: another correction, or the explanation.
AfterFailure == IF attempts < MaxAttempts THEN "self_correct" ELSE "explain_result"

\* Number of uncertainty signals -> level; an empty result compounds them.
assess_confidence(clar, corrected, clean, empty) ==
  LET Signal(b) == IF b THEN 1 ELSE 0
      n == Signal(clar) + Signal(corrected) + Signal(~clean)
  IN  CASE n = 0 -> "HIGH"
        [] n = 1 /\ ~empty -> "MEDIUM"
        [] OTHER -> "LOW"

GroundedUnchecked == \E g \in grounding : g.grounded

GroundedCleanly == \E g \in grounding : g.grounded /\ g.checked
NoRows == \E e \in execution : e.result \in {"error", "empty"}
ServedWithExplanation == \E c \in hit : c.explained

\* explain_result's conditions on its two writes.
Learnable == attempts = 0 /\ quality = "GOOD"

CacheableIfExecuted == execution # {}
Cacheable == quality = "GOOD" /\ execution # {}

\* The id the run hands to its history row: its own, if it stored an example.
StampedOnce == IF fewshotId = {} THEN minted ELSE fewshotId
StampedId == IF minted = {} THEN fewshotId ELSE minted

\* verify_grounding drops the earlier failure when it reports one of its own.
KeptAlways(grounded, old, none) == old
KeptIf(grounded, old, none) == IF grounded THEN old ELSE none

\* What self_correct puts in its prompt as FAILURE REASON, and whose failure
\* that is: a failed execution first, then the quality, then the validation.
FailureReason ==
  IF \E e \in execution : e.result = "error" THEN "execution"
  ELSE IF ~IsAcceptable(quality) THEN "quality"
  ELSE IF \E v \in validation : ~v.valid THEN "validation"
  ELSE "unknown"

FailureAbout ==
  CASE FailureReason \in {"execution", "quality"} /\ execution # {} ->
         (CHOOSE e \in execution : TRUE).sql
    [] FailureReason = "validation" -> (CHOOSE v \in validation : TRUE).sql
    [] OTHER -> sql

-----------------------------------------------------------------------------
(* Actions. *)

Goto(from, to) == pc = from /\ pc' = to

Init ==
  /\ pc = "idle" /\ run = 0 /\ clarified = FALSE /\ outcome = "none"
  /\ sql = NoSql /\ attempts = 0 /\ validation = {} /\ grounding = {}
  /\ preview = {} /\ execution = {} /\ quality = "none" /\ hit = {}
  /\ confidence = {} /\ fewshotId = {} /\ error = "none" /\ complete = FALSE
  /\ corrections = <<>> /\ minted = {} /\ cache = {} /\ corpus = {}
  /\ history = {}

\* run_query: a new input resets the channels it names and keeps the rest.
Start ==
  /\ Goto("idle", "scope_classifier")
  /\ run < MaxRuns
  /\ run' = run + 1
  /\ clarified' \in BOOLEAN
  /\ outcome' = "none" /\ sql' = NoSql /\ attempts' = 0 /\ validation' = {}
  /\ execution' = {} /\ quality' = "none" /\ hit' = {} /\ error' = "none"
  /\ complete' = FALSE /\ corrections' = <<>>
  /\ UNCHANGED <<grounding, preview, confidence, fewshotId, stores>>

\* scope_classifier: the round trusted is the larger of the client's counter
\* and the clarifications carried; it is 0 unless the request carried some.
ScopeClassifier ==
  \E category \in Category, round \in 0..CLARIFICATION_ROUND_CAP :
    /\ round > 0 => clarified
    /\ outcome' = outcome_for(category, round)
    /\ Goto("scope_classifier",
            IF outcome' = "ANSWERED" THEN "parse_intent" ELSE "scope_response")
    /\ UNCHANGED <<run, clarified, sql, attempts, validation, grounding, preview,
                   execution, quality, hit, confidence, fewshotId, error, complete,
                   corrections, stores>>

ScopeResponseAsksAgain ==
  /\ Goto("scope_response", "scope_classifier")
  /\ UNCHANGED <<run, channels, stores>>

ScopeResponse ==
  /\ Goto("scope_response", "record_history")
  /\ error' = IF outcome = "NEEDS_CLARIFICATION" THEN error ELSE "refused"
  /\ complete' = TRUE
  /\ UNCHANGED <<run, clarified, outcome, sql, attempts, validation, grounding,
                 preview, execution, quality, hit, confidence, fewshotId,
                 corrections, stores>>

\* parse_intent, retrieve_schema, retrieve_fewshot, classify_chart.
PassThrough ==
  /\ pc \in DOMAIN FixedEdge
  /\ pc' = FixedEdge[pc]
  /\ UNCHANGED <<run, channels, stores>>

CheckCacheMiss ==
  /\ Goto("check_cache", "retrieve_schema")
  /\ UNCHANGED <<run, channels, stores>>

CheckCacheHit ==
  \E c \in cache :
    /\ Goto("check_cache", "classify_chart")
    /\ hit' = {c}
    /\ sql' = c.sql
    /\ UNCHANGED <<run, clarified, outcome, attempts, validation, grounding,
                   preview, execution, quality, confidence, fewshotId, error,
                   complete, corrections, stores>>

\* generate_sql: the AST check, then the regex guard, which may also fire on
\* a SELECT.  A blocked text is replaced by "" and the run goes on.
GenerateSql ==
  \E kind \in SqlKind, regexFires \in BOOLEAN :
    LET blocked == ~is_read_only_sql(kind) \/ (regexFires /\ kind # "blank")
    IN  /\ Goto("generate_sql", "validate_syntax")
        /\ sql' = [run |-> run, attempt |-> 0,
                   kind |-> IF blocked THEN "blank" ELSE kind]
        /\ error' = IF blocked THEN "blocked" ELSE error
        /\ complete' = (blocked \/ complete)
        /\ UNCHANGED <<run, clarified, outcome, attempts, validation, grounding,
                       preview, execution, quality, hit, confidence, fewshotId,
                       corrections, stores>>

\* validate_syntax and its three-way edge.  A text the tokenizer rejects
\* raises TokenError, which the node does not catch: see Abort.
ValidateSyntax ==
  /\ pc = "validate_syntax"
  /\ sql.kind # "untokenizable"
  /\ LET valid == sql.kind \in {"not_select", "ungrounded", "grounded"}
     IN  /\ validation' = {[sql |-> sql, valid |-> valid]}
         /\ error' = IF sql.kind = "cannot_answer" THEN "cannot_answer" ELSE error
         /\ pc' = IF error' = "cannot_answer" THEN "record_history"
                  ELSE IF valid THEN "verify_grounding" ELSE AfterFailure
  /\ UNCHANGED <<run, clarified, outcome, sql, attempts, grounding, preview,
                 execution, quality, hit, confidence, fewshotId, complete,
                 corrections, stores>>

\* verify_grounding, introspection available.  A hallucination is handed to
\* self_correct as a validation failure, with the older failures cleared.
VerifyGrounding ==
  LET ok == sql.kind # "ungrounded"
  IN  /\ Goto("verify_grounding", IF ok THEN "guardrail_preview" ELSE AfterFailure)
      /\ grounding' = {[sql |-> sql, grounded |-> ok, checked |-> TRUE]}
      /\ validation' = IF ok THEN validation ELSE {[sql |-> sql, valid |-> FALSE]}
      /\ execution' = KeptIf(ok, execution, {})
      /\ quality' = KeptIf(ok, quality, "none")
      /\ UNCHANGED <<run, clarified, outcome, sql, attempts, preview, hit,
                     confidence, fewshotId, error, complete, corrections, stores>>

VerifyGroundingReturnsEarly ==
  /\ Goto("verify_grounding", "guardrail_preview")
  /\ UNCHANGED <<run, channels, stores>>

\* verify_grounding, introspection failed: pass, unchecked.
VerifyGroundingFailsOpen ==
  /\ Goto("verify_grounding", "guardrail_preview")
  /\ grounding' = {[sql |-> sql, grounded |-> TRUE, checked |-> FALSE]}
  /\ UNCHANGED <<run, clarified, outcome, sql, attempts, validation, preview,
                 execution, quality, hit, confidence, fewshotId, error, complete,
                 corrections, stores>>

\* guardrail_preview: EXPLAIN of the normalized text, or no preview written.
GuardrailPreview ==
  /\ Goto("guardrail_preview", "execute_query")
  /\ preview' \in {preview, {sql}}
  /\ UNCHANGED <<run, clarified, outcome, sql, attempts, validation, grounding,
                 execution, quality, hit, confidence, fewshotId, error, complete,
                 corrections, stores>>

\* execute_query runs validation_result.normalized_sql.
ExecuteQuery ==
  \E v \in validation, r \in ExecOutcome :
    /\ Goto("execute_query", "check_result")
    /\ execution' = {[sql |-> v.sql, result |-> r]}
    /\ UNCHANGED <<run, clarified, outcome, sql, attempts, validation, grounding,
                   preview, quality, hit, confidence, fewshotId, error, complete,
                   corrections, stores>>

CheckResult ==
  \E e \in execution :
    /\ quality' = QualityOf(e.result)
    /\ Goto("check_result",
            IF IsAcceptable(quality') THEN "classify_chart" ELSE AfterFailure)
    /\ UNCHANGED <<run, clarified, outcome, sql, attempts, validation, grounding,
                   preview, execution, hit, confidence, fewshotId, error, complete,
                   corrections, stores>>

\* self_correct: one more attempt; a reply that is not JSON resubmits the
\* failed text.  The corrected text is not checked by is_read_only_sql.
SelfCorrect ==
  \E kind \in SqlKind, isJson \in BOOLEAN :
    /\ Goto("self_correct", "validate_syntax")
    /\ attempts' = attempts + 1
    /\ corrections' = Append(corrections, [failed |-> sql, reason |-> FailureReason,
                                           about |-> FailureAbout])
    /\ sql' = IF isJson THEN [run |-> run, attempt |-> attempts', kind |-> kind]
                        ELSE sql
    /\ UNCHANGED <<run, clarified, outcome, validation, grounding, preview,
                   execution, quality, hit, confidence, fewshotId, error, complete,
                   stores>>

\* explain_result returns here on a cache hit that carries an explanation:
\* the confidence is that of a clean, uncorrected run.
ExplainCached ==
  /\ ServedWithExplanation
  /\ Goto("explain_result", "record_history")
  /\ \E c \in hit : confidence' =
       {[run |-> run,
         level |-> assess_confidence(clarified, FALSE, TRUE, c.result = "empty")]}
  /\ complete' = TRUE
  /\ UNCHANGED <<run, clarified, outcome, sql, attempts, validation, grounding,
                 preview, execution, quality, hit, fewshotId, error, corrections,
                 stores>>

\* explain_result, the language model answered (it is asked at most twice,
\* then a deterministic description is used): the writes follow.
ExplainFresh ==
  /\ ~ServedWithExplanation
  /\ Goto("explain_result", "store_fewshot")
  /\ UNCHANGED <<run, channels, stores>>

\* The learn step: taken for an uncorrected GOOD run; None on a duplicate,
\* and any failure is logged and dropped.
StoreFewshot ==
  /\ Goto("store_fewshot", "store_cache")
  /\ \/ /\ Learnable
        /\ minted' = {[sql |-> sql, result |-> e.result] : e \in execution}
        /\ corpus' = corpus \cup minted'
     \/ UNCHANGED <<minted, corpus>>
  /\ UNCHANGED <<run, channels, cache, history>>

\* The cache write: any GOOD run; a failure is logged and dropped.
StoreCache ==
  /\ Goto("store_cache", "explained")
  /\ \/ /\ Cacheable
        /\ \E e \in execution, explained \in BOOLEAN :
             cache' = cache \cup {[sql |-> sql, result |-> e.result,
                                   attempts |-> attempts, clean |-> GroundedCleanly,
                                   explained |-> explained]}
     \/ UNCHANGED cache
  /\ UNCHANGED <<run, channels, minted, corpus, history>>

\* explain_result returns and its channel writes reach the checkpoint.
Explained ==
  /\ Goto("explained", "record_history")
  /\ confidence' = {[run |-> run,
                     level |-> assess_confidence(clarified, attempts > 0,
                                                 GroundedCleanly, NoRows)]}
  /\ fewshotId' = StampedId
  /\ complete' = TRUE
  /\ minted' = {}
  /\ UNCHANGED <<run, clarified, outcome, sql, attempts, validation, grounding,
                 preview, execution, quality, hit, error, corrections, cache,
                 corpus, history>>

\* record_history_safely writes the row or logs the failure; the reply goes
\* out either way.
RecordHistory ==
  /\ Goto("record_history", "idle")
  /\ \/ history' = history \cup
                   {[run |-> run, status |-> outcome, example |-> fewshotId]}
     \/ UNCHANGED history
  /\ UNCHANGED <<run, channels, minted, cache, corpus>>

\* A node raises (provider or embedding failure after its retries, a driver
\* error execute_query does not catch, TokenError), the client goes away, or
\* the process dies: the run ends without a history row, the thread keeps the
\* last checkpoint, and what was committed to the stores stays.
Abort ==
  /\ pc # "idle"
  /\ pc' = "idle"
  /\ minted' = {}
  /\ UNCHANGED <<run, channels, cache, corpus, history>>

\* One step of the run in progress.
GraphStep ==
  \/ ScopeClassifier \/ ScopeResponse \/ PassThrough \/ CheckCacheMiss
  \/ CheckCacheHit \/ GenerateSql \/ ValidateSyntax \/ VerifyGrounding
  \/ VerifyGroundingFailsOpen \/ GuardrailPreview \/ ExecuteQuery \/ CheckResult
  \/ SelfCorrect \/ ExplainCached \/ ExplainFresh \/ StoreFewshot \/ StoreCache
  \/ Explained \/ RecordHistory

\* The thread is done when it has made all its runs.
Quiesce == pc = "idle" /\ run = MaxRuns /\ UNCHANGED vars

Next == Start \/ GraphStep \/ Abort \/ Quiesce

Spec == Init /\ [][Next]_vars

\* The runner awaits every node, every provider call is bounded by its
\* retries and every statement by statement_timeout, so a run that can take
\* a step takes it - or aborts, which is the only way out of a node that raises.
Fairness == WF_vars(GraphStep \/ Abort)

FairSpec == Spec /\ Fairness

-----------------------------------------------------------------------------
(* Properties. *)

\* A channel that is absent or holds one element of S.
Optional(c, S) == c \subseteq S /\ \A x, y \in c : x = y

(* Type invariant: every channel holds what SQLAgentState declares for it,   *)
(* the correction counter never exceeds its budget, and the stores hold      *)
(* entries of this thread's texts only.                                      *)
TypeOK ==
  /\ pc \in Node /\ run \in 0..MaxRuns /\ clarified \in BOOLEAN
  /\ outcome \in Outcome /\ sql \in Sql /\ attempts \in 0..MaxAttempts
  /\ Optional(validation, Validation) /\ Optional(grounding, Grounding)
  /\ Optional(preview, Sql) /\ Optional(execution, Execution)
  /\ quality \in Quality /\ Optional(hit, CacheEntry)
  /\ Optional(confidence, Confidence) /\ Optional(fewshotId, Learned)
  /\ error \in {"none", "refused", "blocked", "cannot_answer"}
  /\ complete \in BOOLEAN /\ corrections \in Seq(Correction)
  /\ Optional(minted, Learned) /\ cache \subseteq CacheEntry
  /\ corpus \subseteq Learned /\ history \subseteq HistoryRow

(* No text is previewed or executed unless this very text parsed and passed *)
(* the grounding gate in this run (graph.py: the validate_syntax and        *)
(* verify_grounding edges, taken again after every correction).             *)
ExecutesVerifiedSql ==
  pc \in {"guardrail_preview", "execute_query"} =>
    /\ validation = {[sql |-> sql, valid |-> TRUE]}
    /\ \E g \in grounding : g.sql = sql /\ g.grounded

(* The rows the client and the stores receive are rows of the SQL shown      *)
(* beside them: no correction happens after an execution that succeeded, so  *)
(* execution_result and generated_sql cannot drift apart.                    *)
AnswerIsOfShownSql ==
  \A e \in execution : e.result # "error" => e.sql = sql

\* explain_result has been reached and has not returned.
Explaining == pc \in {"explain_result", "store_fewshot", "store_cache", "explained"}

(* A run explains a failure only when the correction budget is spent to the  *)
(* last attempt: the three edges that test correction_attempts agree, none   *)
(* gives up early and none corrects once too often.                          *)
BudgetSpentBeforeGivingUp ==
  /\ attempts = Len(corrections)
  /\ Explaining /\ hit = {} =>
       attempts = MaxAttempts \/ \E e \in execution : e.result # "error"

(* A fresh HIGH verdict means the run was never clarified or corrected, its  *)
(* own SQL was found grounded by a check that ran, and that SQL executed     *)
(* (utils/confidence.py: "HIGH is reachable ONLY by the clean path").  With  *)
(* no correction allowed a failed first text can be explained, so the claim  *)
(* is made for a positive budget.                                            *)
FreshHighIsClean ==
  MaxAttempts > 0 /\ pc = "record_history" /\ hit = {} =>
    \A c \in confidence : c.run = run /\ c.level = "HIGH" =>
      /\ ~clarified /\ attempts = 0
      /\ \E g \in grounding : g.sql = sql /\ g.grounded /\ g.checked
      /\ \E e \in execution : e.sql = sql /\ e.result # "error"

(* The corpus and the cache hold only texts that returned between 1 row and  *)
(* the row cap; the corpus, only texts that needed no correction             *)
(* (explain_result: the two guards on result_quality and                     *)
(* correction_attempts), whatever the run inherited from the one before.     *)
StoresHoldGoodAnswers ==
  /\ \A c \in cache : c.result = "rows"
  /\ \A l \in corpus : l.result = "rows" /\ l.sql.attempt = 0

(* The history row of a run that learned an example names that example, even *)
(* when the thread still carries the id of an earlier run's (explain_result  *)
(* stamps fewshot_example_id over the inherited one): a reject of the row    *)
(* can find it.                                                              *)
HistoryLinksLearnedExample ==
  \A h \in history, l \in corpus : l.sql.run = h.run => h.example = {l}

(* The reason self_correct gives the model for a text that parsed is a       *)
(* failure of that text: verify_grounding clears the older execution failure *)
(* that would otherwise take precedence.                                     *)
DiagnosisOfParsedSql ==
  \A i \in DOMAIN corrections :
    corrections[i].failed.kind \in {"not_select", "ungrounded", "grounded"} =>
      corrections[i].about = corrections[i].failed

(* Every run comes to an end: the correction loop is the only cycle of the   *)
(* graph, and the budget bounds it.                                          *)
RunsTerminate == pc # "idle" ~> pc = "idle"

=============================================================================
