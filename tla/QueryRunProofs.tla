---------------------------- MODULE QueryRunProofs ----------------------------
(***************************************************************************)
(* Proofs about QueryRun, for every budget and every number of runs.  The  *)
(* safety properties are not inductive one by one: that the rows shown are *)
(* of the SQL shown needs what a run has and has not done at each node.    *)
(* RunInv says it, node by node; it is proved inductive, and the           *)
(* properties follow from it.                                              *)
(***************************************************************************)
EXTENDS QueryRunRefinement, TLAPS

\* The nodes before the first text is submitted, and those of the loop that
\* checks, runs and corrects a text, before a run of it has succeeded.
Early == {"scope_classifier", "scope_response", "parse_intent", "check_cache",
          "retrieve_schema", "retrieve_fewshot", "generate_sql"}
Loop == {"validate_syntax", "verify_grounding", "guardrail_preview",
         "execute_query", "self_correct"}

Succeeded == \E e \in execution : e.result # "error"

\* A run in progress has a number, and may correct only within its budget.
InProgress ==
  /\ pc # "idle" => run > 0
  /\ pc = "self_correct" => attempts < MaxAttempts

NothingRunYet ==
  pc \in Early => execution = {} /\ quality = "none" /\ hit = {}

OnlyFailuresYet ==
  /\ pc \in Loop => ~Succeeded
  /\ pc \in Loop \cup {"check_result"} => quality # "GOOD" /\ hit = {}

\* A cache hit replaces the execution: it leaves nothing to learn from.
HitsRunNothing == hit # {} => execution = {} /\ quality = "none"

CurrentTextParsed ==
  pc \in {"verify_grounding", "guardrail_preview", "execute_query"} =>
    validation = {[sql |-> sql, valid |-> TRUE]}

CurrentTextGrounded ==
  pc \in {"guardrail_preview", "execute_query"} \/ Succeeded =>
    \E g \in grounding : g.sql = sql /\ g.grounded

GoodMeansRows == quality = "GOOD" => \A e \in execution : e.result = "rows"

TextIsOfAttempt == hit = {} => sql.attempt <= attempts

ChartsFollowRows == pc = "classify_chart" /\ hit = {} => Succeeded

VerdictIsOfItsRun ==
  \A c \in confidence :
    c.run <= run /\ (pc \notin {"idle", "record_history"} => c.run < run)

\* The inductive invariant.
RunInv ==
  /\ TypeOK /\ InProgress /\ NothingRunYet /\ OnlyFailuresYet /\ HitsRunNothing
  /\ CurrentTextParsed /\ CurrentTextGrounded /\ AnswerIsOfShownSql
  /\ GoodMeansRows /\ TextIsOfAttempt /\ ChartsFollowRows
  /\ BudgetSpentBeforeGivingUp /\ StoresHoldGoodAnswers
  /\ VerdictIsOfItsRun /\ FreshHighIsClean

-----------------------------------------------------------------------------
(* Lemmas about the operators of the model. *)

(* What self_correct records as failure reason and subject is a reason    *)
(* and a text.                                                            *)
LEMMA FailureAboutIsSql ==
  ASSUME TypeOK
  PROVE  FailureAbout \in Sql /\ FailureReason \in {"execution", "quality", "validation", "unknown"}
<1>1. FailureReason \in {"execution", "quality", "validation", "unknown"}
  BY DEF FailureReason
<1>2. CASE FailureReason \in {"execution", "quality"} /\ execution # {}
  <2>1. (CHOOSE e \in execution : TRUE) \in Execution
    BY <1>2 DEF TypeOK, Optional
  <2> QED
    BY <1>2, <2>1 DEF FailureAbout, Execution
<1>3. CASE ~(FailureReason \in {"execution", "quality"} /\ execution # {})
  <2>1. CASE FailureReason = "validation"
    <3>1. \E v \in validation : TRUE
      BY <2>1 DEF FailureReason
    <3>2. (CHOOSE v \in validation : TRUE) \in Validation
      BY <3>1 DEF TypeOK, Optional
    <3> QED
      BY <1>3, <2>1, <3>2 DEF FailureAbout, Validation
  <2>2. CASE FailureReason # "validation"
    BY <1>1, <1>3, <2>2 DEF FailureAbout, TypeOK
  <2> QED
    BY <2>1, <2>2
<1> QED
  BY <1>1, <1>2, <1>3

(* The numeric facts of TypeOK, in the form arithmetic leaves need.       *)
LEMMA NumbersTyped ==
  ASSUME TypeOK
  PROVE  /\ MaxAttempts \in Nat /\ attempts \in Nat /\ attempts <= MaxAttempts
         /\ run \in Nat /\ sql.attempt \in Nat
         /\ \A c \in confidence : c.run \in Nat
<1>1. sql.attempt \in 0..MaxAttempts /\ run \in 0..MaxRuns
  BY DEF TypeOK, Sql
<1>2. \A c \in confidence : c.run \in 0..MaxRuns
  BY DEF TypeOK, Optional, Confidence
<1> QED
  BY <1>1, <1>2, MaxAttemptsAssumption, MaxRunsAssumption DEF TypeOK

(* execution_result holds one record at most.                             *)
LEMMA OneExecution ==
  ASSUME TypeOK, NEW e \in execution
  PROVE  execution = {e} /\ e.result \in ExecOutcome
BY DEF TypeOK, Optional, Execution

(* grounding_result holds one record at most.                             *)
LEMMA OneGrounding ==
  ASSUME TypeOK, NEW g \in grounding
  PROVE  grounding = {g}
BY DEF TypeOK, Optional

-----------------------------------------------------------------------------
(* Type correctness. *)

(* Every node keeps the types, the correction counter within its budget.  *)
LEMMA TypeStep ==
  ASSUME TypeOK, InProgress, [Next]_vars
  PROVE  TypeOK' /\ InProgress'
<1> USE MaxAttemptsAssumption, MaxRunsAssumption DEF TypeOK, InProgress,
      Goto, Node, channels, stores, Optional
<1>1. CASE Start
  <2>1. NoSql \in Sql
    BY DEF NoSql, Sql, SqlKind
  <2>2. <<>> \in Seq(Correction)
    OBVIOUS
  <2>3. pc' \in Node /\ run' \in 0..MaxRuns /\ run' > 0 /\ pc' # "self_correct"
    BY <1>1 DEF Start
  <2>4. outcome' \in Outcome /\ quality' \in Quality /\ attempts' \in 0..MaxAttempts
    BY <1>1 DEF Start, Outcome, Quality
  <2>5. /\ Optional(validation', Validation) /\ Optional(execution', Execution)
        /\ Optional(hit', CacheEntry)
    BY <1>1 DEF Start
  <2> QED
    BY <1>1, <2>1, <2>2, <2>3, <2>4, <2>5 DEF Start
<1>2. CASE ScopeClassifier
  BY <1>2 DEF ScopeClassifier, Outcome, outcome_for, Category
<1>3. CASE ScopeResponse
  BY <1>3 DEF ScopeResponse
<1>4. CASE PassThrough
  BY <1>4 DEF PassThrough, FixedEdge
<1>5. CASE CheckCacheMiss
  BY <1>5 DEF CheckCacheMiss
<1>6. CASE CheckCacheHit
  BY <1>6 DEF CheckCacheHit, CacheEntry
<1>7. CASE GenerateSql
  BY <1>7 DEF GenerateSql, Sql, SqlKind
<1>8. CASE ValidateSyntax
  BY <1>8 DEF ValidateSyntax, AfterFailure, Validation
<1>9. CASE VerifyGrounding
  <2>1. /\ \E b \in BOOLEAN : grounding' = {[sql |-> sql, grounded |-> b, checked |-> TRUE]}
        /\ validation' \in {validation, {[sql |-> sql, valid |-> FALSE]}}
        /\ execution' \in {execution, {}} /\ quality' \in {quality, "none"}
    BY <1>9 DEF VerifyGrounding, KeptIf
  <2>2. Optional(grounding', Grounding) /\ Optional(validation', Validation)
    <3>1. \A b \in BOOLEAN : [sql |-> sql, grounded |-> b, checked |-> TRUE] \in Grounding
      BY DEF Grounding
    <3>2. [sql |-> sql, valid |-> FALSE] \in Validation
      BY DEF Validation
    <3> QED
      BY <2>1, <3>1, <3>2
  <2>3. /\ pc' \in {"guardrail_preview", "explain_result", "self_correct"}
        /\ pc' = "self_correct" => attempts < MaxAttempts
        /\ pc = "verify_grounding"
    BY <1>9 DEF VerifyGrounding, AfterFailure
  <2>4. /\ Optional(execution', Execution) /\ quality' \in Quality
    BY <2>1 DEF Quality
  <2> QED
    BY <1>9, <2>2, <2>3, <2>4 DEF VerifyGrounding
<1>10. CASE VerifyGroundingFailsOpen
  BY <1>10 DEF VerifyGroundingFailsOpen, Grounding
<1>11. CASE GuardrailPreview
  BY <1>11 DEF GuardrailPreview
<1>12. CASE ExecuteQuery
  BY <1>12 DEF ExecuteQuery, Execution, Validation
<1>13. CASE CheckResult
  BY <1>13 DEF CheckResult, Quality, QualityOf, IsAcceptable, AfterFailure
<1>14. CASE SelfCorrect
  BY <1>14, FailureAboutIsSql DEF SelfCorrect, Sql, Correction
<1>15. CASE ExplainCached
  BY <1>15 DEF ExplainCached, Confidence, Level, assess_confidence
<1>16. CASE ExplainFresh
  BY <1>16 DEF ExplainFresh
<1>17. CASE StoreFewshot
  BY <1>17 DEF StoreFewshot, Learned, Execution
<1>18. CASE StoreCache
  <2>1. ASSUME NEW e \in execution, NEW b \in BOOLEAN
        PROVE  [sql |-> sql, result |-> e.result, attempts |-> attempts,
                clean |-> GroundedCleanly, explained |-> b] \in CacheEntry
    <3>1. e.result \in ExecOutcome /\ GroundedCleanly \in BOOLEAN
      BY DEF Execution, GroundedCleanly
    <3> QED
      BY <3>1 DEF CacheEntry
  <2>2. cache' \subseteq CacheEntry
    BY <1>18, <2>1 DEF StoreCache
  <2> QED
    BY <1>18, <2>2 DEF StoreCache
<1>19. CASE Explained
  BY <1>19 DEF Explained, Confidence, Level, assess_confidence, StampedId
<1>20. CASE RecordHistory
  BY <1>20 DEF RecordHistory, HistoryRow
<1>21. CASE Abort
  BY <1>21 DEF Abort
<1>22. CASE UNCHANGED vars
  BY <1>22 DEF vars
<1> QED
  BY <1>1, <1>2, <1>3, <1>4, <1>5, <1>6, <1>7, <1>8, <1>9, <1>10, <1>11,
     <1>12, <1>13, <1>14, <1>15, <1>16, <1>17, <1>18, <1>19, <1>20, <1>21,
     <1>22 DEF Next, GraphStep, Quiesce

(* The initial thread is typed.                                           *)
LEMMA InitTyped ==
  ASSUME Init
  PROVE  TypeOK /\ InProgress
<1> USE MaxAttemptsAssumption, MaxRunsAssumption
<1>1. NoSql \in Sql
  BY DEF NoSql, Sql, SqlKind
<1>2. <<>> \in Seq(Correction)
  OBVIOUS
<1>3. pc \in Node /\ outcome \in Outcome /\ quality \in Quality /\ InProgress
  BY DEF Init, Node, Outcome, Quality, InProgress
<1>4. /\ Optional(validation, Validation) /\ Optional(grounding, Grounding)
      /\ Optional(preview, Sql) /\ Optional(execution, Execution)
      /\ Optional(hit, CacheEntry) /\ Optional(confidence, Confidence)
      /\ Optional(fewshotId, Learned) /\ Optional(minted, Learned)
  BY DEF Init, Optional
<1>5. run \in 0..MaxRuns /\ attempts \in 0..MaxAttempts
  BY DEF Init
<1>6. /\ corrections \in Seq(Correction) /\ sql \in Sql
      /\ cache \subseteq CacheEntry /\ corpus \subseteq Learned
      /\ history \subseteq HistoryRow
  BY <1>1, <1>2 DEF Init
<1> QED
  BY <1>3, <1>4, <1>5, <1>6 DEF Init, TypeOK

(* Type correctness, for every budget and every number of runs on a       *)
(* thread: in particular correction_attempts never exceeds                *)
(* max_correction_attempts.                                               *)
THEOREM TypeCorrect == Spec => []TypeOK
<1>1. Init => TypeOK /\ InProgress
  BY InitTyped
<1>2. TypeOK /\ InProgress /\ [Next]_vars => TypeOK' /\ InProgress'
  BY TypeStep
<1> QED
  BY <1>1, <1>2, PTL DEF Spec

-----------------------------------------------------------------------------
(* The invariant of a run. *)

(* What has and has not happened at each node of graph.py is kept.        *)
LEMMA NodeStep ==
  ASSUME RunInv, [Next]_vars
  PROVE  /\ NothingRunYet' /\ OnlyFailuresYet' /\ HitsRunNothing'
         /\ CurrentTextParsed'
<1> USE DEF RunInv, Goto, channels, stores, Early, Loop, Succeeded,
      NothingRunYet, OnlyFailuresYet, HitsRunNothing, CurrentTextParsed
<1>1. CASE Start
  BY <1>1 DEF Start
<1>2. CASE ScopeClassifier
  BY <1>2 DEF ScopeClassifier, outcome_for
<1>3. CASE ScopeResponse
  BY <1>3 DEF ScopeResponse
<1>4. CASE PassThrough
  BY <1>4 DEF PassThrough, FixedEdge
<1>5. CASE CheckCacheMiss
  BY <1>5 DEF CheckCacheMiss
<1>6. CASE CheckCacheHit
  BY <1>6 DEF CheckCacheHit
<1>7. CASE GenerateSql
  BY <1>7 DEF GenerateSql
<1>8. CASE ValidateSyntax
  BY <1>8 DEF ValidateSyntax, AfterFailure
<1>9. CASE VerifyGrounding
  BY <1>9 DEF VerifyGrounding, AfterFailure, KeptIf
<1>10. CASE VerifyGroundingFailsOpen
  BY <1>10 DEF VerifyGroundingFailsOpen
<1>11. CASE GuardrailPreview
  BY <1>11 DEF GuardrailPreview
<1>12. CASE ExecuteQuery
  BY <1>12 DEF ExecuteQuery
<1>13. CASE CheckResult
  <2>1. PICK e \in execution : quality' = QualityOf(e.result)
    BY <1>13 DEF CheckResult
  <2>2. execution = {e} /\ e.result \in ExecOutcome
    BY OneExecution
  <2> QED
    BY <1>13, <2>1, <2>2 DEF CheckResult, AfterFailure, QualityOf, IsAcceptable, ExecOutcome
<1>14. CASE SelfCorrect
  BY <1>14 DEF SelfCorrect
<1>15. CASE ExplainCached
  BY <1>15 DEF ExplainCached
<1>16. CASE ExplainFresh
  BY <1>16 DEF ExplainFresh
<1>17. CASE StoreFewshot
  BY <1>17 DEF StoreFewshot, Learnable
<1>18. CASE StoreCache
  BY <1>18 DEF StoreCache, Cacheable
<1>19. CASE Explained
  BY <1>19 DEF Explained
<1>20. CASE RecordHistory
  BY <1>20 DEF RecordHistory
<1>21. CASE Abort
  BY <1>21 DEF Abort
<1>22. CASE UNCHANGED vars
  BY <1>22 DEF vars
<1> QED
  BY <1>1, <1>2, <1>3, <1>4, <1>5, <1>6, <1>7, <1>8, <1>9, <1>10, <1>11,
     <1>12, <1>13, <1>14, <1>15, <1>16, <1>17, <1>18, <1>19, <1>20, <1>21,
     <1>22 DEF Next, GraphStep, Quiesce

(* A success is of the text shown, and that text was grounded: only       *)
(* self_correct and the entry of a run change generated_sql, and no       *)
(* success is held there.                                                 *)
LEMMA TextStep ==
  ASSUME RunInv, [Next]_vars
  PROVE  CurrentTextGrounded' /\ AnswerIsOfShownSql'
<1> USE DEF RunInv, Goto, channels, stores, Early, Loop, Succeeded,
      NothingRunYet, OnlyFailuresYet, CurrentTextParsed,
      CurrentTextGrounded, AnswerIsOfShownSql
<1>1. CASE Start
  BY <1>1 DEF Start
<1>2. CASE ScopeClassifier
  BY <1>2 DEF ScopeClassifier, outcome_for
<1>3. CASE ScopeResponse
  BY <1>3 DEF ScopeResponse
<1>4. CASE PassThrough
  BY <1>4 DEF PassThrough, FixedEdge
<1>5. CASE CheckCacheMiss
  BY <1>5 DEF CheckCacheMiss
<1>6. CASE CheckCacheHit
  BY <1>6 DEF CheckCacheHit
<1>7. CASE GenerateSql
  BY <1>7 DEF GenerateSql
<1>8. CASE ValidateSyntax
  BY <1>8 DEF ValidateSyntax, AfterFailure
<1>9. CASE VerifyGrounding
  BY <1>9 DEF VerifyGrounding, AfterFailure, KeptIf
<1>10. CASE VerifyGroundingFailsOpen
  BY <1>10 DEF VerifyGroundingFailsOpen
<1>11. CASE GuardrailPreview
  BY <1>11 DEF GuardrailPreview
<1>12. CASE ExecuteQuery
  BY <1>12 DEF ExecuteQuery
<1>13. CASE CheckResult
  BY <1>13 DEF CheckResult, AfterFailure, QualityOf, IsAcceptable
<1>14. CASE SelfCorrect
  BY <1>14 DEF SelfCorrect
<1>15. CASE ExplainCached
  BY <1>15 DEF ExplainCached
<1>16. CASE ExplainFresh
  BY <1>16 DEF ExplainFresh
<1>17. CASE StoreFewshot
  BY <1>17 DEF StoreFewshot, Learnable
<1>18. CASE StoreCache
  BY <1>18 DEF StoreCache, Cacheable
<1>19. CASE Explained
  BY <1>19 DEF Explained
<1>20. CASE RecordHistory
  BY <1>20 DEF RecordHistory
<1>21. CASE Abort
  BY <1>21 DEF Abort
<1>22. CASE UNCHANGED vars
  BY <1>22 DEF vars
<1> QED
  BY <1>1, <1>2, <1>3, <1>4, <1>5, <1>6, <1>7, <1>8, <1>9, <1>10, <1>11,
     <1>12, <1>13, <1>14, <1>15, <1>16, <1>17, <1>18, <1>19, <1>20, <1>21,
     <1>22 DEF Next, GraphStep, Quiesce

(* check_result's verdict is about the execution held.                    *)
LEMMA QualityStep ==
  ASSUME RunInv, [Next]_vars
  PROVE  GoodMeansRows' /\ ChartsFollowRows'
<1> USE DEF RunInv, Goto, channels, stores, Early, Loop, Succeeded,
      NothingRunYet, OnlyFailuresYet, GoodMeansRows, ChartsFollowRows
<1>1. CASE Start
  BY <1>1 DEF Start
<1>2. CASE ScopeClassifier
  BY <1>2 DEF ScopeClassifier, outcome_for
<1>3. CASE ScopeResponse
  BY <1>3 DEF ScopeResponse
<1>4. CASE PassThrough
  BY <1>4 DEF PassThrough, FixedEdge
<1>5. CASE CheckCacheMiss
  BY <1>5 DEF CheckCacheMiss
<1>6. CASE CheckCacheHit
  BY <1>6 DEF CheckCacheHit
<1>7. CASE GenerateSql
  BY <1>7 DEF GenerateSql
<1>8. CASE ValidateSyntax
  BY <1>8 DEF ValidateSyntax, AfterFailure
<1>9. CASE VerifyGrounding
  BY <1>9 DEF VerifyGrounding, AfterFailure, KeptIf
<1>10. CASE VerifyGroundingFailsOpen
  BY <1>10 DEF VerifyGroundingFailsOpen
<1>11. CASE GuardrailPreview
  BY <1>11 DEF GuardrailPreview
<1>12. CASE ExecuteQuery
  BY <1>12 DEF ExecuteQuery
<1>13. CASE CheckResult
  <2>1. PICK e \in execution : quality' = QualityOf(e.result)
    BY <1>13 DEF CheckResult
  <2>2. execution = {e} /\ e.result \in ExecOutcome
    BY OneExecution
  <2> QED
    BY <1>13, <2>1, <2>2 DEF CheckResult, AfterFailure, QualityOf, IsAcceptable, ExecOutcome
<1>14. CASE SelfCorrect
  BY <1>14 DEF SelfCorrect
<1>15. CASE ExplainCached
  BY <1>15 DEF ExplainCached
<1>16. CASE ExplainFresh
  BY <1>16 DEF ExplainFresh
<1>17. CASE StoreFewshot
  BY <1>17 DEF StoreFewshot, Learnable
<1>18. CASE StoreCache
  BY <1>18 DEF StoreCache, Cacheable
<1>19. CASE Explained
  BY <1>19 DEF Explained
<1>20. CASE RecordHistory
  BY <1>20 DEF RecordHistory
<1>21. CASE Abort
  BY <1>21 DEF Abort
<1>22. CASE UNCHANGED vars
  BY <1>22 DEF vars
<1> QED
  BY <1>1, <1>2, <1>3, <1>4, <1>5, <1>6, <1>7, <1>8, <1>9, <1>10, <1>11,
     <1>12, <1>13, <1>14, <1>15, <1>16, <1>17, <1>18, <1>19, <1>20, <1>21,
     <1>22 DEF Next, GraphStep, Quiesce

(* The edges into explain_result: a success, a hit, or a spent budget.    *)
LEMMA BudgetStep ==
  ASSUME RunInv, [Next]_vars
  PROVE  BudgetSpentBeforeGivingUp'
<1> USE DEF RunInv, Goto, channels, stores, Early, Loop, Succeeded,
      NothingRunYet, OnlyFailuresYet, ChartsFollowRows,
      BudgetSpentBeforeGivingUp, Explaining
<1>1. CASE Start
  BY <1>1 DEF Start
<1>2. CASE ScopeClassifier
  BY <1>2 DEF ScopeClassifier, outcome_for
<1>3. CASE ScopeResponse
  BY <1>3 DEF ScopeResponse
<1>4. CASE PassThrough
  BY <1>4 DEF PassThrough, FixedEdge
<1>5. CASE CheckCacheMiss
  BY <1>5 DEF CheckCacheMiss
<1>6. CASE CheckCacheHit
  BY <1>6 DEF CheckCacheHit
<1>7. CASE GenerateSql
  BY <1>7 DEF GenerateSql
<1>8. CASE ValidateSyntax
  BY <1>8, NumbersTyped DEF ValidateSyntax, AfterFailure
<1>9. CASE VerifyGrounding
  BY <1>9, NumbersTyped DEF VerifyGrounding, AfterFailure, KeptIf
<1>10. CASE VerifyGroundingFailsOpen
  BY <1>10 DEF VerifyGroundingFailsOpen
<1>11. CASE GuardrailPreview
  BY <1>11 DEF GuardrailPreview
<1>12. CASE ExecuteQuery
  BY <1>12 DEF ExecuteQuery
<1>13. CASE CheckResult
  <2>1. PICK e \in execution : quality' = QualityOf(e.result)
    BY <1>13 DEF CheckResult
  <2>2. execution = {e} /\ e.result \in ExecOutcome
    BY OneExecution
  <2> QED
    BY <1>13, <2>1, <2>2, NumbersTyped DEF CheckResult, AfterFailure, QualityOf, IsAcceptable, ExecOutcome
<1>14. CASE SelfCorrect
  BY <1>14 DEF SelfCorrect
<1>15. CASE ExplainCached
  BY <1>15 DEF ExplainCached
<1>16. CASE ExplainFresh
  BY <1>16 DEF ExplainFresh
<1>17. CASE StoreFewshot
  BY <1>17 DEF StoreFewshot, Learnable
<1>18. CASE StoreCache
  BY <1>18 DEF StoreCache, Cacheable
<1>19. CASE Explained
  BY <1>19 DEF Explained
<1>20. CASE RecordHistory
  BY <1>20 DEF RecordHistory
<1>21. CASE Abort
  BY <1>21 DEF Abort
<1>22. CASE UNCHANGED vars
  BY <1>22 DEF vars
<1> QED
  BY <1>1, <1>2, <1>3, <1>4, <1>5, <1>6, <1>7, <1>8, <1>9, <1>10, <1>11,
     <1>12, <1>13, <1>14, <1>15, <1>16, <1>17, <1>18, <1>19, <1>20, <1>21,
     <1>22 DEF Next, GraphStep, Quiesce

(* A text is never of a later attempt than the counter says.              *)
LEMMA AttemptStep ==
  ASSUME RunInv, [Next]_vars
  PROVE  TextIsOfAttempt'
<1> USE DEF RunInv, Goto, channels, stores, Early, Loop, Succeeded,
      OnlyFailuresYet, TextIsOfAttempt, NoSql
<1>1. CASE Start
  BY <1>1 DEF Start
<1>2. CASE ScopeClassifier
  BY <1>2 DEF ScopeClassifier, outcome_for
<1>3. CASE ScopeResponse
  BY <1>3 DEF ScopeResponse
<1>4. CASE PassThrough
  BY <1>4 DEF PassThrough, FixedEdge
<1>5. CASE CheckCacheMiss
  BY <1>5 DEF CheckCacheMiss
<1>6. CASE CheckCacheHit
  BY <1>6 DEF CheckCacheHit
<1>7. CASE GenerateSql
  BY <1>7, NumbersTyped DEF GenerateSql
<1>8. CASE ValidateSyntax
  BY <1>8 DEF ValidateSyntax, AfterFailure
<1>9. CASE VerifyGrounding
  BY <1>9 DEF VerifyGrounding, AfterFailure, KeptIf
<1>10. CASE VerifyGroundingFailsOpen
  BY <1>10 DEF VerifyGroundingFailsOpen
<1>11. CASE GuardrailPreview
  BY <1>11 DEF GuardrailPreview
<1>12. CASE ExecuteQuery
  BY <1>12 DEF ExecuteQuery
<1>13. CASE CheckResult
  BY <1>13 DEF CheckResult, AfterFailure, QualityOf, IsAcceptable
<1>14. CASE SelfCorrect
  BY <1>14, NumbersTyped DEF SelfCorrect
<1>15. CASE ExplainCached
  BY <1>15 DEF ExplainCached
<1>16. CASE ExplainFresh
  BY <1>16 DEF ExplainFresh
<1>17. CASE StoreFewshot
  BY <1>17 DEF StoreFewshot, Learnable
<1>18. CASE StoreCache
  BY <1>18 DEF StoreCache, Cacheable
<1>19. CASE Explained
  BY <1>19 DEF Explained
<1>20. CASE RecordHistory
  BY <1>20 DEF RecordHistory
<1>21. CASE Abort
  BY <1>21 DEF Abort
<1>22. CASE UNCHANGED vars
  BY <1>22 DEF vars
<1> QED
  BY <1>1, <1>2, <1>3, <1>4, <1>5, <1>6, <1>7, <1>8, <1>9, <1>10, <1>11,
     <1>12, <1>13, <1>14, <1>15, <1>16, <1>17, <1>18, <1>19, <1>20, <1>21,
     <1>22 DEF Next, GraphStep, Quiesce

(* Both writes of explain_result are guarded by a quality of this run.    *)
LEMMA StoreStep ==
  ASSUME RunInv, [Next]_vars
  PROVE  StoresHoldGoodAnswers'
<1> USE DEF RunInv, Goto, channels, stores, Early, Loop, Succeeded,
      HitsRunNothing, GoodMeansRows, TextIsOfAttempt, StoresHoldGoodAnswers
<1>1. CASE Start
  BY <1>1 DEF Start
<1>2. CASE ScopeClassifier
  BY <1>2 DEF ScopeClassifier, outcome_for
<1>3. CASE ScopeResponse
  BY <1>3 DEF ScopeResponse
<1>4. CASE PassThrough
  BY <1>4 DEF PassThrough, FixedEdge
<1>5. CASE CheckCacheMiss
  BY <1>5 DEF CheckCacheMiss
<1>6. CASE CheckCacheHit
  BY <1>6 DEF CheckCacheHit
<1>7. CASE GenerateSql
  BY <1>7 DEF GenerateSql
<1>8. CASE ValidateSyntax
  BY <1>8 DEF ValidateSyntax, AfterFailure
<1>9. CASE VerifyGrounding
  BY <1>9 DEF VerifyGrounding, AfterFailure, KeptIf
<1>10. CASE VerifyGroundingFailsOpen
  BY <1>10 DEF VerifyGroundingFailsOpen
<1>11. CASE GuardrailPreview
  BY <1>11 DEF GuardrailPreview
<1>12. CASE ExecuteQuery
  BY <1>12 DEF ExecuteQuery
<1>13. CASE CheckResult
  BY <1>13 DEF CheckResult, AfterFailure, QualityOf, IsAcceptable
<1>14. CASE SelfCorrect
  BY <1>14 DEF SelfCorrect
<1>15. CASE ExplainCached
  BY <1>15 DEF ExplainCached
<1>16. CASE ExplainFresh
  BY <1>16 DEF ExplainFresh
<1>17. CASE StoreFewshot
  BY <1>17, NumbersTyped DEF StoreFewshot, Learnable
<1>18. CASE StoreCache
  BY <1>18 DEF StoreCache, Cacheable
<1>19. CASE Explained
  BY <1>19 DEF Explained
<1>20. CASE RecordHistory
  BY <1>20 DEF RecordHistory
<1>21. CASE Abort
  BY <1>21 DEF Abort
<1>22. CASE UNCHANGED vars
  BY <1>22 DEF vars
<1> QED
  BY <1>1, <1>2, <1>3, <1>4, <1>5, <1>6, <1>7, <1>8, <1>9, <1>10, <1>11,
     <1>12, <1>13, <1>14, <1>15, <1>16, <1>17, <1>18, <1>19, <1>20, <1>21,
     <1>22 DEF Next, GraphStep, Quiesce

(* confidence is of an earlier run until this run has explained itself.   *)
LEMMA VerdictStep ==
  ASSUME RunInv, [Next]_vars
  PROVE  VerdictIsOfItsRun'
<1> USE DEF RunInv, Goto, channels, stores, Early, Loop, Succeeded, VerdictIsOfItsRun
<1>1. CASE Start
  BY <1>1, NumbersTyped DEF Start
<1>2. CASE ScopeClassifier
  BY <1>2 DEF ScopeClassifier, outcome_for
<1>3. CASE ScopeResponse
  BY <1>3 DEF ScopeResponse
<1>4. CASE PassThrough
  BY <1>4 DEF PassThrough, FixedEdge
<1>5. CASE CheckCacheMiss
  BY <1>5 DEF CheckCacheMiss
<1>6. CASE CheckCacheHit
  BY <1>6 DEF CheckCacheHit
<1>7. CASE GenerateSql
  BY <1>7 DEF GenerateSql
<1>8. CASE ValidateSyntax
  BY <1>8 DEF ValidateSyntax, AfterFailure
<1>9. CASE VerifyGrounding
  BY <1>9 DEF VerifyGrounding, AfterFailure, KeptIf
<1>10. CASE VerifyGroundingFailsOpen
  BY <1>10 DEF VerifyGroundingFailsOpen
<1>11. CASE GuardrailPreview
  BY <1>11 DEF GuardrailPreview
<1>12. CASE ExecuteQuery
  BY <1>12 DEF ExecuteQuery
<1>13. CASE CheckResult
  BY <1>13 DEF CheckResult, AfterFailure, QualityOf, IsAcceptable
<1>14. CASE SelfCorrect
  BY <1>14 DEF SelfCorrect
<1>15. CASE ExplainCached
  BY <1>15, NumbersTyped DEF ExplainCached
<1>16. CASE ExplainFresh
  BY <1>16 DEF ExplainFresh
<1>17. CASE StoreFewshot
  BY <1>17 DEF StoreFewshot, Learnable
<1>18. CASE StoreCache
  BY <1>18 DEF StoreCache, Cacheable
<1>19. CASE Explained
  BY <1>19, NumbersTyped DEF Explained
<1>20. CASE RecordHistory
  BY <1>20 DEF RecordHistory
<1>21. CASE Abort
  BY <1>21 DEF Abort
<1>22. CASE UNCHANGED vars
  BY <1>22 DEF vars
<1> QED
  BY <1>1, <1>2, <1>3, <1>4, <1>5, <1>6, <1>7, <1>8, <1>9, <1>10, <1>11,
     <1>12, <1>13, <1>14, <1>15, <1>16, <1>17, <1>18, <1>19, <1>20, <1>21,
     <1>22 DEF Next, GraphStep, Quiesce

(* HIGH is computed from signals that are all of this run's text.         *)
LEMMA HighStep ==
  ASSUME RunInv, [Next]_vars
  PROVE  FreshHighIsClean'
<1> USE DEF RunInv, Goto, channels, stores, Early, Loop, Succeeded,
      VerdictIsOfItsRun, FreshHighIsClean, assess_confidence
<1>1. CASE Start
  BY <1>1 DEF Start
<1>2. CASE ScopeClassifier
  BY <1>2 DEF ScopeClassifier, outcome_for
<1>3. CASE ScopeResponse
  BY <1>3, NumbersTyped DEF ScopeResponse
<1>4. CASE PassThrough
  BY <1>4, NumbersTyped DEF PassThrough, FixedEdge
<1>5. CASE CheckCacheMiss
  BY <1>5 DEF CheckCacheMiss
<1>6. CASE CheckCacheHit
  BY <1>6 DEF CheckCacheHit
<1>7. CASE GenerateSql
  BY <1>7 DEF GenerateSql
<1>8. CASE ValidateSyntax
  BY <1>8, NumbersTyped DEF ValidateSyntax, AfterFailure
<1>9. CASE VerifyGrounding
  BY <1>9 DEF VerifyGrounding, AfterFailure, KeptIf
<1>10. CASE VerifyGroundingFailsOpen
  BY <1>10 DEF VerifyGroundingFailsOpen
<1>11. CASE GuardrailPreview
  BY <1>11 DEF GuardrailPreview
<1>12. CASE ExecuteQuery
  BY <1>12 DEF ExecuteQuery
<1>13. CASE CheckResult
  BY <1>13 DEF CheckResult, AfterFailure, QualityOf, IsAcceptable
<1>14. CASE SelfCorrect
  BY <1>14 DEF SelfCorrect
<1>15. CASE ExplainCached
  BY <1>15 DEF ExplainCached
<1>16. CASE ExplainFresh
  BY <1>16 DEF ExplainFresh
<1>17. CASE StoreFewshot
  BY <1>17 DEF StoreFewshot, Learnable
<1>18. CASE StoreCache
  BY <1>18 DEF StoreCache, Cacheable
<1>19. CASE Explained
  <2> SUFFICES ASSUME MaxAttempts > 0, hit = {}, NEW c \in confidence', c.level = "HIGH"
               PROVE  /\ ~clarified /\ attempts = 0
                      /\ \E g \in grounding : g.sql = sql /\ g.grounded /\ g.checked
                      /\ \E e \in execution : e.sql = sql /\ e.result # "error"
    BY <1>19 DEF Explained
  <2>1. ~clarified /\ ~(attempts > 0) /\ GroundedCleanly
    BY <1>19 DEF Explained
  <2>2. attempts = 0
    BY <2>1, NumbersTyped
  <2>3. PICK e \in execution : e.result # "error"
    BY <1>19, <2>2 DEF Explained, BudgetSpentBeforeGivingUp, Explaining
  <2>4. PICK g \in grounding : g.sql = sql
    BY <2>3 DEF CurrentTextGrounded
  <2>5. g.grounded /\ g.checked
    BY <2>1, <2>4, OneGrounding DEF GroundedCleanly
  <2> QED
    BY <2>1, <2>2, <2>3, <2>4, <2>5 DEF AnswerIsOfShownSql
<1>20. CASE RecordHistory
  BY <1>20 DEF RecordHistory
<1>21. CASE Abort
  BY <1>21 DEF Abort
<1>22. CASE UNCHANGED vars
  BY <1>22 DEF vars
<1> QED
  BY <1>1, <1>2, <1>3, <1>4, <1>5, <1>6, <1>7, <1>8, <1>9, <1>10, <1>11,
     <1>12, <1>13, <1>14, <1>15, <1>16, <1>17, <1>18, <1>19, <1>20, <1>21,
     <1>22 DEF Next, GraphStep, Quiesce

(* The inductive invariant holds of every reachable state.                *)
THEOREM RunInvariant == Spec => []RunInv
<1>1. Init => RunInv
  <2> SUFFICES ASSUME Init PROVE RunInv
    OBVIOUS
  <2>1. TypeOK /\ InProgress
    BY InitTyped
  <2>2. /\ NothingRunYet /\ OnlyFailuresYet /\ HitsRunNothing
        /\ CurrentTextParsed /\ CurrentTextGrounded /\ AnswerIsOfShownSql
        /\ GoodMeansRows /\ ChartsFollowRows /\ VerdictIsOfItsRun
        /\ FreshHighIsClean /\ StoresHoldGoodAnswers
    BY DEF Init, NothingRunYet, OnlyFailuresYet, HitsRunNothing, CurrentTextParsed,
           CurrentTextGrounded, AnswerIsOfShownSql, GoodMeansRows, ChartsFollowRows,
           VerdictIsOfItsRun, FreshHighIsClean, StoresHoldGoodAnswers, Early, Loop,
           Succeeded
  <2>3. TextIsOfAttempt
    BY DEF Init, TextIsOfAttempt, NoSql
  <2>4. BudgetSpentBeforeGivingUp
    BY DEF Init, BudgetSpentBeforeGivingUp, Explaining
  <2> QED
    BY <2>1, <2>2, <2>3, <2>4 DEF RunInv
<1>2. RunInv /\ [Next]_vars => RunInv'
  <2> SUFFICES ASSUME RunInv, [Next]_vars PROVE RunInv'
    OBVIOUS
  <2>1. TypeOK' /\ InProgress'
    BY TypeStep DEF RunInv
  <2> QED
    BY <2>1, NodeStep, TextStep, QualityStep, BudgetStep, AttemptStep, StoreStep,
       VerdictStep, HighStep DEF RunInv
<1> QED
  BY <1>1, <1>2, PTL DEF Spec

(* No text is previewed or executed without its own parse and grounding,  *)
(* on any thread and for any budget.                                      *)
THEOREM SqlIsVerified == Spec => []ExecutesVerifiedSql
<1>1. RunInv => ExecutesVerifiedSql
  BY DEF RunInv, CurrentTextParsed, CurrentTextGrounded, ExecutesVerifiedSql
<1> QED
  BY <1>1, RunInvariant, PTL

(* The rows of a run are rows of the SQL shown beside them.               *)
THEOREM AnswersMatchSql == Spec => []AnswerIsOfShownSql
<1>1. RunInv => AnswerIsOfShownSql
  BY DEF RunInv
<1> QED
  BY <1>1, RunInvariant, PTL

(* A fresh explanation without a success comes only after the last        *)
(* correction the budget allows.                                          *)
THEOREM BudgetIsSpent == Spec => []BudgetSpentBeforeGivingUp
<1>1. RunInv => BudgetSpentBeforeGivingUp
  BY DEF RunInv
<1> QED
  BY <1>1, RunInvariant, PTL

(* The cache and the corpus only hold results of 1 row up to the cap, and *)
(* the corpus only uncorrected texts.                                     *)
THEOREM StoresAreGood == Spec => []StoresHoldGoodAnswers
<1>1. RunInv => StoresHoldGoodAnswers
  BY DEF RunInv
<1> QED
  BY <1>1, RunInvariant, PTL

(* A fresh HIGH verdict is of a run that was not clarified or corrected,  *)
(* and whose own SQL was grounded by a check that ran, and executed.      *)
THEOREM HighIsClean == Spec => []FreshHighIsClean
<1>1. RunInv => FreshHighIsClean
  BY DEF RunInv
<1> QED
  BY <1>1, RunInvariant, PTL

-----------------------------------------------------------------------------
(* What a run reports: to the model that corrects its text, and to the     *)
(* history.  These facts are inductive only beside those of RunInv.        *)

\* Texts validate_syntax lets through.
Parsed == {"not_select", "ungrounded", "grounded"}

OnlyAnsweredRun ==
  pc \in {"idle", "scope_classifier", "scope_response", "record_history"}
    \/ outcome = "ANSWERED"

TextIsOfRun ==
  pc \in Early \cup {"idle", "record_history"} \/ hit # {} \/ sql.run = run

\* The failure a correction starts from, where the text that failed parsed.
FailureIsOfText ==
  /\ pc = "check_result" => \A e \in execution : e.sql = sql
  /\ pc = "self_correct" /\ sql.kind \in Parsed =>
       \/ \E e \in execution : e.result = "error" /\ e.sql = sql
       \/ /\ execution = {} /\ quality = "none"
          /\ validation = {[sql |-> sql, valid |-> FALSE]}

\* A run in progress has no history row yet, and the stores are of it or older.
RunsNumbered ==
  /\ \A l \in corpus : l.sql.run <= run
  /\ \A h \in history : h.run <= run /\ (pc # "idle" => h.run < run)

\* The example a run has learned is on its way to its history row.
LearnedIsNamed ==
  \A l \in corpus : l.sql.run = run =>
    \/ pc = "idle"
    \/ pc \in {"store_cache", "explained"} /\ minted = {l}
    \/ pc = "record_history" /\ fewshotId = {l}

ReportInv ==
  /\ OnlyAnsweredRun /\ TextIsOfRun /\ FailureIsOfText
  /\ RunsNumbered /\ LearnedIsNamed
  /\ HistoryLinksLearnedExample /\ DiagnosisOfParsedSql

(* The text, hit or failure a node works on is this run's.                *)
LEMMA OwnTextStep ==
  ASSUME RunInv, ReportInv, [Next]_vars
  PROVE  OnlyAnsweredRun' /\ TextIsOfRun' /\ FailureIsOfText'
<1> USE DEF RunInv, ReportInv, Goto, channels, stores, Early, Loop, Succeeded,
      NothingRunYet, OnlyFailuresYet, CurrentTextParsed, Parsed, OnlyAnsweredRun,
      TextIsOfRun, FailureIsOfText
<1>1. CASE Start
  BY <1>1 DEF Start
<1>2. CASE ScopeClassifier
  BY <1>2 DEF ScopeClassifier, outcome_for
<1>3. CASE ScopeResponse
  BY <1>3 DEF ScopeResponse
<1>4. CASE PassThrough
  BY <1>4 DEF PassThrough, FixedEdge
<1>5. CASE CheckCacheMiss
  BY <1>5 DEF CheckCacheMiss
<1>6. CASE CheckCacheHit
  BY <1>6 DEF CheckCacheHit
<1>7. CASE GenerateSql
  BY <1>7 DEF GenerateSql
<1>8. CASE ValidateSyntax
  BY <1>8 DEF ValidateSyntax, AfterFailure
<1>9. CASE VerifyGrounding
  BY <1>9 DEF VerifyGrounding, AfterFailure, KeptIf
<1>10. CASE VerifyGroundingFailsOpen
  BY <1>10 DEF VerifyGroundingFailsOpen
<1>11. CASE GuardrailPreview
  BY <1>11 DEF GuardrailPreview
<1>12. CASE ExecuteQuery
  BY <1>12 DEF ExecuteQuery
<1>13. CASE CheckResult
  <2>1. PICK e \in execution : quality' = QualityOf(e.result)
    BY <1>13 DEF CheckResult
  <2>2. execution = {e} /\ e.result \in ExecOutcome
    BY OneExecution DEF RunInv
  <2> QED
    BY <1>13, <2>1, <2>2 DEF CheckResult, AfterFailure, QualityOf, IsAcceptable, ExecOutcome
<1>14. CASE SelfCorrect
  BY <1>14 DEF SelfCorrect
<1>15. CASE ExplainCached
  BY <1>15 DEF ExplainCached
<1>16. CASE ExplainFresh
  BY <1>16 DEF ExplainFresh
<1>17. CASE StoreFewshot
  BY <1>17 DEF StoreFewshot, Learnable
<1>18. CASE StoreCache
  BY <1>18 DEF StoreCache, Cacheable
<1>19. CASE Explained
  BY <1>19 DEF Explained, StampedId
<1>20. CASE RecordHistory
  BY <1>20 DEF RecordHistory
<1>21. CASE Abort
  BY <1>21 DEF Abort
<1>22. CASE UNCHANGED vars
  BY <1>22 DEF vars
<1> QED
  BY <1>1, <1>2, <1>3, <1>4, <1>5, <1>6, <1>7, <1>8, <1>9, <1>10, <1>11,
     <1>12, <1>13, <1>14, <1>15, <1>16, <1>17, <1>18, <1>19, <1>20, <1>21,
     <1>22 DEF Next, GraphStep, Quiesce

(* Runs are numbered in the stores as on the thread.                      *)
LEMMA RunsTyped ==
  ASSUME TypeOK
  PROVE  /\ \A l \in corpus : l.sql.run \in Nat
         /\ \A h \in history : h.run \in Nat
<1>1. \A l \in corpus : l.sql.run \in 0..MaxRuns
  BY DEF TypeOK, Learned, Sql
<1>2. \A h \in history : h.run \in 1..MaxRuns
  BY DEF TypeOK, HistoryRow
<1> QED
  BY <1>1, <1>2, MaxRunsAssumption

(* The example learned reaches the history row of the run that learned it. *)
LEMMA LearnedStep ==
  ASSUME RunInv, ReportInv, [Next]_vars
  PROVE  RunsNumbered' /\ LearnedIsNamed' /\ HistoryLinksLearnedExample'
<1> USE DEF RunInv, ReportInv, Goto, channels, stores,
      RunsNumbered, LearnedIsNamed, HistoryLinksLearnedExample
<1>1. CASE Start
  BY <1>1, NumbersTyped, RunsTyped DEF Start, RunsNumbered, LearnedIsNamed
<1>2. CASE ScopeClassifier
  BY <1>2 DEF ScopeClassifier, outcome_for
<1>3. CASE ScopeResponse
  BY <1>3 DEF ScopeResponse
<1>4. CASE PassThrough
  BY <1>4 DEF PassThrough, FixedEdge
<1>5. CASE CheckCacheMiss
  BY <1>5 DEF CheckCacheMiss
<1>6. CASE CheckCacheHit
  BY <1>6 DEF CheckCacheHit
<1>7. CASE GenerateSql
  BY <1>7 DEF GenerateSql
<1>8. CASE ValidateSyntax
  BY <1>8 DEF ValidateSyntax, AfterFailure
<1>9. CASE VerifyGrounding
  BY <1>9 DEF VerifyGrounding, AfterFailure, KeptIf
<1>10. CASE VerifyGroundingFailsOpen
  BY <1>10 DEF VerifyGroundingFailsOpen
<1>11. CASE GuardrailPreview
  BY <1>11 DEF GuardrailPreview
<1>12. CASE ExecuteQuery
  BY <1>12 DEF ExecuteQuery
<1>13. CASE CheckResult
  BY <1>13 DEF CheckResult, AfterFailure
<1>14. CASE SelfCorrect
  BY <1>14 DEF SelfCorrect
<1>15. CASE ExplainCached
  BY <1>15 DEF ExplainCached
<1>16. CASE ExplainFresh
  BY <1>16 DEF ExplainFresh
<1>17. CASE StoreFewshot
  <2>1. CASE UNCHANGED <<minted, corpus>>
    BY <1>17, <2>1 DEF StoreFewshot
  <2>2. CASE /\ Learnable
             /\ minted' = {[sql |-> sql, result |-> e.result] : e \in execution}
             /\ corpus' = corpus \cup minted'
    <3>1. hit = {}
      BY <2>2 DEF Learnable, HitsRunNothing
    <3>2. sql.run = run
      BY <1>17, <3>1 DEF StoreFewshot, TextIsOfRun, Early
    <3>3. \A l \in minted' : l.sql.run = run /\ minted' = {l}
      BY <2>2, <3>2, OneExecution
    <3>4. \A l \in corpus : l.sql.run # run
      BY <1>17 DEF StoreFewshot
    <3>5. run \in Nat /\ \A h \in history : h.run # run
      BY <1>17, NumbersTyped, RunsTyped DEF StoreFewshot
    <3> QED
      BY <1>17, <2>2, <3>3, <3>4, <3>5 DEF StoreFewshot
  <2> QED
    BY <1>17, <2>1, <2>2 DEF StoreFewshot
<1>18. CASE StoreCache
  BY <1>18 DEF StoreCache, Cacheable
<1>19. CASE Explained
  BY <1>19 DEF Explained, StampedId
<1>20. CASE RecordHistory
  BY <1>20, NumbersTyped DEF RecordHistory
<1>21. CASE Abort
  BY <1>21 DEF Abort
<1>22. CASE UNCHANGED vars
  BY <1>22 DEF vars
<1> QED
  BY <1>1, <1>2, <1>3, <1>4, <1>5, <1>6, <1>7, <1>8, <1>9, <1>10, <1>11,
     <1>12, <1>13, <1>14, <1>15, <1>16, <1>17, <1>18, <1>19, <1>20, <1>21,
     <1>22 DEF Next, GraphStep, Quiesce

(* What self_correct quotes is the failure of the text it corrects.       *)
LEMMA DiagnosisIsOfText ==
  ASSUME RunInv, ReportInv, pc = "self_correct", sql.kind \in Parsed
  PROVE  FailureAbout = sql
<1>1. CASE \E e \in execution : e.result = "error" /\ e.sql = sql
  <2>1. PICK e \in execution : e.result = "error" /\ e.sql = sql
    BY <1>1
  <2>2. execution = {e}
    BY OneExecution DEF RunInv
  <2>3. FailureReason = "execution" /\ (CHOOSE x \in execution : TRUE) = e
    BY <2>1, <2>2 DEF FailureReason
  <2> QED
    BY <2>1, <2>2, <2>3 DEF FailureAbout
<1>2. CASE /\ execution = {} /\ quality = "none"
           /\ validation = {[sql |-> sql, valid |-> FALSE]}
  <2>1. FailureReason = "validation"
    BY <1>2 DEF FailureReason, IsAcceptable
  <2>2. (CHOOSE v \in validation : TRUE) = [sql |-> sql, valid |-> FALSE]
    BY <1>2
  <2>3. (CHOOSE v \in validation : TRUE).sql = sql
    <3>1. [sql |-> sql, valid |-> FALSE].sql = sql
      OBVIOUS
    <3> QED
      BY <2>2, <3>1, Zenon
  <2> QED
    BY <2>1, <2>3 DEF FailureAbout
<1> QED
  BY <1>1, <1>2 DEF ReportInv, FailureIsOfText

(* Each correction is asked for with the failure of the text it corrects.  *)
LEMMA DiagnosisStep ==
  ASSUME RunInv, ReportInv, [Next]_vars
  PROVE  DiagnosisOfParsedSql'
<1> USE DEF RunInv, ReportInv, channels, stores, DiagnosisOfParsedSql
<1>1. CASE Start
  BY <1>1 DEF Start
<1>2. CASE ScopeClassifier
  BY <1>2 DEF ScopeClassifier, outcome_for
<1>3. CASE ScopeResponse
  BY <1>3 DEF ScopeResponse
<1>4. CASE PassThrough
  BY <1>4 DEF PassThrough, FixedEdge
<1>5. CASE CheckCacheMiss
  BY <1>5 DEF CheckCacheMiss
<1>6. CASE CheckCacheHit
  BY <1>6 DEF CheckCacheHit
<1>7. CASE GenerateSql
  BY <1>7 DEF GenerateSql
<1>8. CASE ValidateSyntax
  BY <1>8 DEF ValidateSyntax, AfterFailure
<1>9. CASE VerifyGrounding
  BY <1>9 DEF VerifyGrounding, AfterFailure, KeptIf
<1>10. CASE VerifyGroundingFailsOpen
  BY <1>10 DEF VerifyGroundingFailsOpen
<1>11. CASE GuardrailPreview
  BY <1>11 DEF GuardrailPreview
<1>12. CASE ExecuteQuery
  BY <1>12 DEF ExecuteQuery
<1>13. CASE CheckResult
  BY <1>13 DEF CheckResult, AfterFailure
<1>14. CASE SelfCorrect
  <2>1. corrections \in Seq(Correction)
    BY DEF TypeOK
  <2>2. sql.kind \in Parsed => FailureAbout = sql
    BY <1>14, DiagnosisIsOfText DEF SelfCorrect, Goto
  <2>3. PICK r : corrections' = Append(corrections, [failed |-> sql, reason |-> r,
                                                     about |-> FailureAbout])
    BY <1>14 DEF SelfCorrect
  <2>4. \A i \in DOMAIN corrections' :
          \/ i \in DOMAIN corrections /\ corrections'[i] = corrections[i]
          \/ corrections'[i].failed = sql /\ corrections'[i].about = FailureAbout
    BY <2>1, <2>3
  <2> QED
    BY <2>2, <2>4 DEF DiagnosisOfParsedSql, Parsed
<1>15. CASE ExplainCached
  BY <1>15 DEF ExplainCached
<1>16. CASE ExplainFresh
  BY <1>16 DEF ExplainFresh
<1>17. CASE StoreFewshot
  BY <1>17 DEF StoreFewshot, Learnable
<1>18. CASE StoreCache
  BY <1>18 DEF StoreCache, Cacheable
<1>19. CASE Explained
  BY <1>19 DEF Explained, StampedId
<1>20. CASE RecordHistory
  BY <1>20 DEF RecordHistory
<1>21. CASE Abort
  BY <1>21 DEF Abort
<1>22. CASE UNCHANGED vars
  BY <1>22 DEF vars
<1> QED
  BY <1>1, <1>2, <1>3, <1>4, <1>5, <1>6, <1>7, <1>8, <1>9, <1>10, <1>11,
     <1>12, <1>13, <1>14, <1>15, <1>16, <1>17, <1>18, <1>19, <1>20, <1>21,
     <1>22 DEF Next, GraphStep, Quiesce

(* Both invariants hold of every reachable state.                         *)
THEOREM ReportInvariant == Spec => []ReportInv
<1>1. Init => ReportInv
  BY DEF Init, ReportInv, OnlyAnsweredRun, TextIsOfRun, FailureIsOfText, RunsNumbered,
         LearnedIsNamed, HistoryLinksLearnedExample, DiagnosisOfParsedSql
<1>2. RunInv /\ ReportInv /\ [Next]_vars => ReportInv'
  BY OwnTextStep, LearnedStep, DiagnosisStep DEF ReportInv
<1> QED
  BY <1>1, <1>2, RunInvariant, PTL DEF Spec

(* Whatever the thread carries over from earlier runs, the history row of a *)
(* run that learned an example names that example.                         *)
THEOREM HistoryNamesLearned == Spec => []HistoryLinksLearnedExample
<1>1. ReportInv => HistoryLinksLearnedExample
  BY DEF ReportInv
<1> QED
  BY <1>1, ReportInvariant, PTL

(* Every correction of a text that parsed quotes a failure of that text.   *)
THEOREM DiagnosisIsSound == Spec => []DiagnosisOfParsedSql
<1>1. ReportInv => DiagnosisOfParsedSql
  BY DEF ReportInv
<1> QED
  BY <1>1, ReportInvariant, PTL

-----------------------------------------------------------------------------
(* The query graph implements the answer contract: each node, with the edge *)
(* that leaves it, is a step of the contract or leaves the mapped state     *)
(* alone.  That needs both invariants: RunInv for what may have run where a *)
(* question is declined, ReportInv for which questions reach the            *)
(* explanation at all.                                                     *)

(* Lemmas about the mapping. *)

(* A run whose execution succeeded has that text, the one shown, as its    *)
(* evidence; any other run has none.                                       *)
LEMMA EvidenceIsShownSql ==
  ASSUME RunInv
  PROVE  Evidence = IF Succeeded THEN {sql} ELSE {}
<1>1. \A e \in execution : execution = {e}
  BY OneExecution DEF RunInv
<1> QED
  BY <1>1 DEF RunInv, AnswerIsOfShownSql, Evidence, Succeeded

(* A reply given by an answered run, or by one that has nothing, is a      *)
(* reply of the contract.                                                  *)
LEMMA ReplyStep ==
  ASSUME pc \notin {"idle", "record_history"}, pc' = "record_history",
         UNCHANGED <<execution, hit, cache, corpus>>,
         outcome' = "ANSWERED" \/ (Evidence = {} /\ Served = {})
  PROVE  Contract!Next
<1>1. UNCHANGED <<Evidence, Served, Known>>
  BY DEF Evidence, Served, Known
<1>2. Phase = "open" /\ Phase' = "replied"
  BY DEF Phase
<1>3. Served = {} <=> hit = {}
  BY DEF Served
<1>4. \/ ReplyKind' \in {"clarification", "refusal", "no_data"} /\ Evidence = {} /\ Served = {}
      \/ ReplyKind' = "data" /\ Evidence # {}
      \/ ReplyKind' = "cached" /\ Served # {}
  BY <1>1, <1>3 DEF ReplyKind
<1>5. Contract!Reply(ReplyKind')
  BY <1>1, <1>2, <1>4 DEF Contract!Reply
<1> QED
  BY <1>4, <1>5 DEF Contract!Next

(* A write of explain_result teaches nothing but the evidence of the run.  *)
LEMMA LearnStep ==
  ASSUME pc \notin {"idle", "record_history"}, pc' \notin {"idle", "record_history"},
         UNCHANGED <<execution, hit>>,
         Known' = Known \/ Known' = Known \cup Evidence
  PROVE  [Contract!Next]_Contract!vars
<1>1. UNCHANGED <<Phase, ReplyKind, Evidence, Served>> /\ Phase = "open"
  BY DEF Phase, ReplyKind, Evidence, Served
<1>2. CASE Known' = Known
  BY <1>1, <1>2 DEF Contract!vars
<1>3. CASE Known' = Known \cup Evidence
  BY <1>1, <1>3 DEF Contract!Next, Contract!Learn
<1> QED
  BY <1>2, <1>3

(* A node that leaves execution, hit and the stores alone and does not end  *)
(* the run is a stutter of the contract.                                   *)
LEMMA StutterStep ==
  ASSUME pc \notin {"idle", "record_history"}, pc' \notin {"idle", "record_history"},
         UNCHANGED <<execution, hit, cache, corpus>>
  PROVE  [Contract!Next]_Contract!vars
BY DEF Phase, ReplyKind, Evidence, Served, Known, Contract!vars

(* A reply delivered, or a run that breaks off, closes the question.       *)
LEMMA CloseStep ==
  ASSUME pc # "idle", pc' = "idle", UNCHANGED <<execution, hit, cache, corpus>>
  PROVE  Contract!Next
<1>1. UNCHANGED <<Evidence, Served, Known>>
  BY DEF Evidence, Served, Known
<1>2. Phase # "idle" /\ Phase' = "idle" /\ ReplyKind' = "none"
  BY DEF Phase, ReplyKind
<1> QED
  BY <1>1, <1>2 DEF Contract!Next, Contract!Close

-----------------------------------------------------------------------------
(* Every node is a step of the contract, or a stutter.                     *)
LEMMA NodeIsContractStep ==
  ASSUME RunInv, ReportInv, [Next]_vars
  PROVE  [Contract!Next]_Contract!vars
<1> USE DEF RunInv, ReportInv, Goto, channels, stores
<1>1. CASE Start
  <2>1. Phase = "idle" /\ Phase' = "open" /\ UNCHANGED <<ReplyKind, Known>>
    BY <1>1 DEF Start, Phase, ReplyKind, Known
  <2>2. Evidence' = {} /\ Served' = {}
    BY <1>1 DEF Start, Evidence, Served
  <2> QED
    BY <2>1, <2>2 DEF Contract!Next, Contract!Ask
<1>2. CASE ScopeClassifier
  BY <1>2, StutterStep DEF ScopeClassifier, outcome_for
<1>3. CASE ScopeResponse
  <2>1. Evidence = {} /\ Served = {}
    BY <1>3 DEF ScopeResponse, NothingRunYet, Early, Evidence, Served
  <2> QED
    BY <1>3, <2>1, ReplyStep DEF ScopeResponse
<1>4. CASE PassThrough
  BY <1>4, StutterStep DEF PassThrough, FixedEdge
<1>5. CASE CheckCacheMiss
  BY <1>5, StutterStep DEF CheckCacheMiss
<1>6. CASE CheckCacheHit
  <2>1. PICK c \in cache : hit' = {c}
    BY <1>6 DEF CheckCacheHit
  <2>2. Evidence = {} /\ Served = {} /\ Served' = {c.sql} /\ c.sql \in Known
    BY <1>6, <2>1 DEF CheckCacheHit, NothingRunYet, Early, Evidence, Served, Known
  <2>3. Phase = "open" /\ UNCHANGED <<Phase, ReplyKind, Evidence, Known>>
    BY <1>6 DEF CheckCacheHit, Phase, ReplyKind, Evidence, Known
  <2> QED
    BY <2>2, <2>3 DEF Contract!Next, Contract!Serve
<1>7. CASE GenerateSql
  BY <1>7, StutterStep DEF GenerateSql
<1>8. CASE ValidateSyntax
  <2>1. CASE pc' = "record_history"
    <3>1. Evidence = {} /\ Served = {}
      BY <1>8, EvidenceIsShownSql DEF ValidateSyntax, OnlyFailuresYet, Loop, Served
    <3> QED
      BY <1>8, <2>1, <3>1, ReplyStep DEF ValidateSyntax
  <2>2. CASE pc' # "record_history"
    BY <1>8, <2>2, StutterStep DEF ValidateSyntax, AfterFailure
  <2> QED
    BY <2>1, <2>2
<1>9. CASE VerifyGrounding
  <2>1. Evidence = {} /\ Evidence' = {}
    BY <1>9 DEF VerifyGrounding, KeptIf, OnlyFailuresYet, Loop, Succeeded, Evidence
  <2>2. UNCHANGED <<Phase, ReplyKind, Served, Known>>
    BY <1>9 DEF VerifyGrounding, AfterFailure, Phase, ReplyKind, Served, Known
  <2> QED
    BY <2>1, <2>2 DEF Contract!vars
<1>10. CASE VerifyGroundingFailsOpen
  BY <1>10, StutterStep DEF VerifyGroundingFailsOpen
<1>11. CASE GuardrailPreview
  BY <1>11, StutterStep DEF GuardrailPreview
<1>12. CASE ExecuteQuery
  <2>1. PICK v \in validation, r \in ExecOutcome : execution' = {[sql |-> v.sql, result |-> r]}
    BY <1>12 DEF ExecuteQuery
  <2>2. Evidence = {} /\ Served = {}
    BY <1>12, EvidenceIsShownSql DEF ExecuteQuery, OnlyFailuresYet, Loop, Served
  <2>3. Phase = "open" /\ UNCHANGED <<Phase, ReplyKind, Served, Known>>
    BY <1>12 DEF ExecuteQuery, Phase, ReplyKind, Served, Known
  <2>4. Evidence' = IF r = "error" THEN {} ELSE {v.sql}
    <3> DEFINE e == [sql |-> v.sql, result |-> r]
    <3>1. e.sql = v.sql /\ e.result = r /\ execution' = {e}
      BY <2>1
    <3> QED
      BY <3>1 DEF Evidence
  <2>5. CASE r = "error"
    BY <2>2, <2>3, <2>4, <2>5 DEF Contract!vars
  <2>6. CASE r # "error"
    BY <2>2, <2>3, <2>4, <2>6 DEF Contract!Next, Contract!Run
  <2> QED
    BY <2>5, <2>6
<1>13. CASE CheckResult
  BY <1>13, StutterStep DEF CheckResult, AfterFailure
<1>14. CASE SelfCorrect
  BY <1>14, StutterStep DEF SelfCorrect
<1>15. CASE ExplainCached
  <2>1. outcome' = "ANSWERED"
    BY <1>15 DEF ExplainCached, OnlyAnsweredRun
  <2> QED
    BY <1>15, <2>1, ReplyStep DEF ExplainCached
<1>16. CASE ExplainFresh
  BY <1>16, StutterStep DEF ExplainFresh
<1>17. CASE StoreFewshot
  <2>1. CASE UNCHANGED corpus
    BY <1>17, <2>1, LearnStep DEF StoreFewshot, Known
  <2>2. CASE /\ Learnable
             /\ corpus' = corpus \cup {[sql |-> sql, result |-> e.result] : e \in execution}
    <3>1. \A e \in execution : Evidence = {sql}
      BY <2>2, EvidenceIsShownSql DEF Learnable, GoodMeansRows, Succeeded
    <3>2. Known' = Known \cup (IF execution = {} THEN {} ELSE {sql})
      <4>1. \A l \in corpus' : l \in corpus \/ (execution # {} /\ l.sql = sql)
        BY <2>2
      <4>2. \A e \in execution : \E l \in corpus' : l.sql = sql
        <5> TAKE e \in execution
        <5>1. [sql |-> sql, result |-> e.result] \in corpus'
          BY <2>2
        <5> QED
          BY <5>1
      <4>3. cache' = cache /\ corpus \subseteq corpus'
        BY <1>17, <2>2 DEF StoreFewshot
      <4> QED
        BY <4>1, <4>2, <4>3 DEF Known
    <3> QED
      BY <1>17, <3>1, <3>2, LearnStep DEF StoreFewshot
  <2> QED
    BY <1>17, <2>1, <2>2 DEF StoreFewshot
<1>18. CASE StoreCache
  <2>1. CASE UNCHANGED cache
    BY <1>18, <2>1, LearnStep DEF StoreCache, Known
  <2>2. CASE Cacheable /\ cache' # cache
    <3>1. Evidence = {sql}
      BY <2>2, EvidenceIsShownSql DEF Cacheable, GoodMeansRows, Succeeded
    <3>2. PICK c : cache' = cache \cup {c} /\ c.sql = sql
      BY <1>18, <2>2 DEF StoreCache
    <3>3. Known' = Known \cup {sql}
      BY <1>18, <3>2 DEF StoreCache, Known
    <3> QED
      BY <1>18, <3>1, <3>3, LearnStep DEF StoreCache
  <2> QED
    BY <1>18, <2>1, <2>2 DEF StoreCache
<1>19. CASE Explained
  <2>1. outcome' = "ANSWERED"
    BY <1>19 DEF Explained, OnlyAnsweredRun
  <2> QED
    BY <1>19, <2>1, ReplyStep DEF Explained
<1>20. CASE RecordHistory
  BY <1>20, CloseStep DEF RecordHistory
<1>21. CASE Abort
  BY <1>21, CloseStep DEF Abort
<1>22. CASE UNCHANGED vars
  BY <1>22 DEF vars, Phase, ReplyKind, Evidence, Served, Known, Contract!vars
<1> QED
  BY <1>1, <1>2, <1>3, <1>4, <1>5, <1>6, <1>7, <1>8, <1>9, <1>10, <1>11,
     <1>12, <1>13, <1>14, <1>15, <1>16, <1>17, <1>18, <1>19, <1>20, <1>21,
     <1>22 DEF Next, GraphStep, Quiesce

(* The runs of a thread are a behaviour of the contract: an answer is      *)
(* backed by a text that ran for the question, or by one known because it  *)
(* ran for another; a declined question ran nothing; and the cache and the *)
(* corpus learn only from a text that has just succeeded.                  *)
THEOREM Refinement == Spec => ImplementsContract
<1>1. Init => Contract!Init
  BY DEF Init, Contract!Init, Phase, ReplyKind, Evidence, Served, Known
<1>2. RunInv /\ ReportInv /\ [Next]_vars => [Contract!Next]_Contract!vars
  BY NodeIsContractStep
<1> QED
  BY <1>1, <1>2, RunInvariant, ReportInvariant, PTL
     DEF Spec, ImplementsContract, Contract!Spec

=============================================================================
