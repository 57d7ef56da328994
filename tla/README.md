# Verification of NIXUS

NIXUS turns a question in natural language into one read-only SQL statement, runs
it on a Postgres *target* database and explains the rows. This directory holds TLA+
models of its parts: those whose correctness depends on the order of steps (the query
graph and the state it checkpoints between runs, the stores a run learns into, the
cache and its target, the start of a container, the schema embeddings, the page and its
history panel, the health endpoint) as state machines, and its deterministic algorithms
(grounding, chart choice, the grader, explanation checks, description matching, capped
replies, JSON-RPC dispatch) as operators beside reference definitions. TLC checks them
on small instances; TLAPS proves every safety property of the state machines and of the
algorithms, and that the graph implements its contract, for all values of the constants.

Paths below are relative to the repository root.

## 1. The system

| Part | Code | State it keeps | Operations |
|---|---|---|---|
| Query graph | `nixus/graph/` | the channels of `SQLAgentState`, checkpointed in Postgres under the session id | 15 nodes: scope gate, intent, cache, schema and few-shot retrieval, generation, syntax, grounding, guardrail preview, execution, result check, correction, chart, explanation |
| Run service, verdict | `nixus/services/query_service.py`, `nixus/utils/confidence.py` | none of its own | `run_query`, `stream_agent`, `record_history_safely`, `assess_confidence` |
| Few-shot corpus | `nixus/db/fewshot_store.py`, `fewshot_seeding.py` | `fewshot_examples` | similarity search, duplicate check, insert, seeding at startup |
| History and feedback | `query_history_store.py`, `feedback_store.py` | `query_history` with its foreign key to `fewshot_examples` | record a run; accept or reject it, a reject disables the linked example |
| Semantic cache | `nixus/db/query_cache.py` | `query_cache` | search, hit count, store, eviction by age and by size, flush |
| Vector dimensions | `store_dims.py`, `reembed_stores.py` | column widths, both vector tables | resize of empty stores, `reembed-stores` rebuild |
| Target switch | `scripts/use_target.sh` | `TARGET_DATABASE_URL` in `.env` | rewrite `.env`, re-embed the schema, flush the cache |
| Sessions | `nixus/db/session_store.py`, `api/sessions.py` | `api_sessions` | issue, resolve, list |
| API | `api/main.py` and routers | the LLM health cache; the startup work | `/run`, `/stream` (SSE), `/run-sql`, `/health`, history, saved queries, export, analytics |
| Saved queries | `saved_query_store.py`, `api/saved_queries.py` | `saved_queries` | CRUD, re-run |
| Browser client | `web/app/page.tsx`, `web/lib/api.ts` | box, reply, clarification thread, session of the panel | ask, answer a clarifying question, re-run SQL, start a new conversation |
| History panel | `web/components/HistoryPanel.tsx` | staged verdicts, list of rows | list, stage, undo, commit |
| Schema embeddings | `nixus/schema/` | `schema_embeddings`, ingestion fingerprint | introspect, embed, drift detection |
| Grounding, charts, explanations | `nixus/graph/grounding.py`, `nodes/classify_chart.py`, `explanation_check.py` | none (grounding keeps one schema view per process) | check names, choose a chart, accept or replace a draft |
| Semantic layer | `nixus/semantic/`, `nixus/schema/dbt.py` | none | parse metrics, match manifest models to tables |
| Container start, migrations | `scripts/entrypoint.sh`, `api/main.py` lifespan, `nixus/db/migrations/` | `schema_migrations`, column widths | migrate, build the target, seed, embed, align widths, serve |
| MCP server, export | `nixus/mcp_server.py`, `nixus/services/export_service.py` | none | answer JSON-RPC messages; run capped SQL and label it |
| Benchmark | `eval/` | none | grade a result against gold |
| Others | terminal client, analytics, auth, config | little or none | see section 8 |

**How they interact.** The page makes one call at a time. A question goes out over
the SSE stream `/stream`; when the stream cannot be opened, is silent for 60 s (without even
the server's pings), or reports an error that is not the provider's, the same question goes to
the blocking `/run`. The endpoint resolves a session and runs the graph on the checkpoint thread of
that session. The graph calls the LLM (bounded retries), reads the cache, the schema
and the corpus, runs SQL on the target under a `statement_timeout`, and at its end
writes the corpus (uncorrected GOOD runs) and the cache (GOOD runs), each in a
transaction of its own. The service then writes one history row, and only then
replies. Feedback on a row reaches the corpus through the row's `fewshot_example_id`.
Operators run `use_target.sh` and `reembed-stores` beside the API. A container migrates,
seeds and embeds before its API starts, and the API's lifespan migrates again, aligns the
stores' widths and seeds once more; several containers may share one state database.

**What is hard.**
- The run's input names some channels only; the others come from the thread's last
  checkpoint. A value of another question can be read as this one's.
- The correction loop has three entries and re-checks a changing text against
  results kept in separate channels.
- Corpus, cache and history are written by separate transactions; each can fail,
  and a run can be cancelled between two of them.
- The corpus' duplicate check and its INSERT are two transactions; runs, saved-query
  re-runs and seeding processes write at once, and a rebuild writes back an old copy.
- Cache entries name no target: only the flush separates two targets, while evictions,
  hits and runs of an API that has not been restarted are under way.
- The page may send a question twice, in two sessions, while panels stay active
  during the call.
- The history panel lets list answers and verdicts overlap, and a verdict waits out a
  timer that a second gesture restarts.
- The vectors' width is a property of columns, rows and the configured provider, each
  of which changes at another time and by another process.
- The embeddings, the manifest's fingerprint and the drift report are taken from a
  target and a file that others change, in several reads and transactions.
- `/health` reads its cache, awaits a probe, and writes the cache.
- The algorithms decide from partial views: a preview of five rows, a syntax tree
  without scopes, what regular expressions find in a text.

**What makes each part correct.** The graph: only a text that parsed and was
grounded *in this run* executes; rows shown are of the SQL shown; a failure is
explained only when the budget is spent; a HIGH verdict means the clean path; a run
ends. The stores: only GOOD results enter; the example of a rejected run is
disabled; no history row dangles; the id sequence is not behind an id in use, unless a rebuild
failed after its `setval`; duplicates need a race. The cache: the cap is met, the least recent
at the time of the choice go first, no entry of another target outlives a
completed switch except from an old API. The page: reply, thread and panel are of
one conversation, clarifications are bounded, loading ends if the run does. The history panel: a
gesture is sent at most once, at rest the panel shows what the server has. A container: it serves
only on a migrated schema and aligned stores. The schema embeddings: rows are of one
embed, a report of "in sync" is true. The health cache: answers are recent
and say why. The algorithms: valid SQL is never flagged, a pie is the whole, a published
explanation agrees with the rows, a capped reply says so, every request is answered.

## 2. Modules

| Module | Models | Built on |
|---|---|---|
| `QueryRun` | the graph on one session thread, run after run | - |
| `AnswerContract` | what a client is promised of a thread, with no node in it | - |
| `QueryRunRefinement` | the mapping under which `QueryRun` implements `AnswerContract` | both |
| `QueryRunProofs` | theorems about the graph, and the refinement | `QueryRunRefinement`, TLAPS |
| `FewshotCorpus`, `MCFewshotCorpus` | corpus, history, feedback, seeding, rebuild | - |
| `QueryCache`, `MCQueryCache` | cache, eviction, target switch | - |
| `Conversation` | the page, its transport, the endpoints it calls | uses the result `RunsTerminate` of `QueryRun` as its fairness |
| `HistoryPanel` | the history panel and its two endpoints | beside `Conversation`: the page tells it of runs and sessions |
| `Health` | `/health` and its TTL cache | - |
| `Boot` | containers on one state database: entrypoint, lifespan, migrations, store widths | abstracts the stores of `FewshotCorpus` and `QueryCache` to width and emptiness |
| `SchemaStore`, `MCSchemaStore` | schema embeddings, ingestion record, drift check | - |
| `CorpusProofs`, `CacheProofs`, `ConversationProofs`, `PanelProofs`, `BootProofs`, `SchemaProofs` | theorems, one module per state machine | the machine, TLAPS |
| `Grounding` | the grounding check, against name resolution | - |
| `ChartClassifier` | the choice of chart and columns | - |
| `ExplanationCheck` | the checks of a draft, the second draft, the plain rendering | - |
| `Descriptions` | manifest models and metrics matched to tables | - |
| `ResultEquivalence` | the benchmark's grader | - |
| `GuardedResult` | the row cap and its label on five surfaces | - |
| `McpServer` | JSON-RPC dispatch | - |
| `Algorithms` | the seven as one module: limits and sets of inputs as CONSTANTS, one input of one algorithm per behaviour | the seven above |
| `MCAlgorithms` | the inputs for TLC | `Algorithms` |
| `AlgorithmProofs` | theorems about the algorithms, and about `Health` | `Algorithms`, `Health`, TLAPS |

`MCFewshotCorpus`, `MCQueryCache` and `MCSchemaStore` add the symmetry sets, and
`MCQueryCache` the constraint of section 4; `MCAlgorithms` the sets of inputs; every other value is given
by the `.cfg` files. Common conventions:

- A value that may be absent is a set of at most one element, `{}` when absent.
- Operators and variables keep the source's names where TLA+ allows it.
- A definition beside another that differs in one respect (`AfterFailureOneShort`,
  `FallbackDropsOpts`, ...) and is used nowhere in `Next` is a plausible mistake in
  that code. Each property was checked to fail when such a variant stands in for the
  definition it varies; `PROJECT.json` pairs them.

### QueryRun

`pc` is the node to run next; a step is one node together with the edge that leaves
it, which is what LangGraph executes between two checkpoints. One variable per channel
that another node or the service reads (`sql` is `generated_sql`, `execution` is
`execution_result`, ...). The explanation node is split into its transactions:
`Explain...` computes the verdict, `store_fewshot` and `store_cache` are the two writes,
`record_history` is the service's. Every value derived from a text carries the text.

A SQL text is its *class*: blank, the CANNOT_ANSWER literal, untokenizable,
unparsable, not a SELECT, ungrounded, grounded. Each model call picks any class, so
every mixture of failures is explored. An execution's outcome is one of the four
`check_result` can tell apart: error, no rows, some rows, exactly the cap.

`Start` resets the channels `run_query` passes and leaves the four it omits
(`grounding_result`, `guardrail_preview`, `confidence`, `fewshot_example_id`): this is
the inheritance that makes several runs on a thread differ from one. `Abort` is an
exception or a cancellation at any node - a provider that stays unusable, the
tokenizer error `validate_syntax` does not catch, a dropped connection. The
checkpoint and the committed writes stay; no history row is written.

### AnswerContract and QueryRunRefinement

`AnswerContract` knows only whether a run is open, what it answered, and what the
stores took. It promises that an answer has a text that ran, or came from the cache,
that refusals run nothing, and that a store takes a text only after it ran, in the run
that stores it. `QueryRunRefinement` maps each node to a step of the contract or to a
stutter.

### FewshotCorpus

The tables as functions and sets, `seq` the id sequence, `writer` the locals of each
thread and each seeding process, `rebuild` the snapshot `reembed-stores` holds. The
steps are the transactions: duplicate check, INSERT (or its failure, which may burn
an id), return to the graph, history row, the saved-query endpoint's second offer,
the feedback transaction, the rebuild's read and its write. A `Question` stands for
questions within the duplicate threshold of each other. `Crash` may end a writer
between any two; a thread keeps the id in its checkpoint. A rebuild that fails rolls its tables
back, but not the sequence if its `setval` had run: `setback` says so until a rebuild commits.
`overtaken` remembers that a rebuild committed a snapshot older than another writer's rows, or
set the sequence back.

### QueryCache

Rows carry the day of their last use and the target they were computed on; the code
stores no target, the field says what a row really is. Transactions are at READ COMMITTED and
their BEGIN (which fixes `NOW()`), statements and COMMIT are steps: a hit is a read, and in
another transaction an UPDATE and its COMMIT; a store is an INSERT and its COMMIT. Only what is
committed is in `query_cache`; rows an open transaction has updated or deleted are locked
(`Locked`). An eviction's two DELETEs are each split into the choice of rows by the statement's
snapshot (`EvictByAge`, `EvictOldest`) and the taking of them, which waits for locks
(`DeleteExpired`, which asks for the age again, and `DeleteOldest`, whose `id IN (...)` does
not); COUNT and COMMIT are between and after them. It may fail at any point, in a deadlock
for instance. The script's flush is a DELETE likewise, and the script may end before it.
`crossed` remembers for an eviction what was hit or stored after it chose the oldest, `since`
how much was stored after it counted. The callers of eviction are assumed to be configured alike.

### Conversation

One variable per piece of the page's state; `call` is the request in flight (the
page's `loading`), `requests` is what the server is working on or has answered. A
gesture, an arrival, the acceptance, the end or the cancellation of a request is a step.
A run whose stream is gone goes on for a while (`Adrift`), may record its history row,
and nobody reads its answer. A stream may be lost at any time, or fall `silent`: then nothing
comes of it, and what is left is the watchdog. A stream whose run is slow is not silent, since
`EventSourceResponse` (`main.py:500`) pings every 15 s and each chunk rearms the watchdog
(`api.ts:575`). The panels' handlers are modelled as they are: they
change the box and the note first, and then find whether they may send.

### HistoryPanel

`scope` is what a list request depends on (session, `since` filter, page); each change sends
a request and none is cancelled. A request is two steps, the server's read and the answer's
arrival or loss; a verdict's post likewise. `timers` are the live windows and `timer` what
the ref holds: the code clears the ref's timer, not "the" timer. `marker` is `committingId`,
which two posts may share: the end of one clears the other's, and its row is offered
again. `posts` keeps an answered post apart from a lost one.

### Health

A caller is a coroutine that can be interrupted at its two awaits, the database and the
embeddings probe; the Anthropic probe blocks the loop and is part of a step. Time is ticks,
and only ages up to the TTL are kept. What works may change at any moment.

### Boot

A container is a program counter over the entrypoint's steps and the lifespan's; a step is
one transaction, or one read a later transaction relies on. `set -e` makes a failing step of
the entrypoint end the container, while the lifespan logs a failure and goes on; both share
the migration steps, and `caller` tells them apart. A vector store is its width and whether
it has rows: pgvector refuses a vector of another width. `Up` is the operator's
`docker compose up`; nothing else starts a container that ended. `SwitchProvider` is an operator
editing `.env`, `Rebuild...` is `reembed-stores`. `mixed` remembers that processes of two
widths have run side by side, which no code forbids and no property survives.

### SchemaStore

An embed reads the manifest, the tables, the columns, renders and embeds, deletes the rows it
sees and inserts its own in one transaction, and records the fingerprint in another. The
deletion reaches the rows committed before it; rows of another embed that commits in between
stay (`Survivors`) unless the insert collides with them. The drift check reads tables,
columns and rows apart. `quiet` says that nothing changed since an embed or a check began;
`settled` that the rows' last rebuild was recorded before any other.

### The algorithms

`Grounding` gives a query an outer and at most one inner SELECT (predicate subquery, derived
table or CTE) and says beside the code what Postgres accepts (`Valid`), by scopes, which the
code does not have. `ChartClassifier` takes a result as kinds of columns and values: `Given`
are the rows the node gets, all of them or the preview a cache hit carries, `Shown` those of
them it looks at and draws (`Plotted`, 500 in the code). `ResultEquivalence` compares normalised rows;
normalisation itself only makes values equal and is left out. `ExplanationCheck` takes a text
as the sequence of what its regular expressions find: row counts, figures, derivation and
data words, markers. `Descriptions` represents a text by where its parts come from.
`GuardedResult` puts the two ways of fetching (LIMIT + 1, and up to the cap) beside each other.
`McpServer` maps a batch to its responses and the tools it executes.

`Algorithms` instantiates the seven. It is a state machine only in that each behaviour draws an
input of one of them; its invariants say of the input drawn what the algorithm's module
states. What an input is (`WellFormed`, `Catalog`, `Request`, ...) is said by each module, and
`InputsAssumption` says that the inputs are such: a cell for each column, finitely many
sources in a FROM, none of them called by the mark of an unqualified column.

## 3. Runs

Twelve runs: ten pass, and two check what a comment of the repository says and the code
does not do, and are violated.

| Run | Asks | Shows |
|---|---|---|
| `thread` | Does what a run inherits from an earlier run of its thread do harm? | `ExecutesVerifiedSql`, `FreshHighIsClean`, `StoresHoldGoodAnswers`, `HistoryLinksLearnedExample` hold over two runs; every step is one of the contract (`ImplementsContract`) |
| `loop` | Is the correction loop right at the default budget? | `AnswerIsOfShownSql`, `BudgetSpentBeforeGivingUp`, `DiagnosisOfParsedSql`; with fair steps a run ends (`RunsTerminate`) |
| `corpus` | Do rejects, ids and links hold against concurrent learning, crashes and a rebuild from an old copy? | `IdsAreSound`: `NoDanglingLink` always, `SequenceAheadOfIds` unless the last rebuild failed after its `setval`; `RejectDisables`, `DuplicatesOnlyFromRaces`, `LinksStayOnThread` until a rebuild overtakes a writer |
| `cache` | Do evictions, hits, switches and restarts keep the cache's promises together? | `EvictsLeastRecent` but for what was hit or stored after the choice, `CapMetAfterEviction`, `StaleOnlyFromOldApi` |
| `page` | Does the page stay in one conversation whatever the stream does? | `PageIsOfOneReply` (thread, panel and note are of the reply shown, and nothing is from before), `ClarificationsEnd`, `LoadingEnds` |
| `boot` | Do containers that start together, crash, meet another provider or a rebuild come up right? | `ServingIsMigrated` (with `MigrationsInOrder`), `ServingAligned`; with a provider of the declared width an undisturbed container, or one that overtook it in the migrations, comes to serve, and on a migrated database each does (`DeclaredBootServes`) |
| `schema` | Can embeddings, fingerprint and drift report disagree? | `EmbedCures`, `InSyncIsEmbedded`, `RowsOfOneEmbed` |
| `panel` | Can late answers, timers and overlapping verdicts leave the panel wrong at rest? | `SentOnce` (with `WindowIsOfStaged`), `SettledVerdictsAgree`, `SettledListIsOfScope`; a staged verdict ends (`StagedEnds`) |
| `health` | Is the health cache right under overlapping calls? | `CachedAnswerIsRecent`, `DegradedSaysWhy`; health is regained (`HealthIsRegained`) |
| `algorithms` | Do the algorithms do what they are for on every input of the set? | `GroundingVerdict`, `ChartIsTrue`, `GradeIsRight`, `ExplanationIsHonest`, `DescriptionsAreOwned`, each the conjunction of the named statements of its module; `CapIsLabelled`, `RequestsAreAnswered` |
| `boot_fresh` | violated: `FreshBootServes` | a fresh install on a 768-wide provider does not come to serve: the seeding script writes into `vector(1536)` before the lifespan would resize it, and `set -e` ends the container, at each start |
| `mcp_cached_rows` | violated: `QueryReturnsRows` | the MCP tool `query` answers from the cache with no rows and `row_count` 0; its description says it returns the rows |

Statements that together make one claim about one thing are conjuncts of one invariant,
with names of their own in the module: a counterexample shows which of them fails.
Every state machine's `TypeOK` is proved, as part of its inductive invariant (section 6);
`QueryRun`'s is checked in `thread` too. No run spends a property on the others.

A run that learned is always linked to its own example (`HistoryLinksLearnedExample`); a run
that learned nothing may be linked to another's (section 7). `LinksStayOnThread` bounds the
harm: the example is at worst one the same thread learned.

Where a property has an exception, the exception is a history variable that says what the
environment or a documented limit did (`overtaken`, `setback`, `crossed`, `late`, `mixed`,
`lost`, `behind`, `twice`, `missed`): the property says it is the *only* way.

## 4. Bounds

| Run | Values | Why they are enough |
|---|---|---|
| `thread` | `MaxAttempts = 1`, `MaxRuns = 2` | a checkpoint is inherited by the next run, so two runs show every inheritance; one correction separates corrected from clean |
| `loop` | `MaxAttempts = 3`, `MaxRuns = 1` | the default of `config.py`; the three failure edges can occur in every order |
| `corpus` | 2 threads, 1 seeder, 1 question, 1 SQL, 2 runs, 3 ids, 1 rebuild | two rows of one question make a duplicate; rows before, during and after the snapshot, and a burnt id; one rebuild can already undo a reject and give out an id again |
| `cache` | 2 runs, 2 evictions, 1 question, 2 targets, cap 1, age 0 days, 3 ids, days 0 and 1, 1 switch; at most three of the runs, the evictions and the script under way at a time (`ThreeAtWork`, a constraint) | one entry under the cap, one over, one stored meanwhile; entries expired and not. Two runs and an eviction, two evictions and a run, or the script beside a run and an eviction can meet at every pair of statements; the theorems need neither bound. Two evictions that overlap can go below the cap; no property forbids that |
| `page` | 1 question, 3 calls, 1 run adrift | a question, its clarification and the second round, or a re-run between; texts other than the question (a reply, the re-run marker) are told apart anyway; what is typed after the last call could not be asked and is left out |
| `boot`, `boot_fresh` | 2 containers, widths 768 and 1536, 3 migrations, 1 crash or failure, 2 switches or rebuilds | two runners can meet at each version; one trouble at each place; a switch away and back, or a switch and its rebuild |
| `schema` | 2 tables, 2 columns, 2 manifests and an unusable one, 2 embedders and embeds, 1 change of the target, 2 of the file | two embeds that overlap or follow; a change between any two reads; a manifest that changes and changes back |
| `panel` | 3 rows, pages of 1, 2 sessions, 4 lists, verdicts or notes | the page can move, empty and be pulled back; two posts in flight, a re-review of a row while its first verdict is on its way |
| `health` | 2 callers, TTL of 2 ticks | overlap needs two; with two ticks an age can be below, at and past the TTL |
| `algorithms` | see `MCAlgorithms`; limits scaled down (preview 2, rows drawn 3, slices 3, series 2, columns 3, cap 2) | each limit has inputs below, at and above it (results of 4 rows are more than is drawn); queries have up to two sources and one inner SELECT; drafts of 3 tokens, batches of 3 items, files of 3 entries |

`CHECK_DEADLOCK FALSE` is set in `corpus`, `boot`, `schema` and `panel`, where a behaviour may
end when the bounds are used up (ids, troubles and switches, changes and embeds, acts), and
in `algorithms`, where it ends with the input. Everywhere else deadlock is checked.

The symmetry sets of `MCFewshotCorpus` (threads, questions, SQL texts) and
`MCQueryCache` (run and eviction slots) and `MCSchemaStore` (embedders, manifests) are of
constants the modules never distinguish; no run with symmetry checks a liveness property.

## 5. Fairness

`RunsTerminate` assumes `WF(GraphStep \/ Abort)`: a node that has begun ends or raises.
Every node is awaited by the service; provider calls have bounded retries, statements
on the target a `statement_timeout`. Nothing is assumed about which of the two
happens, nor about what the model returns.

`LoadingEnds` assumes one weak fairness condition, of `CallStep`: while a call is in
flight, one of the steps it waits for eventually happens - the request reaches the
server (`Accept`), the run behind it ends (this is `RunsTerminate`), what was answered
arrives (`Arrival`), or the watchdog fires over a *silent* stream (`WatchdogFires`).
`StreamLost` and `ConnectionLost` may come instead at any time, a failure to connect among
them, and are not assumed. That the run ends is assumed of runs behind a stream too. The watchdog
is no help against them: a run that hung behind a live server would keep the page loading, since
the server's pings keep the stream from being silent. A blocking call has no watchdog; its
connection is assumed to be answered or to break.

`StagedEnds` assumes that the browser fires a timer that is not cleared (`WF(WindowEnds)`);
nothing of the server or the user.

`DeclaredBootServes` and `FreshBootServes` assume `WF(Boots(c))`, the steps of a container that
is up: each of its statements and calls ends, or fails (the one trouble of the bound, which may
strike anywhere). That a container is started, or started again, is not assumed: the api service
of `docker-compose.yml` has no `restart:`, so `Up` is the operator's, at will. The property
therefore says of a container that begins to migrate that it, or one that got ahead of it in the
migrations, comes to serve, unless a trouble strikes.

`HealthIsRegained` assumes that time passes, that an interrupted handler is resumed, and that
the page polls (`WF` of `Tick`, `Handler` and `CheckDb`); the probes have time-outs.

## 6. Proofs

Every safety property that a passing run checks is also a theorem, for every value of the
constants: any number of runs, threads, containers, tables, callers, any limit, any set of
inputs, and any bound. Every machine has its inductive invariant, proved by `Init => Inv`,
`Inv /\ [Next]_vars => Inv'` with a lemma per action (or per kind of action), and each
property follows from it. Each invariant was checked by TLC on the values of its run before
it was proved.

| Module | Invariant | Theorems, and the property each states |
|---|---|---|
| `QueryRunProofs` | `RunInvariant`: `RunInv`; `ReportInvariant`: `ReportInv` | `TypeCorrect`: `TypeOK`; `SqlIsVerified`: `ExecutesVerifiedSql`; `AnswersMatchSql`: `AnswerIsOfShownSql`; `BudgetIsSpent`: `BudgetSpentBeforeGivingUp`; `StoresAreGood`: `StoresHoldGoodAnswers`; `HighIsClean`: `FreshHighIsClean`; `HistoryNamesLearned`: `HistoryLinksLearnedExample`; `DiagnosisIsSound`: `DiagnosisOfParsedSql`; `Refinement`: `ImplementsContract` |
| `CorpusProofs` | `CorpusInvariant`: `CorpusInv` | `IdsStaySound`: `IdsAreSound`; `RejectsAreWhole`: `RejectDisables`; `OnlyRacesDuplicate`: `DuplicatesOnlyFromRaces`; `FeedbackStaysOnThread`: `LinksStayOnThread` |
| `CacheProofs` | `CacheInvariant`: `CacheInv` | `CapIsMet`: `CapMetAfterEviction`; `OnlyOldApisAreStale`: `StaleOnlyFromOldApi`; `EvictionIsByAge`: `EvictsLeastRecent` |
| `ConversationProofs` | `PageInvariant`: `PageInv` | `OneReplyPerPage`: `PageIsOfOneReply`; `CapOnClarifications`: `ClarificationsEnd` |
| `PanelProofs` | `PanelInvariant`: `PanelInv` | `VerdictsSentOnce`: `SentOnce`; `VerdictsAgree`: `SettledVerdictsAgree`; `ListIsOfScope`: `SettledListIsOfScope` |
| `BootProofs` | `BootInvariant`: `BootInv` | `MigratedWhenServing`: `ServingIsMigrated`; `AlignedWhenServing`: `ServingAligned` |
| `SchemaProofs` | `StoreInvariant`: `StoreInv` | `EmbedsCure`: `EmbedCures`; `InSyncIsTrue`: `InSyncIsEmbedded`; `OneEmbedPerTable`: `RowsOfOneEmbed` |
| `AlgorithmProofs` | `HealthInvariant`: `HealthInv` | `CachedIsRecent`: `CachedAnswerIsRecent`; `DegradedIsExplained`: `DegradedSaysWhy` |
| | (the input drawn is of its set) | `CapsAreLabelled`: `CapIsLabelled`; `GroundingIsRight`: `GroundingVerdict`; `ExplanationsAreHonest`: `ExplanationIsHonest`; `BatchesAreAnswered`: `RequestsAreAnswered`; `CatalogsAreOwned`: `DescriptionsAreOwned`; `ChartsAreTrue`: `ChartIsTrue`; `GradesAreRight`: `GradeIsRight` |

**Why the properties need more than themselves.**

- *Graph.* That the rows shown are of the SQL shown needs that `self_correct`, which
  replaces the text, is reached only while no execution has succeeded; that needs the quality
  to be reset with the execution; and that needs to know what each node may find. `RunInv`
  says it by place: before the first text nothing has run (`NothingRunYet`); in the loop there
  are only failures so far (`OnlyFailuresYet`), and after a check that check is of the text at
  hand (`CurrentTextParsed`, `CurrentTextGrounded`); after the loop quality and execution agree
  (`GoodMeansRows`, `ChartsFollowRows`), a hit has run nothing (`HitsRunNothing`), and a verdict
  bears its run's number (`VerdictIsOfItsRun`), which keeps an inherited verdict apart from a
  fresh one. `ReportInv` adds what a run says of itself: its text is its own (`TextIsOfRun`), a
  correction starts from a failure of that text (`FailureIsOfText`), and the example it learned
  is on its way to its history row (`LearnedIsNamed`), whatever id the checkpoint carries.
- *Refinement.* The initial states map to the contract's, and every step maps to a step of the
  contract or to a stutter. The steps that answer need `RunInv`: what the contract calls the
  text that ran is the node's text only because that text was verified and no later text
  replaced it.
- *Corpus.* A duplicate is a matter of two transactions: `Checked` says that what a writer did
  not see when it looked is newer than what it saw, `Learned` that the ids it holds, in its
  locals and in its checkpoint, are of its own rows, both until a rebuild overtakes it. A
  rebuild that fails may set the sequence back under rows that stay: `setback` is a case of
  `overtaken` (`SetbackNoted`), and an INSERT takes place only under an id that is free.
- *Cache.* Three facts about each eviction. What it has deleted but not committed is still in the
  table, and no other transaction has written it (`Holds`). What its LRU DELETE chose was used no
  later than what it left, except for entries crossed since (`Chosen`): a choice is made from rows
  as committed, and only a COMMIT changes those, of a hit or a store, which `crossed` notes. And
  the number it leaves at each statement is bounded by the cap and what came since (`Counts`).
  New ids are above those in use (`OfThePast`); `FlushInv` is the switch's part.
- *Page.* A call may send a question twice, in two sessions. `CallMatches` says that every
  request with the call's number sends what the call sends, `CallInv` that the page the call
  left behind still agrees with it when a reply comes, whichever request it answers.
- *Panel.* `Window` and `Gestures` tie the staged verdict to the one timer that is open and
  number the gestures. `Shown` says that a row that differs from the server's has a post on its
  way that recorded it. `LastAsked` needs a counting lemma (`EveryRank`): ranks by age run
  from 0 without a gap, so a page that comes back empty lies past the last one, whatever the
  page size.
- *Boot.* The migrations are applied in order by several runners at once because what
  each has read or applied is a prefix of what is applied (`DoneIsPrefix`). `MigratedFirst`
  explains why a lifespan may go on after failing to migrate: the entrypoint has been there.
- *Schema.* A process that nothing has disturbed knows the target from what it read
  (`Alone`), and one that was disturbed is told apart by the number of its embed (`Own`).
- *Health.* Two handlers may refresh the cache in either order; `CacheSays` keeps what the
  cache reports no older than the cache says it is.

**The algorithms** keep no state, so their invariant is only that the input is of its set;
each theorem is a lemma about every well-formed input, of any size.

- *Capped replies.* Cases on the surface: each fetches one row more than it returns, or up
  to the cap.
- *Grounding* (`ValidIsNotFlagged`, `PlainErrorsAreFlagged`). What Postgres resolves by scope is
  among what the code knows of the whole statement, since the sources of a scope are among
  all sources; and a name of no real table, or a column that no known table has, has nothing
  in that larger set to hide behind.
- *Explanations* (`PassedSaysNothingFalse`, `GoodDraftPasses`). The draft published passed the
  checks, or is the plain rendering, whose tokens are the count and cells of the result; a
  draft with nothing to object to passes, whatever the second one is.
- *Batches* (`InOrderListsAll`). The responses, taken in the order of the items that need one, list
  each such item once: an ascending enumeration of a finite set of positions.
- *Descriptions* (`MatchIsLast`, `FirstIsKept`). The code overwrites, so the last model with a key
  wins; it skips a metric it has, so the first is kept. Both are the greatest or the least
  member of a set of positions, which well-foundedness gives (`LeastMember`, `GreatestMember`).
- *Charts* (`PieShowsAll`, `SeriesAreSplit`, `PreviewIsEnough`). As many different labels as the
  result has rows among the rows shown leave no row unshown and no label twice, by counting.
  The axis and the series of a grouped bar are the two ends of one order, so they differ.
  A preview that holds the result whole shows the same rows.
- *The grader.* To be equal as multisets is to be equal up to a permutation of the positions
  (`MovedIsCountedTheSame`, `CountedTheSameIsMoved`); a match of columns is a choice of different
  positions. So a verdict is a pair of moves, of rows and of columns, and a change of
  presentation is composed with it and with its inverse (`RowOrderIsFree`,
  `ColumnOrderIsFree`).

**Assumptions.** Bounds and limits are natural numbers; `MaxRuns` (of the graph), `TTL`, `LastVersion`,
`PAGE_SIZE`, the panel's `MaxRows` and `MaxActs`, and the vectors' widths are positive. `Thread`
and `Seeder` are disjoint; the widths declared and first configured are among `Dim`, the first
target among `Target`, `Described` among the tables. `Question` (of the cache) and `Column` are
not empty, and `NoManifest` is no manifest. Nothing else is assumed: sets may be infinite.

`FreshHighIsClean` speaks of a positive correction budget: with `max_correction_attempts = 0` a first
text that fails goes straight to the explanation with no signal raised, and may be rated
HIGH. `config.py` sets no lower bound.

**What stays with TLC.** The liveness properties (`RunsTerminate`, `LoadingEnds`,
`StagedEnds`, `DeclaredBootServes`, `HealthIsRegained`), since fairness and ENABLED are out of
the prover's reach. The two violated properties are counterexamples. Induction over data is
out of its reach as well: the loops of the algorithms are therefore written as what they
select (the last of a key, the positions in order, a count of positions) and not as folds.

## 7. Observations without a run

Seen while modelling; those of a module's steps can be replayed from it, the rest lie
outside the models.

The graph and its thread:
- `run_query`'s input omits `fewshot_example_id` (`query_service.py:103`): the row of a run that
  learned nothing names the example an earlier run of the session learned, and rejecting it
  disables that example. `state.py:113` says the id is "Absent for runs that learned nothing".
- A refused or cached run returns the `guardrail_preview` of an earlier run, likewise.
- The cache write tests only the quality (`explain_result.py:228`): a corrected run, or one
  whose grounding failed open, is cached, and its hit is rated as "a previously clean, GOOD
  first-pass result" (`explain_result.py:113-114`).
- `execution_result` is not cleared when a correction does not parse (`self_correct.py:59`): the
  next prompt pairs that text with the execution error of the text before it.

The corpus:
- A saved query's re-run stores its pair again without a link (`saved_queries.py:141`), so
  rejecting the row demotes nothing; `api/history.py:10-11` says rejected SQL is never
  re-served.
- After a rebuild from a snapshot older than a reject the example is back, enabled. The
  sequence is set to the largest id re-inserted, so ids of rows learned after the snapshot
  are given out again and a link may reach another thread's example.
- PostgreSQL does not roll `setval` back. When the foreign keys cannot be restored after it
  (`reembed_stores.py:119-130`: a row was learned and linked during the embedding), the rows stay
  and the sequence is behind them: each INSERT collides with the primary key, is logged and burns
  an id, until the sequence has caught up or a rebuild commits.

The cache:
- An API still serving the old target stores entries after the script's flush; they
  stay until they age out. `StaleOnlyFromOldApi` says it is the only way.
- An entry just used can be evicted while an older one stays: its hit's UPDATE
  (`query_cache.py:53-59`) is not committed when the LRU DELETE chooses (lines 127-135); the DELETE
  waits, and then asks only whether the id is among those it chose. Lines 102-103 say "drop the
  oldest-accessed rows until the cap is met".

The page:
- A run that hangs behind a live server keeps the page loading: each ping of the stream rearms the
  watchdog (`api.ts:575`), and the fallback has no timeout. `api.ts:511` says "It never hangs".
- The savable draft's question is the ask box's current text, its SQL that of the shown
  answer (`page.tsx:194`).
- `runSqlFromHistory` drops the clarification thread before its call (`page.tsx:258`); when the
  call fails the question on screen can no longer be answered.
- `runFromPanel` during a call clears the manual note although nothing is sent.
- The history row of a follow-up keeps the user's bare reply as its question.

The history panel: the row of a clarification's run is missing until the next list
(`missed`). A staged verdict is sent also when its row has left the page, and its Undo is
only on the row. A list answer for an older scope may replace a newer one, and pull the page
of the newer scope back; `SettledListIsOfScope` therefore speaks of the last list asked for.

`/health`: "checked at most once every TTL" (`main.py:683`) is not so of overlapping calls, and
a probe that began earlier and ends later overwrites the newer verdict.

Containers and stores: of two containers that race for the migrations of a new database the
loser's tracking row meets the primary key, `set -e` ends it, and it stays down until the operator
starts it. `ServingAligned` excepts stores that processes of another width have
been at (`mixed`): nothing keeps an API from storing beside one of another provider.

Schema embeddings:
- An embed that finds no readable manifest writes rows without its descriptions and leaves the
  older fingerprint; when the old file is back, drift reports nothing.
- The fingerprint is of the file's bytes. A manifest that does not parse is reported as
  changed, and the recommended re-embed does not cure it.
- Two re-embeds that overlap while the target changes may leave rows of both.
- The grounding check reads the schema once per process (`verify_grounding.py:41`): after a
  change of the target it flags new columns, or passes old ones, until the API restarts.
- `DbtMergeStats.models_unmatched` is never set; a metric that declares `public.plans` enriches no
  table; `append_metric_vocabulary` has no caller.

The algorithms:
- Grounding ignores a qualified column whose name is an alias. Outside its model, it flags
  views, partitioned tables, LATERAL or VALUES aliases, set-returning functions in FROM,
  whole-row references and system columns, which the schema view or the rule does not know.
- A composition of six or more rows is a pie when fresh and a bar from the cache's preview.
- "The first 1,000 rows" is read as a cited figure. A figure is taken for the user's when its
  digits occur anywhere in the question. The plain rendering may itself read as a count or
  as a claim when a cell's text does.
- MCP: `ping`, `tools/list` and `initialize` without an id are answered under `null`, `initialized`
  with an id is not answered, and a batch of notifications is answered `[]`
  (`mcp_server.py:13, 229-230`). The tool `query` calls a result of exactly the cap capped;
  `run_sql` and the exports do not.

## 8. What is left out

- Inside the modelled parts. LLM output, embeddings, SQL parsing: classes of texts and
  questions. Explanation wording and the rendering of charts. The page's chart override,
  in-place SQL editor and live view. Two overlapping runs of one checkpoint thread (possible
  after a lost stream), whose merge is the checkpointer library's. The MCP stdio loop and
  session bootstrap. The formats of an export. Values normalised by the grader. Views,
  LATERAL and deeper nesting in grounding.
- Whole parts. Analytics and listings only read. Authentication, error envelopes and
  request guards filter requests and keep nothing. Configuration, logging and connections
  are wiring. The terminal client keeps its clarification exchange in one function's locals.
  The benchmark runner, its gold data and the scripts that build sample targets are outside
  the service.
- Hazards of `PROJECT.json` without a property: the overlapping runs above; the savable draft,
  which the code does not guard; the schema view of the grounding check, which the code never
  refreshes.

## 9. Plan

Modelled, checked and proved: the graph and its contract, the corpus, the cache, the page,
the history panel, containers, schema embeddings, the health cache, the algorithms. What is
left:

1. More action properties of what is proved: an `AnswerContract` that also counts the history
   rows; steps of the panel that may not move a settled row.
2. Models still worth writing: the MCP stdio loop with sessions, the terminal client.
