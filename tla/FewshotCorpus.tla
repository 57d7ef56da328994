----------------------------- MODULE FewshotCorpus -----------------------------
(***************************************************************************)
(* The few-shot corpus of the state database and everything that writes    *)
(* it: graph runs that learn (nodes/explain_result.py), re-runs of saved    *)
(* queries (api/saved_queries.py), the startup seeding                      *)
(* (db/fewshot_seeding.py, semantic/seeding.py), explicit feedback          *)
(* (db/feedback_store.py) and `nixus reembed-stores'                        *)
(* (db/reembed_stores.py).                                                  *)
(*                                                                         *)
(* Every database transaction is one step, and what happens between two     *)
(* transactions of one caller - a duplicate check and its INSERT, an        *)
(* INSERT and the history row that links it, a snapshot and the rebuild     *)
(* made from it - is open to the steps of every other caller.               *)
(*                                                                         *)
(* Questions stand for classes of questions whose embeddings are within     *)
(* the duplicate threshold of each other.                                   *)
(***************************************************************************)
EXTENDS Integers, FiniteSets, FiniteSetsExt

CONSTANTS
  Thread,      \* session threads, each making one run after another
  Seeder,      \* API processes seeding at startup
  Question,    \* classes of near-identical questions
  Query,       \* SQL texts
  MaxRuns,     \* bound: runs started, on all threads together
  MaxIds,      \* bound: ids drawn from the sequence
  MaxRebuilds  \* bound: runs of reembed-stores

ASSUME BoundsAssumption ==
  MaxRuns \in Nat /\ MaxIds \in Nat /\ MaxRebuilds \in Nat
ASSUME WritersAssumption == Thread \cap Seeder = {}

VARIABLES
  fewshot_examples,  \* table: id -> row
  seq,               \* last value of the table's id sequence
  query_history,     \* table: one row per recorded run
  runs,              \* number of runs started
  writer,            \* what each thread and seeder is doing
  rebuild,           \* what reembed-stores is doing
  rebuilds,          \* number of rebuilds started
  setback,           \* history: the last rebuild failed with the sequence set back
  overtaken          \* history: a rebuild set the corpus, or its sequence, back

vars == <<fewshot_examples, seq, query_history, runs, writer, rebuild, rebuilds,
          setback, overtaken>>

-----------------------------------------------------------------------------
Writer == Thread \cup Seeder
Id == 1..MaxIds
NoQuery == [question |-> "none", sql |-> "none"]
Pair == [question : Question, sql : Query]

\* `owner', `run' and `sawUpTo' are history variables: who inserted the row,
\* in which run (0 for a seed), and the last id its duplicate check could see.
Row == [pair : Pair, owner : Writer, run : 0..MaxRuns, sawUpTo : 0..MaxIds,
        disabled : BOOLEAN]

Verdict == {"none", "accept", "reject"}
HistoryRow == [run : 1..MaxRuns, owner : Thread, pair : Pair, link : SUBSET Id,
               verdict : Verdict]

\* A writer at work: pc; the pair it may store; its run; the last id its
\* duplicate check saw; the id it got; the id in its checkpoint
\* (fewshot_example_id survives a run); the questions a seeding pass has
\* still to go through.
WriterState == [pc : {"idle", "check", "insert", "return", "record", "recheck",
                      "reinsert"},
                pair : Pair \cup {NoQuery}, run : 0..MaxRuns,
                sawUpTo : 0..MaxIds, minted : SUBSET Id, link : SUBSET Id,
                todo : SUBSET Question]

Rebuild == {"idle", "embedding"}

Live(question) ==
  {i \in DOMAIN fewshot_examples :
     fewshot_examples[i].pair.question = question /\ ~fewshot_examples[i].disabled}

RowsOf(question) ==
  {i \in DOMAIN fewshot_examples : fewshot_examples[i].pair.question = question}

\* _is_duplicate: a live near-identical row exists.
DuplicateOfLearned(question) ==
  \E i \in Live(question) : fewshot_examples[i].owner \in Thread
is_duplicate(question) == Live(question) # {}

\* setval(MAX(id)), skipped when no row was re-inserted.
SetvalCount(ids) == IF ids = {} THEN seq ELSE Cardinality(ids)
Setval(ids) == IF ids = {} THEN seq ELSE Max(ids)

\* The FOREIGN KEY of query_history.fewshot_example_id, for a table of `ids'.
ReferencesHold(ids) == \A h \in query_history : h.link \subseteq ids

-----------------------------------------------------------------------------
Idle == [pc |-> "idle", pair |-> NoQuery, run |-> 0, sawUpTo |-> 0,
         minted |-> {}, link |-> {}, todo |-> {}]

NoRows == [i \in {} |-> NoQuery]
NoRebuild == [pc |-> "idle", rows |-> NoRows]

Init ==
  /\ fewshot_examples = NoRows /\ seq = 0 /\ query_history = {}
  /\ runs = 0 /\ writer = [w \in Writer |-> Idle]
  /\ rebuild = NoRebuild /\ rebuilds = 0
  /\ setback = FALSE /\ overtaken = FALSE

\* A writer that goes on to `to', its locals dropped when it is done.
MoveOn(w, to) ==
  IF to = "idle" THEN [Idle EXCEPT !.link = writer[w].link, !.todo = writer[w].todo]
                 ELSE [writer[w] EXCEPT !.pc = to]

\* A run that comes to the learn step with its question and its SQL.
StartRun(t) ==
  /\ writer[t].pc = "idle" /\ runs < MaxRuns
  /\ runs' = runs + 1
  /\ \E p \in Pair :
       writer' = [writer EXCEPT ![t] = [@ EXCEPT !.pc = "check", !.pair = p, !.run = runs']]
  /\ UNCHANGED <<fewshot_examples, seq, query_history, rebuild, rebuilds, setback, overtaken>>

\* A seeding pass reads the questions present, disabled rows included - or
\* fails to, and attempts every item.
StartSeeding(s) ==
  /\ writer[s].pc = "idle" /\ writer[s].todo = {}
  /\ \E existing \in {{q \in Question : RowsOf(q) # {}}, {}} :
       writer' = [writer EXCEPT ![s].todo = Question \ existing]
  /\ UNCHANGED <<fewshot_examples, seq, query_history, runs, rebuild, rebuilds, setback,
                 overtaken>>

SeedItem(s) ==
  /\ writer[s].pc = "idle"
  /\ \E q \in writer[s].todo, sql \in Query :
       writer' = [writer EXCEPT
         ![s] = [@ EXCEPT !.pc = "check", !.pair = [question |-> q, sql |-> sql],
                          !.todo = writer[s].todo \ {q}]]
  /\ UNCHANGED <<fewshot_examples, seq, query_history, runs, rebuild, rebuilds, setback,
                 overtaken>>

\* Where store_fewshot_example returns to.
ReturnTo(w) ==
  IF w \in Thread /\ writer[w].pc \in {"check", "insert"} THEN "return" ELSE "idle"

CheckDuplicateNamesTwin(w) ==
  /\ writer[w].pc \in {"check", "recheck"}
  /\ LET twins == Live(writer[w].pair.question)
         to == IF writer[w].pc = "check" THEN "insert" ELSE "reinsert"
     IN  writer' = [writer EXCEPT ![w] =
           IF twins = {} THEN [@ EXCEPT !.pc = to, !.sawUpTo = seq]
           ELSE [@ EXCEPT !.pc = ReturnTo(w), !.minted = {Min(twins)}]]
  /\ UNCHANGED <<fewshot_examples, seq, query_history, runs, rebuild, rebuilds, setback,
                 overtaken>>

\* store_fewshot_example up to its INSERT: embed, then the duplicate check in
\* a connection of its own.  A run that may not learn (corrected, not GOOD)
\* skips the call, and an embedding failure leaves it.
CheckDuplicate(w) ==
  /\ writer[w].pc \in {"check", "recheck"}
  /\ LET to == IF writer[w].pc = "check" THEN "insert" ELSE "reinsert"
     IN  \/ writer' = [writer EXCEPT ![w] = MoveOn(w, ReturnTo(w))]
         \/ /\ ~is_duplicate(writer[w].pair.question)
            /\ writer' = [writer EXCEPT ![w] = [@ EXCEPT !.pc = to, !.sawUpTo = seq]]
  /\ UNCHANGED <<fewshot_examples, seq, query_history, runs, rebuild, rebuilds, setback,
                 overtaken>>

\* The INSERT, in a transaction of its own, if the id it draws is free.
\* RETURNING id reaches the run only from explain_result; the saved-query
\* endpoint keeps no link.
Insert(w) ==
  /\ writer[w].pc \in {"insert", "reinsert"} /\ seq < MaxIds
  /\ LET id == seq + 1
         row == [pair |-> writer[w].pair, owner |-> w, run |-> writer[w].run,
                 sawUpTo |-> writer[w].sawUpTo, disabled |-> FALSE]
     IN  /\ id \notin DOMAIN fewshot_examples
         /\ seq' = id
         /\ fewshot_examples' = [i \in DOMAIN fewshot_examples \cup {id} |->
                                   IF i = id THEN row ELSE fewshot_examples[i]]
         /\ writer' = [writer EXCEPT ![w] =
              IF ReturnTo(w) = "idle" THEN MoveOn(w, "idle")
              ELSE [@ EXCEPT !.pc = "return", !.minted = {id}, !.sawUpTo = 0]]
  /\ UNCHANGED <<query_history, runs, rebuild, rebuilds, setback, overtaken>>

\* The INSERT fails, possibly after nextval and the collision of the id it
\* drew with one in use: the id is burnt.
InsertFails(w) ==
  /\ writer[w].pc \in {"insert", "reinsert"} /\ seq < MaxIds
  /\ seq' \in {seq, seq + 1}
  /\ writer' = [writer EXCEPT ![w] = [MoveOn(w, ReturnTo(w)) EXCEPT !.sawUpTo = 0]]
  /\ UNCHANGED <<fewshot_examples, query_history, runs, rebuild, rebuilds, setback, overtaken>>

\* explain_result returns: the id is stamped over the one of an earlier run.
ReturnFromNode(t) ==
  /\ writer[t].pc = "return"
  /\ writer' = [writer EXCEPT
       ![t] = [@ EXCEPT !.pc = "record",
                        !.link = IF writer[t].minted = {} THEN writer[t].link ELSE writer[t].minted]]
  /\ UNCHANGED <<fewshot_examples, seq, query_history, runs, rebuild, rebuilds, setback,
                 overtaken>>

\* record_history_safely: the row is written if the foreign key holds, or the
\* failure is logged.  If the run was a saved query's and executed, its
\* endpoint then offers the pair once more, corrected or not.
RecordHistory(t) ==
  /\ writer[t].pc = "record"
  /\ \/ /\ writer[t].link \subseteq DOMAIN fewshot_examples
        /\ query_history' = query_history \cup
             {[run |-> writer[t].run, owner |-> t, pair |-> writer[t].pair,
               link |-> writer[t].link, verdict |-> "none"]}
     \/ UNCHANGED query_history
  /\ \E to \in {"idle", "recheck"} :
       writer' = [writer EXCEPT ![t] = [MoveOn(t, to) EXCEPT !.minted = {}]]
  /\ UNCHANGED <<fewshot_examples, seq, runs, rebuild, rebuilds, setback, overtaken>>

\* The caller dies, is cancelled or raises.  A thread keeps its checkpoint;
\* a process that seeds again starts a new pass.
Crash(w) ==
  /\ writer[w].pc # "idle" \/ writer[w].todo # {}
  /\ writer' = [writer EXCEPT ![w] = [Idle EXCEPT !.link = writer[w].link]]
  /\ UNCHANGED <<fewshot_examples, seq, query_history, runs, rebuild, rebuilds, setback,
                 overtaken>>

FeedbackHalfApplied(h, verdict) ==
  /\ h \in query_history
  /\ query_history' = (query_history \ {h}) \cup {[h EXCEPT !.verdict = verdict]}
  /\ UNCHANGED <<fewshot_examples, seq, runs, writer, rebuild, rebuilds, setback, overtaken>>

\* record_feedback: the verdict and, on a reject, the tombstone of the linked
\* row, in one transaction.
Feedback(h, verdict) ==
  /\ h \in query_history
  /\ query_history' = (query_history \ {h}) \cup {[h EXCEPT !.verdict = verdict]}
  /\ fewshot_examples' = [i \in DOMAIN fewshot_examples |->
       IF verdict = "reject" /\ i \in h.link
       THEN [fewshot_examples[i] EXCEPT !.disabled = TRUE]
       ELSE fewshot_examples[i]]
  /\ UNCHANGED <<seq, runs, writer, rebuild, rebuilds, setback, overtaken>>

\* reembed-stores reads every row and embeds the texts with no lock held.
RebuildSnapshot ==
  /\ rebuild.pc = "idle" /\ rebuilds < MaxRebuilds
  /\ rebuild' = [pc |-> "embedding", rows |-> fewshot_examples]
  /\ rebuilds' = rebuilds + 1
  /\ UNCHANGED <<fewshot_examples, seq, query_history, runs, writer, setback, overtaken>>

\* One transaction: drop the foreign keys, TRUNCATE, re-insert the snapshot,
\* setval, restore the foreign keys, if they still hold.
RebuildCommit ==
  /\ rebuild.pc = "embedding"
  /\ ReferencesHold(DOMAIN rebuild.rows)
  /\ fewshot_examples' = rebuild.rows
  /\ seq' = Setval(DOMAIN rebuild.rows)
  /\ rebuild' = NoRebuild
  /\ setback' = FALSE
  /\ overtaken' = (overtaken \/ rebuild.rows # fewshot_examples \/ seq' # seq)
  /\ UNCHANGED <<query_history, runs, writer, rebuilds>>

\* The rebuild fails: the embedding, or a statement of the transaction, the
\* last of them the foreign keys over a row learned and linked meanwhile.
\* The tables roll back; a sequence that setval has set does not.
RebuildFails ==
  /\ rebuild.pc = "embedding"
  /\ seq' \in {seq, Setval(DOMAIN rebuild.rows)}
  /\ rebuild' = NoRebuild
  /\ setback' = (setback \/ seq' # seq)
  /\ overtaken' = (overtaken \/ seq' # seq)
  /\ UNCHANGED <<fewshot_examples, query_history, runs, writer, rebuilds>>

Next ==
  \/ \E t \in Thread : StartRun(t) \/ ReturnFromNode(t) \/ RecordHistory(t)
  \/ \E s \in Seeder : StartSeeding(s) \/ SeedItem(s)
  \/ \E w \in Writer : CheckDuplicate(w) \/ Insert(w) \/ InsertFails(w) \/ Crash(w)
  \/ \E h \in query_history, v \in {"accept", "reject"} : Feedback(h, v)
  \/ RebuildSnapshot \/ RebuildCommit \/ RebuildFails

Spec == Init /\ [][Next]_vars

-----------------------------------------------------------------------------
(* Properties. *)

(* Type invariant: the two tables, the sequence and the callers' locals are  *)
(* what the schema and the code say they are.                                *)
TypeOK ==
  /\ DOMAIN fewshot_examples \subseteq Id
  /\ fewshot_examples \in [DOMAIN fewshot_examples -> Row]
  /\ seq \in 0..MaxIds /\ query_history \subseteq HistoryRow
  /\ runs \in 0..MaxRuns /\ writer \in [Writer -> WriterState]
  /\ rebuild.pc \in Rebuild /\ DOMAIN rebuild.rows \subseteq Id
  /\ rebuild.rows \in [DOMAIN rebuild.rows -> Row]
  /\ rebuilds \in 0..MaxRebuilds /\ setback \in BOOLEAN /\ overtaken \in BOOLEAN

(* No history row ever names an example that is not in the table, also       *)
(* across a rebuild that loses rows learned while it was embedding           *)
(* (reembed_stores: the foreign keys are restored in the same transaction,   *)
(* so the rebuild fails rather than dangle).  And the sequence is behind an  *)
(* id in use, so that INSERTs will collide, for one reason only: the last    *)
(* rebuild failed after its setval, which no rollback undoes.  Failed        *)
(* INSERTs, lost rows and rebuilds that commit leave it at or beyond every   *)
(* id, and a rebuild that commits repairs it.                                *)
NoDanglingLink == \A h \in query_history : h.link \subseteq DOMAIN fewshot_examples
SequenceAheadOfIds == ~setback => \A i \in DOMAIN fewshot_examples : i <= seq
IdsAreSound == NoDanglingLink /\ SequenceAheadOfIds

(* A reject is never half-applied: a history row whose verdict is `reject'   *)
(* has its example disabled, whatever else was learned, accepted or rejected *)
(* since (feedback_store: one transaction) - until a rebuild made from rows  *)
(* read before puts the example back.                                        *)
RejectDisables ==
  ~overtaken => \A h \in query_history : h.verdict = "reject" =>
    \A i \in h.link : fewshot_examples[i].disabled

(* Two live near-identical examples exist only if the duplicate check of the *)
(* later one ran before the earlier one was inserted: outside that window    *)
(* the check lets no duplicate in (fewshot_store: _is_duplicate, INSERT),    *)
(* unless a rebuild has undone a reject, or given an id out again.           *)
DuplicatesOnlyFromRaces ==
  ~overtaken => \A i, j \in DOMAIN fewshot_examples :
    i < j /\ {i, j} \subseteq Live(fewshot_examples[j].pair.question) =>
      fewshot_examples[j].sawUpTo < i

(* A reject reaches only examples that the rejected run's own thread         *)
(* learned: a stale link in the checkpoint is at worst that thread's, and    *)
(* seeds, which no run learned, cannot be demoted by feedback.  After a      *)
(* rebuild has lost a row its id is given out again, and the link of the     *)
(* thread that learned it reaches another's.                                 *)
LinksStayOnThread ==
  ~overtaken =>
    \A h \in query_history : \A i \in h.link : fewshot_examples[i].owner = h.owner

=============================================================================
