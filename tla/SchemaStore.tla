----------------------------- MODULE SchemaStore -----------------------------
(***************************************************************************)
(* What the model is told of the target's schema, and how it goes stale:   *)
(* the embeddings of introspected tables with the descriptions of a dbt    *)
(* manifest (schema/embed.py, dbt.py, db/schema_store.py), the fingerprint *)
(* of the manifest ingested (db/semantic_ingestion_store.py), and the      *)
(* report of drift made at the start of an API (schema/drift.py).          *)
(*                                                                         *)
(* The target's owner changes its tables and the manifest's author the     *)
(* file at any time.  A step is one read or one transaction; an            *)
(* introspection is several catalog queries, each with a snapshot of its   *)
(* own, of which the tables' and the columns' are kept apart.              *)
(***************************************************************************)
EXTENDS Integers, FiniteSets

CONSTANTS
  Table, Column,
  Described,    \* the tables every manifest has a non-empty description of
  Manifest,     \* contents of the manifest file that parse
  Embedder,     \* processes that embed: reembed, the boot, reembed-stores
  MaxAlters,    \* bound: changes of the target
  MaxEdits,     \* bound: changes of the file
  MaxEmbeds,    \* bound: embeds begun
  NoManifest    \* no manifest: missing, unreadable, or not one

ASSUME SchemaAssumption ==
  /\ Column # {} /\ Described \subseteq Table /\ NoManifest \notin Manifest
  /\ MaxAlters \in Nat /\ MaxEdits \in Nat /\ MaxEmbeds \in Nat

VARIABLES
  target,     \* the live schema: table -> columns
  file,       \* the manifest file: [readable, content]
  embedded,   \* schema_embeddings: table -> row
  ingested,   \* semantic_ingestions of the file's path: its content hash, or none
  embedder,   \* what each embedding process is doing
  checker,    \* the drift check of an API that starts
  settled,    \* the last rebuild of the rows was recorded before any other
  embeds, alters, edits   \* counters for the bounds

outside == <<target, file, alters, edits>>
store == <<embedded, ingested, settled, embeds>>
vars == <<outside, store, embedder, checker>>

-----------------------------------------------------------------------------
Source == Manifest \cup {NoManifest}       \* of a description; NoManifest: the catalog
Schema == UNION {[T -> SUBSET Column] : T \in SUBSET Table}
LiveSchema == UNION {[T -> (SUBSET Column) \ {{}}] : T \in SUBSET Table}
NoSchema == [t \in {} |-> {}]
\* `by' is the embed that wrote the row.
Row == [columns : SUBSET Column, source : Source, by : 1..MaxEmbeds]
Rows == UNION {[T -> Row] : T \in SUBSET Table}

EmbedderState ==
  [pc : {"idle", "loaded", "tables", "rendered", "deleted", "recording", "done"},
   manifest : Source, tables : SUBSET Table, schema : Schema,
   doomed : SUBSET (Table \X (1..MaxEmbeds)), by : 0..MaxEmbeds, quiet : BOOLEAN]
CheckerState ==
  [pc : {"idle", "tables", "live", "rows", "report"}, tables : SUBSET Table, live : Schema,
   stored : Schema, in_sync : BOOLEAN, quiet : BOOLEAN]

IdleEmbedder == [pc |-> "idle", manifest |-> NoManifest, tables |-> {}, schema |-> NoSchema,
                 doomed |-> {}, by |-> 0, quiet |-> FALSE]
IdleChecker == [pc |-> "idle", tables |-> {}, live |-> NoSchema, stored |-> NoSchema,
                in_sync |-> FALSE, quiet |-> FALSE]

TypeOK ==
  /\ target \in LiveSchema
  /\ file \in [readable : BOOLEAN, content : Source]
  /\ embedded \in Rows
  /\ ingested \in SUBSET Manifest /\ Cardinality(ingested) <= 1
  /\ embedder \in [Embedder -> EmbedderState]
  /\ checker \in CheckerState
  /\ settled \in BOOLEAN
  /\ embeds \in 0..MaxEmbeds /\ alters \in 0..MaxAlters /\ edits \in 0..MaxEdits

Init ==
  /\ target \in {NoSchema, [t \in Table |-> Column]}
  /\ file \in [readable : {TRUE}, content : Source]
  /\ embedded = NoSchema /\ ingested = {}
  /\ embedder = [e \in Embedder |-> IdleEmbedder]
  /\ checker = IdleChecker
  /\ settled = FALSE
  /\ embeds = 0 /\ alters = 0 /\ edits = 0

-----------------------------------------------------------------------------
(* The outside.                                                            *)
\* What is left of the others' claim to have been alone.
Disturbed(others) ==
  [e \in Embedder |->
     IF e \notin others THEN embedder[e]
     ELSE IF embedder[e].pc = "done" THEN IdleEmbedder
     ELSE [embedder[e] EXCEPT !.quiet = FALSE]]
CheckDisturbed ==
  checker' = IF checker.pc = "report" THEN IdleChecker ELSE [checker EXCEPT !.quiet = FALSE]

\* One table or one column comes or goes.
Altered(s) ==
  {n \in LiveSchema :
     \/ \E t \in Table \ DOMAIN s : \E c \in Column :
          n = [u \in DOMAIN s \cup {t} |-> IF u = t THEN {c} ELSE s[u]]
     \/ \E t \in DOMAIN s : n = [u \in DOMAIN s \ {t} |-> s[u]]
     \/ \E t \in DOMAIN s, c \in Column :
          n = [s EXCEPT ![t] = IF c \in @ THEN @ \ {c} ELSE @ \cup {c}]}

AlterTarget ==
  /\ alters < MaxAlters
  /\ target' \in Altered(target)
  /\ embedder' = Disturbed(Embedder)
  /\ CheckDisturbed
  /\ alters' = alters + 1
  /\ UNCHANGED <<file, edits, store>>

EditManifest ==
  /\ edits < MaxEdits
  /\ edits' = edits + 1
  /\ file' \in [readable : BOOLEAN, content : Source] \ {file}
  /\ embedder' = Disturbed(Embedder)
  /\ CheckDisturbed
  /\ UNCHANGED <<target, alters, store>>

-----------------------------------------------------------------------------
(* introspect_schema: columns are attached to the tables read before.      *)
Introspected(tables) ==
  [t \in tables |-> IF t \in DOMAIN target THEN target[t] ELSE {}]

(* embed_target_schema.                                                    *)
At(e, pc) == embedder[e].pc = pc

\* load_manifest: any problem with the file is logged, and there is none.
Loaded == IF file.readable THEN file.content ELSE NoManifest

\* load_semantic_sources; --skip-if-exists does not come here with rows present.
LoadSources(e) ==
  /\ At(e, "idle") \/ At(e, "done")
  /\ embeds < MaxEmbeds
  /\ embeds' = embeds + 1
  /\ embedder' = [embedder EXCEPT ![e] =
       [IdleEmbedder EXCEPT !.pc = "loaded", !.manifest = Loaded, !.by = embeds + 1,
                            !.quiet = TRUE]]
  /\ UNCHANGED <<outside, checker, embedded, ingested, settled>>

ReadTables(e) ==
  /\ At(e, "loaded")
  /\ embedder' = [embedder EXCEPT ![e].pc = "tables", ![e].tables = DOMAIN target]
  /\ UNCHANGED <<outside, checker, store>>

ReadColumns(e) ==
  /\ At(e, "tables")
  /\ embedder' = [embedder EXCEPT ![e].pc = "rendered", ![e].tables = {},
                                  ![e].schema = Introspected(embedder[e].tables)]
  /\ UNCHANGED <<outside, checker, store>>

\* apply_manifest_to_tables: a non-empty description of the manifest wins.
Rendered(e) ==
  [t \in DOMAIN embedder[e].schema |->
     [columns |-> embedder[e].schema[t], by |-> embedder[e].by,
      source |-> IF t \in Described THEN embedder[e].manifest ELSE NoManifest]]

\* replace_schema_embeddings deletes the rows its snapshot shows ...
DeleteRows(e) ==
  /\ At(e, "rendered")
  /\ embedder' = [embedder EXCEPT ![e].pc = "deleted",
                                  ![e].doomed = {<<t, embedded[t].by>> : t \in DOMAIN embedded}]
  /\ UNCHANGED <<outside, checker, store>>

\* ... and inserts the others in the same transaction, which a row that has been
\* committed meanwhile for one of the tables makes fail (table_name is unique).
Survivors(e) == {t \in DOMAIN embedded : <<t, embedded[t].by>> \notin embedder[e].doomed}

Replaced(e) ==
  [t \in Survivors(e) \cup DOMAIN Rendered(e) |->
     IF t \in DOMAIN Rendered(e) THEN Rendered(e)[t] ELSE embedded[t]]

\* The fingerprint is of a manifest, and is not recorded when no table was found.
Records(e) == embedder[e].manifest # NoManifest /\ DOMAIN embedder[e].schema # {}

\* Nothing is left to say of an embed that was disturbed.
Ended(e) ==
  IF embedder[e].quiet
  THEN [IdleEmbedder EXCEPT !.pc = "done", !.quiet = TRUE, !.manifest = embedder[e].manifest]
  ELSE IdleEmbedder

\* A rebuild row by row, each with its own upsert, that may stop anywhere.
InsertSome(e) ==
  /\ At(e, "deleted")
  /\ \E T \in SUBSET DOMAIN Rendered(e) :
       embedded' = [t \in DOMAIN embedded \cup T |->
                      IF t \in T THEN Rendered(e)[t] ELSE embedded[t]]
  /\ settled' = FALSE
  /\ embedder' = [embedder EXCEPT ![e] = IdleEmbedder]
  /\ UNCHANGED <<outside, checker, ingested, embeds>>

InsertRows(e) ==
  /\ At(e, "deleted")
  /\ IF Survivors(e) \cap DOMAIN Rendered(e) = {}
     THEN /\ embedded' = Replaced(e)
          /\ settled' = FALSE
          /\ embedder' = [Disturbed(Embedder \ {e}) EXCEPT ![e] =
               IF Records(e)
               THEN [embedder[e] EXCEPT !.pc = "recording", !.schema = NoSchema, !.doomed = {}]
               ELSE Ended(e)]
          /\ CheckDisturbed
     ELSE /\ embedder' = [embedder EXCEPT ![e] = IdleEmbedder]
          /\ UNCHANGED <<embedded, settled, checker>>
  /\ UNCHANGED <<outside, ingested, embeds>>

RecordedAs(e, hashes) ==
  /\ At(e, "recording")
  /\ ingested' = hashes
  /\ settled' = (\A t \in DOMAIN embedded : embedded[t].by = embedder[e].by)
  /\ embedder' = [Disturbed(Embedder \ {e}) EXCEPT ![e] = Ended(e)]
  /\ CheckDisturbed
  /\ UNCHANGED <<outside, embedded, embeds>>

\* Variants: an INSERT that leaves the row it finds; a fingerprint taken of the
\* file as it is now.
RecordOnce(e) == RecordedAs(e, IF ingested = {} THEN {embedder[e].manifest} ELSE ingested)
RecordCurrent(e) == RecordedAs(e, {file.content} \cap Manifest)

\* record_ingestion, an upsert that a hash already recorded makes a no-op.
RecordIngestion(e) == RecordedAs(e, {embedder[e].manifest})

\* Introspection or the provider fails, the process dies; a fingerprint that
\* could not be recorded is logged.
EmbedFails(e) ==
  /\ embedder[e].pc \notin {"idle", "done"}
  /\ embedder' = [embedder EXCEPT ![e] = IdleEmbedder]
  /\ UNCHANGED <<outside, checker, store>>

-----------------------------------------------------------------------------
(* detect_drift, at the start of an API.                                   *)
StartApi ==
  /\ checker.pc \in {"idle", "report"}
  /\ checker' = [IdleChecker EXCEPT !.pc = "tables", !.tables = DOMAIN target, !.quiet = TRUE]
  /\ UNCHANGED <<outside, store, embedder>>

CheckLive ==
  /\ checker.pc = "tables"
  /\ checker' = [checker EXCEPT !.pc = "live", !.tables = {}, !.live = Introspected(checker.tables)]
  /\ UNCHANGED <<outside, store, embedder>>

\* list_schema_rows
Structure == [t \in DOMAIN embedded |-> embedded[t].columns]

CheckRows ==
  /\ checker.pc = "live"
  /\ checker' = [checker EXCEPT !.pc = "rows", !.stored = Structure]
  /\ UNCHANGED <<outside, store, embedder>>

\* The hash is of the file's bytes, whether or not they parse.
ManifestChanged == file.readable /\ {file.content} # ingested

TablesDiffer(live, stored) == DOMAIN live # DOMAIN stored
ColumnsDiffer(live, stored) == \E t \in DOMAIN live \cap DOMAIN stored : live[t] # stored[t]
InSync(live, stored) ==
  ~TablesDiffer(live, stored) /\ ~ColumnsDiffer(live, stored) /\ ~ManifestChanged

Report ==
  /\ checker.pc = "rows"
  /\ checker' = IF ~checker.quiet THEN IdleChecker
                 ELSE [IdleChecker EXCEPT !.pc = "report", !.quiet = TRUE,
                                          !.in_sync = InSync(checker.live, checker.stored)]
  /\ UNCHANGED <<outside, store, embedder>>

Next ==
  \/ AlterTarget \/ EditManifest
  \/ \E e \in Embedder :
       \/ LoadSources(e) \/ ReadTables(e) \/ ReadColumns(e) \/ DeleteRows(e) \/ InsertRows(e)
       \/ RecordIngestion(e) \/ EmbedFails(e)
  \/ StartApi \/ CheckLive \/ CheckRows \/ Report

Spec == Init /\ [][Next]_vars
-----------------------------------------------------------------------------
\* An embed nothing disturbed leaves the rows of the live schema, and, if there
\* were tables and the manifest could be read, no drift to report: the command
\* the report recommends cures it (drift.py:141).
EmbedCures ==
  \A e \in Embedder : (At(e, "done") /\ embedder[e].quiet) =>
    /\ Structure = target
    /\ (embedder[e].manifest # NoManifest /\ target # NoSchema) => InSync(target, Structure)

\* A report that nothing came between is to be relied on: `in sync' means that
\* the rows are those of the target, and, when the last rebuild was recorded
\* before any other, that the descriptions embedded are those of the manifest
\* file (drift.py:108, 137).
InSyncIsEmbedded ==
  (checker.pc = "report" /\ checker.quiet /\ checker.in_sync) =>
    /\ Structure = target
    /\ (settled /\ file.readable) =>
         \A t \in Described \cap DOMAIN embedded : embedded[t].source = file.content

\* The rows are of one introspection, however many processes embed at once,
\* unless the target itself changed (schema_store.py:85).
RowsOfOneEmbed ==
  alters = 0 => \A t, u \in DOMAIN embedded : embedded[t].by = embedded[u].by

===============================================================================
