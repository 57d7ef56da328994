------------------------------ MODULE SchemaProofs ------------------------------
(***************************************************************************)
(* Proofs about SchemaStore, for any tables, columns and manifests and any  *)
(* number of embedding processes.  A process that nothing has disturbed     *)
(* knows how things are from what it has read (Alone); any process that     *)
(* embeds is told apart by the number of its embed, and the rows with that  *)
(* number have the descriptions of its manifest (Own); and while the target *)
(* has not changed every introspection finds the same tables (Steady).      *)
(***************************************************************************)
EXTENDS SchemaStore, FiniteSetTheorems, TLAPS

StoredRows == {<<t, embedded[t].by>> : t \in DOMAIN embedded}

\* What is true of an embedding process that nothing has disturbed.
Alone(s) == s.quiet =>
  /\ s.manifest = Loaded
  /\ s.pc = "tables" => s.tables = DOMAIN target
  /\ s.pc \in {"rendered", "deleted"} => s.schema = target
  /\ s.pc = "deleted" => s.doomed = StoredRows
  /\ s.pc \in {"recording", "done"} => Structure = target
  /\ s.pc = "done" =>
       ((s.manifest # NoManifest /\ target # NoSchema) => ingested = {s.manifest})

\* What is true of any until the target changes.
Steady(s) == alters = 0 =>
  /\ s.pc = "tables" => s.tables = DOMAIN target
  /\ s.pc \in {"rendered", "deleted"} => DOMAIN s.schema = DOMAIN target

\* What is always true: the rows of an embed have its descriptions.
Own(s) ==
  /\ s.by <= embeds
  /\ s.pc \notin {"idle", "done"} => s.by \in 1..embeds
  /\ \A t \in Described \cap DOMAIN embedded :
       embedded[t].by = s.by => embedded[t].source = s.manifest
  /\ s.pc = "recording" => s.manifest # NoManifest

EmbedderInv(s) == s \in EmbedderState /\ Alone(s) /\ Steady(s) /\ Own(s)

\* No two processes work on one embed.
Distinct ==
  \A e, f \in Embedder : embedder[e].by = embedder[f].by => e = f \/ embedder[e].by = 0

\* What is true of a check that nothing has disturbed.
CheckerAlone == checker.quiet =>
  /\ checker.pc = "tables" => checker.tables = DOMAIN target
  /\ checker.pc \in {"live", "rows"} => checker.live = target
  /\ checker.pc = "rows" => checker.stored = Structure
  /\ checker.pc = "report" => (checker.in_sync => Structure = target /\ ~ManifestChanged)

RowsInv ==
  /\ alters = 0 => /\ DOMAIN embedded \in {{}, DOMAIN target}
                   /\ \A t, u \in DOMAIN embedded : embedded[t].by = embedded[u].by
  /\ \A t \in DOMAIN embedded : embedded[t].by <= embeds
  /\ settled => \A t \in Described \cap DOMAIN embedded : ingested = {embedded[t].source}

\* The inductive invariant.
StoreInv ==
  /\ TypeOK
  /\ \A e \in Embedder : EmbedderInv(embedder[e])
  /\ Distinct /\ CheckerAlone /\ RowsInv

-----------------------------------------------------------------------------
(* Lemmas about schemas and rows. *)

(* A schema is a function from some of the tables.                         *)
LEMMA Schemas ==
  /\ \A T \in SUBSET Table : \A f \in [T -> SUBSET Column] : f \in Schema
  /\ \A f \in Schema : DOMAIN f \subseteq Table /\ f \in [DOMAIN f -> SUBSET Column]
BY DEF Schema

(* The live one has columns for each.                                      *)
LEMMA LiveSchemas ==
  /\ \A T \in SUBSET Table : \A f \in [T -> (SUBSET Column) \ {{}}] : f \in LiveSchema
  /\ \A f \in LiveSchema : /\ DOMAIN f \subseteq Table /\ f \in [DOMAIN f -> SUBSET Column]
                           /\ f \in Schema
<1>1. \A f \in LiveSchema : \E T \in SUBSET Table : f \in [T -> (SUBSET Column) \ {{}}]
  BY DEF LiveSchema
<1>2. \A f \in LiveSchema : DOMAIN f \subseteq Table /\ f \in [DOMAIN f -> SUBSET Column]
  BY <1>1
<1>3. \A f \in LiveSchema : f \in Schema
  BY <1>2, Schemas
<1> QED
  BY <1>2, <1>3 DEF LiveSchema

(* So are the stored rows.                                                 *)
LEMMA RowSets ==
  /\ \A T \in SUBSET Table : \A f \in [T -> Row] : f \in Rows
  /\ \A f \in Rows : DOMAIN f \subseteq Table /\ f \in [DOMAIN f -> Row]
BY DEF Rows

(* No table at all.                                                        *)
LEMMA EmptySchema ==
  /\ NoSchema \in Schema /\ NoSchema \in LiveSchema /\ NoSchema \in Rows
  /\ DOMAIN NoSchema = {}
  /\ \A f \in Schema : DOMAIN f = {} => f = NoSchema
<1>1. DOMAIN NoSchema = {} /\ NoSchema = [t \in {} |-> {}]
  BY DEF NoSchema
<1>2. NoSchema \in [{} -> SUBSET Column]
  BY <1>1
<1>3. NoSchema \in [{} -> (SUBSET Column) \ {{}}]
  BY <1>1
<1>4. NoSchema \in [{} -> Row]
  BY <1>1
<1>5. \A f \in [{} -> SUBSET Column] : f = NoSchema
  BY <1>1
<1>6. {} \in SUBSET Table
  OBVIOUS
<1> QED
  BY <1>1, <1>2, <1>3, <1>4, <1>5, <1>6, Schemas, LiveSchemas, RowSets

(* The structure stored, what is loaded and what is introspected.          *)
LEMMA ReadsTyped ==
  ASSUME TypeOK
  PROVE  /\ Structure \in Schema /\ DOMAIN Structure = DOMAIN embedded
         /\ \A t \in DOMAIN embedded : Structure[t] = embedded[t].columns
         /\ Loaded \in Source /\ target \in Schema /\ DOMAIN target \in SUBSET Table
         /\ \A T \in SUBSET Table : Introspected(T) \in Schema /\ DOMAIN Introspected(T) = T
         /\ Introspected(DOMAIN target) = target
<1>1. embedded \in [DOMAIN embedded -> Row] /\ DOMAIN embedded \in SUBSET Table
  BY RowSets DEF TypeOK
<1>2. /\ DOMAIN Structure = DOMAIN embedded
      /\ \A t \in DOMAIN embedded : Structure[t] = embedded[t].columns
      /\ Structure \in [DOMAIN embedded -> SUBSET Column]
  BY <1>1 DEF Structure, Row
<1>3. Loaded \in Source
  BY DEF Loaded, TypeOK, Source
<1>4. /\ target \in Schema /\ target \in [DOMAIN target -> SUBSET Column]
      /\ DOMAIN target \in SUBSET Table
  BY LiveSchemas DEF TypeOK
<1>5. \A T \in SUBSET Table :
        Introspected(T) \in [T -> SUBSET Column] /\ DOMAIN Introspected(T) = T
  BY <1>4 DEF Introspected
<1>6. Introspected(DOMAIN target) = target
  BY <1>4 DEF Introspected
<1> QED
  BY <1>1, <1>2, <1>3, <1>4, <1>5, <1>6, Schemas

(* The process at rest.                                                    *)
LEMMA IdleTyped ==
  /\ IdleEmbedder \in EmbedderState /\ ~IdleEmbedder.quiet /\ IdleEmbedder.by = 0
  /\ IdleEmbedder.pc = "idle"
  /\ IdleChecker \in CheckerState /\ ~IdleChecker.quiet /\ IdleChecker.pc = "idle"
<1>1. NoSchema \in Schema /\ NoManifest \in Source /\ 0 \in 0..MaxEmbeds
  BY EmptySchema, SchemaAssumption DEF Source
<1>2. {} \in SUBSET (Table \X (1..MaxEmbeds)) /\ {} \in SUBSET Table
  OBVIOUS
<1> QED
  BY <1>1, <1>2 DEF IdleEmbedder, IdleChecker, EmbedderState, CheckerState

(* A process at rest satisfies its invariant.                              *)
LEMMA IdleInv ==
  ASSUME embeds \in Nat, embedded \in Rows
  PROVE  EmbedderInv(IdleEmbedder)
<1>1. \A t \in DOMAIN embedded : embedded[t].by \in 1..MaxEmbeds
  BY RowSets DEF Row
<1>2. \A t \in DOMAIN embedded : embedded[t].by # 0
  BY <1>1, SchemaAssumption
<1> QED
  BY <1>2, IdleTyped DEF EmbedderInv, Alone, Steady, Own

\* A process the others have disturbed: it has lost its claim, or its result.
Weaker(s, d) ==
  \/ s = IdleEmbedder
  \/ /\ ~s.quiet /\ s.pc = d.pc /\ s.manifest = d.manifest /\ s.tables = d.tables
     /\ s.schema = d.schema /\ s.by = d.by

(* What a change does to the processes and to the check it disturbs.       *)
LEMMA DisturbedEffect ==
  ASSUME TypeOK, NEW others \in SUBSET Embedder
  PROVE  /\ Disturbed(others) \in [Embedder -> EmbedderState]
         /\ \A d \in Embedder \ others : Disturbed(others)[d] = embedder[d]
         /\ \A d \in others : Weaker(Disturbed(others)[d], embedder[d])
<1>1. \A d \in Embedder : embedder[d] \in EmbedderState
  BY DEF TypeOK
<1>2. ASSUME NEW d \in Embedder
      PROVE  LET s == [embedder[d] EXCEPT !.quiet = FALSE]
             IN  s \in EmbedderState /\ Weaker(s, embedder[d])
  BY <1>1 DEF EmbedderState, Weaker
<1>3. \A d \in Embedder : Disturbed(others)[d] =
        IF d \notin others THEN embedder[d]
        ELSE IF embedder[d].pc = "done" THEN IdleEmbedder
        ELSE [embedder[d] EXCEPT !.quiet = FALSE]
  BY DEF Disturbed
<1>4. \A d \in others : Weaker(Disturbed(others)[d], embedder[d])
  BY <1>2, <1>3 DEF Weaker
<1>5. \A d \in Embedder : Disturbed(others)[d] \in EmbedderState
  BY <1>1, <1>2, <1>3, IdleTyped
<1>6. Disturbed(others) = [d \in Embedder |-> Disturbed(others)[d]]
  BY DEF Disturbed
<1> QED
  BY <1>3, <1>4, <1>5, <1>6

(* ... and it claims nothing any more.                                     *)
LEMMA CheckDisturbedEffect ==
  ASSUME TypeOK, CheckDisturbed
  PROVE  checker' \in CheckerState /\ CheckerAlone'
<1>1. checker \in CheckerState
  BY DEF TypeOK
<1>2. checker' \in CheckerState /\ ~checker'.quiet
  BY <1>1, IdleTyped DEF CheckDisturbed, CheckerState
<1> QED
  BY <1>2 DEF CheckerAlone

-----------------------------------------------------------------------------
(* Steps of one process. *)

(* A process that moves on, or begins an embed of its own, while nothing    *)
(* else changes.                                                           *)
LEMMA OneMoves ==
  ASSUME StoreInv, NEW e \in Embedder, NEW s, EmbedderInv(s)',
         s.by \in {0, embedder[e].by} \/ (s.by = embeds + 1 /\ embeds' = embeds + 1),
         embedder' = [embedder EXCEPT ![e] = s],
         embeds' \in {embeds, embeds + 1}, embeds' <= MaxEmbeds,
         UNCHANGED <<outside, checker, embedded, ingested, settled>>
  PROVE  StoreInv'
<1>1. UNCHANGED <<target, file, alters, edits>>
  BY DEF outside
<1>2. /\ embedder \in [Embedder -> EmbedderState] /\ embeds \in 0..MaxEmbeds
      /\ \A d \in Embedder : EmbedderInv(embedder[d])
      /\ embedded \in Rows /\ s \in EmbedderState /\ TypeOK
  BY DEF StoreInv, TypeOK, EmbedderInv
<1>3. /\ embedder' \in [Embedder -> EmbedderState] /\ embedder'[e] = s
      /\ \A d \in Embedder \ {e} : embedder'[d] = embedder[d]
  BY <1>2
<1>4. embeds' \in 0..MaxEmbeds
  BY <1>2, SchemaAssumption
<1>5. TypeOK'
  BY <1>1, <1>2, <1>3, <1>4 DEF TypeOK
<1>6. ASSUME NEW d \in Embedder
      PROVE  EmbedderInv(embedder[d])'
  <2>1. CASE d = e
    BY <1>3, <2>1
  <2>2. CASE d # e
    <3> DEFINE q == embedder[d]
    <3>1. embedder'[d] = q /\ EmbedderInv(q) /\ q \in EmbedderState
      BY <1>2, <1>3, <2>2
    <3>2. q.by \in 0..MaxEmbeds
      BY <3>1 DEF EmbedderState
    <3> HIDE DEF q
    <3>3. q \in EmbedderState /\ Alone(embedder[d])' /\ Steady(embedder[d])'
      BY <1>1, <3>1 DEF EmbedderInv, Alone, Steady, Loaded, StoredRows, Structure
    <3>4. Own(embedder[d])'
      BY <1>2, <3>1, <3>2 DEF EmbedderInv, Own
    <3> QED
      BY <3>1, <3>3, <3>4 DEF EmbedderInv
  <2> QED
    BY <2>1, <2>2
<1>7. Distinct'
  <2>1. \A d \in Embedder : embedder[d].by <= embeds /\ embedder[d].by \in 0..MaxEmbeds
    BY <1>2 DEF EmbedderInv, Own, EmbedderState
  <2>2. \A d \in Embedder \ {e} : s.by = embedder[d].by => s.by = 0
    BY <1>2, <2>1 DEF StoreInv, Distinct
  <2> QED
    BY <1>3, <2>2 DEF StoreInv, Distinct
<1>8. CheckerAlone' /\ RowsInv'
  <2>1. CheckerAlone'
    BY <1>1 DEF StoreInv, CheckerAlone, Structure, ManifestChanged
  <2>2. \A t \in DOMAIN embedded : embedded[t].by \in 1..MaxEmbeds /\ embedded[t].by <= embeds
    BY <1>2, RowSets DEF StoreInv, RowsInv, Row
  <2>3. \A t \in DOMAIN embedded : embedded[t].by <= embeds'
    BY <1>2, <2>2
  <2> QED
    BY <1>1, <2>1, <2>3 DEF StoreInv, RowsInv
<1> QED
  BY <1>5, <1>6, <1>7, <1>8 DEF StoreInv

(* What a process that moves on keeps, its manifest and its number, still   *)
(* names its rows.                                                         *)
LEMMA KeepsOwn ==
  ASSUME StoreInv, NEW e \in Embedder, NEW s, s.by = embedder[e].by,
         s.manifest = embedder[e].manifest, embedder[e].pc \notin {"idle", "done"},
         s.pc # "recording", UNCHANGED <<embeds, embedded>>
  PROVE  Own(s)'
BY DEF StoreInv, EmbedderInv, Own

(* Manifest loaded, and a number taken for the embed.                      *)
LEMMA LoadStep ==
  ASSUME StoreInv, NEW e \in Embedder, LoadSources(e)
  PROVE  StoreInv'
<1>1. PICK s : s = [IdleEmbedder EXCEPT !.pc = "loaded", !.manifest = Loaded, !.by = embeds + 1,
                                        !.quiet = TRUE]
  OBVIOUS
<1>2. TypeOK /\ embeds \in 0..MaxEmbeds
  BY DEF StoreInv, TypeOK
<1>3. /\ embeds < MaxEmbeds /\ embeds' = embeds + 1
      /\ embedder' = [embedder EXCEPT ![e] = s]
      /\ UNCHANGED <<outside, checker, embedded, ingested, settled>>
  BY <1>1 DEF LoadSources
<1>4. embeds' \in 1..MaxEmbeds /\ Loaded \in Source
  BY <1>2, <1>3, ReadsTyped, SchemaAssumption
<1>5. /\ s \in EmbedderState /\ s.pc = "loaded" /\ s.manifest = Loaded /\ s.by = embeds + 1
  <2>1. embeds + 1 \in 0..MaxEmbeds
    BY <1>3, <1>4
  <2> QED
    BY <1>1, <1>4, <2>1, IdleTyped DEF EmbedderState
<1>6. EmbedderInv(s)'
  <2>1. Loaded' = Loaded
    BY <1>3 DEF Loaded, outside
  <2>2. Alone(s)' /\ Steady(s)'
    BY <1>5, <2>1 DEF Alone, Steady
  <2>3. \A t \in DOMAIN embedded : embedded[t].by \in 1..MaxEmbeds /\ embedded[t].by <= embeds
    BY <1>2, RowSets DEF StoreInv, RowsInv, Row, TypeOK
  <2>4. Own(s)'
    BY <1>2, <1>3, <1>4, <1>5, <2>3 DEF Own
  <2> QED
    BY <1>5, <2>2, <2>4 DEF EmbedderInv
<1>7. embeds' \in {embeds, embeds + 1} /\ embeds' <= MaxEmbeds
  BY <1>2, <1>3, SchemaAssumption
<1>8. s.by = embeds + 1 /\ embeds' = embeds + 1
  BY <1>3, <1>5
<1> QED
  BY <1>3, <1>6, <1>7, <1>8, OneMoves

(* Tables, columns and, in the transaction, the rows to delete are read.   *)
LEMMA ReadStep ==
  ASSUME StoreInv, NEW e \in Embedder, ReadTables(e) \/ ReadColumns(e) \/ DeleteRows(e)
  PROVE  StoreInv'
<1> DEFINE p == embedder[e]
<1>1. /\ TypeOK /\ embeds \in 0..MaxEmbeds /\ embedder \in [Embedder -> EmbedderState]
      /\ p \in EmbedderState /\ EmbedderInv(p)
  BY DEF StoreInv, TypeOK
<1>2. UNCHANGED <<outside, checker, embedded, ingested, settled, embeds, target, file, alters>>
  BY DEF ReadTables, ReadColumns, DeleteRows, store, outside
<1>3. Loaded' = Loaded /\ Structure' = Structure /\ StoredRows' = StoredRows
  BY <1>2 DEF Loaded, Structure, StoredRows
<1>4. /\ DOMAIN target \in SUBSET Table /\ Introspected(DOMAIN target) = target
      /\ \A T \in SUBSET Table : Introspected(T) \in Schema /\ DOMAIN Introspected(T) = T
  BY <1>1, ReadsTyped
<1>5. ASSUME NEW s, s \in EmbedderState, s.by = p.by, s.manifest = p.manifest, s.quiet = p.quiet,
             p.pc \notin {"idle", "done"}, s.pc \notin {"recording", "done"},
             Alone(s)', Steady(s)', embedder' = [embedder EXCEPT ![e] = s]
      PROVE  StoreInv'
  <2>1. Own(s)'
    BY <1>2, <1>5, KeepsOwn
  <2>2. EmbedderInv(s)'
    BY <1>5, <2>1 DEF EmbedderInv
  <2>3. s.by \in {0, embedder[e].by} /\ embeds' = embeds /\ embeds' <= MaxEmbeds
    BY <1>1, <1>2, <1>5, SchemaAssumption
  <2> QED
    BY <1>2, <1>5, <2>2, <2>3, OneMoves
<1>6. CASE ReadTables(e)
  <2>1. PICK s : s = [p EXCEPT !.pc = "tables", !.tables = DOMAIN target]
    OBVIOUS
  <2>2. embedder' = [embedder EXCEPT ![e] = s] /\ p.pc = "loaded"
    BY <1>6, <2>1 DEF ReadTables, At
  <2>3. /\ s \in EmbedderState /\ s.by = p.by /\ s.manifest = p.manifest /\ s.quiet = p.quiet
        /\ s.pc = "tables" /\ s.tables = DOMAIN target
    BY <1>1, <1>4, <2>1 DEF EmbedderState
  <2> HIDE DEF p
  <2>4. Alone(s)' /\ Steady(s)'
    BY <1>1, <1>2, <1>3, <2>3 DEF EmbedderInv, Alone, Steady
  <2> QED
    BY <1>5, <2>2, <2>3, <2>4
<1>7. CASE ReadColumns(e)
  <2>1. PICK s : s = [p EXCEPT !.pc = "rendered", !.tables = {},
                               !.schema = Introspected(p.tables)]
    OBVIOUS
  <2>2. embedder' = [embedder EXCEPT ![e] = s] /\ p.pc = "tables"
    BY <1>7, <2>1 DEF ReadColumns, At
  <2>3. p.tables \in SUBSET Table
    BY <1>1 DEF EmbedderState
  <2>4. /\ s \in EmbedderState /\ s.by = p.by /\ s.manifest = p.manifest /\ s.quiet = p.quiet
        /\ s.pc = "rendered" /\ s.schema = Introspected(p.tables)
    BY <1>1, <1>4, <2>1, <2>3 DEF EmbedderState
  <2> HIDE DEF p
  <2>5. DOMAIN s.schema = p.tables
    BY <1>4, <2>3, <2>4
  <2>6. Alone(s)' /\ Steady(s)'
    BY <1>1, <1>2, <1>3, <1>4, <2>2, <2>4, <2>5 DEF EmbedderInv, Alone, Steady
  <2> QED
    BY <1>5, <2>2, <2>4, <2>6
<1>8. CASE DeleteRows(e)
  <2>1. PICK s : s = [p EXCEPT !.pc = "deleted", !.doomed = StoredRows]
    OBVIOUS
  <2>2. embedder' = [embedder EXCEPT ![e] = s] /\ p.pc = "rendered"
    BY <1>8, <2>1 DEF DeleteRows, At, StoredRows
  <2>3. StoredRows \in SUBSET (Table \X (1..MaxEmbeds))
    BY <1>1, RowSets DEF TypeOK, StoredRows, Row
  <2>4. /\ s \in EmbedderState /\ s.by = p.by /\ s.manifest = p.manifest /\ s.quiet = p.quiet
        /\ s.pc = "deleted" /\ s.schema = p.schema /\ s.doomed = StoredRows
    BY <1>1, <2>1, <2>3 DEF EmbedderState
  <2> HIDE DEF p
  <2>5. Alone(s)' /\ Steady(s)'
    BY <1>1, <1>2, <1>3, <2>2, <2>4 DEF EmbedderInv, Alone, Steady
  <2> QED
    BY <1>5, <2>2, <2>4, <2>5
<1> QED
  BY <1>6, <1>7, <1>8

(* A process that fails is at rest; so is one whose insert fails.          *)
LEMMA GivesUp ==
  ASSUME StoreInv, NEW e \in Embedder, embedder' = [embedder EXCEPT ![e] = IdleEmbedder],
         UNCHANGED <<outside, checker, store>>
  PROVE  StoreInv'
<1>1. PICK s : s = IdleEmbedder
  OBVIOUS
<1>2. UNCHANGED <<embedded, ingested, settled, embeds>>
  BY DEF store
<1>3. embeds \in 0..MaxEmbeds /\ embedded \in Rows
  BY DEF StoreInv, TypeOK
<1>4. \A t \in DOMAIN embedded : embedded[t].by # 0
  BY <1>3, RowSets, SchemaAssumption DEF Row
<1>5. s \in EmbedderState /\ ~s.quiet /\ s.by = 0 /\ s.pc = "idle"
  BY <1>1, IdleTyped
<1>6. EmbedderInv(s)'
  BY <1>2, <1>3, <1>4, <1>5 DEF EmbedderInv, Alone, Steady, Own
<1>7. embeds' \in {embeds, embeds + 1} /\ embeds' <= MaxEmbeds /\ s.by \in {0, embedder[e].by}
  BY <1>2, <1>3, <1>5, SchemaAssumption
<1> QED
  BY <1>1, <1>2, <1>6, <1>7, OneMoves

-----------------------------------------------------------------------------
(* Changes of the target, of the file and of the rows. *)

(* A process that a change has disturbed claims nothing, and the rows that  *)
(* have its number still have its descriptions.                            *)
LEMMA DisturbedKeeps ==
  ASSUME StoreInv, NEW d \in Embedder, embedder'[d] \in EmbedderState,
         Weaker(embedder'[d], embedder[d]),
         alters' = alters + 1 \/ UNCHANGED <<target, alters>>,
         UNCHANGED embeds, embedded' \in Rows,
         \A t \in Described \cap DOMAIN embedded' :
           embedded'[t].by = embedder[d].by => embedded'[t].source = embedder[d].manifest
  PROVE  EmbedderInv(embedder[d])'
<1> DEFINE s == embedder'[d]
           p == embedder[d]
<1>1. embeds \in 0..MaxEmbeds /\ alters \in 0..MaxAlters /\ EmbedderInv(p) /\ s \in EmbedderState
  BY DEF StoreInv, TypeOK
<1>2. Weaker(s, p)
  OBVIOUS
<1>3. \A t \in DOMAIN embedded' : embedded'[t].by \in 1..MaxEmbeds
  BY RowSets DEF Row
<1>4. \A t \in DOMAIN embedded' : embedded'[t].by # 0
  BY <1>3, SchemaAssumption
<1>5. alters' = 0 => target' = target /\ alters = 0
  BY <1>1, SchemaAssumption
<1>6. \A t \in Described \cap DOMAIN embedded' :
        embedded'[t].by = p.by => embedded'[t].source = p.manifest
  OBVIOUS
<1> HIDE DEF s, p
<1>7. ~s.quiet
  BY <1>2, IdleTyped DEF Weaker
<1>8. Alone(embedder[d])'
  BY <1>7 DEF Alone, s
<1>9. (s.pc = "tables" => s.tables = p.tables /\ p.pc = "tables")
      /\ (s.pc \in {"rendered", "deleted"} => s.schema = p.schema /\ p.pc \in {"rendered", "deleted"})
  BY <1>2, IdleTyped DEF Weaker
<1>10. Steady(embedder[d])'
  BY <1>1, <1>5, <1>9 DEF EmbedderInv, Steady, s
<1>11. /\ s.by <= embeds'
       /\ s.pc \notin {"idle", "done"} => s.by \in 1..embeds'
       /\ s.pc = "recording" => s.manifest # NoManifest
  BY <1>1, <1>2, IdleTyped DEF Weaker, EmbedderInv, Own
<1>12. \A t \in Described \cap DOMAIN embedded' :
         embedded'[t].by = s.by => embedded'[t].source = s.manifest
  BY <1>2, <1>4, <1>6, IdleTyped DEF Weaker
<1>13. Own(embedder[d])'
  BY <1>11, <1>12 DEF Own, s
<1> QED
  BY <1>1, <1>8, <1>10, <1>13 DEF EmbedderInv, s

(* The number of a process that was disturbed is its own or none.          *)
LEMMA WeakerNumber ==
  ASSUME NEW s, NEW d, Weaker(s, d)
  PROVE  s.by \in {0, d.by}
BY IdleTyped DEF Weaker

(* Numbers stay distinct when processes only give theirs up.               *)
LEMMA NumbersGivenUp ==
  ASSUME Distinct, \A d \in Embedder : embedder'[d].by \in {0, embedder[d].by}
  PROVE  Distinct'
BY DEF Distinct

(* The target or the manifest file changes.                                *)
LEMMA OutsideStep ==
  ASSUME StoreInv, AlterTarget \/ EditManifest
  PROVE  StoreInv'
<1>1. /\ TypeOK /\ alters \in 0..MaxAlters /\ edits \in 0..MaxEdits /\ embedded \in Rows
      /\ \A e \in Embedder : EmbedderInv(embedder[e])
  BY DEF StoreInv, TypeOK
<1>2. /\ embedder' = Disturbed(Embedder) /\ CheckDisturbed
      /\ UNCHANGED <<embedded, ingested, settled, embeds>>
  BY DEF AlterTarget, EditManifest, store
<1>3. alters' = alters + 1 \/ UNCHANGED <<target, alters>>
  BY DEF AlterTarget, EditManifest
<1>4. checker' \in CheckerState /\ CheckerAlone'
  BY <1>1, <1>2, CheckDisturbedEffect
<1>5. /\ embedder' \in [Embedder -> EmbedderState]
      /\ \A d \in Embedder : Weaker(embedder'[d], embedder[d])
  BY <1>1, <1>2, DisturbedEffect
<1>6. TypeOK'
  <2>1. CASE AlterTarget
    <3>1. target' \in LiveSchema
      BY <2>1 DEF AlterTarget, Altered
    <3>2. alters' \in 0..MaxAlters /\ UNCHANGED <<file, edits>>
      BY <1>1, <2>1, SchemaAssumption DEF AlterTarget
    <3> QED
      BY <1>1, <1>2, <1>4, <1>5, <3>1, <3>2 DEF TypeOK
  <2>2. CASE EditManifest
    <3>1. file' \in [readable : BOOLEAN, content : Source]
      BY <2>2 DEF EditManifest
    <3>2. edits' \in 0..MaxEdits /\ UNCHANGED <<target, alters>>
      BY <1>1, <2>2, SchemaAssumption DEF EditManifest
    <3> QED
      BY <1>1, <1>2, <1>4, <1>5, <3>1, <3>2 DEF TypeOK
  <2> QED
    BY <2>1, <2>2
<1>7. ASSUME NEW d \in Embedder
      PROVE  EmbedderInv(embedder[d])'
  <2>1. \A t \in Described \cap DOMAIN embedded' :
          embedded'[t].by = embedder[d].by => embedded'[t].source = embedder[d].manifest
    BY <1>1, <1>2 DEF EmbedderInv, Own
  <2> QED
    BY <1>1, <1>2, <1>3, <1>5, <2>1, DisturbedKeeps
<1>8. Distinct'
  <2>1. \A d \in Embedder : embedder'[d].by \in {0, embedder[d].by}
    BY <1>5, WeakerNumber
  <2> QED
    BY <2>1, NumbersGivenUp DEF StoreInv
<1>9. RowsInv'
  <2>1. alters' = 0 => target' = target /\ alters = 0
    BY <1>1, <1>3, SchemaAssumption
  <2> QED
    BY <1>2, <2>1 DEF StoreInv, RowsInv
<1> QED
  BY <1>4, <1>6, <1>7, <1>8, <1>9 DEF StoreInv

(* A row is made of columns, of the source of a description and of a number. *)
LEMMA RowMade ==
  ASSUME NEW cols \in SUBSET Column, NEW src \in Source, NEW n \in 1..MaxEmbeds
  PROVE  [columns |-> cols, by |-> n, source |-> src] \in Row
BY DEF Row

(* The rows written by an insert are those rendered, beside survivors.     *)
LEMMA ReplacedRows ==
  ASSUME StoreInv, NEW e \in Embedder, At(e, "deleted")
  PROVE  /\ Replaced(e) \in Rows
         /\ DOMAIN Replaced(e) = Survivors(e) \cup DOMAIN embedder[e].schema
         /\ DOMAIN Rendered(e) = DOMAIN embedder[e].schema
         /\ Survivors(e) \subseteq DOMAIN embedded
         /\ \A t \in DOMAIN embedder[e].schema :
              /\ Replaced(e)[t].columns = embedder[e].schema[t]
              /\ Replaced(e)[t].by = embedder[e].by
              /\ t \in Described => Replaced(e)[t].source = embedder[e].manifest
         /\ \A t \in DOMAIN Replaced(e) \ DOMAIN embedder[e].schema :
              Replaced(e)[t] = embedded[t]
<1> DEFINE p == embedder[e]
           R == Rendered(e)
           N == Replaced(e)
<1>1. /\ p \in EmbedderState /\ p.by \in 1..embeds /\ embeds \in 0..MaxEmbeds
      /\ embedded \in Rows
  BY DEF StoreInv, TypeOK, EmbedderInv, Own, At
<1>2. /\ p.schema \in [DOMAIN p.schema -> SUBSET Column] /\ DOMAIN p.schema \subseteq Table
      /\ p.manifest \in Source /\ p.by \in 1..MaxEmbeds
  BY <1>1, Schemas, SchemaAssumption DEF EmbedderState
<1>3. embedded \in [DOMAIN embedded -> Row] /\ DOMAIN embedded \subseteq Table
  BY <1>1, RowSets
<1>4. /\ DOMAIN R = DOMAIN p.schema
      /\ \A t \in DOMAIN R : R[t] = [columns |-> p.schema[t], by |-> p.by,
                                     source |-> IF t \in Described THEN p.manifest ELSE NoManifest]
  BY DEF Rendered
<1>5. ASSUME NEW t \in DOMAIN R
      PROVE  /\ R[t] \in Row /\ R[t].columns = p.schema[t] /\ R[t].by = p.by
             /\ t \in Described => R[t].source = p.manifest
  <2>1. p.schema[t] \in SUBSET Column
    BY <1>2, <1>4
  <2>2. (IF t \in Described THEN p.manifest ELSE NoManifest) \in Source
    BY <1>2 DEF Source
  <2>3. R[t] = [columns |-> p.schema[t], by |-> p.by,
                source |-> IF t \in Described THEN p.manifest ELSE NoManifest]
    BY <1>4
  <2>4. R[t] \in Row
    BY <1>2, <2>1, <2>2, <2>3, RowMade
  <2>5. R[t].columns = p.schema[t] /\ R[t].by = p.by
    BY <2>3
  <2>6. t \in Described => R[t].source = p.manifest
    BY <2>3
  <2> QED
    BY <2>4, <2>5, <2>6
<1>6. Survivors(e) \subseteq DOMAIN embedded
  BY DEF Survivors
<1>7. /\ DOMAIN N = Survivors(e) \cup DOMAIN R
      /\ N = [t \in DOMAIN N |-> N[t]]
      /\ \A t \in DOMAIN N : N[t] = IF t \in DOMAIN R THEN R[t] ELSE embedded[t]
  BY DEF Replaced
<1> HIDE DEF p, R, N
<1>8. ASSUME NEW t \in DOMAIN N PROVE N[t] \in Row
  <2>1. CASE t \in DOMAIN R
    BY <1>5, <1>7, <2>1
  <2>2. CASE t \notin DOMAIN R
    BY <1>3, <1>6, <1>7, <2>2
  <2> QED
    BY <2>1, <2>2
<1>9. N \in [DOMAIN N -> Row] /\ DOMAIN N \in SUBSET Table
  BY <1>2, <1>3, <1>4, <1>6, <1>7, <1>8
<1>10. N \in Rows
  BY <1>9, RowSets
<1>11. \A t \in DOMAIN p.schema :
         /\ N[t].columns = p.schema[t] /\ N[t].by = p.by
         /\ t \in Described => N[t].source = p.manifest
  BY <1>4, <1>5, <1>7
<1>12. \A t \in DOMAIN N \ DOMAIN p.schema : N[t] = embedded[t]
  BY <1>4, <1>7
<1>13. DOMAIN N = Survivors(e) \cup DOMAIN p.schema /\ DOMAIN R = DOMAIN p.schema
  BY <1>4, <1>7
<1> QED
  BY <1>6, <1>10, <1>11, <1>12, <1>13 DEF p, R, N

(* A process that ended undisturbed remembers its manifest only.           *)
LEMMA EndedEffect ==
  ASSUME NEW e \in Embedder, embedder[e] \in EmbedderState
  PROVE  /\ Ended(e) \in EmbedderState /\ Ended(e).by = 0 /\ Ended(e).pc \in {"idle", "done"}
         /\ Ended(e).quiet => /\ embedder[e].quiet /\ Ended(e).pc = "done"
                              /\ Ended(e).manifest = embedder[e].manifest
<1> DEFINE d == [IdleEmbedder EXCEPT !.pc = "done", !.quiet = TRUE,
                                     !.manifest = embedder[e].manifest]
<1>1. /\ d \in EmbedderState /\ d.by = 0 /\ d.pc = "done"
      /\ d.manifest = embedder[e].manifest
  BY IdleTyped DEF EmbedderState
<1>2. Ended(e) = IF embedder[e].quiet THEN d ELSE IdleEmbedder
  BY DEF Ended
<1> HIDE DEF d
<1> QED
  BY <1>1, <1>2, IdleTyped

(* The rows of an insert, whose process was disturbed or not.              *)
LEMMA InsertedRows ==
  ASSUME StoreInv, NEW e \in Embedder, At(e, "deleted"),
         Survivors(e) \cap DOMAIN Rendered(e) = {}, embedded' = Replaced(e)
  PROVE  /\ \A t \in DOMAIN embedded' : embedded'[t].by <= embeds
         /\ alters = 0 => /\ DOMAIN embedded' = DOMAIN target
                          /\ \A t \in DOMAIN embedded' : embedded'[t].by = embedder[e].by
         /\ embedder[e].quiet => Structure' = target /\ embedder[e].schema = target
<1> DEFINE p == embedder[e]
<1>1. /\ DOMAIN embedded' = Survivors(e) \cup DOMAIN p.schema
      /\ DOMAIN Rendered(e) = DOMAIN p.schema
      /\ Survivors(e) \subseteq DOMAIN embedded
      /\ \A t \in DOMAIN p.schema :
           embedded'[t].columns = p.schema[t] /\ embedded'[t].by = p.by
      /\ \A t \in DOMAIN embedded' \ DOMAIN p.schema : embedded'[t] = embedded[t]
  BY ReplacedRows
<1>2. /\ p \in EmbedderState /\ Alone(p) /\ Steady(p) /\ Own(p) /\ p.pc = "deleted" /\ RowsInv
  BY DEF StoreInv, EmbedderInv, At
<1>3. p.by <= embeds /\ p.schema \in Schema
  BY <1>2 DEF Own, EmbedderState
<1>4. \A t \in DOMAIN embedded' : embedded'[t].by <= embeds
  <2> HIDE DEF p
  <2> QED
    BY <1>1, <1>2, <1>3 DEF RowsInv
<1>5. ASSUME alters = 0
      PROVE  /\ DOMAIN embedded' = DOMAIN target
             /\ \A t \in DOMAIN embedded' : embedded'[t].by = p.by
  <2>1. DOMAIN p.schema = DOMAIN target /\ DOMAIN embedded \in {{}, DOMAIN target}
    BY <1>2, <1>5 DEF Steady, RowsInv
  <2>2. Survivors(e) = {}
    BY <1>1, <2>1
  <2> HIDE DEF p
  <2> QED
    BY <1>1, <2>1, <2>2
<1>6. ASSUME p.quiet
      PROVE  Structure' = target /\ p.schema = target
  <2>1. p.schema = target /\ p.doomed = StoredRows
    BY <1>2, <1>6 DEF Alone
  <2>2. Survivors(e) = {}
    BY <2>1 DEF Survivors, StoredRows
  <2>3. p.schema \in [DOMAIN p.schema -> SUBSET Column]
    BY <1>3, Schemas
  <2>4. Structure' = [t \in DOMAIN embedded' |-> embedded'[t].columns]
    BY DEF Structure
  <2> HIDE DEF p
  <2>5. Structure' = p.schema
    BY <1>1, <2>2, <2>3, <2>4
  <2> QED
    BY <2>1, <2>5
<1> QED
  BY <1>4, <1>5, <1>6

(* The rows are replaced.                                                  *)
LEMMA InsertStep ==
  ASSUME StoreInv, NEW e \in Embedder, InsertRows(e)
  PROVE  StoreInv'
<1> DEFINE p == embedder[e]
<1>1. /\ TypeOK /\ Distinct /\ embedder \in [Embedder -> EmbedderState]
      /\ p \in EmbedderState /\ EmbedderInv(p) /\ p.pc = "deleted" /\ At(e, "deleted")
      /\ \A d \in Embedder : EmbedderInv(embedder[d])
      /\ embedded \in Rows
  BY DEF StoreInv, TypeOK, InsertRows, At
<1>2. UNCHANGED <<target, file, alters, edits, ingested, embeds, outside>>
  BY DEF InsertRows, outside
<1>3. CASE Survivors(e) \cap DOMAIN Rendered(e) # {}
  <2>1. /\ embedder' = [embedder EXCEPT ![e] = IdleEmbedder]
        /\ UNCHANGED <<embedded, settled, checker, outside, ingested, embeds>>
    BY <1>3 DEF InsertRows
  <2> QED
    BY <2>1, GivesUp DEF store
<1>4. CASE Survivors(e) \cap DOMAIN Rendered(e) = {}
  <2>1. PICK q : q = IF Records(e)
                     THEN [p EXCEPT !.pc = "recording", !.schema = NoSchema, !.doomed = {}]
                     ELSE Ended(e)
    OBVIOUS
  <2>2. /\ embedded' = Replaced(e) /\ settled' = FALSE /\ CheckDisturbed
        /\ embedder' = [Disturbed(Embedder \ {e}) EXCEPT ![e] = q]
    BY <1>4, <2>1 DEF InsertRows
  <2>3. /\ checker' \in CheckerState /\ CheckerAlone'
    BY <1>1, <2>2, CheckDisturbedEffect
  <2>4. /\ embedded' \in Rows
        /\ \A t \in DOMAIN p.schema :
             /\ embedded'[t].by = p.by
             /\ t \in Described => embedded'[t].source = p.manifest
        /\ \A t \in DOMAIN embedded' \ DOMAIN p.schema :
             embedded'[t] = embedded[t] /\ t \in DOMAIN embedded
    BY <1>1, <2>2, ReplacedRows
  <2>5. /\ \A t \in DOMAIN embedded' : embedded'[t].by <= embeds
        /\ alters = 0 => /\ DOMAIN embedded' = DOMAIN target
                         /\ \A t \in DOMAIN embedded' : embedded'[t].by = p.by
        /\ p.quiet => Structure' = target /\ p.schema = target
    BY <1>1, <1>4, <2>2, InsertedRows
  <2>6. /\ q \in EmbedderState /\ q.by \in {0, p.by}
        /\ q.pc \in {"idle", "done", "recording"}
        /\ q.pc = "recording" => q.by = p.by /\ q.manifest = p.manifest /\ Records(e)
        /\ q.pc # "recording" => q.by = 0 /\ ~Records(e)
        /\ q.quiet => p.quiet /\ q.manifest = p.manifest /\ q.pc \in {"recording", "done"}
    <3>1. CASE Records(e)
      <4>1. q = [p EXCEPT !.pc = "recording", !.schema = NoSchema, !.doomed = {}]
        BY <2>1, <3>1
      <4>2. NoSchema \in Schema /\ {} \in SUBSET (Table \X (1..MaxEmbeds))
        BY EmptySchema
      <4>3. /\ q \in EmbedderState /\ q.pc = "recording" /\ q.by = p.by
            /\ q.manifest = p.manifest /\ q.quiet = p.quiet
        BY <1>1, <4>1, <4>2 DEF EmbedderState
      <4> QED
        BY <3>1, <4>3
    <3>2. CASE ~Records(e)
      <4>1. q = Ended(e)
        BY <2>1, <3>2
      <4> QED
        BY <1>1, <3>2, <4>1, EndedEffect
    <3> QED
      BY <3>1, <3>2
  <2> HIDE DEF p
  <2>7. /\ embedder' \in [Embedder -> EmbedderState] /\ embedder'[e] = q
        /\ \A d \in Embedder \ {e} : Weaker(embedder'[d], embedder[d])
    <3>1. /\ Disturbed(Embedder \ {e}) \in [Embedder -> EmbedderState]
          /\ \A d \in Embedder \ {e} : Weaker(Disturbed(Embedder \ {e})[d], embedder[d])
      BY <1>1, DisturbedEffect
    <3> QED
      BY <2>2, <2>6, <3>1
  <2>8. TypeOK'
    BY <1>1, <1>2, <2>2, <2>3, <2>4, <2>7 DEF TypeOK
  <2>9. Own(q)'
    <3>1. \A t \in DOMAIN embedded' : embedded'[t].by \in 1..MaxEmbeds
      BY <2>4, RowSets DEF Row
    <3>2. \A t \in DOMAIN embedded' : embedded'[t].by # 0
      BY <3>1, SchemaAssumption
    <3>3. /\ p.by \in 1..embeds /\ embeds \in Nat
          /\ \A t \in Described \cap DOMAIN embedded :
               embedded[t].by = p.by => embedded[t].source = p.manifest
      BY <1>1 DEF EmbedderInv, Own, TypeOK
    <3>4. \A t \in Described \cap DOMAIN embedded' :
            embedded'[t].by = p.by => embedded'[t].source = p.manifest
      BY <2>4, <3>3
    <3>5. q.pc = "recording" => p.manifest # NoManifest
      BY <2>6 DEF Records, p
    <3> QED
      BY <1>2, <2>6, <3>2, <3>3, <3>4, <3>5 DEF Own
  <2>10. Alone(q)'
    <3>1. ASSUME q.quiet
          PROVE  /\ p.quiet /\ q.manifest = p.manifest /\ q.pc \in {"recording", "done"}
                 /\ p.manifest = Loaded' /\ Structure' = target'
                 /\ q.pc = "done" => p.manifest = NoManifest \/ target' = NoSchema
      <4>1. p.quiet /\ q.manifest = p.manifest /\ q.pc \in {"recording", "done"}
        BY <2>6, <3>1
      <4>2. p.manifest = Loaded' /\ Structure' = target' /\ p.schema = target
        BY <1>1, <1>2, <2>5, <4>1 DEF EmbedderInv, Alone, Loaded
      <4>3. q.pc = "done" => p.manifest = NoManifest \/ DOMAIN p.schema = {}
        BY <2>6 DEF Records, p
      <4>4. DOMAIN target = {} => target = NoSchema
        BY <1>1, ReadsTyped, EmptySchema
      <4> QED
        BY <1>2, <4>1, <4>2, <4>3, <4>4
    <3> QED
      BY <3>1 DEF Alone
  <2>11. Steady(q)'
    BY <2>6 DEF Steady
  <2>12. ASSUME NEW d \in Embedder
         PROVE  EmbedderInv(embedder[d])'
    <3>1. CASE d = e
      <4>1. Alone(embedder[d])' /\ Own(embedder[d])' /\ Steady(embedder[d])'
        BY <2>7, <2>9, <2>10, <2>11, <3>1 DEF Alone, Own, Steady
      <4> QED
        BY <2>6, <2>7, <3>1, <4>1 DEF EmbedderInv
    <3>2. CASE d # e
      <4>1. /\ embedder'[d] \in EmbedderState /\ Weaker(embedder'[d], embedder[d])
            /\ EmbedderInv(embedder[d])
        BY <1>1, <2>7, <3>2
      <4>2. embedder[d].by # p.by
        BY <1>1, <3>2, SchemaAssumption DEF Distinct, EmbedderInv, Own, p
      <4>3. \A t \in Described \cap DOMAIN embedded' :
              embedded'[t].by = embedder[d].by => embedded'[t].source = embedder[d].manifest
        BY <2>4, <4>1, <4>2 DEF EmbedderInv, Own
      <4> QED
        BY <1>2, <2>4, <4>1, <4>3, DisturbedKeeps
    <3> QED
      BY <3>1, <3>2
  <2>13. Distinct'
    <3>1. \A d \in Embedder : embedder'[d].by \in {0, embedder[d].by}
      BY <2>6, <2>7, WeakerNumber DEF p
    <3> QED
      BY <1>1, <3>1, NumbersGivenUp
  <2>14. RowsInv'
    BY <1>2, <2>2, <2>5 DEF RowsInv
  <2> QED
    BY <2>3, <2>8, <2>12, <2>13, <2>14 DEF StoreInv
<1> QED
  BY <1>3, <1>4

(* The fingerprint is recorded.                                            *)
LEMMA RecordStep ==
  ASSUME StoreInv, NEW e \in Embedder, RecordIngestion(e)
  PROVE  StoreInv'
<1> DEFINE p == embedder[e]
<1>1. /\ TypeOK /\ Distinct /\ RowsInv /\ embedder \in [Embedder -> EmbedderState]
      /\ p \in EmbedderState /\ EmbedderInv(p)
      /\ \A d \in Embedder : EmbedderInv(embedder[d])
      /\ embedded \in Rows
  BY DEF StoreInv, TypeOK
<1>2. UNCHANGED <<target, file, alters, edits, outside, embedded, embeds>>
  BY DEF RecordIngestion, RecordedAs, outside
<1>3. PICK q : q = Ended(e)
  OBVIOUS
<1>4. /\ p.pc = "recording" /\ ingested' = {p.manifest} /\ CheckDisturbed
      /\ settled' = (\A t \in DOMAIN embedded : embedded[t].by = p.by)
      /\ embedder' = [Disturbed(Embedder \ {e}) EXCEPT ![e] = q]
  BY <1>3 DEF RecordIngestion, RecordedAs, At
<1>5. /\ checker' \in CheckerState /\ CheckerAlone'
  BY <1>1, <1>4, CheckDisturbedEffect
<1>6. /\ q \in EmbedderState /\ q.by = 0 /\ q.pc \in {"idle", "done"}
      /\ q.quiet => p.quiet /\ q.pc = "done" /\ q.manifest = p.manifest
  BY <1>1, <1>3, EndedEffect
<1> HIDE DEF p
<1>7. /\ embedder' \in [Embedder -> EmbedderState] /\ embedder'[e] = q
      /\ \A d \in Embedder \ {e} : Weaker(embedder'[d], embedder[d])
  <2>1. /\ Disturbed(Embedder \ {e}) \in [Embedder -> EmbedderState]
        /\ \A d \in Embedder \ {e} : Weaker(Disturbed(Embedder \ {e})[d], embedder[d])
    BY <1>1, DisturbedEffect
  <2> QED
    BY <1>4, <1>6, <2>1
<1>8. p.manifest \in Manifest
  BY <1>1, <1>4 DEF EmbedderInv, Own, EmbedderState, Source
<1>9. TypeOK'
  <2>1. ingested' \in SUBSET Manifest
    BY <1>4, <1>8
  <2>2. Cardinality({p.manifest}) = 1
    BY FS_Singleton
  <2>3. Cardinality(ingested') = 1
    BY <1>4, <2>2, Zenon
  <2>4. Cardinality(ingested') <= 1
    BY <2>3
  <2>5. settled' \in BOOLEAN
    BY <1>4, Zenon
  <2> QED
    BY <1>1, <1>2, <1>5, <1>7, <2>1, <2>4, <2>5 DEF TypeOK
<1>10. ASSUME NEW d \in Embedder
       PROVE  EmbedderInv(embedder[d])'
  <2>1. CASE d = e
    <3>1. \A t \in DOMAIN embedded' : embedded'[t].by \in 1..MaxEmbeds
      BY <1>1, <1>2, RowSets DEF Row
    <3>2. \A t \in DOMAIN embedded' : embedded'[t].by # 0
      BY <3>1, SchemaAssumption
    <3>3. embeds' \in Nat
      BY <1>1, <1>2 DEF TypeOK
    <3>4. Own(q)' /\ Steady(q)'
      BY <1>6, <3>2, <3>3 DEF Own, Steady
    <3>5. q.quiet => /\ q.manifest = Loaded' /\ Structure' = target'
                     /\ ingested' = {q.manifest} /\ q.pc = "done"
      BY <1>1, <1>2, <1>4, <1>6 DEF EmbedderInv, Alone, Loaded, Structure
    <3>6. Alone(q)'
      BY <3>5 DEF Alone
    <3> QED
      BY <1>6, <1>7, <2>1, <3>4, <3>6 DEF EmbedderInv, Own, Steady, Alone
  <2>2. CASE d # e
    <3>1. /\ embedder'[d] \in EmbedderState /\ Weaker(embedder'[d], embedder[d])
          /\ EmbedderInv(embedder[d])
      BY <1>1, <1>7, <2>2
    <3>2. \A t \in Described \cap DOMAIN embedded' :
            embedded'[t].by = embedder[d].by => embedded'[t].source = embedder[d].manifest
      BY <1>2, <3>1 DEF EmbedderInv, Own
    <3> QED
      BY <1>1, <1>2, <3>1, <3>2, DisturbedKeeps
  <2> QED
    BY <2>1, <2>2
<1>11. Distinct'
  <2>1. \A d \in Embedder : embedder'[d].by \in {0, embedder[d].by}
    BY <1>6, <1>7, WeakerNumber
  <2> QED
    BY <1>1, <2>1, NumbersGivenUp
<1>12. RowsInv'
  <2>1. settled' => \A t \in Described \cap DOMAIN embedded : ingested' = {embedded[t].source}
    BY <1>1, <1>4 DEF EmbedderInv, Own
  <2> QED
    BY <1>1, <1>2, <2>1 DEF RowsInv
<1> QED
  BY <1>5, <1>9, <1>10, <1>11, <1>12 DEF StoreInv

-----------------------------------------------------------------------------
(* The check of drift. *)

(* A step of the check alone keeps what the rest of the invariant says.    *)
LEMMA CheckOnly ==
  ASSUME StoreInv, checker' \in CheckerState, CheckerAlone',
         UNCHANGED <<outside, store, embedder>>
  PROVE  StoreInv'
<1>1. UNCHANGED <<target, file, alters, edits, embedded, ingested, settled, embeds, embedder>>
  BY DEF outside, store
<1>2. TypeOK' /\ Distinct' /\ RowsInv'
  BY <1>1 DEF StoreInv, TypeOK, Distinct, RowsInv
<1>3. ASSUME NEW d \in Embedder
      PROVE  EmbedderInv(embedder[d])'
  <2>1. EmbedderInv(embedder[d])
    BY DEF StoreInv
  <2> QED
    BY <1>1, <2>1 DEF EmbedderInv, Alone, Steady, Own, Loaded, Structure, StoredRows
<1> QED
  BY <1>2, <1>3 DEF StoreInv

(* The check reads the tables, the columns and the rows, and reports.      *)
LEMMA CheckStep ==
  ASSUME StoreInv, StartApi \/ CheckLive \/ CheckRows \/ Report
  PROVE  StoreInv'
<1>1. TypeOK /\ checker \in CheckerState /\ CheckerAlone
  BY DEF StoreInv, TypeOK
<1>2. UNCHANGED <<target, file, embedded, ingested>> /\ UNCHANGED <<outside, store, embedder>>
  BY DEF StartApi, CheckLive, CheckRows, Report, outside, store
<1>3. /\ DOMAIN target \in SUBSET Table /\ Introspected(DOMAIN target) = target
      /\ \A T \in SUBSET Table : Introspected(T) \in Schema
      /\ Structure \in Schema /\ Structure' = Structure
  BY <1>1, <1>2, ReadsTyped DEF Structure
<1>4. checker' \in CheckerState /\ CheckerAlone'
  <2>1. CASE StartApi
    <3>1. checker' = [IdleChecker EXCEPT !.pc = "tables", !.tables = DOMAIN target, !.quiet = TRUE]
      BY <2>1 DEF StartApi
    <3>2. checker' \in CheckerState /\ checker'.pc = "tables" /\ checker'.tables = DOMAIN target
      BY <1>3, <3>1, IdleTyped DEF CheckerState
    <3> QED
      BY <1>2, <3>2 DEF CheckerAlone
  <2>2. CASE CheckLive
    <3>1. /\ checker' = [checker EXCEPT !.pc = "live", !.tables = {},
                                        !.live = Introspected(checker.tables)]
          /\ checker.pc = "tables"
      BY <2>2 DEF CheckLive
    <3>2. /\ checker' \in CheckerState /\ checker'.pc = "live"
          /\ checker'.live = Introspected(checker.tables) /\ checker'.quiet = checker.quiet
      BY <1>1, <1>3, <3>1 DEF CheckerState
    <3> QED
      BY <1>1, <1>2, <1>3, <3>1, <3>2 DEF CheckerAlone
  <2>3. CASE CheckRows
    <3>1. checker' = [checker EXCEPT !.pc = "rows", !.stored = Structure] /\ checker.pc = "live"
      BY <2>3 DEF CheckRows
    <3>2. /\ checker' \in CheckerState /\ checker'.pc = "rows" /\ checker'.stored = Structure
          /\ checker'.live = checker.live /\ checker'.quiet = checker.quiet
      BY <1>1, <1>3, <3>1 DEF CheckerState
    <3> QED
      BY <1>1, <1>2, <1>3, <3>1, <3>2 DEF CheckerAlone
  <2>4. CASE Report
    <3>1. CASE ~checker.quiet
      BY <2>4, <3>1, IdleTyped DEF Report, CheckerAlone
    <3>2. CASE checker.quiet
      <4>1. PICK b \in BOOLEAN : b = InSync(checker.live, checker.stored)
        BY DEF InSync
      <4>2. checker' = [IdleChecker EXCEPT !.pc = "report", !.quiet = TRUE, !.in_sync = b]
        BY <2>4, <3>2, <4>1 DEF Report
      <4>3. checker' \in CheckerState /\ checker'.pc = "report" /\ checker'.in_sync = b
        BY <4>2, IdleTyped DEF CheckerState
      <4>4. checker.live = target /\ checker.stored = Structure
        BY <1>1, <2>4, <3>2 DEF CheckerAlone, Report
      <4>5. b => Structure = target /\ ~ManifestChanged
        <5>1. /\ target \in [DOMAIN target -> SUBSET Column]
              /\ Structure \in [DOMAIN Structure -> SUBSET Column]
          BY <1>1, ReadsTyped, Schemas
        <5>2. b => /\ ~ManifestChanged /\ DOMAIN target = DOMAIN Structure
                   /\ \A t \in DOMAIN target : target[t] = Structure[t]
          BY <4>1, <4>4 DEF InSync, TablesDiffer, ColumnsDiffer
        <5> QED
          BY <5>1, <5>2
      <4>6. ManifestChanged' = ManifestChanged
        BY <1>2 DEF ManifestChanged
      <4> QED
        BY <1>2, <1>3, <4>3, <4>5, <4>6 DEF CheckerAlone
    <3> QED
      BY <3>1, <3>2
  <2> QED
    BY <2>1, <2>2, <2>3, <2>4
<1> QED
  BY <1>2, <1>4, CheckOnly

-----------------------------------------------------------------------------
(* Nothing is embedded at first.                                           *)
LEMMA StoreInit == Init => StoreInv
<1> SUFFICES ASSUME Init PROVE StoreInv
  OBVIOUS
<1>1. /\ embedded = NoSchema /\ embedded \in Rows /\ DOMAIN embedded = {}
      /\ embeds = 0 /\ alters = 0 /\ edits = 0 /\ ingested = {} /\ settled = FALSE
  BY EmptySchema DEF Init
<1>2. target \in LiveSchema
  <2>1. [t \in Table |-> Column] \in [Table -> (SUBSET Column) \ {{}}]
    BY SchemaAssumption
  <2> QED
    BY <2>1, EmptySchema, LiveSchemas DEF Init
<1>3. embedder \in [Embedder -> EmbedderState] /\ checker \in CheckerState
  BY IdleTyped DEF Init
<1>4. Cardinality(ingested) <= 1
  <2>1. Cardinality({}) = 0
    BY FS_EmptySet
  <2>2. Cardinality(ingested) = 0
    BY <1>1, <2>1, Zenon
  <2> QED
    BY <2>2
<1>5. file \in [readable : BOOLEAN, content : Source]
  BY DEF Init
<1>6. TypeOK
  <2>1. embeds \in 0..MaxEmbeds /\ alters \in 0..MaxAlters /\ edits \in 0..MaxEdits
    BY <1>1, SchemaAssumption
  <2>2. ingested \in SUBSET Manifest /\ settled \in BOOLEAN
    BY <1>1, Zenon
  <2> QED
    BY <1>1, <1>2, <1>3, <1>4, <1>5, <2>1, <2>2 DEF TypeOK
<1>7. EmbedderInv(IdleEmbedder)
  BY <1>1, IdleInv
<1>8. \A e \in Embedder : EmbedderInv(embedder[e]) /\ embedder[e].by = 0
  BY <1>7, IdleTyped DEF Init
<1>9. Distinct /\ CheckerAlone /\ RowsInv
  BY <1>1, <1>8, IdleTyped DEF Distinct, CheckerAlone, RowsInv, Init
<1> QED
  BY <1>6, <1>8, <1>9 DEF StoreInv

(* Every step keeps the invariant.                                         *)
LEMMA StoreNext == StoreInv /\ [Next]_vars => StoreInv'
<1> SUFFICES ASSUME StoreInv, [Next]_vars PROVE StoreInv'
  OBVIOUS
<1>1. CASE AlterTarget \/ EditManifest
  BY <1>1, OutsideStep
<1>2. ASSUME NEW e \in Embedder, EmbedFails(e)
      PROVE  StoreInv'
  BY <1>2, GivesUp DEF EmbedFails
<1>3. ASSUME NEW e \in Embedder,
             \/ LoadSources(e) \/ ReadTables(e) \/ ReadColumns(e) \/ DeleteRows(e)
             \/ InsertRows(e) \/ RecordIngestion(e) \/ EmbedFails(e)
      PROVE  StoreInv'
  BY <1>2, <1>3, LoadStep, ReadStep, InsertStep, RecordStep
<1>4. CASE StartApi \/ CheckLive \/ CheckRows \/ Report
  BY <1>4, CheckStep
<1>5. CASE UNCHANGED vars
  <2>1. UNCHANGED <<outside, store, embedder, checker>>
    BY <1>5 DEF vars
  <2>2. checker' \in CheckerState
    BY <2>1 DEF StoreInv, TypeOK
  <2>3. CheckerAlone'
    BY <2>1 DEF StoreInv, CheckerAlone, ManifestChanged, Structure, outside, store
  <2> QED
    BY <2>1, <2>2, <2>3, CheckOnly
<1> QED
  BY <1>1, <1>3, <1>4, <1>5 DEF Next

(* The tables, the processes and the check keep their types, and StoreInv  *)
(* holds throughout.                                                       *)
THEOREM StoreInvariant == Spec => [](TypeOK /\ StoreInv)
<1>1. StoreInv => TypeOK
  BY DEF StoreInv
<1> QED
  BY <1>1, StoreInit, StoreNext, PTL DEF Spec

(* An embed that nothing disturbed leaves no drift.                        *)
THEOREM EmbedsCure == Spec => []EmbedCures
<1>1. StoreInv => EmbedCures
  <2> SUFFICES ASSUME StoreInv, NEW e \in Embedder, At(e, "done"), embedder[e].quiet
               PROVE  /\ Structure = target
                      /\ (embedder[e].manifest # NoManifest /\ target # NoSchema)
                           => InSync(target, Structure)
    BY DEF EmbedCures
  <2>1. /\ Structure = target /\ embedder[e].manifest = Loaded
        /\ (embedder[e].manifest # NoManifest /\ target # NoSchema)
             => ingested = {embedder[e].manifest}
    BY DEF StoreInv, EmbedderInv, Alone, At
  <2>2. ~TablesDiffer(target, Structure) /\ ~ColumnsDiffer(target, Structure)
    BY <2>1 DEF TablesDiffer, ColumnsDiffer
  <2>3. (embedder[e].manifest # NoManifest /\ target # NoSchema) => ~ManifestChanged
    BY <2>1 DEF ManifestChanged, Loaded
  <2> QED
    BY <2>1, <2>2, <2>3 DEF InSync
<1> QED
  BY <1>1, StoreInvariant, PTL

(* "In sync" can be relied on.                                             *)
THEOREM InSyncIsTrue == Spec => []InSyncIsEmbedded
<1>1. StoreInv => InSyncIsEmbedded
  BY DEF StoreInv, CheckerAlone, RowsInv, InSyncIsEmbedded, ManifestChanged
<1> QED
  BY <1>1, StoreInvariant, PTL

(* The rows are of one introspection.                                      *)
THEOREM OneEmbedPerTable == Spec => []RowsOfOneEmbed
<1>1. StoreInv => RowsOfOneEmbed
  BY DEF StoreInv, RowsInv, RowsOfOneEmbed
<1> QED
  BY <1>1, StoreInvariant, PTL

=============================================================================
