--------------------------------- MODULE Boot ---------------------------------
(***************************************************************************)
(* Containers that come up on one state database: scripts/entrypoint.sh    *)
(* (migrate, build the target, seed, embed, serve), the lifespan of the    *)
(* API it starts (api/main.py), the migration runner                       *)
(* (db/migrations/runner.py), and the width of the three vector stores     *)
(* (db/store_dims.py), which `nixus reembed-stores' (db/reembed_stores.py) *)
(* rebuilds beside them.                                                   *)
(*                                                                         *)
(* A step is one transaction, or one read whose result a later transaction *)
(* relies on.  A store is abstracted to its column's width and to whether  *)
(* it has rows, whose vectors are then of that width.                      *)
(***************************************************************************)
EXTENDS Integers, Sequences, FiniteSets, SequencesExt

CONSTANTS
  Container,     \* slots for containers
  Dim,           \* widths of the vectors of the embedding providers
  DeclaredDim,   \* the width 0001_initial_schema.sql declares
  FirstDim,      \* the width of the provider first configured
  LastVersion,   \* migrations are 1..LastVersion
  MaxTroubles,   \* bound: crashes, and failures of a database or provider
  MaxSwitches    \* bound: changes of EMBEDDINGS_PROVIDER, and rebuilds

ASSUME BootAssumption ==
  /\ DeclaredDim \in Dim /\ FirstDim \in Dim /\ Dim \subseteq Nat \ {0}
  /\ LastVersion \in Nat \ {0} /\ MaxTroubles \in Nat /\ MaxSwitches \in Nat

VARIABLES
  applied,   \* schema_migrations, in the order of the inserts
  width,     \* declared width of each vector column; 0: no such table yet
  filled,    \* the vector stores that have rows
  target,    \* the sample target database has its tables
  env,       \* embedding_dim of the provider .env names
  proc,      \* each container
  operator,  \* `nixus reembed-stores --yes'
  mixed,     \* processes of two widths have run side by side
  troubles, switches   \* counters for the bounds

vars == <<applied, width, filled, target, env, proc, operator, mixed, troubles, switches>>

-----------------------------------------------------------------------------
fewshots == "fewshot_examples"
schemas == "schema_embeddings"
cache == "query_cache"
Store == {fewshots, schemas, cache}
Version == 1..LastVersion

\* `caller' of the migrations: the entrypoint's second step, or the lifespan.
ProcState ==
  [pc : {"down", "migrate", "applying", "target", "seed", "seeding", "embed", "embedding",
         "start", "dims", "resizing", "corpus", "serving"},
   caller : {"entrypoint", "lifespan"}, dim : Dim, done : SUBSET Version,
   empty : SUBSET Store, blocked : SUBSET Store, aligned : BOOLEAN]
OperatorState == [pc : {"idle", "read", "emptied"}, dim : Dim, kept : BOOLEAN]

Down == [pc |-> "down", caller |-> "entrypoint", dim |-> DeclaredDim, done |-> {},
         empty |-> {}, blocked |-> {}, aligned |-> FALSE]
Idle == [pc |-> "idle", dim |-> DeclaredDim, kept |-> FALSE]

TypeOK ==
  /\ applied \in Seq(Version) /\ Len(applied) <= LastVersion
  /\ width \in [Store -> Dim \cup {0}]
  /\ filled \subseteq {s \in Store : width[s] # 0}
  /\ target \in BOOLEAN /\ env \in Dim /\ mixed \in BOOLEAN
  /\ proc \in [Container -> ProcState]
  /\ operator \in OperatorState
  /\ troubles \in 0..MaxTroubles /\ switches \in 0..MaxSwitches

Init ==
  /\ applied = <<>>
  /\ width = [s \in Store |-> 0]
  /\ filled = {}
  /\ target = FALSE
  /\ env = FirstDim
  /\ proc = [c \in Container |-> Down]
  /\ operator = Idle
  /\ mixed = FALSE /\ troubles = 0 /\ switches = 0

-----------------------------------------------------------------------------
Goto(c, pc) == proc' = [proc EXCEPT ![c].pc = pc]

\* `set -e': a step that fails ends the container.
Fails(c) == proc' = [proc EXCEPT ![c] = Down]

Trouble == troubles < MaxTroubles /\ troubles' = troubles + 1

\* Widths in use by the processes other than the slot's own.
Running(c) == {proc[d].dim : d \in {x \in Container \ {c} : proc[x].pc # "down"}}
              \cup IF operator.pc = "idle" THEN {} ELSE {operator.dim}

\* The operator brings a container up, with the settings .env has then.  Compose
\* restarts none.
Up(c) ==
  /\ proc[c].pc = "down"
  /\ proc' = [proc EXCEPT ![c] = [Down EXCEPT !.pc = "migrate", !.dim = env]]
  /\ mixed' = (mixed \/ Running(c) \ {env} # {})
  /\ UNCHANGED <<applied, width, filled, target, env, operator, troubles, switches>>

(* apply_migrations: the applied versions are read once; then each missing   *)
(* one, in order, is a transaction of its SQL and its tracking row.          *)
\* A runner that forgets to read them.
ReadNothing(c) ==
  /\ proc[c].pc = "migrate"
  /\ proc' = [proc EXCEPT ![c].pc = "applying", ![c].done = {}]
  /\ UNCHANGED <<applied, width, filled, target, env, operator, mixed, troubles, switches>>

ReadApplied(c) ==
  /\ proc[c].pc = "migrate"
  /\ proc' = [proc EXCEPT ![c].pc = "applying", ![c].done = ToSet(applied)]
  /\ UNCHANGED <<applied, width, filled, target, env, operator, mixed, troubles, switches>>

NextVersion(c) ==
  LET missing == Version \ proc[c].done
  IN  {v \in missing : \A w \in missing : v <= w}

\* A script without `set -e'.
AfterMigrationsIgnored(c, ok) ==
  Goto(c, IF proc[c].caller = "lifespan" THEN "dims" ELSE "target")

\* After init_database, or its failure: the entrypoint ends on a failure, the
\* lifespan logs it and goes on.
AfterMigrations(c, ok) ==
  CASE proc[c].caller = "lifespan" -> Goto(c, "dims")
    [] proc[c].caller = "entrypoint" /\ ok -> Goto(c, "target")
    [] OTHER -> Fails(c)

Record(c, v) ==
  /\ applied' = Append(applied, v)
  /\ width' = IF v = 1 THEN [s \in Store |-> DeclaredDim] ELSE width
  /\ proc' = [proc EXCEPT ![c].done = @ \cup {v}]

ApplyMigration(c) ==
  /\ proc[c].pc = "applying"
  /\ \E v \in NextVersion(c) :
       IF v \in ToSet(applied)      \* the tracking row's primary key
       THEN AfterMigrations(c, FALSE) /\ UNCHANGED <<applied, width>>
       ELSE Record(c, v)
  /\ UNCHANGED <<filled, target, env, operator, mixed, troubles, switches>>

MigrationFails(c) ==
  /\ proc[c].pc = "applying" /\ NextVersion(c) # {}
  /\ Trouble
  /\ AfterMigrations(c, FALSE)
  /\ UNCHANGED <<applied, width, filled, target, env, operator, mixed, switches>>

MigrationsEnd(c) ==
  /\ proc[c].pc = "applying" /\ NextVersion(c) = {}
  /\ AfterMigrations(c, TRUE)
  /\ UNCHANGED <<applied, width, filled, target, env, operator, mixed, troubles, switches>>

\* An empty target is built, and the cache flushed after it.
EnsureTarget(c) ==
  /\ proc[c].pc = "target"
  /\ target' = TRUE
  /\ filled' = IF target THEN filled ELSE filled \ {cache}
  /\ Goto(c, "seed")
  /\ UNCHANGED <<applied, width, env, operator, mixed, troubles, switches>>

(* --skip-if-exists: a count, and after the vectors have come the insert of  *)
(* all rows in one transaction.                                              *)
SkipIfExists(c, s, pc, insert, next) ==
  /\ proc[c].pc = pc
  /\ Goto(c, IF s \in filled THEN next ELSE insert)
  /\ UNCHANGED <<applied, width, filled, target, env, operator, mixed, troubles, switches>>

\* pgvector refuses a vector of another width than the column's.
InsertAll(c, s, pc, next) ==
  /\ proc[c].pc = pc
  /\ IF width[s] = proc[c].dim
     THEN filled' = filled \cup {s} /\ Goto(c, next)
     ELSE filled' = filled /\ Fails(c)
  /\ UNCHANGED <<applied, width, target, env, operator, mixed, troubles, switches>>

ProviderFails(c, pc) ==
  /\ proc[c].pc = pc
  /\ Trouble
  /\ Fails(c)
  /\ UNCHANGED <<applied, width, filled, target, env, operator, mixed, switches>>

\* uvicorn: the lifespan, whose init_database migrates once more.
StartApi(c) ==
  /\ proc[c].pc = "start"
  /\ proc' = [proc EXCEPT ![c].pc = "migrate", ![c].caller = "lifespan"]
  /\ UNCHANGED <<applied, width, filled, target, env, operator, mixed, troubles, switches>>

(* ensure_store_dims: widths and counts are read, and then the columns of    *)
(* the empty stores altered, in one transaction that the rows of another     *)
(* process may enter between the two.  Its failure is logged.                *)
Mismatched(c) == {s \in Store : width[s] # proc[c].dim}

MeasureStores(c) ==
  /\ proc[c].pc = "dims"
  /\ proc' = [proc EXCEPT ![c] =
       IF \E s \in Store : width[s] = 0
       THEN [@ EXCEPT !.pc = "corpus"]
       ELSE [@ EXCEPT !.pc = "resizing", !.empty = Mismatched(c) \ filled,
                      !.blocked = Mismatched(c) \cap filled]]
  /\ UNCHANGED <<applied, width, filled, target, env, operator, mixed, troubles, switches>>

\* An alignment that forgets the cache.
ResizeTwo(c) ==
  /\ proc[c].pc = "resizing"
  /\ width' = [s \in Store |-> IF s \in proc[c].empty \ {cache} THEN proc[c].dim ELSE width[s]]
  /\ proc' = [proc EXCEPT ![c].pc = "corpus", ![c].aligned = TRUE]
  /\ UNCHANGED <<applied, filled, target, env, operator, mixed, troubles, switches>>

ResizeEmpty(c) ==
  /\ proc[c].pc = "resizing"
  /\ IF proc[c].empty \cap filled \cap Mismatched(c) = {}
     THEN /\ width' = [s \in Store |-> IF s \in proc[c].empty THEN proc[c].dim ELSE width[s]]
          /\ proc' = [proc EXCEPT ![c].pc = "corpus", ![c].aligned = TRUE]
     ELSE width' = width /\ Goto(c, "corpus")
  /\ UNCHANGED <<applied, filled, target, env, operator, mixed, troubles, switches>>

\* The corpus and the metrics, each example on its own and none of them fatal.
SeedCorpus(c) ==
  /\ proc[c].pc = "corpus"
  /\ \/ width[fewshots] = proc[c].dim /\ filled' = filled \cup {fewshots} /\ UNCHANGED troubles
     \/ width[fewshots] # proc[c].dim /\ UNCHANGED <<filled, troubles>>
     \/ Trouble /\ UNCHANGED filled
  /\ Goto(c, "serving")
  /\ UNCHANGED <<applied, width, target, env, operator, mixed, switches>>

\* A run that stores what it learned; an insert that fails is logged.
Learn(c) ==
  /\ proc[c].pc = "serving"
  /\ \E s \in {fewshots, cache} :
       width[s] = proc[c].dim /\ s \notin filled /\ filled' = filled \cup {s}
  /\ UNCHANGED <<applied, width, target, env, proc, operator, mixed, troubles, switches>>

Crash(c) ==
  /\ proc[c].pc # "down"
  /\ Trouble
  /\ Fails(c)
  /\ UNCHANGED <<applied, width, filled, target, env, operator, mixed, switches>>

-----------------------------------------------------------------------------
SwitchProvider ==
  /\ switches < MaxSwitches
  /\ switches' = switches + 1
  /\ \E d \in Dim \ {env} : env' = d
  /\ UNCHANGED <<applied, width, filled, target, proc, operator, mixed, troubles>>

(* reembed-stores --yes: the few-shot rows are read and re-embedded; one     *)
(* transaction empties and resizes the three stores and puts them back; the  *)
(* schema is embedded after it.                                              *)
RebuildReads ==
  /\ operator.pc = "idle" /\ switches < MaxSwitches
  /\ \A s \in Store : width[s] # 0
  /\ operator' = [pc |-> "read", dim |-> env, kept |-> fewshots \in filled]
  /\ mixed' = (mixed \/ {proc[c].dim : c \in {x \in Container : proc[x].pc # "down"}} \ {env} # {})
  /\ switches' = switches + 1
  /\ UNCHANGED <<applied, width, filled, target, env, proc, troubles>>

RebuildStores ==
  /\ operator.pc = "read"
  /\ width' = [s \in Store |-> operator.dim]
  /\ filled' = IF operator.kept THEN {fewshots} ELSE {}
  /\ operator' = [operator EXCEPT !.pc = "emptied"]
  /\ UNCHANGED <<applied, target, env, proc, mixed, troubles, switches>>

RebuildEmbeds ==
  /\ operator.pc = "emptied"
  /\ filled' = IF target /\ width[schemas] = operator.dim
                THEN filled \cup {schemas} ELSE filled
  /\ operator' = Idle
  /\ UNCHANGED <<applied, width, target, env, proc, mixed, troubles, switches>>

RebuildDies ==
  /\ operator.pc # "idle"
  /\ Trouble
  /\ operator' = Idle
  /\ UNCHANGED <<applied, width, filled, target, env, proc, mixed, switches>>

\* The steps of a container that is up.
Boots(c) ==
  \/ ReadApplied(c) \/ ApplyMigration(c) \/ MigrationsEnd(c) \/ EnsureTarget(c)
  \/ SkipIfExists(c, fewshots, "seed", "seeding", "embed")
  \/ InsertAll(c, fewshots, "seeding", "embed")
  \/ SkipIfExists(c, schemas, "embed", "embedding", "start")
  \/ InsertAll(c, schemas, "embedding", "start")
  \/ StartApi(c) \/ MeasureStores(c) \/ ResizeEmpty(c) \/ SeedCorpus(c)

Breaks(c) == MigrationFails(c) \/ ProviderFails(c, "seeding") \/ ProviderFails(c, "embedding") \/ Crash(c)

Next ==
  \/ \E c \in Container : Up(c) \/ Boots(c) \/ Breaks(c) \/ Learn(c)
  \/ SwitchProvider
  \/ RebuildReads \/ RebuildStores \/ RebuildEmbeds \/ RebuildDies

Spec == Init /\ [][Next]_vars

\* A container that is up goes on; one that ended stays down, unless the operator
\* brings it up.
FairSpec == Spec /\ \A c \in Container : WF_vars(Boots(c))

-----------------------------------------------------------------------------
Serving(c) == proc[c].pc = "serving"

\* Whichever of several runners applies what, and whichever of them fails, the
\* versions are recorded in numeric order, without a gap and once each
\* (runner.py:77); and a container that serves found every one of them applied,
\* although its own lifespan would have gone on without them (main.py:73).
MigrationsInOrder == \A i \in 1..Len(applied) : applied[i] = i
ServingIsMigrated ==
  MigrationsInOrder /\ \A c \in Container : Serving(c) => Len(applied) = LastVersion

\* An API's stores have the width of its provider, except those it reported as
\* blocked, those of an alignment that met another process' rows, and those
\* processes of another width have been at (main.py:76).
ServingAligned ==
  \A c \in Container : (Serving(c) /\ proc[c].aligned /\ ~mixed) =>
    Mismatched(c) \subseteq proc[c].blocked

\* Undisturbed, a container that begins to migrate comes to serve, or is overtaken
\* by one that does: the primary key of the tracking row, with `set -e', ends only
\* runners that another got ahead of.  On a migrated database none is ended.
ComesUp ==
  \A n \in 0..MaxTroubles : \A c \in Container :
    LET begins == troubles = n /\ proc[c].pc = "migrate"
    IN  /\ begins ~> (troubles > n \/ \E d \in Container : Serving(d))
        /\ (begins /\ Len(applied) = LastVersion) ~> (troubles > n \/ Serving(c))

\* While the provider is of the declared width, containers come up (entrypoint.sh).
DeclaredBootServes == [](env = DeclaredDim) => ComesUp

\* A fresh install gets stores of the active provider's width (main.py:76-77), so
\* that one whose settings never change comes up.
FreshBootServes == [](env = FirstDim) => ComesUp
===============================================================================
