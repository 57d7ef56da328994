------------------------------ MODULE QueryCache ------------------------------
(***************************************************************************)
(* The semantic query cache (db/query_cache.py) between its users: the     *)
(* runs that search it and fill it (nodes/check_cache.py,                   *)
(* nodes/explain_result.py), the TTL + LRU eviction made at startup and by  *)
(* the admin endpoint, and scripts/use_target.sh, which points the stack    *)
(* at another target database and flushes the cache.                        *)
(*                                                                         *)
(* Transactions run at READ COMMITTED.  BEGIN, which fixes NOW(), a        *)
(* statement and the COMMIT are steps of their own: what a transaction has  *)
(* written is seen by the others only after its COMMIT, and rows it has     *)
(* updated or deleted are locked until then.  A DELETE is two steps: it     *)
(* chooses its rows by the snapshot it starts from, and takes them when no  *)
(* other transaction holds one.  (Taking them one by one, as the database   *)
(* does, reaches nothing more: what it took first is held all the while.)   *)
(* An entry has no target column; `target' is a history variable, like      *)
(* `late' (stored by an API that still served the target .env no longer     *)
(* named).                                                                  *)
(***************************************************************************)
EXTENDS Integers, FiniteSets

CONSTANTS
  Run,          \* slots for concurrent runs
  Evictor,      \* slots for concurrent evictions
  Question,     \* classes of questions within the hit threshold
  Target,       \* target databases
  Home,         \* the target first served
  max_age,      \* settings.cache_max_age_days
  max_entries,  \* settings.cache_max_entries
  MaxId,        \* bound: entries ever stored
  MaxClock,     \* bound: days
  MaxSwitches   \* bound: runs of use_target.sh

ASSUME CacheAssumption ==
  /\ Question # {} /\ Home \in Target /\ max_age \in Nat /\ max_entries \in Nat
  /\ MaxId \in Nat /\ MaxClock \in Nat /\ MaxSwitches \in Nat

VARIABLES
  query_cache,  \* table: id -> row
  seq,          \* last id
  clock,        \* NOW(), in days
  run,          \* what each run is doing
  evictor,      \* what each eviction is doing
  env,          \* TARGET_DATABASE_URL in .env
  api,          \* target the running API serves
  script,       \* use_target.sh: "idle", "env" once it has switched .env, or
                \* "flush" in its flush
  flushing,     \* the rows the flush has chosen
  unflushed,    \* the script ended without its flush, and none has run since
  switches      \* number of switches begun

switching == <<env, api, script, flushing, unflushed, switches>>
vars == <<query_cache, seq, clock, run, evictor, switching>>

-----------------------------------------------------------------------------
Id == 1..MaxId
Row == [question : Question, last_accessed : 0..MaxClock, target : Target,
        late : BOOLEAN]

\* A run at work: the entry it has found, and NOW() of its transaction.
RunState == [pc : {"idle", "hit", "begun", "updated", "miss", "stored"},
             question : Question, entry : SUBSET Id, at : 0..MaxClock]

\* An eviction at work: NOW() of its transaction, the rows its running DELETE
\* has chosen, the rows it has deleted, and the excess it has counted.
\* History: `since', the entries stored since it counted; `crossed', those hit
\* or stored since it chose the oldest.
EvictorState == [pc : {"idle", "ttl", "count", "counted", "lru", "commit"},
                 now : 0..MaxClock, chosen : SUBSET Id, doomed : SUBSET Id,
                 excess : 0..MaxId, since : Nat, crossed : SUBSET Id]

AnyQuestion == CHOOSE q \in Question : TRUE
IdleRun == [pc |-> "idle", question |-> AnyQuestion, entry |-> {}, at |-> 0]
IdleEvictor == [pc |-> "idle", now |-> 0, chosen |-> {}, doomed |-> {}, excess |-> 0,
                since |-> 0, crossed |-> {}]

Entries == DOMAIN query_cache
Without(ids) == [i \in Entries \ ids |-> query_cache[i]]
Near(q) == {i \in Entries : query_cache[i].question = q}
Visible(e) == Entries \ evictor[e].doomed

\* An uncommitted transaction has updated or deleted the row.
Locked(i) ==
  \/ \E e \in Evictor : i \in evictor[e].doomed
  \/ \E r \in Run : run[r].pc = "updated" /\ i \in run[r].entry

\* WHERE last_accessed < NOW() - max_age_days.
Expired(i, now) == query_cache[i].last_accessed < now - max_age

\* What an eviction under way is to know of an entry hit or stored.
Crossed(i) ==
  [e \in Evictor |->
     IF evictor[e].pc \in {"lru", "commit"}
     THEN [evictor[e] EXCEPT !.crossed = @ \cup {i}] ELSE evictor[e]]

\* ORDER BY last_accessed ASC LIMIT n: a set of n rows none of which was
\* accessed after a row left out.
NewestFirst(ids, n) ==
  {S \in SUBSET ids : Cardinality(S) = n /\
     \A i \in S, j \in ids \ S : query_cache[i].last_accessed >= query_cache[j].last_accessed}
OldestFirst(ids, n) ==
  {S \in SUBSET ids : Cardinality(S) = n /\
     \A i \in S, j \in ids \ S : query_cache[i].last_accessed <= query_cache[j].last_accessed}

\* excess = current_count - max_entries, if positive.
ExcessOneShort(count) == IF count > max_entries + 1 THEN count - max_entries - 1 ELSE 0
Excess(count) == IF count > max_entries THEN count - max_entries ELSE 0

-----------------------------------------------------------------------------
Init ==
  /\ query_cache = [i \in {} |-> AnyQuestion] /\ seq = 0 /\ clock = 0
  /\ run = [r \in Run |-> IdleRun] /\ evictor = [e \in Evictor |-> IdleEvictor]
  /\ env = Home /\ api = Home /\ script = "idle" /\ flushing = {}
  /\ unflushed = FALSE /\ switches = 0

Tick ==
  /\ clock < MaxClock /\ clock' = clock + 1
  /\ UNCHANGED <<query_cache, seq, run, evictor, switching>>

\* search_cache: the nearest entry over the threshold, or none.  The row is
\* copied into the run; its connection is closed before the next statement.
Search(r, q) ==
  /\ run[r].pc = "idle"
  /\ \/ \E i \in Near(q) :
          run' = [run EXCEPT ![r] = [IdleRun EXCEPT !.pc = "hit", !.question = q, !.entry = {i}]]
     \/ /\ Near(q) = {}
        /\ run' = [run EXCEPT ![r] = [IdleRun EXCEPT !.pc = "miss", !.question = q]]
  /\ UNCHANGED <<query_cache, seq, clock, evictor, switching>>

\* increment_hit_count, in a transaction of its own.
BeginHit(r) ==
  /\ run[r].pc = "hit"
  /\ run' = [run EXCEPT ![r] = [@ EXCEPT !.pc = "begun", !.at = clock]]
  /\ UNCHANGED <<query_cache, seq, clock, evictor, switching>>

\* Its UPDATE waits for whoever has the row, and updates nothing if the row
\* is gone by then.
IncrementHitCount(r) ==
  /\ run[r].pc = "begun"
  /\ \A i \in run[r].entry : ~Locked(i)
  /\ run' = [run EXCEPT ![r] = [@ EXCEPT !.pc = "updated",
                                          !.entry = run[r].entry \cap Entries]]
  /\ UNCHANGED <<query_cache, seq, clock, evictor, switching>>

CommitHit(r) ==
  /\ run[r].pc = "updated"
  /\ \/ /\ run[r].entry = {}
        /\ UNCHANGED <<query_cache, evictor>>
     \/ \E i \in run[r].entry :
          /\ query_cache' = [query_cache EXCEPT ![i].last_accessed = run[r].at]
          /\ evictor' = Crossed(i)
  /\ run' = [run EXCEPT ![r] = IdleRun]
  /\ UNCHANGED <<seq, clock, switching>>

\* store_cache_entry, at the end of a GOOD run: an unconditional INSERT ...
StoreCacheEntry(r) ==
  /\ run[r].pc = "miss"
  /\ run' = [run EXCEPT ![r] = [@ EXCEPT !.pc = "stored", !.at = clock]]
  /\ UNCHANGED <<query_cache, seq, clock, evictor, switching>>

\* ... and its COMMIT.  Entries are numbered in the order they appear.
CommitEntry(r) ==
  /\ run[r].pc = "stored" /\ seq < MaxId
  /\ seq' = seq + 1
  /\ query_cache' = [i \in Entries \cup {seq'} |->
       IF i = seq'
       THEN [question |-> run[r].question, last_accessed |-> run[r].at, target |-> api,
             late |-> api # env]
       ELSE query_cache[i]]
  /\ run' = [run EXCEPT ![r] = IdleRun]
  /\ evictor' = [e \in Evictor |->
       IF evictor[e].pc \in {"counted", "lru", "commit"}
       THEN [Crossed(seq')[e] EXCEPT !.since = @ + 1] ELSE evictor[e]]
  /\ UNCHANGED <<clock, switching>>

\* The run ends: not GOOD, or failed with its transaction.
EndRun(r) ==
  /\ run[r].pc # "idle"
  /\ run' = [run EXCEPT ![r] = IdleRun]
  /\ UNCHANGED <<query_cache, seq, clock, evictor, switching>>

\* evict_stale_cache_entries: DELETE by age, COUNT, DELETE the excess, commit.
EvictByAge(e) ==
  /\ evictor[e].pc = "idle"
  /\ evictor' = [evictor EXCEPT
       ![e] = [IdleEvictor EXCEPT !.pc = "ttl", !.now = clock,
                                  !.chosen = {i \in Entries : Expired(i, clock)}]]
  /\ UNCHANGED <<query_cache, seq, clock, run, switching>>

\* The DELETE looks again at a row that was hit while it waited for it.
DeleteExpired(e) ==
  /\ evictor[e].pc = "ttl" /\ \A i \in evictor[e].chosen : ~Locked(i)
  /\ evictor' = [evictor EXCEPT
       ![e] = [@ EXCEPT !.pc = "count", !.chosen = {},
                        !.doomed = {i \in evictor[e].chosen \cap Entries :
                                      Expired(i, evictor[e].now)}]]
  /\ UNCHANGED <<query_cache, seq, clock, run, switching>>

EvictCount(e) ==
  /\ evictor[e].pc = "count"
  /\ LET excess == Excess(Cardinality(Visible(e)))
     IN  evictor' = [evictor EXCEPT
           ![e] = [@ EXCEPT !.pc = IF excess = 0 THEN "commit" ELSE "counted",
                            !.excess = excess]]
  /\ UNCHANGED <<query_cache, seq, clock, run, switching>>

EvictOldest(e) ==
  /\ evictor[e].pc = "counted"
  /\ LET n == IF evictor[e].excess <= Cardinality(Visible(e)) THEN evictor[e].excess
              ELSE Cardinality(Visible(e))
     IN  \E S \in OldestFirst(Visible(e), n) :
           evictor' = [evictor EXCEPT ![e] = [@ EXCEPT !.pc = "lru", !.chosen = S]]
  /\ UNCHANGED <<query_cache, seq, clock, run, switching>>

\* Looking again at a row hit meanwhile, this DELETE finds its id among those
\* it chose, and its age is not asked for.
DeleteOldest(e) ==
  /\ evictor[e].pc = "lru" /\ \A i \in evictor[e].chosen : ~Locked(i)
  /\ evictor' = [evictor EXCEPT
       ![e] = [@ EXCEPT !.pc = "commit", !.chosen = {},
                        !.doomed = evictor[e].doomed \cup (evictor[e].chosen \cap Entries)]]
  /\ UNCHANGED <<query_cache, seq, clock, run, switching>>

EvictCommit(e) ==
  /\ evictor[e].pc = "commit"
  /\ query_cache' = Without(evictor[e].doomed)
  /\ evictor' = [evictor EXCEPT ![e] = IdleEvictor]
  /\ UNCHANGED <<seq, clock, run, switching>>

\* The eviction fails and rolls back: a deadlock with another over rows each
\* took first, a lost connection.
EvictFails(e) ==
  /\ evictor[e].pc # "idle"
  /\ evictor' = [evictor EXCEPT ![e] = IdleEvictor]
  /\ UNCHANGED <<query_cache, seq, clock, run, switching>>

\* use_target.sh rewrites .env, re-embeds the schema, then flushes the cache;
\* restarting the API is left to the operator.  It may be run again for the
\* target already named.
SwitchEnv ==
  /\ script = "idle" /\ switches < MaxSwitches
  /\ env' \in Target
  /\ script' = "env" /\ switches' = switches + 1
  /\ UNCHANGED <<query_cache, seq, clock, run, evictor, api, flushing, unflushed>>

StartFlush ==
  /\ script = "env"
  /\ script' = "flush" /\ flushing' = Entries
  /\ UNCHANGED <<query_cache, seq, clock, run, evictor, env, api, unflushed, switches>>

FlushOfOtherTargetOnly ==
  /\ script = "flush" /\ \A i \in flushing : ~Locked(i)
  /\ query_cache' = Without({i \in flushing \cap Entries : query_cache[i].target = env})
  /\ script' = "idle" /\ flushing' = {} /\ unflushed' = FALSE
  /\ UNCHANGED <<seq, clock, run, evictor, env, api, switches>>

Flush ==
  /\ script = "flush" /\ \A i \in flushing : ~Locked(i)
  /\ query_cache' = Without(flushing)
  /\ script' = "idle" /\ flushing' = {} /\ unflushed' = FALSE
  /\ UNCHANGED <<seq, clock, run, evictor, env, api, switches>>

\* The re-embed or the flush fails and `set -e' ends the script, or .env names
\* no state database: .env is switched and nothing is flushed.
ScriptEndsWithoutFlush ==
  /\ script \in {"env", "flush"}
  /\ script' = "idle" /\ flushing' = {} /\ unflushed' = TRUE
  /\ UNCHANGED <<query_cache, seq, clock, run, evictor, env, api, switches>>

\* `nixus reembed-stores' truncates the table in its transaction: it waits for
\* every transaction that has touched the table, the flush included, and the
\* ids go on from where they were.
ReembedTruncates ==
  /\ \A e \in Evictor : evictor[e].pc = "idle"
  /\ \A r \in Run : run[r].pc \notin {"updated", "stored"}
  /\ script # "flush"
  /\ query_cache' = Without(Entries)
  /\ UNCHANGED <<seq, clock, run, evictor, switching>>

\* The API restarts, at any time: its runs and evictions are gone, their
\* transactions rolled back, and it serves what .env names.
RestartApi ==
  /\ api' = env
  /\ run' = [r \in Run |-> IdleRun]
  /\ evictor' = [e \in Evictor |-> IdleEvictor]
  /\ UNCHANGED <<query_cache, seq, clock, env, script, flushing, unflushed, switches>>

Next ==
  \/ \E r \in Run, q \in Question : Search(r, q)
  \/ \E r \in Run : BeginHit(r) \/ IncrementHitCount(r) \/ CommitHit(r)
                    \/ StoreCacheEntry(r) \/ CommitEntry(r) \/ EndRun(r)
  \/ \E e \in Evictor : EvictByAge(e) \/ DeleteExpired(e) \/ EvictCount(e) \/ EvictOldest(e)
                        \/ DeleteOldest(e) \/ EvictCommit(e) \/ EvictFails(e)
  \/ SwitchEnv \/ StartFlush \/ Flush \/ ScriptEndsWithoutFlush
  \/ ReembedTruncates \/ RestartApi \/ Tick

Spec == Init /\ [][Next]_vars

-----------------------------------------------------------------------------
(* Properties. *)

(* Type invariant: the table, the callers' locals and the clock keep their   *)
(* types, and an excess never exceeds the rows there can be.                 *)
TypeOK ==
  /\ Entries \subseteq Id /\ query_cache \in [Entries -> Row]
  /\ seq \in 0..MaxId /\ clock \in 0..MaxClock
  /\ run \in [Run -> RunState] /\ evictor \in [Evictor -> EvictorState]
  /\ env \in Target /\ api \in Target /\ script \in {"idle", "env", "flush"}
  /\ flushing \subseteq Id /\ unflushed \in BOOLEAN /\ switches \in 0..MaxSwitches

(* What an eviction is about to drop though it is not past its age is no     *)
(* more than the excess it counted - none within the cap, however many       *)
(* expired rows were hit while it waited for them - and was used after an    *)
(* entry it keeps for one reason only: one of the two was hit or stored      *)
(* between its choice of the oldest and its commit (query_cache.py: the TTL  *)
(* DELETE asks for the age again, ORDER BY last_accessed of the LRU DELETE   *)
(* does not).                                                                *)
EvictsLeastRecent ==
  \A e \in Evictor : evictor[e].pc = "commit" =>
    LET young == {i \in evictor[e].doomed \cap Entries : ~Expired(i, evictor[e].now)}
    IN  /\ Cardinality(young) <= evictor[e].excess
        /\ \A i \in young, j \in Visible(e) :
             \/ query_cache[i].last_accessed <= query_cache[j].last_accessed
             \/ evictor[e].crossed \cap {i, j} # {}

(* An eviction meets its cap up to the entries stored while it ran.          *)
CapMetAfterEviction ==
  \A e \in Evictor : evictor[e].pc = "commit" =>
    Cardinality(Entries \ evictor[e].doomed) <= max_entries + evictor[e].since

(* Once the script has run to its end and the API has been restarted, an     *)
(* entry computed on another target than the one served was stored by an API *)
(* that had not been restarted yet: the flush leaves no other (use_target.sh:*)
(* .env first, then the flush).                                              *)
StaleOnlyFromOldApi ==
  script = "idle" /\ ~unflushed /\ api = env =>
    \A i \in Entries : query_cache[i].target # api => query_cache[i].late

=============================================================================
