------------------------------ MODULE CacheProofs ------------------------------
(***************************************************************************)
(* Proofs about QueryCache, for any number of runs, evictions, questions,  *)
(* targets and entries.                                                    *)
(***************************************************************************)
EXTENDS QueryCache, FiniteSetTheorems, TLAPS

\* Ids are of the past.
OfThePast == \A i \in Entries : i <= seq

\* Once a flush has followed the last switch, what was stored in time is of
\* the target .env names; while it runs, what it has not chosen is.
FlushInv ==
  /\ script = "flush" =>
       \A i \in Entries \ flushing : ~query_cache[i].late => query_cache[i].target = env
  /\ script = "idle" /\ ~unflushed =>
       \A i \in Entries : ~query_cache[i].late => query_cache[i].target = env

\* What an eviction has deleted is in the table until it commits, and no
\* other transaction has written it.
Holds(e) ==
  /\ evictor[e].doomed \subseteq Entries
  /\ \A d \in Evictor \ {e} : evictor[e].doomed \cap evictor[d].doomed = {}
  /\ \A r \in Run : run[r].pc = "updated" => run[r].entry \cap evictor[e].doomed = {}

\* No entry of `first' was used after one of `second', but for what was hit
\* or stored since the eviction chose.
Older(e, first, second) ==
  \A i \in first, j \in second :
    \/ query_cache[i].last_accessed <= query_cache[j].last_accessed
    \/ evictor[e].crossed \cap {i, j} # {}

Young(e, ids) == {i \in ids : ~Expired(i, evictor[e].now)}

\* The rows an eviction has chosen as the oldest, and those it has deleted.
Chosen(e) ==
  /\ evictor[e].pc \in {"idle", "ttl"} => evictor[e].doomed = {}
  /\ evictor[e].pc # "commit" => Young(e, evictor[e].doomed) = {}
  /\ evictor[e].pc = "lru" =>
       /\ evictor[e].chosen \cap evictor[e].doomed = {}
       /\ Cardinality(evictor[e].chosen) <= evictor[e].excess
       /\ Older(e, evictor[e].chosen \cap Entries, Visible(e) \ evictor[e].chosen)
  /\ evictor[e].pc = "commit" =>
       /\ Cardinality(Young(e, evictor[e].doomed)) <= evictor[e].excess
       /\ Older(e, Young(e, evictor[e].doomed), Visible(e))

\* It has counted all but what came since.
Counts(e) ==
  /\ evictor[e].pc \in {"idle", "ttl", "count"} => evictor[e].since = 0
  /\ evictor[e].pc = "counted" =>
       Cardinality(Visible(e)) <= max_entries + evictor[e].since + evictor[e].excess
  /\ evictor[e].pc = "lru" =>
       Cardinality(Visible(e) \ evictor[e].chosen) <= max_entries + evictor[e].since
  /\ evictor[e].pc = "commit" => Cardinality(Visible(e)) <= max_entries + evictor[e].since

EvictionInv(e) == Holds(e) /\ Chosen(e) /\ Counts(e)

\* The inductive invariant.
CacheInv == TypeOK /\ OfThePast /\ FlushInv /\ \A e \in Evictor : EvictionInv(e)

-----------------------------------------------------------------------------
(* Rows and numbers of rows. *)

(* The fields of a row.                                                    *)
LEMMA RowTyped ==
  ASSUME TypeOK, NEW i \in Entries
  PROVE  /\ query_cache[i] \in Row /\ i \in Nat /\ i \in Id
         /\ query_cache[i].last_accessed \in 0..MaxClock
         /\ query_cache[i].last_accessed \in Nat /\ query_cache[i].late \in BOOLEAN
<1>1. query_cache[i] \in Row /\ i \in Id
  BY DEF TypeOK
<1> QED
  BY <1>1, CacheAssumption DEF Row, Id

(* Sets of entries are finite.                                             *)
LEMMA IdsFinite ==
  ASSUME NEW ids \in SUBSET Id
  PROVE  IsFiniteSet(ids) /\ Cardinality(ids) \in 0..MaxId /\ Cardinality(ids) \in Nat
<1>1. IsFiniteSet(Id) /\ Cardinality(Id) = MaxId
  BY FS_Interval, CacheAssumption DEF Id
<1>2. IsFiniteSet(ids) /\ Cardinality(ids) <= MaxId /\ Cardinality(ids) \in Nat
  BY <1>1, FS_Subset, FS_CardinalityType
<1> QED
  BY <1>2, CacheAssumption

(* The fields of an eviction, and what it sees.                            *)
LEMMA EvictorTyped ==
  ASSUME TypeOK, NEW e \in Evictor
  PROVE  /\ evictor[e] \in EvictorState /\ evictor[e].doomed \subseteq Id
         /\ evictor[e].chosen \subseteq Id /\ evictor[e].crossed \subseteq Id
         /\ evictor[e].since \in Nat /\ evictor[e].excess \in Nat /\ evictor[e].now \in Nat
         /\ seq \in Nat /\ clock \in Nat /\ max_entries \in Nat
         /\ Visible(e) \in SUBSET Id
<1>1. evictor[e] \in EvictorState
  BY DEF TypeOK
<1> QED
  BY <1>1, CacheAssumption DEF EvictorState, TypeOK, Visible

(* Nobody at work is a run, and an eviction, too.                          *)
LEMMA IdlesTyped ==
  /\ IdleRun \in RunState /\ IdleRun.pc = "idle"
  /\ IdleEvictor \in EvictorState /\ IdleEvictor.pc = "idle"
  /\ IdleEvictor.doomed = {} /\ IdleEvictor.since = 0
<1>1. AnyQuestion \in Question
  BY CacheAssumption DEF AnyQuestion
<1> QED
  BY <1>1, CacheAssumption DEF IdleRun, RunState, IdleEvictor, EvictorState

(* An eviction that is idle has nothing to be wrong about.                 *)
LEMMA IdleEviction ==
  ASSUME NEW e \in Evictor, evictor[e] = IdleEvictor
  PROVE  Chosen(e) /\ Counts(e)
BY IdlesTyped DEF Chosen, Counts, Young

-----------------------------------------------------------------------------
(* What an eviction at work finds changed by a step of somebody else. *)

(* Entries may go, others may come or be hit and are noted: what it has    *)
(* chosen, and what it has deleted, stay as old as they were.              *)
LEMMA ChosenStays ==
  ASSUME CacheInv, NEW e \in Evictor, NEW new,
         evictor'[e].pc = evictor[e].pc, evictor'[e].now = evictor[e].now,
         evictor'[e].chosen = evictor[e].chosen, evictor'[e].doomed = evictor[e].doomed,
         evictor'[e].excess = evictor[e].excess,
         evictor[e].crossed \subseteq evictor'[e].crossed,
         evictor[e].doomed \subseteq Entries', Entries' \subseteq Entries \cup new,
         \A i \in Entries' \cap Entries :
           \/ query_cache'[i].last_accessed = query_cache[i].last_accessed
           \/ /\ i \notin evictor[e].doomed
              /\ evictor[e].pc \in {"lru", "commit"} => i \in evictor'[e].crossed,
         \A i \in new : evictor[e].pc \in {"lru", "commit"} => i \in evictor'[e].crossed
  PROVE  Chosen(e)'
<1>1. evictor[e].doomed \subseteq Entries
  BY DEF CacheInv, EvictionInv, Holds
<1>2. Young(e, evictor[e].doomed)' = Young(e, evictor[e].doomed)
  <2>1. \A i \in evictor[e].doomed : query_cache'[i].last_accessed = query_cache[i].last_accessed
    BY <1>1
  <2>2. \A i \in evictor[e].doomed : Expired(i, evictor[e].now)' = Expired(i, evictor[e].now)
    BY <2>1 DEF Expired
  <2> QED
    BY <2>2 DEF Young
<1>3. ASSUME evictor[e].pc \in {"lru", "commit"}, NEW first, NEW second,
             NEW i \in Entries', NEW j \in Entries', i \notin new => i \in first,
             j \notin new => j \in second, Older(e, first, second)
      PROVE  \/ query_cache'[i].last_accessed <= query_cache'[j].last_accessed
             \/ evictor'[e].crossed \cap {i, j} # {}
  BY <1>3 DEF Older
<1>4. ASSUME evictor[e].pc = "lru"
      PROVE  Older(e, evictor[e].chosen \cap Entries, Visible(e) \ evictor[e].chosen)'
  BY <1>3, <1>4 DEF CacheInv, EvictionInv, Chosen, Older, Visible
<1>5. ASSUME evictor[e].pc = "commit"
      PROVE  Older(e, Young(e, evictor[e].doomed), Visible(e))'
  <2> SUFFICES ASSUME NEW i \in Young(e, evictor[e].doomed), NEW j \in Visible(e)'
               PROVE  \/ query_cache'[i].last_accessed <= query_cache'[j].last_accessed
                      \/ evictor'[e].crossed \cap {i, j} # {}
    BY <1>2 DEF Older
  <2>1. i \in Entries' /\ j \in Entries' /\ (j \notin new => j \in Visible(e))
    BY DEF Young, Visible
  <2>2. Older(e, Young(e, evictor[e].doomed), Visible(e))
    BY <1>5 DEF CacheInv, EvictionInv, Chosen
  <2> QED
    BY <1>3, <1>5, <2>1, <2>2
<1> QED
  BY <1>2, <1>4, <1>5 DEF CacheInv, EvictionInv, Chosen

(* It sees fewer entries, or one more that it is told of.                  *)
LEMMA CountsStay ==
  ASSUME CacheInv, NEW e \in Evictor, Entries' \subseteq Id,
         evictor'[e].pc = evictor[e].pc, evictor'[e].chosen = evictor[e].chosen,
         evictor'[e].doomed = evictor[e].doomed, evictor'[e].excess = evictor[e].excess,
         \/ Entries' \subseteq Entries /\ evictor'[e].since = evictor[e].since
         \/ \E id : /\ Entries' \subseteq Entries \cup {id}
                    /\ evictor'[e].since = IF evictor[e].pc \in {"counted", "lru", "commit"}
                                           THEN evictor[e].since + 1 ELSE evictor[e].since
  PROVE  Counts(e)'
<1>1. /\ Visible(e) \in SUBSET Id /\ evictor[e].since \in Nat /\ evictor[e].excess \in Nat
      /\ max_entries \in Nat
  BY EvictorTyped DEF CacheInv
<1>2. Visible(e)' = Entries' \ evictor[e].doomed
  BY DEF Visible
<1>3. ASSUME NEW rest \in SUBSET Visible(e), NEW rest2 \in SUBSET Id,
             \/ rest2 \subseteq rest
             \/ \E id : rest2 \subseteq rest \cup {id}
      PROVE  /\ Cardinality(rest) \in Nat /\ Cardinality(rest2) \in Nat
             /\ Cardinality(rest2) <= Cardinality(rest) + 1
             /\ rest2 \subseteq rest => Cardinality(rest2) <= Cardinality(rest)
  <2>1. IsFiniteSet(rest) /\ Cardinality(rest) \in Nat /\ Cardinality(rest2) \in Nat
    BY <1>1, <1>3, IdsFinite
  <2>2. ASSUME rest2 \subseteq rest  PROVE Cardinality(rest2) <= Cardinality(rest)
    BY <2>1, <2>2, FS_Subset
  <2>3. ASSUME NEW id, rest2 \subseteq rest \cup {id}
        PROVE  Cardinality(rest2) <= Cardinality(rest) + 1
    <3>1. /\ IsFiniteSet(rest \cup {id}) /\ Cardinality(rest \cup {id}) \in Nat
          /\ Cardinality(rest \cup {id}) <= Cardinality(rest) + 1
      <4>1. IsFiniteSet(rest \cup {id}) /\ (id \in rest => rest \cup {id} = rest)
        BY <2>1, FS_AddElement
      <4>2. id \notin rest => Cardinality(rest \cup {id}) = Cardinality(rest) + 1
        BY <2>1, FS_AddElement
      <4> QED
        BY <2>1, <4>1, <4>2
    <3>2. Cardinality(rest2) <= Cardinality(rest \cup {id})
      BY <2>3, <3>1, FS_Subset
    <3> QED
      BY <2>1, <3>1, <3>2
  <2> QED
    BY <1>3, <2>1, <2>2, <2>3
<1> DEFINE V == Visible(e)
           W == Entries' \ evictor[e].doomed
           C == evictor[e].chosen
<1>4. /\ Cardinality(V) \in Nat /\ Cardinality(W) \in Nat /\ Cardinality(V \ C) \in Nat
      /\ Cardinality(W \ C) \in Nat
      /\ Cardinality(W) <= Cardinality(V) + 1 /\ Cardinality(W \ C) <= Cardinality(V \ C) + 1
      /\ Entries' \subseteq Entries =>
           Cardinality(W) <= Cardinality(V) /\ Cardinality(W \ C) <= Cardinality(V \ C)
  <2>1. V \in SUBSET V /\ V \ C \in SUBSET V /\ W \in SUBSET Id /\ W \ C \in SUBSET Id
    OBVIOUS
  <2>2. CASE Entries' \subseteq Entries
    <3>1. W \subseteq V /\ W \ C \subseteq V \ C
      BY <2>2 DEF Visible
    <3> HIDE DEF V, W, C
    <3>2. /\ Cardinality(V) \in Nat /\ Cardinality(W) \in Nat
          /\ Cardinality(W) <= Cardinality(V) + 1 /\ Cardinality(W) <= Cardinality(V)
      BY <1>3, <2>1, <3>1 DEF V
    <3>3. /\ Cardinality(V \ C) \in Nat /\ Cardinality(W \ C) \in Nat
          /\ Cardinality(W \ C) <= Cardinality(V \ C) + 1 /\ Cardinality(W \ C) <= Cardinality(V \ C)
      BY <1>3, <2>1, <3>1 DEF V
    <3> QED
      BY <3>2, <3>3
  <2>3. ASSUME NEW id, Entries' \subseteq Entries \cup {id}, ~(Entries' \subseteq Entries)
        PROVE  /\ Cardinality(V) \in Nat /\ Cardinality(W) \in Nat /\ Cardinality(V \ C) \in Nat
               /\ Cardinality(W \ C) \in Nat
               /\ Cardinality(W) <= Cardinality(V) + 1
               /\ Cardinality(W \ C) <= Cardinality(V \ C) + 1
    <3>1. W \subseteq V \cup {id} /\ W \ C \subseteq (V \ C) \cup {id}
      BY <2>3 DEF Visible
    <3> HIDE DEF V, W, C
    <3>2. /\ Cardinality(V) \in Nat /\ Cardinality(W) \in Nat
          /\ Cardinality(W) <= Cardinality(V) + 1
      BY <1>3, <2>1, <3>1 DEF V
    <3>3. /\ Cardinality(V \ C) \in Nat /\ Cardinality(W \ C) \in Nat
          /\ Cardinality(W \ C) <= Cardinality(V \ C) + 1
      BY <1>3, <2>1, <3>1 DEF V
    <3> QED
      BY <3>2, <3>3
  <2> QED
    BY <2>2, <2>3
<1>5. Counts(e)
  BY DEF CacheInv, EvictionInv
<1>6. CASE Entries' \subseteq Entries /\ evictor'[e].since = evictor[e].since
  BY <1>1, <1>2, <1>4, <1>5, <1>6 DEF Counts
<1>7. CASE evictor'[e].since = IF evictor[e].pc \in {"counted", "lru", "commit"}
                               THEN evictor[e].since + 1 ELSE evictor[e].since
  BY <1>1, <1>2, <1>4, <1>5, <1>7 DEF Counts
<1> QED
  BY <1>6, <1>7

(* A step that leaves the table, the evictions and what runs have locked.  *)
LEMMA TableStays ==
  ASSUME CacheInv, UNCHANGED <<query_cache, seq, evictor>>,
         \A r \in Run : run'[r].pc = "updated" =>
           \/ run[r].pc = "updated" /\ run'[r].entry = run[r].entry
           \/ \A e \in Evictor : run'[r].entry \cap evictor[e].doomed = {}
  PROVE  OfThePast' /\ \A e \in Evictor : EvictionInv(e)'
<1>1. Entries' = Entries /\ OfThePast'
  BY DEF CacheInv, OfThePast, Entries
<1>2. ASSUME NEW e \in Evictor  PROVE EvictionInv(e)'
  <2>1. Holds(e)'
    BY <1>1 DEF CacheInv, EvictionInv, Holds
  <2>2. Visible(e)' = Visible(e)
    BY <1>1 DEF Visible
  <2>3. Chosen(e)' /\ Counts(e)'
    <3>1. evictor'[e] = evictor[e] /\ query_cache' = query_cache
      OBVIOUS
    <3>2. \A i : Expired(i, evictor[e].now)' = Expired(i, evictor[e].now)
      BY <3>1 DEF Expired
    <3>3. Young(e, evictor[e].doomed)' = Young(e, evictor[e].doomed)
      BY <3>1, <3>2 DEF Young
    <3>4. Chosen(e)'
      BY <1>1, <2>2, <3>1, <3>3 DEF CacheInv, EvictionInv, Chosen, Older
    <3>5. Counts(e)'
      BY <2>2, <3>1 DEF CacheInv, EvictionInv, Counts
    <3> QED
      BY <3>4, <3>5
  <2> QED
    BY <2>1, <2>3 DEF EvictionInv
<1> QED
  BY <1>1, <1>2

(* Entries that no transaction has locked are gone.                        *)
LEMMA EntriesGo ==
  ASSUME CacheInv, NEW gone, query_cache' = Without(gone), UNCHANGED <<seq, evictor, run>>,
         \A e \in Evictor : evictor[e].doomed \cap gone = {}
  PROVE  /\ Entries' = Entries \ gone /\ \A i \in Entries' : query_cache'[i] = query_cache[i]
         /\ query_cache' \in [Entries' -> Row] /\ Entries' \subseteq Id
         /\ OfThePast' /\ \A e \in Evictor : EvictionInv(e)'
<1>1. /\ Entries' = Entries \ gone /\ \A i \in Entries' : query_cache'[i] = query_cache[i]
      /\ query_cache' \in [Entries' -> Row] /\ Entries' \subseteq Id
  BY DEF Entries, Without, CacheInv, TypeOK
<1>2. OfThePast'
  BY <1>1 DEF CacheInv, OfThePast
<1>3. ASSUME NEW e \in Evictor  PROVE EvictionInv(e)'
  <2>1. Holds(e)'
    BY <1>1 DEF CacheInv, EvictionInv, Holds
  <2>2. evictor[e].doomed \subseteq Entries'
    BY <1>1 DEF CacheInv, EvictionInv, Holds
  <2>3. Chosen(e)'
    BY <1>1, <2>2, ChosenStays
  <2>4. Counts(e)'
    BY <1>1, CountsStay
  <2> QED
    BY <2>1, <2>3, <2>4 DEF EvictionInv
<1> QED
  BY <1>1, <1>2, <1>3

-----------------------------------------------------------------------------
(* The steps of the runs. *)

(* A run's own step, on a table that stays.                                *)
LEMMA RunOnly ==
  ASSUME CacheInv, NEW r \in Run, NEW s \in RunState, run' = [run EXCEPT ![r] = s],
         UNCHANGED <<query_cache, seq, clock, evictor, switching>>,
         s.pc = "updated" => \A e \in Evictor : s.entry \cap evictor[e].doomed = {}
  PROVE  CacheInv'
<1>1. run' \in [Run -> RunState] /\ run'[r] = s /\ \A q \in Run \ {r} : run'[q] = run[q]
  BY DEF CacheInv, TypeOK
<1>2. TypeOK' /\ FlushInv'
  BY <1>1 DEF CacheInv, TypeOK, FlushInv, Entries, switching
<1>3. OfThePast' /\ \A e \in Evictor : EvictionInv(e)'
  BY <1>1, TableStays
<1> QED
  BY <1>2, <1>3 DEF CacheInv

(* The fields of a run.                                                    *)
LEMMA RunTyped ==
  ASSUME CacheInv, NEW r \in Run
  PROVE  /\ run[r] \in RunState /\ run[r].question \in Question /\ run[r].entry \in SUBSET Id
         /\ run[r].at \in 0..MaxClock /\ clock \in 0..MaxClock /\ 0 \in 0..MaxClock
BY CacheAssumption DEF CacheInv, TypeOK, RunState

(* A search copies a row, a transaction begins or inserts, a run ends.     *)
LEMMA RunStep ==
  ASSUME CacheInv, NEW r \in Run,
         \/ \E q \in Question : Search(r, q)
         \/ BeginHit(r) \/ StoreCacheEntry(r) \/ EndRun(r)
  PROVE  CacheInv'
<1>1. UNCHANGED <<query_cache, seq, clock, evictor, switching>>
  BY DEF Search, BeginHit, StoreCacheEntry, EndRun
<1>2. ASSUME NEW q \in Question, NEW i \in Near(q),
             run' = [run EXCEPT ![r] = [IdleRun EXCEPT !.pc = "hit", !.question = q, !.entry = {i}]]
      PROVE  CacheInv'
  <2> DEFINE s == [IdleRun EXCEPT !.pc = "hit", !.question = q, !.entry = {i}]
  <2>1. i \in Id
    BY DEF Near, CacheInv, TypeOK
  <2>2. s \in RunState /\ s.pc = "hit"
    BY <2>1, IdlesTyped DEF RunState
  <2> HIDE DEF s
  <2>3. run' = [run EXCEPT ![r] = s]
    BY <1>2 DEF s
  <2> QED
    BY <1>1, <2>2, <2>3, RunOnly
<1>3. ASSUME NEW q \in Question,
             run' = [run EXCEPT ![r] = [IdleRun EXCEPT !.pc = "miss", !.question = q]]
      PROVE  CacheInv'
  <2> DEFINE s == [IdleRun EXCEPT !.pc = "miss", !.question = q]
  <2>1. s \in RunState /\ s.pc = "miss"
    BY IdlesTyped DEF RunState
  <2> HIDE DEF s
  <2>2. run' = [run EXCEPT ![r] = s]
    BY <1>3 DEF s
  <2> QED
    BY <1>1, <2>1, <2>2, RunOnly
<1>4. ASSUME NEW to \in {"begun", "stored"},
             run' = [run EXCEPT ![r] = [@ EXCEPT !.pc = to, !.at = clock]]
      PROVE  CacheInv'
  <2> DEFINE s == [run[r] EXCEPT !.pc = to, !.at = clock]
  <2>1. s \in RunState /\ s.pc = to
    BY RunTyped DEF RunState
  <2>2. run' = [run EXCEPT ![r] = s]
    BY <1>4
  <2> HIDE DEF s
  <2> QED
    BY <1>1, <2>1, <2>2, RunOnly
<1>5. CASE EndRun(r)
  BY <1>1, <1>5, IdlesTyped, RunOnly DEF EndRun
<1> QED
  BY <1>2, <1>3, <1>4, <1>5 DEF Search, BeginHit, StoreCacheEntry

(* An UPDATE takes a row that no eviction has.                             *)
LEMMA UpdateStep ==
  ASSUME CacheInv, NEW r \in Run, IncrementHitCount(r)
  PROVE  CacheInv'
<1> DEFINE s == [run[r] EXCEPT !.pc = "updated", !.entry = run[r].entry \cap Entries]
<1>1. /\ run' = [run EXCEPT ![r] = s]
      /\ UNCHANGED <<query_cache, seq, clock, evictor, switching>>
      /\ \A i \in run[r].entry : ~Locked(i)
  BY DEF IncrementHitCount
<1>2. s \in RunState /\ s.entry \subseteq run[r].entry
  BY RunTyped DEF RunState
<1>3. \A e \in Evictor : s.entry \cap evictor[e].doomed = {}
  BY <1>1, <1>2 DEF Locked
<1> HIDE DEF s
<1> QED
  BY <1>1, <1>2, <1>3, RunOnly

(* What is noted of a row is all that is noted.                            *)
LEMMA CrossedTyped ==
  ASSUME TypeOK, NEW i \in Id, NEW e \in Evictor
  PROVE  LET x == Crossed(i)[e] IN
         /\ x \in EvictorState /\ x.pc = evictor[e].pc /\ x.now = evictor[e].now
         /\ x.chosen = evictor[e].chosen /\ x.doomed = evictor[e].doomed
         /\ x.excess = evictor[e].excess /\ x.since = evictor[e].since
         /\ evictor[e].crossed \subseteq x.crossed
         /\ evictor[e].pc \in {"lru", "commit"} => i \in x.crossed
<1>1. evictor[e] \in EvictorState
  BY DEF TypeOK
<1>2. CASE evictor[e].pc \in {"lru", "commit"}
  <2> DEFINE x == [evictor[e] EXCEPT !.crossed = @ \cup {i}]
  <2>1. Crossed(i)[e] = x
    BY <1>2 DEF Crossed
  <2>2. evictor[e].crossed \cup {i} \in SUBSET Id
    BY <1>1 DEF EvictorState
  <2>3. /\ x \in EvictorState /\ x.pc = evictor[e].pc /\ x.now = evictor[e].now
        /\ x.chosen = evictor[e].chosen /\ x.doomed = evictor[e].doomed
        /\ x.excess = evictor[e].excess /\ x.since = evictor[e].since
        /\ x.crossed = evictor[e].crossed \cup {i}
    BY <1>1, <2>2 DEF EvictorState
  <2> HIDE DEF x
  <2> QED
    BY <2>1, <2>3
<1>3. CASE evictor[e].pc \notin {"lru", "commit"}
  BY <1>1, <1>3 DEF Crossed
<1> QED
  BY <1>2, <1>3

(* A hit changes a row that no eviction has, and those that have chosen    *)
(* are told of it.                                                         *)
LEMMA CommitHitStep ==
  ASSUME CacheInv, NEW r \in Run, CommitHit(r)
  PROVE  CacheInv'
<1>1. /\ run[r].pc = "updated" /\ run' = [run EXCEPT ![r] = IdleRun]
      /\ UNCHANGED <<seq, clock, switching>>
      /\ \/ UNCHANGED <<query_cache, evictor>>
         \/ \E i \in run[r].entry :
              /\ query_cache' = [query_cache EXCEPT ![i].last_accessed = run[r].at]
              /\ evictor' = Crossed(i)
  BY DEF CommitHit
<1>2. CASE UNCHANGED <<query_cache, evictor>>
  BY <1>1, <1>2, IdlesTyped, RunOnly
<1>3. ASSUME NEW i \in run[r].entry,
             query_cache' = [query_cache EXCEPT ![i].last_accessed = run[r].at],
             evictor' = Crossed(i)
      PROVE  CacheInv'
  <2>1. i \in Id /\ run[r].at \in 0..MaxClock
    BY RunTyped
  <2>2. /\ run' \in [Run -> RunState] /\ \A q \in Run : run'[q] = IF q = r THEN IdleRun ELSE run[q]
    BY <1>1, IdlesTyped DEF CacheInv, TypeOK
  <2>3. /\ Entries' = Entries /\ query_cache' \in [Entries -> Row]
        /\ \A j \in Entries : /\ query_cache'[j].late = query_cache[j].late
                              /\ query_cache'[j].target = query_cache[j].target
                              /\ j # i => query_cache'[j] = query_cache[j]
    <3>1. query_cache \in [Entries -> Row]
      BY DEF CacheInv, TypeOK
    <3>2. ASSUME NEW j \in Entries
          PROVE  /\ [query_cache[j] EXCEPT !.last_accessed = run[r].at] \in Row
                 /\ [query_cache[j] EXCEPT !.last_accessed = run[r].at].late = query_cache[j].late
                 /\ [query_cache[j] EXCEPT !.last_accessed = run[r].at].target = query_cache[j].target
      <4>1. query_cache[j] \in Row
        BY <3>1
      <4> QED
        BY <2>1, <4>1 DEF Row
    <3>3. Entries' = Entries
      BY <1>3 DEF Entries
    <3>4. \A j \in Entries :
            query_cache'[j] = IF j = i THEN [query_cache[j] EXCEPT !.last_accessed = run[r].at]
                              ELSE query_cache[j]
      BY <1>3, <3>1
    <3>5. query_cache' = [j \in Entries |-> query_cache'[j]]
      BY <1>3, <3>1
    <3>6. \A j \in Entries : query_cache'[j] \in Row
      BY <3>1, <3>2, <3>4
    <3>7. query_cache' \in [Entries -> Row]
      BY <3>5, <3>6
    <3> QED
      BY <3>2, <3>3, <3>4, <3>7
  <2>4. evictor' \in [Evictor -> EvictorState] /\ \A e \in Evictor : evictor'[e] = Crossed(i)[e]
    BY <1>3, <2>1, CrossedTyped DEF CacheInv, Crossed
  <2>5. TypeOK'
    BY <1>1, <2>2, <2>3, <2>4 DEF CacheInv, TypeOK, switching
  <2>6. OfThePast' /\ FlushInv'
    BY <1>1, <2>3 DEF CacheInv, OfThePast, FlushInv, switching
  <2>7. ASSUME NEW e \in Evictor  PROVE EvictionInv(e)'
    <3>1. \A d \in Evictor :
            /\ evictor'[d].pc = evictor[d].pc /\ evictor'[d].now = evictor[d].now
            /\ evictor'[d].chosen = evictor[d].chosen /\ evictor'[d].doomed = evictor[d].doomed
            /\ evictor'[d].excess = evictor[d].excess /\ evictor'[d].since = evictor[d].since
            /\ evictor[d].crossed \subseteq evictor'[d].crossed
            /\ evictor[d].pc \in {"lru", "commit"} => i \in evictor'[d].crossed
      BY <2>1, <2>4, CrossedTyped DEF CacheInv
    <3>2. Holds(e) /\ i \notin evictor[e].doomed
      BY <1>1 DEF CacheInv, EvictionInv, Holds
    <3>3. Holds(e)'
      BY <2>2, <2>3, <3>1, <3>2, IdlesTyped DEF Holds
    <3>4. evictor[e].doomed \subseteq Entries' /\ Entries' \subseteq Entries \cup {}
      BY <2>3, <3>2 DEF Holds
    <3>5. Chosen(e)'
      BY <2>3, <3>1, <3>2, <3>4, ChosenStays
    <3>6. Counts(e)'
      BY <2>3, <3>1, CountsStay DEF CacheInv, TypeOK
    <3> QED
      BY <3>3, <3>5, <3>6 DEF EvictionInv
  <2> QED
    BY <2>5, <2>6, <2>7 DEF CacheInv
<1> QED
  BY <1>1, <1>2, <1>3

(* A new entry is doomed by no eviction; those that have counted count it, *)
(* and those that have chosen are told of it.                              *)
LEMMA CommitEntryStep ==
  ASSUME CacheInv, NEW r \in Run, CommitEntry(r)
  PROVE  CacheInv'
<1> DEFINE id == seq + 1
           row == [question |-> run[r].question, last_accessed |-> run[r].at, target |-> api,
                   late |-> api # env]
           next(e) == IF evictor[e].pc \in {"counted", "lru", "commit"}
                      THEN [Crossed(id)[e] EXCEPT !.since = @ + 1] ELSE evictor[e]
<1>1. /\ seq < MaxId /\ seq' = id
      /\ query_cache' = [i \in Entries \cup {id} |-> IF i = id THEN row ELSE query_cache[i]]
      /\ run' = [run EXCEPT ![r] = IdleRun]
      /\ evictor' = [e \in Evictor |-> next(e)]
      /\ UNCHANGED <<clock, switching>>
  BY DEF CommitEntry
<1>2. seq \in Nat /\ MaxId \in Nat /\ id \in Id /\ id \in 0..MaxId
  BY <1>1, CacheAssumption DEF CacheInv, TypeOK, Id
<1>3. \A i \in Entries : i \in Nat /\ i <= seq /\ i # id
  BY <1>2, RowTyped DEF CacheInv, OfThePast
<1>4. row \in Row /\ row.target = api /\ row.late = (api # env)
  <2>1. api \in Target
    BY DEF CacheInv, TypeOK
  <2> QED
    BY <2>1, RunTyped DEF Row
<1>5. ASSUME NEW e \in Evictor
      PROVE  /\ next(e) \in EvictorState /\ next(e).pc = evictor[e].pc
             /\ next(e).now = evictor[e].now /\ next(e).chosen = evictor[e].chosen
             /\ next(e).doomed = evictor[e].doomed /\ next(e).excess = evictor[e].excess
             /\ next(e).since = IF evictor[e].pc \in {"counted", "lru", "commit"}
                                THEN evictor[e].since + 1 ELSE evictor[e].since
             /\ evictor[e].crossed \subseteq next(e).crossed
             /\ evictor[e].pc \in {"lru", "commit"} => id \in next(e).crossed
  <2>1. evictor[e] \in EvictorState /\ evictor[e].since \in Nat
    BY EvictorTyped DEF CacheInv
  <2>2. CASE evictor[e].pc \in {"counted", "lru", "commit"}
    <3> DEFINE c == Crossed(id)[e]
               x == [c EXCEPT !.since = @ + 1]
    <3>1. /\ c \in EvictorState /\ c.pc = evictor[e].pc /\ c.now = evictor[e].now
          /\ c.chosen = evictor[e].chosen /\ c.doomed = evictor[e].doomed
          /\ c.excess = evictor[e].excess /\ c.since = evictor[e].since
          /\ evictor[e].crossed \subseteq c.crossed
          /\ evictor[e].pc \in {"lru", "commit"} => id \in c.crossed
      BY <1>2, CrossedTyped DEF CacheInv
    <3> HIDE DEF c, id
    <3>2. c.since + 1 \in Nat
      BY <2>1, <3>1
    <3>3. /\ x \in EvictorState /\ x.pc = c.pc /\ x.now = c.now
          /\ x.chosen = c.chosen /\ x.doomed = c.doomed
          /\ x.excess = c.excess /\ x.since = c.since + 1 /\ x.crossed = c.crossed
      BY <3>1, <3>2 DEF EvictorState
    <3>4. next(e) = x
      BY <2>2 DEF c
    <3> HIDE DEF x, next
    <3> QED
      BY <2>2, <3>1, <3>3, <3>4
  <2>3. CASE evictor[e].pc \notin {"counted", "lru", "commit"}
    BY <2>1, <2>3
  <2> QED
    BY <2>2, <2>3
<1> HIDE DEF row, next
<1>6. /\ Entries' = Entries \cup {id} /\ query_cache'[id] = row
      /\ \A i \in Entries : query_cache'[i] = query_cache[i]
  BY <1>1, <1>3 DEF Entries
<1>7. /\ run' \in [Run -> RunState] /\ \A q \in Run : run'[q] = IF q = r THEN IdleRun ELSE run[q]
  BY <1>1, IdlesTyped DEF CacheInv, TypeOK
<1>8. TypeOK'
  <2>1. query_cache' \in [Entries \cup {id} -> Row]
    BY <1>1, <1>4 DEF CacheInv, TypeOK
  <2>2. evictor' \in [Evictor -> EvictorState]
    BY <1>1, <1>5
  <2> QED
    BY <1>1, <1>2, <1>6, <1>7, <2>1, <2>2 DEF CacheInv, TypeOK, switching
<1>9. OfThePast'
  BY <1>1, <1>2, <1>3, <1>6 DEF OfThePast
<1>10. FlushInv'
  BY <1>1, <1>4, <1>6 DEF CacheInv, FlushInv, switching
<1>11. ASSUME NEW e \in Evictor  PROVE EvictionInv(e)'
  <2>1. \A d \in Evictor : evictor'[d] = next(d)
    BY <1>1
  <2>2. Holds(e)'
    BY <1>5, <1>6, <1>7, <2>1, IdlesTyped DEF CacheInv, EvictionInv, Holds
  <2>3. evictor[e].doomed \subseteq Entries' /\ Entries' \subseteq Entries \cup {id} /\ Entries' \subseteq Id
    BY <1>6, <1>8 DEF CacheInv, EvictionInv, Holds, TypeOK
  <2> HIDE DEF id
  <2>4. Chosen(e)'
    BY <1>5, <1>6, <2>1, <2>3, ChosenStays
  <2>5. Counts(e)'
    BY <1>5, <2>1, <2>3, CountsStay
  <2> QED
    BY <2>2, <2>4, <2>5 DEF EvictionInv
<1> QED
  BY <1>8, <1>9, <1>10, <1>11 DEF CacheInv

-----------------------------------------------------------------------------
(* The steps of the evictions. *)

(* An eviction's own step, on a table that stays.                          *)
LEMMA EvictorOnly ==
  ASSUME CacheInv, NEW e \in Evictor, NEW x \in EvictorState,
         evictor' = [evictor EXCEPT ![e] = x],
         UNCHANGED <<query_cache, seq, clock, run, switching>>,
         \A i \in x.doomed : i \in evictor[e].doomed \/ (i \in Entries /\ ~Locked(i)),
         (Chosen(e) /\ Counts(e))'
  PROVE  CacheInv'
<1>1. /\ evictor' \in [Evictor -> EvictorState] /\ evictor'[e] = x
      /\ \A d \in Evictor \ {e} : evictor'[d] = evictor[d]
  BY DEF CacheInv, TypeOK
<1>2. TypeOK' /\ OfThePast' /\ FlushInv' /\ Entries' = Entries
  BY <1>1 DEF CacheInv, TypeOK, OfThePast, FlushInv, Entries, switching
<1>3. \A d \in Evictor : Holds(d)
  BY DEF CacheInv, EvictionInv
<1>4. x.doomed \subseteq Entries
  BY <1>3 DEF Holds
<1>5. \A d \in Evictor \ {e} : x.doomed \cap evictor[d].doomed = {}
  BY <1>3 DEF Holds, Locked
<1>6. \A r \in Run : run[r].pc = "updated" => run[r].entry \cap x.doomed = {}
  BY <1>3 DEF Holds, Locked
<1>7. \A d \in Evictor : Holds(d)'
  BY <1>1, <1>2, <1>3, <1>4, <1>5, <1>6 DEF Holds
<1>8. ASSUME NEW d \in Evictor \ {e}  PROVE Chosen(d)' /\ Counts(d)'
  <2>1. evictor'[d] = evictor[d]
    BY <1>1
  <2>2. evictor[d].doomed \subseteq Entries'
    BY <1>2, <1>3 DEF Holds
  <2>3. Chosen(d)'
    BY <1>2, <2>1, <2>2, ChosenStays
  <2>4. Counts(d)'
    BY <1>2, <2>1, CountsStay DEF CacheInv, TypeOK
  <2> QED
    BY <2>3, <2>4
<1> QED
  BY <1>2, <1>7, <1>8 DEF CacheInv, EvictionInv

(* What has expired is chosen, or all is given up.                         *)
LEMMA BeginStep ==
  ASSUME CacheInv, NEW e \in Evictor, EvictByAge(e) \/ EvictFails(e)
  PROVE  CacheInv'
<1>1. UNCHANGED <<query_cache, seq, clock, run, switching>>
  BY DEF EvictByAge, EvictFails
<1>2. PICK x \in EvictorState : /\ evictor' = [evictor EXCEPT ![e] = x] /\ x.pc \in {"idle", "ttl"}
                                /\ x.doomed = {} /\ x.since = 0
  <2>1. CASE EvictFails(e)
    BY <2>1, IdlesTyped DEF EvictFails
  <2>2. CASE EvictByAge(e)
    <3> DEFINE old == {i \in Entries : Expired(i, clock)}
    <3>1. old \in SUBSET Id /\ clock \in 0..MaxClock
      BY DEF CacheInv, TypeOK
    <3>2. evictor' = [evictor EXCEPT ![e] = [IdleEvictor EXCEPT !.pc = "ttl", !.now = clock, !.chosen = old]]
      BY <2>2 DEF EvictByAge
    <3> HIDE DEF old
    <3> DEFINE x == [IdleEvictor EXCEPT !.pc = "ttl", !.now = clock, !.chosen = old]
    <3>3. x \in EvictorState /\ x.pc = "ttl" /\ x.doomed = {} /\ x.since = 0
      BY <3>1, IdlesTyped DEF EvictorState
    <3> QED
      BY <3>2, <3>3
  <2> QED
    BY <2>1, <2>2
<1>3. evictor'[e] = x
  BY <1>2 DEF CacheInv, TypeOK
<1>4. Chosen(e)' /\ Counts(e)'
  BY <1>2, <1>3 DEF Chosen, Counts, Young
<1> QED
  BY <1>1, <1>2, <1>4, EvictorOnly

(* Of the rows it has chosen, those still expired are deleted.             *)
LEMMA DeleteExpiredStep ==
  ASSUME CacheInv, NEW e \in Evictor, DeleteExpired(e)
  PROVE  CacheInv'
<1> DEFINE gone == {i \in evictor[e].chosen \cap Entries : Expired(i, evictor[e].now)}
           x == [evictor[e] EXCEPT !.pc = "count", !.chosen = {}, !.doomed = gone]
<1>1. /\ evictor' = [evictor EXCEPT ![e] = x] /\ evictor[e].pc = "ttl"
      /\ \A i \in evictor[e].chosen : ~Locked(i)
      /\ UNCHANGED <<query_cache, seq, clock, run, switching>>
  BY DEF DeleteExpired
<1>2. gone \in SUBSET Id /\ \A i \in gone : i \in Entries /\ ~Locked(i) /\ Expired(i, evictor[e].now)
  BY <1>1 DEF CacheInv, TypeOK
<1> HIDE DEF gone
<1>3. /\ x \in EvictorState /\ x.pc = "count" /\ x.doomed = gone /\ x.now = evictor[e].now
      /\ x.since = evictor[e].since
  BY <1>2, EvictorTyped DEF CacheInv, EvictorState
<1> HIDE DEF x
<1>4. evictor'[e] = x
  BY <1>1 DEF CacheInv, TypeOK
<1>5. \A i \in gone : Expired(i, evictor[e].now)'
  BY <1>1, <1>2, <1>3, <1>4 DEF Expired
<1>6. Chosen(e)' /\ Counts(e)'
  BY <1>1, <1>3, <1>4, <1>5 DEF CacheInv, EvictionInv, Chosen, Counts, Young
<1> QED
  BY <1>1, <1>2, <1>3, <1>6, EvictorOnly

(* What exceeds the cap is counted.                                        *)
LEMMA CountStep ==
  ASSUME CacheInv, NEW e \in Evictor, EvictCount(e)
  PROVE  CacheInv'
<1> DEFINE n == Excess(Cardinality(Visible(e)))
           to == IF n = 0 THEN "commit" ELSE "counted"
           x == [evictor[e] EXCEPT !.pc = to, !.excess = n]
<1>1. /\ evictor' = [evictor EXCEPT ![e] = x] /\ evictor[e].pc = "count"
      /\ UNCHANGED <<query_cache, seq, clock, run, switching>>
  BY DEF EvictCount
<1>2. /\ n \in 0..MaxId /\ n \in Nat /\ Cardinality(Visible(e)) <= max_entries + n
      /\ Cardinality(Visible(e)) \in Nat
  <2>1. Cardinality(Visible(e)) \in 0..MaxId /\ Cardinality(Visible(e)) \in Nat
    BY IdsFinite, EvictorTyped DEF CacheInv
  <2> QED
    BY <2>1, CacheAssumption DEF Excess
<1>3. to \in {"commit", "counted"} /\ (to = "commit" => n = 0)
  OBVIOUS
<1> HIDE DEF n, to
<1>4. /\ x \in EvictorState /\ x.pc = to /\ x.doomed = evictor[e].doomed
      /\ x.now = evictor[e].now /\ x.since = evictor[e].since /\ x.excess = n
  BY <1>2, <1>3, EvictorTyped DEF CacheInv, EvictorState
<1> HIDE DEF x
<1>5. evictor'[e] = x
  BY <1>1 DEF CacheInv, TypeOK
<1>6. Visible(e)' = Visible(e)
  BY <1>1, <1>4, <1>5 DEF Entries, Visible
<1>7. Young(e, evictor[e].doomed)' = {}
  <2>1. Young(e, evictor[e].doomed) = {}
    BY <1>1 DEF CacheInv, EvictionInv, Chosen
  <2>2. \A i : Expired(i, evictor[e].now)' = Expired(i, evictor[e].now)
    BY <1>1, <1>4, <1>5 DEF Expired
  <2> QED
    BY <1>4, <1>5, <2>1, <2>2 DEF Young
<1>8. Chosen(e)'
  <2>1. Cardinality({}) = 0
    BY FS_EmptySet
  <2> QED
    BY <1>2, <1>3, <1>4, <1>5, <1>7, <2>1 DEF Chosen, Older
<1>9. Counts(e)'
  <2>1. evictor[e].since = 0
    BY <1>1 DEF CacheInv, EvictionInv, Counts
  <2> QED
    BY <1>2, <1>3, <1>4, <1>5, <1>6, <2>1, CacheAssumption DEF Counts
<1> QED
  BY <1>1, <1>4, <1>8, <1>9, EvictorOnly

(* The oldest are chosen, as many as were in excess.                       *)
LEMMA OldestStep ==
  ASSUME CacheInv, NEW e \in Evictor, EvictOldest(e)
  PROVE  CacheInv'
<1> DEFINE V == Visible(e)
           n == IF evictor[e].excess <= Cardinality(V) THEN evictor[e].excess ELSE Cardinality(V)
<1>1. PICK S \in OldestFirst(V, n) :
        evictor' = [evictor EXCEPT ![e] = [evictor[e] EXCEPT !.pc = "lru", !.chosen = S]]
  BY DEF EvictOldest
<1> DEFINE x == [evictor[e] EXCEPT !.pc = "lru", !.chosen = S]
<1>2. evictor[e].pc = "counted" /\ UNCHANGED <<query_cache, seq, clock, run, switching>>
  BY DEF EvictOldest
<1>3. /\ S \in SUBSET V /\ Cardinality(S) = n
      /\ \A i \in S, j \in V \ S : query_cache[i].last_accessed <= query_cache[j].last_accessed
  BY DEF OldestFirst
<1>4. /\ IsFiniteSet(V) /\ Cardinality(V) \in Nat /\ V \subseteq Entries /\ S \subseteq Id
      /\ n \in Nat /\ n <= evictor[e].excess
      /\ Cardinality(V) <= max_entries + evictor[e].since + evictor[e].excess
  <2>1. /\ V \in SUBSET Id /\ V \subseteq Entries /\ evictor[e].excess \in Nat
        /\ Cardinality(V) <= max_entries + evictor[e].since + evictor[e].excess
    BY <1>2, EvictorTyped DEF CacheInv, EvictionInv, Counts, Visible
  <2>2. IsFiniteSet(V) /\ Cardinality(V) \in Nat
    BY <2>1, IdsFinite
  <2> QED
    BY <1>3, <2>1, <2>2
<1>5. Cardinality(V \ S) <= max_entries + evictor[e].since
  <2>1. IsFiniteSet(S) /\ IsFiniteSet(V \ S) /\ Cardinality(V \ S) \in Nat
    BY <1>3, <1>4, FS_Subset, FS_CardinalityType
  <2>2. (V \ S) \cup S = V /\ (V \ S) \cap S = {}
    BY <1>3
  <2>3. Cardinality(V) = Cardinality(V \ S) + Cardinality(S)
    <3> DEFINE R == V \ S
    <3>1. IsFiniteSet(S) /\ IsFiniteSet(R) /\ R \cup S = V /\ R \cap S = {}
      BY <2>1, <2>2
    <3> HIDE DEF R, V
    <3>2. Cardinality(R \cup S) = Cardinality(R) + Cardinality(S) - Cardinality(R \cap S)
      BY <3>1, FS_Union
    <3>3. Cardinality(R \cap S) = 0
      BY <3>1, FS_EmptySet
    <3>4. Cardinality(R) \in Nat /\ Cardinality(S) \in Nat
      BY <3>1, FS_CardinalityType
    <3>5. Cardinality(V) = Cardinality(R \cup S)
      BY <3>1, Zenon
    <3> QED
      BY <3>2, <3>3, <3>4, <3>5 DEF R
  <2> QED
    BY <1>3, <1>4, <2>1, <2>3, EvictorTyped DEF CacheInv
<1> HIDE DEF V, n
<1>6. /\ x \in EvictorState /\ x.pc = "lru" /\ x.chosen = S /\ x.doomed = evictor[e].doomed
      /\ x.now = evictor[e].now /\ x.since = evictor[e].since /\ x.excess = evictor[e].excess
      /\ x.crossed = evictor[e].crossed
  BY <1>4, EvictorTyped DEF CacheInv, EvictorState
<1>7. evictor' = [evictor EXCEPT ![e] = x]
  BY <1>1
<1> HIDE DEF x
<1>8. evictor'[e] = x
  BY <1>7 DEF CacheInv, TypeOK
<1>9. Entries' = Entries /\ Visible(e)' = V /\ V \cap evictor[e].doomed = {}
  BY <1>2, <1>6, <1>8 DEF Entries, Visible, V
<1>10. Young(e, evictor[e].doomed)' = {}
  <2>1. Young(e, evictor[e].doomed) = {}
    BY <1>2 DEF CacheInv, EvictionInv, Chosen
  <2>2. \A i : Expired(i, evictor[e].now)' = Expired(i, evictor[e].now)
    BY <1>2, <1>6, <1>8 DEF Expired
  <2> QED
    BY <1>6, <1>8, <2>1, <2>2 DEF Young
<1>11. Chosen(e)'
  <2>1. Older(e, evictor[e].chosen \cap Entries, Visible(e) \ evictor[e].chosen)'
    BY <1>2, <1>3, <1>6, <1>8, <1>9 DEF Older
  <2> QED
    BY <1>3, <1>4, <1>6, <1>8, <1>9, <1>10, <2>1 DEF Chosen
<1>12. Counts(e)'
  BY <1>5, <1>6, <1>8, <1>9 DEF Counts
<1> QED
  BY <1>2, <1>6, <1>7, <1>11, <1>12, EvictorOnly

(* What it has chosen is deleted too, looked at again or not.              *)
LEMMA DeleteOldestStep ==
  ASSUME CacheInv, NEW e \in Evictor, DeleteOldest(e)
  PROVE  CacheInv'
<1> DEFINE C == evictor[e].chosen
           gone == evictor[e].doomed \cup (C \cap Entries)
           x == [evictor[e] EXCEPT !.pc = "commit", !.chosen = {}, !.doomed = gone]
<1>1. /\ evictor' = [evictor EXCEPT ![e] = x] /\ evictor[e].pc = "lru"
      /\ \A i \in C : ~Locked(i)
      /\ UNCHANGED <<query_cache, seq, clock, run, switching>>
  BY DEF DeleteOldest
<1>2. /\ gone \in SUBSET Id
      /\ \A i \in gone : i \in evictor[e].doomed \/ (i \in Entries /\ ~Locked(i))
  BY <1>1, EvictorTyped DEF CacheInv, TypeOK
<1>3. Holds(e) /\ Chosen(e) /\ Counts(e)
  BY DEF CacheInv, EvictionInv
<1> HIDE DEF gone
<1>4. /\ x \in EvictorState /\ x.pc = "commit" /\ x.doomed = gone /\ x.now = evictor[e].now
      /\ x.since = evictor[e].since /\ x.excess = evictor[e].excess
      /\ x.crossed = evictor[e].crossed
  BY <1>2, EvictorTyped DEF CacheInv, EvictorState
<1> HIDE DEF x
<1>5. evictor'[e] = x
  BY <1>1 DEF CacheInv, TypeOK
<1>6. Visible(e)' = Visible(e) \ C
  BY <1>1, <1>4, <1>5 DEF Entries, Visible, gone
<1>7. Young(e, evictor[e].doomed)' \subseteq C \cap Entries
  <2>1. Young(e, evictor[e].doomed) = {}
    BY <1>1, <1>3 DEF Chosen
  <2>2. \A i : Expired(i, evictor[e].now)' = Expired(i, evictor[e].now)
    BY <1>1, <1>4, <1>5 DEF Expired
  <2> QED
    BY <1>4, <1>5, <2>1, <2>2 DEF Young, gone
<1>8. Cardinality(Young(e, evictor[e].doomed)') <= evictor[e].excess
  <2> DEFINE Y == Young(e, evictor[e].doomed)'
  <2>1. IsFiniteSet(C) /\ Cardinality(C) \in Nat /\ Cardinality(C) <= evictor[e].excess
    BY <1>1, <1>3, IdsFinite, EvictorTyped DEF CacheInv, Chosen
  <2>2. Y \subseteq C
    BY <1>7
  <2> HIDE DEF Y, C
  <2>3. Cardinality(Y) <= Cardinality(C) /\ Cardinality(Y) \in Nat
    BY <2>1, <2>2, FS_Subset, FS_CardinalityType
  <2>4. evictor[e].excess \in Nat
    BY EvictorTyped DEF CacheInv
  <2>5. Cardinality(Y) <= evictor[e].excess
    BY <2>1, <2>3, <2>4
  <2> QED
    BY <2>5 DEF Y
<1>9. Older(e, Young(e, evictor[e].doomed), Visible(e))'
  <2>1. Older(e, C \cap Entries, Visible(e) \ C)
    BY <1>1, <1>3 DEF Chosen
  <2> QED
    BY <1>1, <1>4, <1>5, <1>6, <1>7, <2>1 DEF Older
<1>10. Chosen(e)'
  BY <1>4, <1>5, <1>8, <1>9 DEF Chosen
<1>11. Counts(e)'
  BY <1>1, <1>3, <1>4, <1>5, <1>6 DEF Counts
<1> QED
  BY <1>1, <1>2, <1>4, <1>10, <1>11, EvictorOnly

(* A commit takes entries from the others too, which then see fewer.       *)
LEMMA CommitStep ==
  ASSUME CacheInv, NEW e \in Evictor, EvictCommit(e)
  PROVE  CacheInv'
<1>1. /\ query_cache' = Without(evictor[e].doomed)
      /\ evictor' = [evictor EXCEPT ![e] = IdleEvictor]
      /\ UNCHANGED <<seq, clock, run, switching>>
  BY DEF EvictCommit
<1>2. /\ Entries' = Entries \ evictor[e].doomed
      /\ \A i \in Entries' : query_cache'[i] = query_cache[i]
      /\ query_cache' \in [Entries \ evictor[e].doomed -> Row]
  BY <1>1 DEF CacheInv, TypeOK, Entries, Without
<1>3. /\ evictor' \in [Evictor -> EvictorState] /\ evictor'[e] = IdleEvictor
      /\ \A d \in Evictor \ {e} : evictor'[d] = evictor[d]
  BY <1>1, IdlesTyped DEF CacheInv, TypeOK
<1>4. TypeOK'
  BY <1>1, <1>2, <1>3 DEF CacheInv, TypeOK, switching
<1>5. OfThePast' /\ FlushInv'
  BY <1>1, <1>2 DEF CacheInv, OfThePast, FlushInv, switching
<1>6. \A d \in Evictor : Holds(d)'
  BY <1>1, <1>2, <1>3, IdlesTyped DEF CacheInv, EvictionInv, Holds
<1>7. Chosen(e)' /\ Counts(e)'
  BY <1>3, IdlesTyped DEF Chosen, Counts, Young
<1>8. ASSUME NEW d \in Evictor \ {e}  PROVE Chosen(d)' /\ Counts(d)'
  <2>1. evictor'[d] = evictor[d] /\ evictor[d].doomed \subseteq Entries'
    BY <1>3, <1>6 DEF Holds
  <2>2. Entries' \subseteq Entries /\ Entries' \subseteq Id
    BY <1>2 DEF CacheInv, TypeOK
  <2>3. Chosen(d)'
    BY <1>2, <2>1, <2>2, ChosenStays
  <2>4. Counts(d)'
    BY <2>1, <2>2, CountsStay
  <2> QED
    BY <2>3, <2>4
<1> QED
  BY <1>4, <1>5, <1>6, <1>7, <1>8 DEF CacheInv, EvictionInv

-----------------------------------------------------------------------------
(* The steps of the script and of the API. *)

(* .env is switched, and until the script has ended nothing is promised;   *)
(* nor is it where the script ended without its flush.                     *)
LEMMA ScriptStep ==
  ASSUME CacheInv, SwitchEnv \/ StartFlush \/ ScriptEndsWithoutFlush
  PROVE  CacheInv'
<1>1. UNCHANGED <<query_cache, seq, clock, run, evictor, api>>
  BY DEF SwitchEnv, StartFlush, ScriptEndsWithoutFlush
<1>2. /\ script' \in {"idle", "env", "flush"}
      /\ \/ script' = "env" \/ (script' = "flush" /\ flushing' = Entries)
         \/ (script' = "idle" /\ unflushed' = TRUE)
  BY DEF SwitchEnv, StartFlush, ScriptEndsWithoutFlush
<1>3. /\ env' \in Target /\ unflushed' \in BOOLEAN /\ switches' \in 0..MaxSwitches
      /\ flushing' \subseteq Id
  <2>1. CASE SwitchEnv
    BY <2>1, CacheAssumption DEF SwitchEnv, CacheInv, TypeOK
  <2>2. CASE StartFlush \/ ScriptEndsWithoutFlush
    BY <2>2 DEF StartFlush, ScriptEndsWithoutFlush, CacheInv, TypeOK
  <2> QED
    BY <2>1, <2>2
<1>4. TypeOK'
  BY <1>1, <1>2, <1>3 DEF CacheInv, TypeOK, Entries
<1>5. FlushInv'
  BY <1>1, <1>2 DEF FlushInv, Entries
<1> QED
  BY <1>1, <1>4, <1>5, TableStays DEF CacheInv

(* The flush leaves what came after it began, stored in time or not; and   *)
(* without entries, none is of another target.                             *)
LEMMA FlushStep ==
  ASSUME CacheInv, Flush \/ ReembedTruncates
  PROVE  CacheInv'
<1>1. UNCHANGED <<seq, clock, run, evictor, env, api, switches>>
  BY DEF Flush, ReembedTruncates, switching
<1>2. PICK gone :
        /\ query_cache' = Without(gone) /\ \A e \in Evictor : evictor[e].doomed \cap gone = {}
        /\ \/ gone = flushing /\ Flush
           \/ gone = Entries /\ UNCHANGED switching
  <2>1. CASE Flush
    BY <2>1 DEF Flush, Locked
  <2>2. CASE ReembedTruncates
    BY <2>2 DEF ReembedTruncates, CacheInv, EvictionInv, Chosen
  <2> QED
    BY <2>1, <2>2
<1>3. /\ Entries' = Entries \ gone /\ \A i \in Entries' : query_cache'[i] = query_cache[i]
      /\ query_cache' \in [Entries' -> Row] /\ Entries' \subseteq Id
      /\ OfThePast' /\ \A e \in Evictor : EvictionInv(e)'
  BY <1>1, <1>2, EntriesGo
<1>4. TypeOK'
  <2>1. script' \in {"idle", "env", "flush"} /\ flushing' \subseteq Id /\ unflushed' \in BOOLEAN
    BY <1>2 DEF Flush, switching, CacheInv, TypeOK
  <2> QED
    BY <1>1, <1>3, <2>1 DEF CacheInv, TypeOK
<1>5. FlushInv'
  BY <1>1, <1>2, <1>3 DEF CacheInv, FlushInv, Flush
<1> QED
  BY <1>3, <1>4, <1>5 DEF CacheInv

(* What a restart leaves is the table, and .env.                           *)
LEMMA RestartStep ==
  ASSUME CacheInv, RestartApi
  PROVE  CacheInv'
<1>1. /\ \A e \in Evictor : evictor'[e] = IdleEvictor
      /\ \A r \in Run : run'[r] = IdleRun
      /\ api' = env /\ UNCHANGED <<query_cache, seq, clock, env, script, flushing, unflushed, switches>>
  BY DEF RestartApi
<1>2. TypeOK'
  BY IdlesTyped DEF RestartApi, CacheInv, TypeOK, Entries
<1>3. OfThePast' /\ FlushInv'
  BY <1>1 DEF CacheInv, OfThePast, FlushInv, Entries
<1>4. ASSUME NEW e \in Evictor  PROVE EvictionInv(e)'
  <2>1. Holds(e)'
    BY <1>1, IdlesTyped DEF Holds
  <2>2. Chosen(e)' /\ Counts(e)'
    BY <1>1, IdlesTyped DEF Chosen, Counts, Young
  <2> QED
    BY <2>1, <2>2 DEF EvictionInv
<1> QED
  BY <1>2, <1>3, <1>4 DEF CacheInv

(* A day passes, or nothing does.                                          *)
LEMMA TickStep ==
  ASSUME CacheInv, Tick \/ UNCHANGED vars
  PROVE  CacheInv'
<1>1. UNCHANGED <<query_cache, seq, run, evictor, switching>>
  BY DEF Tick, vars
<1>2. clock' \in 0..MaxClock
  BY CacheAssumption DEF Tick, vars, CacheInv, TypeOK
<1>3. TypeOK' /\ FlushInv'
  BY <1>1, <1>2 DEF CacheInv, TypeOK, FlushInv, Entries, switching
<1> QED
  BY <1>1, <1>3, TableStays DEF CacheInv

-----------------------------------------------------------------------------
(* Whatever runs, evictions, switches of the target and restarts do beside *)
(* one another, at READ COMMITTED: what an eviction has deleted stays in   *)
(* the table, held by it alone, until it commits; the young ones among it  *)
(* are no more than its excess, and older than what it keeps but for what  *)
(* was hit or stored since its choice; and what it keeps is within the cap *)
(* but for what was stored since its count.                                *)
THEOREM CacheInvariant == Spec => []CacheInv
<1>1. Init => CacheInv
  <2> SUFFICES ASSUME Init PROVE CacheInv
    OBVIOUS
  <2>1. Entries = {} /\ query_cache \in [{} -> Row] /\ seq = 0 /\ clock = 0
    BY DEF Init, Entries
  <2>2. /\ run \in [Run -> RunState] /\ \A r \in Run : run[r] = IdleRun
        /\ evictor \in [Evictor -> EvictorState] /\ \A e \in Evictor : evictor[e] = IdleEvictor
    BY IdlesTyped DEF Init
  <2>3. /\ env \in Target /\ api \in Target /\ script = "idle" /\ unflushed = FALSE
        /\ switches = 0 /\ flushing = {}
    BY CacheAssumption DEF Init
  <2>4. TypeOK
    <3>1. seq \in 0..MaxId /\ clock \in 0..MaxClock /\ switches \in 0..MaxSwitches
      BY <2>1, <2>3, CacheAssumption
    <3>2. unflushed \in BOOLEAN /\ script \in {"idle", "env", "flush"} /\ flushing \subseteq Id
      BY <2>3
    <3> QED
      BY <2>1, <2>2, <2>3, <3>1, <3>2 DEF TypeOK
  <2>5. OfThePast /\ FlushInv
    BY <2>1, <2>3 DEF OfThePast, FlushInv
  <2>6. \A e \in Evictor : EvictionInv(e)
    BY <2>2, IdlesTyped, IdleEviction DEF EvictionInv, Holds
  <2> QED
    BY <2>4, <2>5, <2>6 DEF CacheInv
<1>2. CacheInv /\ [Next]_vars => CacheInv'
  <2> SUFFICES ASSUME CacheInv, [Next]_vars PROVE CacheInv'
    OBVIOUS
  <2>1. ASSUME NEW r \in Run, \/ \E q \in Question : Search(r, q)
                              \/ BeginHit(r) \/ IncrementHitCount(r) \/ CommitHit(r)
                              \/ StoreCacheEntry(r) \/ CommitEntry(r) \/ EndRun(r)
        PROVE  CacheInv'
    BY <2>1, RunStep, UpdateStep, CommitHitStep, CommitEntryStep
  <2>2. ASSUME NEW e \in Evictor,
               \/ EvictByAge(e) \/ DeleteExpired(e) \/ EvictCount(e) \/ EvictOldest(e)
               \/ DeleteOldest(e) \/ EvictCommit(e) \/ EvictFails(e)
        PROVE  CacheInv'
    BY <2>2, BeginStep, DeleteExpiredStep, CountStep, OldestStep, DeleteOldestStep, CommitStep
  <2>3. CASE SwitchEnv \/ StartFlush \/ ScriptEndsWithoutFlush \/ Flush \/ ReembedTruncates
    BY <2>3, ScriptStep, FlushStep
  <2>4. CASE RestartApi \/ Tick \/ UNCHANGED vars
    BY <2>4, RestartStep, TickStep
  <2> QED
    BY <2>1, <2>2, <2>3, <2>4 DEF Next
<1> QED
  BY <1>1, <1>2, PTL DEF Spec

(* An eviction leaves no more entries than its cap and what came since it  *)
(* counted, whatever other evictions took.                                 *)
THEOREM CapIsMet == Spec => []CapMetAfterEviction
<1>1. CacheInv => CapMetAfterEviction
  BY DEF CacheInv, EvictionInv, Counts, CapMetAfterEviction, Visible
<1> QED
  BY <1>1, CacheInvariant, PTL

(* After a switch that was followed by its flush and a restart, what is of *)
(* another target came from an API that had not been restarted.            *)
THEOREM OnlyOldApisAreStale == Spec => []StaleOnlyFromOldApi
<1>1. CacheInv => StaleOnlyFromOldApi
  BY DEF CacheInv, TypeOK, FlushInv, StaleOnlyFromOldApi, Row
<1> QED
  BY <1>1, CacheInvariant, PTL

(* Of the entries an eviction drops before their age, there are no more    *)
(* than exceeded the cap, and one that was used after an entry that stays  *)
(* was hit, or that one hit or stored, while the eviction was choosing.    *)
THEOREM EvictionIsByAge == Spec => []EvictsLeastRecent
<1>1. ASSUME CacheInv  PROVE EvictsLeastRecent
  <2> SUFFICES ASSUME NEW e \in Evictor, evictor[e].pc = "commit"
               PROVE  LET young == {i \in evictor[e].doomed \cap Entries :
                                      ~Expired(i, evictor[e].now)}
                      IN  /\ Cardinality(young) <= evictor[e].excess
                          /\ \A i \in young, j \in Visible(e) :
                               \/ query_cache[i].last_accessed <= query_cache[j].last_accessed
                               \/ evictor[e].crossed \cap {i, j} # {}
    BY DEF EvictsLeastRecent
  <2>1. evictor[e].doomed \cap Entries = evictor[e].doomed
    BY <1>1 DEF CacheInv, EvictionInv, Holds
  <2>2. {i \in evictor[e].doomed \cap Entries : ~Expired(i, evictor[e].now)}
          = Young(e, evictor[e].doomed)
    BY <2>1 DEF Young
  <2> QED
    BY <1>1, <2>2 DEF CacheInv, EvictionInv, Chosen, Older
<1> QED
  BY <1>1, CacheInvariant, PTL

=============================================================================
