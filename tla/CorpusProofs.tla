------------------------------ MODULE CorpusProofs ------------------------------
(***************************************************************************)
(* Proofs about FewshotCorpus, for any number of threads, seeding          *)
(* processes, questions and ids.                                           *)
(***************************************************************************)
EXTENDS FewshotCorpus, WellFoundedInduction, TLAPS

\* A writer at work has a pair, and a run if it is a thread; a seeder calls
\* store_fewshot_example and nothing after it.
AtWork(w, s) ==
  /\ s.pc # "idle" => s.pair \in Pair /\ (w \in Thread => s.run # 0)
  /\ w \notin Thread => s.pc \in {"idle", "check", "insert"}

\* The ids it has, in its locals and in its checkpoint, are of its own rows.
Learned(w, s) ==
  \A i \in s.minted \cup s.link : i \in DOMAIN fewshot_examples /\ fewshot_examples[i].owner = w

\* Between its duplicate check and its INSERT, what it did not see is newer.
Checked(s) ==
  s.pc \in {"insert", "reinsert"} =>
    s.sawUpTo <= seq /\ \A i \in Live(s.pair.question) : s.sawUpTo < i

WritersInv ==
  \A w \in Writer :
    /\ AtWork(w, writer[w])
    /\ ~overtaken => Learned(w, writer[w]) /\ Checked(writer[w])

TablesInv == IdsAreSound /\ RejectDisables /\ DuplicatesOnlyFromRaces /\ LinksStayOnThread

\* A sequence that is set back is a corpus that is.
SetbackNoted == setback => overtaken

\* The inductive invariant.
CorpusInv == TypeOK /\ TablesInv /\ WritersInv /\ SetbackNoted

-----------------------------------------------------------------------------
(* The largest id. *)

(* A set of ids that is not empty has a largest one.                       *)
LEMMA LargestId ==
  ASSUME NEW ids \in SUBSET Id, ids # {}
  PROVE  Max(ids) \in ids /\ \A i \in ids : i <= Max(ids)
<1> DEFINE below == {MaxIds - i : i \in ids}
<1>1. MaxIds \in Nat /\ \A i \in ids : i \in Nat /\ i <= MaxIds
  BY BoundsAssumption DEF Id
<1>2. below \subseteq Nat /\ below # {}
  BY <1>1
<1>3. IsWellFoundedOn({p \in Nat \X Nat : p[1] < p[2]}, Nat)
  BY NatLessThanWellFounded, Zenon DEF OpToRel
<1>4. PICK n \in below : \A m \in below : ~(<<m, n>> \in {p \in Nat \X Nat : p[1] < p[2]})
  <2> HIDE DEF below
  <2> QED
    BY <1>2, <1>3, WFMin
<1>5. ASSUME NEW m \in below  PROVE n <= m
  <2>1. m \in Nat /\ n \in Nat
    BY <1>2, <1>4
  <2>2. ~(m < n)
    BY <1>4, <2>1
  <2> QED
    BY <2>1, <2>2
<1>6. PICK i \in ids : n = MaxIds - i
  OBVIOUS
<1>7. \A j \in ids : j <= i
  BY <1>1, <1>5, <1>6
<1>8. i \in ids /\ \A j \in ids : i >= j
  BY <1>1, <1>7
<1> QED
  BY <1>1, <1>8 DEF Max

(* After a rebuild the sequence is at or beyond every id it re-inserted.   *)
LEMMA SetvalBounds ==
  ASSUME TypeOK, NEW ids \in SUBSET Id
  PROVE  Setval(ids) \in 0..MaxIds /\ \A i \in ids : i <= Setval(ids)
BY LargestId, BoundsAssumption DEF Setval, TypeOK, Id

-----------------------------------------------------------------------------
(* What a step does to the writer that takes it. *)

PC == {"idle", "check", "insert", "return", "record", "recheck", "reinsert"}

(* A writer at rest is a writer.                                           *)
LEMMA IdleTyped ==
  Idle \in WriterState /\ Idle.pc = "idle" /\ Idle.minted = {} /\ Idle.link = {}
BY BoundsAssumption DEF Idle, WriterState

(* Going on keeps a writer's checkpoint, and all of its work but for one   *)
(* that is done.                                                           *)
LEMMA MoveOnKeeps ==
  ASSUME CorpusInv, NEW w \in Writer, NEW to \in PC
  PROVE  /\ MoveOn(w, to) \in WriterState /\ MoveOn(w, to).pc = to
         /\ MoveOn(w, to).link = writer[w].link
         /\ MoveOn(w, to).minted \subseteq writer[w].minted
         /\ to # "idle" => /\ MoveOn(w, to).pair = writer[w].pair
                           /\ MoveOn(w, to).run = writer[w].run
<1>1. writer[w] \in WriterState
  BY DEF CorpusInv, TypeOK
<1>2. CASE to = "idle"
  <2> DEFINE s == [Idle EXCEPT !.link = writer[w].link, !.todo = writer[w].todo]
  <2>1. Idle \in WriterState /\ Idle.pc = "idle" /\ Idle.minted = {}
    BY IdleTyped
  <2>2. writer[w].link \in SUBSET Id /\ writer[w].todo \in SUBSET Question
    BY <1>1 DEF WriterState
  <2>3. s \in WriterState /\ s.pc = "idle" /\ s.link = writer[w].link /\ s.minted = {}
    BY <2>1, <2>2 DEF WriterState
  <2>4. MoveOn(w, to) = s
    BY <1>2 DEF MoveOn
  <2> QED
    BY <1>2, <2>3, <2>4
<1>3. CASE to # "idle"
  <2> DEFINE s == [writer[w] EXCEPT !.pc = to]
  <2>1. /\ s \in WriterState /\ s.pc = to /\ s.link = writer[w].link /\ s.minted = writer[w].minted
        /\ s.pair = writer[w].pair /\ s.run = writer[w].run
    BY <1>1 DEF WriterState, PC
  <2>2. MoveOn(w, to) = s
    BY <1>3 DEF MoveOn
  <2> QED
    BY <1>3, <2>1, <2>2
<1> QED
  BY <1>2, <1>3

(* Where store_fewshot_example returns to is a state of its caller.        *)
LEMMA ReturnToCaller ==
  ASSUME NEW w \in Writer
  PROVE  ReturnTo(w) \in {"idle", "return"} /\ (w \notin Thread => ReturnTo(w) = "idle")
BY DEF ReturnTo

(* A writer's step on a table that stays: its own state is all there is to *)
(* look at.                                                                *)
LEMMA WriterStep ==
  ASSUME CorpusInv, NEW w \in Writer, NEW s \in WriterState, writer' = [writer EXCEPT ![w] = s],
         AtWork(w, s), ~overtaken => Learned(w, s) /\ Checked(s),
         UNCHANGED <<fewshot_examples, overtaken>>, seq' \in 0..MaxIds, seq <= seq'
  PROVE  writer' \in [Writer -> WriterState] /\ WritersInv'
<1>1. /\ writer' \in [Writer -> WriterState] /\ writer'[w] = s
      /\ \A v \in Writer \ {w} : writer'[v] = writer[v]
  BY DEF CorpusInv, TypeOK
<1>2. \A q : Live(q)' = Live(q)
  BY DEF Live
<1>3. \A v \in Writer : AtWork(v, writer'[v]) /\ (~overtaken => Learned(v, writer'[v]) /\ Checked(writer'[v]))
  BY <1>1 DEF CorpusInv, WritersInv
<1>4. ASSUME NEW v \in Writer, Checked(writer'[v])  PROVE Checked(writer[v])'
  <2>1. writer'[v].sawUpTo \in Nat /\ seq \in Nat /\ seq' \in Nat
    BY <1>1, BoundsAssumption DEF WriterState, CorpusInv, TypeOK
  <2> QED
    BY <1>2, <1>4, <2>1 DEF Checked
<1>5. ASSUME NEW v \in Writer  PROVE AtWork(v, writer'[v]) = AtWork(v, writer[v])'
  BY DEF AtWork
<1>6. ASSUME NEW v \in Writer, Learned(v, writer'[v])  PROVE Learned(v, writer[v])'
  BY <1>6 DEF Learned
<1> QED
  BY <1>1, <1>3, <1>4, <1>5, <1>6 DEF WritersInv

(* No property of the tables is about the sequence going on.               *)
LEMMA TablesStay ==
  ASSUME CorpusInv, UNCHANGED <<fewshot_examples, query_history, setback, overtaken>>,
         seq' \in 0..MaxIds, seq <= seq'
  PROVE  TablesInv'
<1>1. \A q : Live(q)' = Live(q)
  BY DEF Live
<1>2. SequenceAheadOfIds'
  BY BoundsAssumption DEF CorpusInv, TypeOK, TablesInv, IdsAreSound, SequenceAheadOfIds, Id
<1>3. NoDanglingLink' /\ RejectDisables' /\ LinksStayOnThread'
  BY DEF CorpusInv, TablesInv, IdsAreSound, NoDanglingLink, RejectDisables, LinksStayOnThread
<1>4. DuplicatesOnlyFromRaces'
  BY <1>1 DEF CorpusInv, TablesInv, DuplicatesOnlyFromRaces
<1> QED
  BY <1>2, <1>3, <1>4 DEF TablesInv, IdsAreSound

(* A step of one writer that touches no table.                             *)
LEMMA WriterOnly ==
  ASSUME CorpusInv, NEW w \in Writer, NEW s \in WriterState, writer' = [writer EXCEPT ![w] = s],
         AtWork(w, s), ~overtaken => Learned(w, s) /\ Checked(s),
         UNCHANGED <<fewshot_examples, query_history, rebuild, rebuilds, setback, overtaken>>,
         seq' \in 0..MaxIds, seq <= seq', runs' \in 0..MaxRuns
  PROVE  CorpusInv'
<1>1. writer' \in [Writer -> WriterState] /\ WritersInv'
  BY WriterStep
<1>2. TypeOK'
  BY <1>1 DEF CorpusInv, TypeOK
<1> QED
  BY <1>1, <1>2, TablesStay DEF CorpusInv, SetbackNoted

-----------------------------------------------------------------------------
(* The steps of the writers. *)

(* What the invariant says of one writer and of the counters.              *)
LEMMA WriterFacts ==
  ASSUME CorpusInv, NEW w \in Writer
  PROVE  /\ writer[w] \in WriterState /\ AtWork(w, writer[w])
         /\ ~overtaken => Learned(w, writer[w]) /\ Checked(writer[w])
         /\ seq \in 0..MaxIds /\ seq <= seq /\ runs \in 0..MaxRuns
BY BoundsAssumption DEF CorpusInv, TypeOK, WritersInv

(* A run gets a number that is not the seeds' own.                         *)
LEMMA StartRunStep ==
  ASSUME CorpusInv, NEW t \in Thread, StartRun(t)
  PROVE  CorpusInv'
<1>1. PICK p \in Pair : writer' = [writer EXCEPT ![t] = [@ EXCEPT !.pc = "check", !.pair = p, !.run = runs']]
  BY DEF StartRun
<1> DEFINE s == [writer[t] EXCEPT !.pc = "check", !.pair = p, !.run = runs']
<1>2. t \in Writer /\ runs' = runs + 1 /\ runs' \in 0..MaxRuns /\ runs' # 0
  BY BoundsAssumption DEF StartRun, CorpusInv, TypeOK, Writer
<1>3. /\ s \in WriterState /\ s.pc = "check" /\ s.pair = p /\ s.run = runs'
      /\ s.minted = writer[t].minted /\ s.link = writer[t].link
  BY <1>2, WriterFacts DEF WriterState
<1>4. writer' = [writer EXCEPT ![t] = s]
  BY <1>1
<1> HIDE DEF s
<1>5. AtWork(t, s) /\ Checked(s)
  BY <1>2, <1>3 DEF AtWork, Checked
<1>6. ~overtaken => Learned(t, s)
  BY <1>2, <1>3, WriterFacts DEF Learned
<1> QED
  BY <1>2, <1>3, <1>4, <1>5, <1>6, WriterFacts, WriterOnly DEF StartRun

(* A seeding pass begins with nothing but the questions it is to go over.  *)
LEMMA StartSeedingStep ==
  ASSUME CorpusInv, NEW w \in Seeder, StartSeeding(w)
  PROVE  CorpusInv'
<1>1. PICK existing \in {{q \in Question : RowsOf(q) # {}}, {}} :
        writer' = [writer EXCEPT ![w].todo = Question \ existing]
  BY DEF StartSeeding
<1> DEFINE s == [writer[w] EXCEPT !.todo = Question \ existing]
<1>2. w \in Writer
  BY DEF Writer
<1>3. /\ s \in WriterState /\ s.pc = "idle"
      /\ s.minted = writer[w].minted /\ s.link = writer[w].link
  BY <1>2, WriterFacts DEF WriterState, StartSeeding
<1>4. writer' = [writer EXCEPT ![w] = s]
  BY <1>1
<1> HIDE DEF s
<1>5. AtWork(w, s) /\ Checked(s) /\ (~overtaken => Learned(w, s))
  BY <1>2, <1>3, WriterFacts DEF AtWork, Checked, Learned
<1> QED
  BY <1>2, <1>3, <1>4, <1>5, WriterFacts, WriterOnly DEF StartSeeding

(* A seed is a pair like any other, of a writer that is no thread.         *)
LEMMA SeedItemStep ==
  ASSUME CorpusInv, NEW w \in Seeder, SeedItem(w)
  PROVE  CorpusInv'
<1>1. PICK q \in writer[w].todo, sql \in Query :
        writer' = [writer EXCEPT
          ![w] = [@ EXCEPT !.pc = "check", !.pair = [question |-> q, sql |-> sql],
                           !.todo = writer[w].todo \ {q}]]
  BY DEF SeedItem
<1>2. w \in Writer /\ w \notin Thread
  BY WritersAssumption DEF Writer
<1>3. q \in Question
  BY <1>2, WriterFacts DEF WriterState
<1>4. PICK p \in Pair : p = [question |-> q, sql |-> sql]
  BY <1>3 DEF Pair
<1> DEFINE s == [writer[w] EXCEPT !.pc = "check", !.pair = p, !.todo = writer[w].todo \ {q}]
<1>5. writer' = [writer EXCEPT ![w] = s]
  BY <1>1, <1>4
<1>6. /\ s \in WriterState /\ s.pc = "check" /\ s.pair = p
      /\ s.minted = writer[w].minted /\ s.link = writer[w].link
  BY <1>2, <1>4, WriterFacts DEF WriterState
<1> HIDE DEF s
<1>7. AtWork(w, s) /\ Checked(s)
  BY <1>2, <1>4, <1>6 DEF AtWork, Checked
<1>8. ~overtaken => Learned(w, s)
  BY <1>2, <1>6, WriterFacts DEF Learned
<1> QED
  BY <1>2, <1>5, <1>6, <1>7, <1>8, WriterFacts, WriterOnly DEF SeedItem

(* What a writer goes on to keeps the pairs, runs and ids it has.          *)
LEMMA MoveOnSound ==
  ASSUME CorpusInv, NEW w \in Writer, NEW to \in PC \ {"insert", "reinsert"},
         writer[w].pc # "idle", w \notin Thread => to = "idle"
  PROVE  /\ MoveOn(w, to) \in WriterState /\ AtWork(w, MoveOn(w, to)) /\ Checked(MoveOn(w, to))
         /\ ~overtaken => Learned(w, MoveOn(w, to))
<1>1. /\ MoveOn(w, to) \in WriterState /\ MoveOn(w, to).pc = to
      /\ MoveOn(w, to).link = writer[w].link
      /\ MoveOn(w, to).minted \subseteq writer[w].minted
      /\ to # "idle" => /\ MoveOn(w, to).pair = writer[w].pair
                        /\ MoveOn(w, to).run = writer[w].run
  BY MoveOnKeeps
<1>2. AtWork(w, MoveOn(w, to)) /\ Checked(MoveOn(w, to))
  BY <1>1, WriterFacts DEF AtWork, Checked
<1>3. ~overtaken => Learned(w, MoveOn(w, to))
  BY <1>1, WriterFacts DEF Learned
<1> QED
  BY <1>1, <1>2, <1>3

(* The check reads the sequence and the live rows together: none of the    *)
(* latter is near, so that any there is later is newer.                    *)
LEMMA CheckStep ==
  ASSUME CorpusInv, NEW w \in Writer, CheckDuplicate(w)
  PROVE  CorpusInv'
<1> DEFINE to == IF writer[w].pc = "check" THEN "insert" ELSE "reinsert"
           s == [writer[w] EXCEPT !.pc = to, !.sawUpTo = seq]
<1>1. /\ writer[w].pc \in {"check", "recheck"}
      /\ UNCHANGED <<fewshot_examples, seq, query_history, runs, rebuild, rebuilds, setback, overtaken>>
      /\ \/ writer' = [writer EXCEPT ![w] = MoveOn(w, ReturnTo(w))]
         \/ ~is_duplicate(writer[w].pair.question) /\ writer' = [writer EXCEPT ![w] = s]
  BY DEF CheckDuplicate
<1>2. CASE writer' = [writer EXCEPT ![w] = MoveOn(w, ReturnTo(w))]
  BY <1>1, <1>2, ReturnToCaller, MoveOnSound, WriterFacts, WriterOnly DEF PC
<1>3. CASE ~is_duplicate(writer[w].pair.question) /\ writer' = [writer EXCEPT ![w] = s]
  <2>1. to \in {"insert", "reinsert"} /\ (w \notin Thread => to = "insert")
    BY <1>1, WriterFacts DEF AtWork
  <2>2. /\ s \in WriterState /\ s.pc = to /\ s.sawUpTo = seq /\ s.pair = writer[w].pair
        /\ s.run = writer[w].run /\ s.minted = writer[w].minted /\ s.link = writer[w].link
    BY <2>1, WriterFacts DEF WriterState
  <2> HIDE DEF s, to
  <2>3. AtWork(w, s)
    BY <1>1, <2>1, <2>2, WriterFacts DEF AtWork
  <2>4. Checked(s)
    BY <1>3, <2>2, WriterFacts DEF Checked, is_duplicate
  <2>5. ~overtaken => Learned(w, s)
    BY <2>2, WriterFacts DEF Learned
  <2> QED
    BY <1>1, <1>3, <2>2, <2>3, <2>4, <2>5, WriterFacts, WriterOnly
<1> QED
  BY <1>1, <1>2, <1>3

(* An INSERT that fails may burn an id.                                    *)
LEMMA InsertFailsStep ==
  ASSUME CorpusInv, NEW w \in Writer, InsertFails(w)
  PROVE  CorpusInv'
<1> DEFINE m == MoveOn(w, ReturnTo(w))
           s == [m EXCEPT !.sawUpTo = 0]
<1>1. /\ writer[w].pc \in {"insert", "reinsert"} /\ writer' = [writer EXCEPT ![w] = s]
      /\ UNCHANGED <<fewshot_examples, query_history, runs, rebuild, rebuilds, setback, overtaken>>
  BY DEF InsertFails
<1>2. seq' \in 0..MaxIds /\ seq <= seq'
  BY WriterFacts, BoundsAssumption DEF InsertFails
<1>3. /\ m \in WriterState /\ AtWork(w, m) /\ (~overtaken => Learned(w, m))
      /\ m.pc = ReturnTo(w) /\ ReturnTo(w) \in {"idle", "return"}
  BY <1>1, ReturnToCaller, MoveOnSound, MoveOnKeeps DEF PC
<1> HIDE DEF m
<1>4. /\ s \in WriterState /\ s.pc = m.pc /\ s.pair = m.pair /\ s.run = m.run
      /\ s.minted = m.minted /\ s.link = m.link
  BY <1>3, BoundsAssumption DEF WriterState
<1> HIDE DEF s
<1>5. AtWork(w, s) /\ Checked(s) /\ (~overtaken => Learned(w, s))
  BY <1>3, <1>4 DEF AtWork, Checked, Learned
<1> QED
  BY <1>1, <1>2, <1>4, <1>5, WriterFacts, WriterOnly

(* The id of the example goes from the locals to the checkpoint.           *)
LEMMA ReturnStep ==
  ASSUME CorpusInv, NEW t \in Thread, ReturnFromNode(t)
  PROVE  CorpusInv'
<1> DEFINE link == IF writer[t].minted = {} THEN writer[t].link ELSE writer[t].minted
           s == [writer[t] EXCEPT !.pc = "record", !.link = link]
<1>1. /\ writer[t].pc = "return" /\ writer' = [writer EXCEPT ![t] = s] /\ t \in Writer
      /\ UNCHANGED <<fewshot_examples, seq, query_history, runs, rebuild, rebuilds, setback, overtaken>>
  BY DEF ReturnFromNode, Writer
<1>2. link \in SUBSET Id /\ link \subseteq writer[t].minted \cup writer[t].link
  BY <1>1, WriterFacts DEF WriterState
<1> HIDE DEF link
<1>3. /\ s \in WriterState /\ s.pc = "record" /\ s.pair = writer[t].pair /\ s.run = writer[t].run
      /\ s.minted = writer[t].minted /\ s.link = link
  BY <1>1, <1>2, WriterFacts DEF WriterState
<1> HIDE DEF s
<1>4. AtWork(t, s) /\ Checked(s)
  BY <1>1, <1>3, WriterFacts DEF AtWork, Checked
<1>5. ~overtaken => Learned(t, s)
  BY <1>1, <1>2, <1>3, WriterFacts DEF Learned
<1> QED
  BY <1>1, <1>3, <1>4, <1>5, WriterFacts, WriterOnly

(* A crash leaves a writer its checkpoint alone.                           *)
LEMMA CrashStep ==
  ASSUME CorpusInv, NEW w \in Writer, Crash(w)
  PROVE  CorpusInv'
<1> DEFINE s == [Idle EXCEPT !.link = writer[w].link]
<1>1. /\ writer' = [writer EXCEPT ![w] = s]
      /\ UNCHANGED <<fewshot_examples, seq, query_history, runs, rebuild, rebuilds, setback, overtaken>>
  BY DEF Crash
<1>2. s \in WriterState /\ s.pc = "idle" /\ s.minted = {} /\ s.link = writer[w].link
  BY IdleTyped, WriterFacts DEF WriterState
<1> HIDE DEF s
<1>3. AtWork(w, s) /\ Checked(s) /\ (~overtaken => Learned(w, s))
  BY <1>2, WriterFacts DEF AtWork, Checked, Learned
<1> QED
  BY <1>1, <1>2, <1>3, WriterFacts, WriterOnly

(* The history row of a run: its id is of the table, and of the run's own  *)
(* thread.                                                                 *)
LEMMA RecordHistoryStep ==
  ASSUME CorpusInv, NEW t \in Thread, RecordHistory(t)
  PROVE  CorpusInv'
<1> DEFINE h == [run |-> writer[t].run, owner |-> t, pair |-> writer[t].pair,
                 link |-> writer[t].link, verdict |-> "none"]
<1>1. /\ writer[t].pc = "record" /\ t \in Writer
      /\ UNCHANGED <<fewshot_examples, seq, runs, rebuild, rebuilds, setback, overtaken>>
      /\ \/ query_history' = query_history
         \/ /\ query_history' = query_history \cup {h}
            /\ writer[t].link \subseteq DOMAIN fewshot_examples
  BY DEF RecordHistory, Writer
<1>2. PICK to \in {"idle", "recheck"} : writer' = [writer EXCEPT ![t] = [MoveOn(t, to) EXCEPT !.minted = {}]]
  BY DEF RecordHistory
<1>3. writer' \in [Writer -> WriterState] /\ WritersInv'
  <2> DEFINE m == MoveOn(t, to)
             s == [m EXCEPT !.minted = {}]
  <2>1. /\ m \in WriterState /\ AtWork(t, m) /\ (~overtaken => Learned(t, m))
        /\ m.pc = to
    BY <1>1, MoveOnSound, MoveOnKeeps DEF PC
  <2> HIDE DEF m
  <2>2. /\ s \in WriterState /\ s.pc = m.pc /\ s.pair = m.pair /\ s.run = m.run
        /\ s.minted = {} /\ s.link = m.link
    BY <2>1 DEF WriterState
  <2>3. writer' = [writer EXCEPT ![t] = s]
    BY <1>2 DEF m
  <2> HIDE DEF s
  <2>4. AtWork(t, s) /\ Checked(s) /\ (~overtaken => Learned(t, s))
    BY <2>1, <2>2 DEF AtWork, Checked, Learned
  <2> QED
    BY <1>1, <2>2, <2>3, <2>4, WriterFacts, WriterStep
<1>4. /\ h \in HistoryRow /\ h.link = writer[t].link /\ h.owner = t /\ h.verdict = "none"
  <2>1. writer[t].run \in 1..MaxRuns /\ writer[t].pair \in Pair /\ writer[t].link \in SUBSET Id
    BY <1>1, WriterFacts, BoundsAssumption DEF AtWork, WriterState
  <2> QED
    BY <2>1 DEF HistoryRow, Verdict
<1> HIDE DEF h
<1>5. TypeOK'
  BY <1>1, <1>3, <1>4 DEF CorpusInv, TypeOK
<1>6. CASE query_history' = query_history
  BY <1>1, <1>3, <1>5, <1>6, WriterFacts, TablesStay DEF CorpusInv, SetbackNoted
<1>7. CASE query_history' = query_history \cup {h} /\ writer[t].link \subseteq DOMAIN fewshot_examples
  <2>1. IdsAreSound'
    BY <1>1, <1>4, <1>7
       DEF CorpusInv, TablesInv, IdsAreSound, NoDanglingLink, SequenceAheadOfIds
  <2>2. RejectDisables'
    BY <1>1, <1>4, <1>7 DEF CorpusInv, TablesInv, RejectDisables
  <2>3. LinksStayOnThread'
    BY <1>1, <1>4, <1>7, WriterFacts DEF CorpusInv, TablesInv, LinksStayOnThread, Learned
  <2>4. DuplicatesOnlyFromRaces'
    BY <1>1 DEF CorpusInv, TablesInv, DuplicatesOnlyFromRaces, Live
  <2> QED
    BY <1>1, <1>3, <1>5, <2>1, <2>2, <2>3, <2>4 DEF CorpusInv, TablesInv, SetbackNoted
<1> QED
  BY <1>1, <1>6, <1>7

-----------------------------------------------------------------------------
(* The steps that write the corpus. *)

(* The new row has an id that is free - above all others, where the        *)
(* sequence was not set back - and what its check did not see is newer     *)
(* than what it saw.                                                       *)
LEMMA InsertStep ==
  ASSUME CorpusInv, NEW w \in Writer, Insert(w)
  PROVE  CorpusInv'
<1> DEFINE id == seq + 1
           row == [pair |-> writer[w].pair, owner |-> w, run |-> writer[w].run,
                   sawUpTo |-> writer[w].sawUpTo, disabled |-> FALSE]
           s == [writer[w] EXCEPT !.pc = "return", !.minted = {id}, !.sawUpTo = 0]
           D == DOMAIN fewshot_examples
<1>1. /\ writer[w].pc \in {"insert", "reinsert"} /\ seq < MaxIds /\ id \notin D /\ seq' = id
      /\ fewshot_examples' = [i \in D \cup {id} |-> IF i = id THEN row ELSE fewshot_examples[i]]
      /\ \/ ReturnTo(w) = "idle" /\ writer' = [writer EXCEPT ![w] = MoveOn(w, "idle")]
         \/ ReturnTo(w) # "idle" /\ writer' = [writer EXCEPT ![w] = s]
      /\ UNCHANGED <<query_history, runs, rebuild, rebuilds, setback, overtaken>>
  BY DEF Insert
<1>2. /\ seq \in 0..MaxIds /\ seq \in Nat /\ MaxIds \in Nat /\ id \in Id /\ id \in 0..MaxIds
      /\ D \subseteq Id /\ \A i \in D : i \in Nat /\ (~setback => i <= seq)
      /\ setback => overtaken
  BY <1>1, BoundsAssumption
     DEF CorpusInv, TypeOK, TablesInv, IdsAreSound, SequenceAheadOfIds, SetbackNoted, Id
<1>3. row \in Row /\ row.owner = w /\ row.pair = writer[w].pair /\ row.disabled = FALSE
      /\ row.sawUpTo = writer[w].sawUpTo
  <2>1. /\ writer[w].pair \in Pair /\ writer[w].run \in 0..MaxRuns
        /\ writer[w].sawUpTo \in 0..MaxIds
    BY <1>1, WriterFacts DEF AtWork, WriterState
  <2> QED
    BY <2>1 DEF Row
<1> HIDE DEF row
<1>4. /\ DOMAIN fewshot_examples' = D \cup {id} /\ fewshot_examples'[id] = row
      /\ \A i \in D : fewshot_examples'[i] = fewshot_examples[i]
      /\ fewshot_examples' \in [D \cup {id} -> Row]
  BY <1>1, <1>3 DEF CorpusInv, TypeOK
<1>5. PICK z \in WriterState :
        /\ writer' = [writer EXCEPT ![w] = z] /\ AtWork(w, z)
        /\ z.pc \in {"idle", "return"} /\ z.link = writer[w].link
        /\ z.minted \subseteq writer[w].minted \cup {id}
  <2>1. CASE writer' = [writer EXCEPT ![w] = MoveOn(w, "idle")]
    BY <1>1, <2>1, MoveOnSound, MoveOnKeeps DEF PC
  <2>2. CASE ReturnTo(w) # "idle" /\ writer' = [writer EXCEPT ![w] = s]
    <3>1. id \in Id /\ 0 \in 0..MaxIds
      BY <1>2
    <3> HIDE DEF id
    <3>2. /\ s \in WriterState /\ s.pc = "return" /\ s.link = writer[w].link /\ s.minted = {id}
          /\ s.pair = writer[w].pair /\ s.run = writer[w].run
      BY <3>1, WriterFacts DEF WriterState
    <3> HIDE DEF s
    <3>3. AtWork(w, s)
      BY <1>1, <2>2, <3>2, ReturnToCaller, WriterFacts DEF AtWork
    <3> QED
      BY <2>2, <3>2, <3>3
  <2> QED
    BY <1>1, <2>1, <2>2
<1> HIDE DEF id, D, s
<1>6. /\ writer' \in [Writer -> WriterState] /\ writer'[w] = z
      /\ \A v \in Writer \ {w} : writer'[v] = writer[v]
  BY <1>5 DEF CorpusInv, TypeOK
<1>7. TypeOK'
  <2>1. D \cup {id} \subseteq Id
    BY <1>2
  <2> QED
    BY <1>1, <1>2, <1>4, <1>6, <2>1 DEF CorpusInv, TypeOK
<1>8. \A q : \A i \in Live(q)' : (i \in D /\ i \in Live(q)) \/ i = id
  BY <1>4 DEF Live, D
<1>9. WritersInv'
  <2>1. ASSUME NEW v \in Writer  PROVE AtWork(v, writer[v])'
    BY <1>5, <1>6, WriterFacts DEF AtWork
  <2>2. ASSUME NEW v \in Writer, ~overtaken  PROVE Learned(v, writer[v])'
    <3>1. CASE v = w
      BY <1>3, <1>4, <1>5, <1>6, <2>2, <3>1, WriterFacts DEF Learned, D
    <3>2. CASE v # w
      BY <1>4, <1>6, <2>2, <3>2, WriterFacts DEF Learned, D
    <3> QED
      BY <3>1, <3>2
  <2>3. ASSUME NEW v \in Writer, ~overtaken  PROVE Checked(writer[v])'
    <3>1. CASE v = w
      BY <1>5, <1>6, <3>1 DEF Checked
    <3>2. CASE v # w
      <4>1. writer'[v] = writer[v] /\ Checked(writer[v]) /\ writer[v].sawUpTo \in Nat
        BY <1>6, <2>3, <3>2, WriterFacts, BoundsAssumption DEF WriterState
      <4>2. ASSUME writer[v].pc \in {"insert", "reinsert"}
            PROVE  /\ writer[v].sawUpTo <= seq'
                   /\ \A i \in Live(writer[v].pair.question)' : writer[v].sawUpTo < i
        <5>1. seq' = id /\ id = seq + 1
          BY <1>1 DEF id
        <5>2. writer[v].sawUpTo <= seq /\ \A i \in Live(writer[v].pair.question) : writer[v].sawUpTo < i
          BY <4>1, <4>2 DEF Checked
        <5> QED
          BY <1>2, <1>8, <4>1, <5>1, <5>2
      <4> QED
        BY <4>1, <4>2 DEF Checked, Live
    <3> QED
      BY <3>1, <3>2
  <2> QED
    BY <1>1, <2>1, <2>2, <2>3 DEF WritersInv
<1>10. IdsAreSound'
  <2>1. ~setback => \A i \in D \cup {id} : i <= id
    BY <1>2 DEF id
  <2> QED
    BY <1>1, <1>4, <2>1
       DEF CorpusInv, TablesInv, IdsAreSound, NoDanglingLink, SequenceAheadOfIds, D
<1>11. RejectDisables' /\ LinksStayOnThread'
  <2>1. \A h \in query_history : \A i \in h.link : i \in D
    BY DEF CorpusInv, TablesInv, IdsAreSound, NoDanglingLink, D
  <2> QED
    BY <1>1, <1>4, <2>1 DEF CorpusInv, TablesInv, RejectDisables, LinksStayOnThread
<1>12. DuplicatesOnlyFromRaces'
  <2> SUFFICES ASSUME ~overtaken, NEW i \in D \cup {id}, NEW j \in D \cup {id}, i < j,
                      i \in Live(fewshot_examples[j].pair.question)',
                      j \in Live(fewshot_examples[j].pair.question)'
               PROVE  fewshot_examples'[j].sawUpTo < i
    BY <1>1, <1>4 DEF DuplicatesOnlyFromRaces
  <2>1. i \in D
    BY <1>2 DEF id
  <2>2. CASE j = id
    <3>1. i \in Live(writer[w].pair.question)
      BY <1>2, <1>3, <1>4, <2>1, <2>2 DEF Live, D, id
    <3>2. writer[w].sawUpTo < i
      BY <1>1, <3>1, WriterFacts DEF Checked
    <3> QED
      BY <1>3, <1>4, <2>2, <3>2
  <2>3. CASE j \in D
    BY <1>4, <2>1, <2>3 DEF CorpusInv, TablesInv, DuplicatesOnlyFromRaces, Live, D
  <2> QED
    BY <2>2, <2>3
<1> QED
  BY <1>1, <1>7, <1>9, <1>10, <1>11, <1>12 DEF CorpusInv, TablesInv, SetbackNoted

(* A verdict and its tombstone: rows are disabled, and no row is enabled.  *)
LEMMA FeedbackStep ==
  ASSUME CorpusInv, NEW h \in query_history, NEW verdict \in {"accept", "reject"},
         Feedback(h, verdict)
  PROVE  CorpusInv'
<1> DEFINE g == [h EXCEPT !.verdict = verdict]
           D == DOMAIN fewshot_examples
           row(i) == IF verdict = "reject" /\ i \in h.link
                     THEN [fewshot_examples[i] EXCEPT !.disabled = TRUE]
                     ELSE fewshot_examples[i]
<1>1. /\ query_history' = (query_history \ {h}) \cup {g}
      /\ fewshot_examples' = [i \in D |-> row(i)]
      /\ UNCHANGED <<seq, runs, writer, rebuild, rebuilds, setback, overtaken>>
  BY DEF Feedback
<1>2. /\ g \in HistoryRow /\ g.link = h.link /\ g.owner = h.owner /\ g.verdict = verdict
      /\ h \in query_history
  BY DEF CorpusInv, TypeOK, HistoryRow, Verdict
<1>3. ASSUME NEW i \in D
      PROVE  /\ row(i) \in Row /\ row(i).pair = fewshot_examples[i].pair
             /\ row(i).owner = fewshot_examples[i].owner
             /\ row(i).sawUpTo = fewshot_examples[i].sawUpTo
             /\ row(i).disabled = (fewshot_examples[i].disabled \/ (verdict = "reject" /\ i \in h.link))
  <2>1. fewshot_examples[i] \in Row
    BY DEF CorpusInv, TypeOK
  <2>2. CASE verdict = "reject" /\ i \in h.link
    BY <2>1, <2>2 DEF Row
  <2>3. CASE ~(verdict = "reject" /\ i \in h.link)
    BY <2>1, <2>3 DEF Row
  <2> QED
    BY <2>2, <2>3
<1> HIDE DEF g, row
<1>4. DOMAIN fewshot_examples' = D /\ \A i \in D : fewshot_examples'[i] = row(i)
  BY <1>1
<1>5. TypeOK'
  <2>1. fewshot_examples' \in [D -> Row] /\ query_history' \subseteq HistoryRow
    BY <1>1, <1>2, <1>3 DEF CorpusInv, TypeOK
  <2> QED
    BY <1>1, <1>4, <2>1 DEF CorpusInv, TypeOK
<1>6. \A q : Live(q)' \subseteq Live(q)
  BY <1>3, <1>4 DEF Live
<1>7. WritersInv'
  <2>1. ASSUME NEW w \in Writer  PROVE AtWork(w, writer[w])'
    BY <1>1, WriterFacts DEF AtWork
  <2>2. ASSUME NEW w \in Writer, ~overtaken  PROVE Learned(w, writer[w])'
    BY <1>1, <1>3, <1>4, <2>2, WriterFacts DEF Learned
  <2>3. ASSUME NEW w \in Writer, ~overtaken  PROVE Checked(writer[w])'
    BY <1>1, <1>6, <2>3, WriterFacts DEF Checked
  <2> QED
    BY <1>1, <2>1, <2>2, <2>3 DEF WritersInv
<1>8. IdsAreSound'
  BY <1>1, <1>2, <1>4
     DEF CorpusInv, TablesInv, IdsAreSound, NoDanglingLink, SequenceAheadOfIds
<1>9. \A k \in query_history : \A i \in k.link : i \in D
  BY DEF CorpusInv, TablesInv, IdsAreSound, NoDanglingLink
<1>10. RejectDisables'
  <2> SUFFICES ASSUME ~overtaken, NEW k \in query_history', k.verdict = "reject", NEW i \in k.link
               PROVE  row(i).disabled
    BY <1>1, <1>2, <1>4, <1>9 DEF RejectDisables
  <2>1. CASE k = g
    BY <1>2, <1>3, <1>9, <2>1
  <2>2. CASE k \in query_history
    BY <1>3, <1>9, <2>2 DEF CorpusInv, TablesInv, RejectDisables
  <2> QED
    BY <1>1, <2>1, <2>2
<1>11. LinksStayOnThread'
  BY <1>1, <1>2, <1>3, <1>4, <1>9 DEF CorpusInv, TablesInv, LinksStayOnThread
<1>12. DuplicatesOnlyFromRaces'
  BY <1>1, <1>3, <1>4, <1>6 DEF CorpusInv, TablesInv, DuplicatesOnlyFromRaces
<1> QED
  BY <1>1, <1>5, <1>7, <1>8, <1>10, <1>11, <1>12 DEF CorpusInv, TablesInv, SetbackNoted

(* A rebuild that commits either puts back what is there, or is noted to   *)
(* have set the corpus back.                                               *)
LEMMA RebuildCommitStep ==
  ASSUME CorpusInv, RebuildCommit
  PROVE  CorpusInv'
<1> DEFINE ids == DOMAIN rebuild.rows
<1>1. /\ fewshot_examples' = rebuild.rows /\ seq' = Setval(ids) /\ rebuild' = NoRebuild
      /\ ReferencesHold(ids)
      /\ overtaken' = (overtaken \/ rebuild.rows # fewshot_examples \/ seq' # seq)
      /\ setback' = FALSE
      /\ UNCHANGED <<query_history, runs, writer, rebuilds>>
  BY DEF RebuildCommit
<1>2. ids \in SUBSET Id /\ rebuild.rows \in [ids -> Row]
  BY DEF CorpusInv, TypeOK
<1>3. Setval(ids) \in 0..MaxIds /\ \A i \in ids : i <= Setval(ids)
  BY <1>2, SetvalBounds DEF CorpusInv
<1> HIDE DEF ids
<1>4. NoRebuild.pc \in Rebuild /\ DOMAIN NoRebuild.rows = {} /\ NoRebuild.rows \in [{} -> Row]
  BY DEF NoRebuild, NoRows, Rebuild
<1>5. TypeOK'
  BY <1>1, <1>2, <1>3, <1>4 DEF CorpusInv, TypeOK, ids
<1>6. IdsAreSound'
  BY <1>1, <1>3 DEF IdsAreSound, NoDanglingLink, SequenceAheadOfIds, ReferencesHold, ids
<1>7. CASE overtaken'
  BY <1>1, <1>5, <1>6, <1>7
     DEF CorpusInv, TablesInv, RejectDisables, LinksStayOnThread, DuplicatesOnlyFromRaces,
         WritersInv, AtWork, SetbackNoted
<1>8. CASE ~overtaken'
  <2>1. UNCHANGED <<fewshot_examples, seq, query_history, writer, setback, overtaken>>
    BY <1>1, <1>8 DEF CorpusInv, TypeOK, SetbackNoted
  <2>2. TablesInv'
    BY <2>1, WriterFacts, TablesStay, BoundsAssumption DEF CorpusInv, TypeOK
  <2>3. WritersInv'
    BY <2>1 DEF CorpusInv, WritersInv, AtWork, Learned, Checked, Live
  <2> QED
    BY <1>5, <2>1, <2>2, <2>3 DEF CorpusInv, SetbackNoted
<1> QED
  BY <1>7, <1>8

(* A rebuild that fails leaves the tables alone, and if it has set the     *)
(* sequence back it is noted to have.                                      *)
LEMMA RebuildFailsStep ==
  ASSUME CorpusInv, RebuildFails
  PROVE  CorpusInv'
<1> DEFINE ids == DOMAIN rebuild.rows
<1>1. /\ seq' \in {seq, Setval(ids)} /\ rebuild' = NoRebuild
      /\ setback' = (setback \/ seq' # seq) /\ overtaken' = (overtaken \/ seq' # seq)
      /\ UNCHANGED <<fewshot_examples, query_history, runs, writer, rebuilds>>
  BY DEF RebuildFails
<1>2. ids \in SUBSET Id
  BY DEF CorpusInv, TypeOK
<1>3. seq' \in 0..MaxIds
  BY <1>1, <1>2, SetvalBounds DEF CorpusInv, TypeOK
<1> HIDE DEF ids
<1>4. NoRebuild.pc \in Rebuild /\ DOMAIN NoRebuild.rows = {} /\ NoRebuild.rows \in [{} -> Row]
  BY DEF NoRebuild, NoRows, Rebuild
<1>5. TypeOK'
  BY <1>1, <1>3, <1>4 DEF CorpusInv, TypeOK
<1>6. CASE seq' = seq
  <2>1. UNCHANGED <<fewshot_examples, seq, query_history, writer, setback, overtaken>>
    BY <1>1, <1>6 DEF CorpusInv, TypeOK
  <2>2. TablesInv'
    BY <2>1, WriterFacts, TablesStay, BoundsAssumption DEF CorpusInv, TypeOK
  <2>3. WritersInv'
    BY <2>1 DEF CorpusInv, WritersInv, AtWork, Learned, Checked, Live
  <2> QED
    BY <1>5, <2>1, <2>2, <2>3 DEF CorpusInv, SetbackNoted
<1>7. CASE seq' # seq
  <2>1. setback' = TRUE /\ overtaken' = TRUE
    BY <1>1, <1>7
  <2>2. TablesInv'
    BY <1>1, <2>1
       DEF CorpusInv, TablesInv, IdsAreSound, NoDanglingLink, SequenceAheadOfIds, RejectDisables,
           LinksStayOnThread, DuplicatesOnlyFromRaces
  <2>3. WritersInv'
    BY <1>1, <2>1 DEF CorpusInv, WritersInv, AtWork
  <2> QED
    BY <1>5, <2>1, <2>2, <2>3 DEF CorpusInv, SetbackNoted
<1> QED
  BY <1>6, <1>7

(* Nothing but the rebuild's own bookkeeping, or nothing at all.           *)
LEMMA AsideStep ==
  ASSUME CorpusInv, RebuildSnapshot \/ UNCHANGED vars
  PROVE  CorpusInv'
<1>1. UNCHANGED <<fewshot_examples, seq, query_history, runs, writer, setback, overtaken>>
  BY DEF RebuildSnapshot, vars
<1>2. /\ rebuild'.pc \in Rebuild /\ DOMAIN rebuild'.rows \subseteq Id
      /\ rebuild'.rows \in [DOMAIN rebuild'.rows -> Row] /\ rebuilds' \in 0..MaxRebuilds
  <2>1. CASE RebuildSnapshot
    BY <2>1, BoundsAssumption DEF RebuildSnapshot, CorpusInv, TypeOK, Rebuild
  <2>2. CASE UNCHANGED vars
    BY <2>2 DEF vars, CorpusInv, TypeOK
  <2> QED
    BY <2>1, <2>2
<1>3. TypeOK'
  BY <1>1, <1>2 DEF CorpusInv, TypeOK
<1>4. TablesInv'
  BY <1>1, TablesStay, BoundsAssumption DEF CorpusInv, TypeOK
<1>5. WritersInv'
  BY <1>1 DEF CorpusInv, WritersInv, AtWork, Learned, Checked, Live
<1> QED
  BY <1>1, <1>3, <1>4, <1>5 DEF CorpusInv, SetbackNoted

-----------------------------------------------------------------------------
(* The corpus, its sequence and the history are consistent however threads,*)
(* seeders, feedback and rebuilds interleave, and however their            *)
(* transactions fail.                                                      *)
THEOREM CorpusInvariant == Spec => []CorpusInv
<1>1. Init => CorpusInv
  <2> SUFFICES ASSUME Init PROVE CorpusInv
    OBVIOUS
  <2>1. DOMAIN fewshot_examples = {} /\ fewshot_examples \in [{} -> Row]
    BY DEF Init, NoRows
  <2>2. rebuild.pc \in Rebuild /\ DOMAIN rebuild.rows = {} /\ rebuild.rows \in [{} -> Row]
    BY DEF Init, NoRebuild, NoRows, Rebuild
  <2>3. /\ seq = 0 /\ query_history = {} /\ runs = 0 /\ rebuilds = 0
        /\ setback = FALSE /\ overtaken = FALSE
        /\ writer \in [Writer -> WriterState] /\ \A w \in Writer : writer[w] = Idle
    BY IdleTyped DEF Init
  <2>4. TypeOK
    <3>1. seq \in 0..MaxIds /\ runs \in 0..MaxRuns /\ rebuilds \in 0..MaxRebuilds
      BY <2>3, BoundsAssumption
    <3>2. setback \in BOOLEAN /\ overtaken \in BOOLEAN /\ query_history \subseteq HistoryRow
      BY <2>3
    <3> QED
      BY <2>1, <2>2, <2>3, <3>1, <3>2 DEF TypeOK
  <2>5. TablesInv
    BY <2>1, <2>3 DEF TablesInv, IdsAreSound, NoDanglingLink, SequenceAheadOfIds,
                      RejectDisables, DuplicatesOnlyFromRaces, LinksStayOnThread
  <2>6. WritersInv
    BY <2>3, IdleTyped DEF WritersInv, AtWork, Learned, Checked
  <2> QED
    BY <2>3, <2>4, <2>5, <2>6 DEF CorpusInv, SetbackNoted
<1>2. CorpusInv /\ [Next]_vars => CorpusInv'
  <2> SUFFICES ASSUME CorpusInv, [Next]_vars PROVE CorpusInv'
    OBVIOUS
  <2>1. ASSUME NEW t \in Thread, StartRun(t) \/ ReturnFromNode(t) \/ RecordHistory(t)
        PROVE  CorpusInv'
    BY <2>1, StartRunStep, ReturnStep, RecordHistoryStep
  <2>2. ASSUME NEW w \in Seeder, StartSeeding(w) \/ SeedItem(w)  PROVE CorpusInv'
    BY <2>2, StartSeedingStep, SeedItemStep
  <2>3. ASSUME NEW w \in Writer, CheckDuplicate(w) \/ Insert(w) \/ InsertFails(w) \/ Crash(w)
        PROVE  CorpusInv'
    BY <2>3, CheckStep, InsertStep, InsertFailsStep, CrashStep
  <2>4. ASSUME NEW h \in query_history, NEW v \in {"accept", "reject"}, Feedback(h, v)
        PROVE  CorpusInv'
    BY <2>4, FeedbackStep
  <2>5. CASE RebuildSnapshot \/ UNCHANGED vars
    BY <2>5, AsideStep
  <2>6. CASE RebuildCommit \/ RebuildFails
    BY <2>6, RebuildCommitStep, RebuildFailsStep
  <2> QED
    BY <2>1, <2>2, <2>3, <2>4, <2>5, <2>6 DEF Next
<1> QED
  BY <1>1, <1>2, PTL DEF Spec

(* No history row names an example that is not there, whatever was lost,   *)
(* failed or rebuilt; and every id in use has been drawn from the sequence *)
(* as it stands, unless the last rebuild failed and left it set back.      *)
THEOREM IdsStaySound == Spec => []IdsAreSound
<1>1. CorpusInv => IdsAreSound
  BY DEF CorpusInv, TablesInv
<1> QED
  BY <1>1, CorpusInvariant, PTL

(* A reject leaves no linked example enabled, unless a rebuild put it back. *)
THEOREM RejectsAreWhole == Spec => []RejectDisables
<1>1. CorpusInv => RejectDisables
  BY DEF CorpusInv, TablesInv
<1> QED
  BY <1>1, CorpusInvariant, PTL

(* The check before an INSERT lets a duplicate in only through the window  *)
(* between the two.                                                        *)
THEOREM OnlyRacesDuplicate == Spec => []DuplicatesOnlyFromRaces
<1>1. CorpusInv => DuplicatesOnlyFromRaces
  BY DEF CorpusInv, TablesInv
<1> QED
  BY <1>1, CorpusInvariant, PTL

(* A history row links what its own thread learned, and no seed.           *)
THEOREM FeedbackStaysOnThread == Spec => []LinksStayOnThread
<1>1. CorpusInv => LinksStayOnThread
  BY DEF CorpusInv, TablesInv
<1> QED
  BY <1>1, CorpusInvariant, PTL

=============================================================================
