------------------------------- MODULE BootProofs -------------------------------
(***************************************************************************)
(* Proofs about Boot, for any number of containers, migrations and         *)
(* provider widths.                                                        *)
(***************************************************************************)
EXTENDS Boot, TLAPS

\* What a runner has read or applied itself is a prefix of what is applied.
DoneIsPrefix ==
  \A c \in Container : \E k \in 0..Len(applied) : proc[c].done = 1..k

\* Nothing after the migrations is reached before all of them are applied.
MigratedFirst ==
  \A c \in Container :
    proc[c].pc \notin {"down", "migrate", "applying"} \/ proc[c].caller = "lifespan" =>
      Len(applied) = LastVersion

\* The processes that run side by side are of one width.
OneWidth ==
  ~mixed =>
    \A c \in Container : proc[c].pc # "down" =>
      /\ \A d \in Container : proc[d].pc # "down" => proc[d].dim = proc[c].dim
      /\ operator.pc # "idle" => operator.dim = proc[c].dim

\* What an alignment has measured, and what it has left.
AlignsMismatched ==
  \A c \in Container :
    /\ proc[c].aligned => proc[c].pc \in {"corpus", "serving"}
    /\ ~mixed /\ proc[c].aligned => Mismatched(c) \subseteq proc[c].blocked
    /\ ~mixed /\ proc[c].pc = "resizing" =>
         Mismatched(c) \subseteq proc[c].empty \cup proc[c].blocked

StageInv == MigrationsInOrder /\ DoneIsPrefix /\ MigratedFirst /\ OneWidth /\ AlignsMismatched

\* The inductive invariant.
BootInv == TypeOK /\ StageInv

-----------------------------------------------------------------------------
(* What a step does to the container that takes it.                        *)

PC == {"down", "migrate", "applying", "target", "seed", "seeding", "embed", "embedding",
       "start", "dims", "resizing", "corpus", "serving"}

\* Only c moves, to pc.
Moves(c, pc) ==
  /\ proc' \in [Container -> ProcState] /\ proc'[c].pc = pc
  /\ \A d \in Container \ {c} : proc'[d] = proc[d]

\* The width and the results of the alignment are what they were.
KeepsAlignment(c) ==
  /\ proc'[c].dim = proc[c].dim /\ proc'[c].aligned = proc[c].aligned
  /\ proc'[c].empty = proc[c].empty /\ proc'[c].blocked = proc[c].blocked

(* The states given to a container are states of a container.              *)
LEMMA PutInPlace ==
  ASSUME TypeOK, NEW c \in Container, NEW p \in ProcState, proc' = [proc EXCEPT ![c] = p]
  PROVE  Moves(c, p.pc) /\ proc'[c] = p
BY DEF TypeOK, Moves

(* A move of the program counter alone.                                    *)
LEMMA GotoMoves ==
  ASSUME TypeOK, NEW c \in Container, NEW pc \in PC, Goto(c, pc)
  PROVE  /\ Moves(c, pc) /\ KeepsAlignment(c)
         /\ proc'[c].caller = proc[c].caller /\ proc'[c].done = proc[c].done
<1> DEFINE p == [proc[c] EXCEPT !.pc = pc]
<1>1. proc[c] \in ProcState
  BY DEF TypeOK
<1>2. /\ p \in ProcState /\ p.pc = pc /\ p.caller = proc[c].caller /\ p.done = proc[c].done
      /\ p.dim = proc[c].dim /\ p.aligned = proc[c].aligned
      /\ p.empty = proc[c].empty /\ p.blocked = proc[c].blocked
  BY <1>1 DEF ProcState, PC
<1>3. proc' = [proc EXCEPT ![c] = p]
  BY DEF Goto
<1> HIDE DEF p
<1> QED
  BY <1>2, <1>3, PutInPlace DEF KeepsAlignment

(* The end of a container.                                                 *)
LEMMA FailsMoves ==
  ASSUME TypeOK, NEW c \in Container, Fails(c)
  PROVE  /\ Moves(c, "down") /\ proc'[c].caller = "entrypoint" /\ proc'[c].done = {}
         /\ proc'[c].aligned = FALSE
<1>1. Down \in ProcState /\ Down.pc = "down"
  BY BootAssumption DEF Down, ProcState
<1>2. proc'[c] = Down /\ Moves(c, "down")
  BY <1>1, PutInPlace DEF Fails
<1> QED
  BY <1>2 DEF Down

(* The end of the migrations, by its three ways.                           *)
LEMMA AfterMigrationsMoves ==
  ASSUME TypeOK, NEW c \in Container, NEW ok \in BOOLEAN, AfterMigrations(c, ok)
  PROVE  \/ /\ proc[c].caller = "lifespan" /\ Goto(c, "dims")
         \/ /\ ok /\ Goto(c, "target")
         \/ Fails(c)
BY DEF AfterMigrations

(* A container comes up with the width .env has then.                      *)
LEMMA UpMoves ==
  ASSUME TypeOK, NEW c \in Container, Up(c)
  PROVE  /\ Moves(c, "migrate") /\ proc'[c].caller = "entrypoint" /\ proc'[c].done = {}
         /\ proc'[c].dim = env /\ proc'[c].aligned = FALSE
<1> DEFINE p == [Down EXCEPT !.pc = "migrate", !.dim = env]
<1>1. /\ p \in ProcState /\ p.pc = "migrate" /\ p.caller = "entrypoint" /\ p.done = {}
      /\ p.dim = env /\ p.aligned = FALSE
  BY BootAssumption DEF TypeOK, Down, ProcState
<1>2. proc' = [proc EXCEPT ![c] = p]
  BY DEF Up
<1> HIDE DEF p
<1> QED
  BY <1>1, <1>2, PutInPlace

(* A runner reads what is applied.                                         *)
LEMMA ReadMoves ==
  ASSUME TypeOK, NEW c \in Container, ReadApplied(c)
  PROVE  /\ Moves(c, "applying") /\ KeepsAlignment(c)
         /\ proc'[c].caller = proc[c].caller /\ proc'[c].done = ToSet(applied)
<1> DEFINE p == [proc[c] EXCEPT !.pc = "applying", !.done = ToSet(applied)]
<1>1. proc[c] \in ProcState /\ ToSet(applied) \subseteq Version
  BY DEF TypeOK, ToSet
<1>2. /\ p \in ProcState /\ p.pc = "applying" /\ p.caller = proc[c].caller
      /\ p.done = ToSet(applied) /\ p.dim = proc[c].dim /\ p.aligned = proc[c].aligned
      /\ p.empty = proc[c].empty /\ p.blocked = proc[c].blocked
  BY <1>1 DEF ProcState
<1>3. proc' = [proc EXCEPT ![c] = p]
  BY DEF ReadApplied
<1> HIDE DEF p
<1> QED
  BY <1>2, <1>3, PutInPlace DEF KeepsAlignment

(* A migration is applied and recorded.                                    *)
LEMMA RecordMoves ==
  ASSUME TypeOK, NEW c \in Container, proc[c].pc = "applying", NEW v \in Version, Record(c, v)
  PROVE  /\ Moves(c, "applying") /\ KeepsAlignment(c)
         /\ proc'[c].caller = proc[c].caller /\ proc'[c].done = proc[c].done \cup {v}
<1> DEFINE p == [proc[c] EXCEPT !.done = @ \cup {v}]
<1>1. proc[c] \in ProcState
  BY DEF TypeOK
<1>2. /\ p \in ProcState /\ p.pc = "applying" /\ p.caller = proc[c].caller
      /\ p.done = proc[c].done \cup {v} /\ p.dim = proc[c].dim /\ p.aligned = proc[c].aligned
      /\ p.empty = proc[c].empty /\ p.blocked = proc[c].blocked
  BY <1>1 DEF ProcState
<1>3. proc' = [proc EXCEPT ![c] = p]
  BY DEF Record
<1> HIDE DEF p
<1> QED
  BY <1>2, <1>3, PutInPlace DEF KeepsAlignment

(* The entrypoint hands over to the lifespan.                              *)
LEMMA StartMoves ==
  ASSUME TypeOK, NEW c \in Container, StartApi(c)
  PROVE  /\ Moves(c, "migrate") /\ KeepsAlignment(c)
         /\ proc'[c].caller = "lifespan" /\ proc'[c].done = proc[c].done
<1> DEFINE p == [proc[c] EXCEPT !.pc = "migrate", !.caller = "lifespan"]
<1>1. proc[c] \in ProcState
  BY DEF TypeOK
<1>2. /\ p \in ProcState /\ p.pc = "migrate" /\ p.caller = "lifespan"
      /\ p.done = proc[c].done /\ p.dim = proc[c].dim /\ p.aligned = proc[c].aligned
      /\ p.empty = proc[c].empty /\ p.blocked = proc[c].blocked
  BY <1>1 DEF ProcState
<1>3. proc' = [proc EXCEPT ![c] = p]
  BY DEF StartApi
<1> HIDE DEF p
<1> QED
  BY <1>2, <1>3, PutInPlace DEF KeepsAlignment

(* The stores are measured: those of another width are empty or blocked.   *)
LEMMA MeasureMoves ==
  ASSUME TypeOK, NEW c \in Container, MeasureStores(c)
  PROVE  /\ proc'[c].dim = proc[c].dim /\ proc'[c].aligned = proc[c].aligned
         /\ proc'[c].caller = proc[c].caller /\ proc'[c].done = proc[c].done
         /\ \/ Moves(c, "corpus") /\ proc'[c].empty = proc[c].empty /\ proc'[c].blocked = proc[c].blocked
            \/ /\ Moves(c, "resizing")
               /\ proc'[c].empty \cup proc'[c].blocked = Mismatched(c)
<1> DEFINE p == [proc[c] EXCEPT !.pc = "corpus"]
           r == [proc[c] EXCEPT !.pc = "resizing", !.empty = Mismatched(c) \ filled,
                                !.blocked = Mismatched(c) \cap filled]
<1>1. proc[c] \in ProcState /\ Mismatched(c) \subseteq Store
  BY DEF TypeOK, Mismatched
<1>2. /\ p \in ProcState /\ p.pc = "corpus" /\ p.caller = proc[c].caller
      /\ p.done = proc[c].done /\ p.dim = proc[c].dim /\ p.aligned = proc[c].aligned
      /\ p.empty = proc[c].empty /\ p.blocked = proc[c].blocked
  BY <1>1 DEF ProcState
<1>3. /\ r \in ProcState /\ r.pc = "resizing" /\ r.caller = proc[c].caller
      /\ r.done = proc[c].done /\ r.dim = proc[c].dim /\ r.aligned = proc[c].aligned
      /\ r.empty = Mismatched(c) \ filled /\ r.blocked = Mismatched(c) \cap filled
  BY <1>1 DEF ProcState
<1>4. proc' = [proc EXCEPT ![c] = p] \/ proc' = [proc EXCEPT ![c] = r]
  BY DEF MeasureStores
<1> HIDE DEF p, r
<1>5. CASE proc' = [proc EXCEPT ![c] = p]
  BY <1>2, <1>5, PutInPlace
<1>6. CASE proc' = [proc EXCEPT ![c] = r]
  <2>1. (Mismatched(c) \ filled) \cup (Mismatched(c) \cap filled) = Mismatched(c)
    OBVIOUS
  <2>2. r \in ProcState /\ r.pc = "resizing"
    BY <1>3
  <2>3. Moves(c, "resizing") /\ proc'[c] = r
    BY <2>2, <1>6, PutInPlace
  <2>4. proc'[c].empty \cup proc'[c].blocked = Mismatched(c)
    BY <1>3, <2>1, <2>3
  <2> QED
    BY <1>3, <2>3, <2>4
<1> QED
  BY <1>4, <1>5, <1>6

(* The empty stores are altered, or the alignment gives up.                *)
LEMMA ResizeMoves ==
  ASSUME TypeOK, NEW c \in Container, ResizeEmpty(c)
  PROVE  /\ Moves(c, "corpus")
         /\ proc'[c].caller = proc[c].caller /\ proc'[c].done = proc[c].done
         /\ proc'[c].dim = proc[c].dim /\ proc'[c].blocked = proc[c].blocked
         /\ \/ width' = width /\ proc'[c].aligned = proc[c].aligned
            \/ width' = [s \in Store |-> IF s \in proc[c].empty THEN proc[c].dim ELSE width[s]]
<1> DEFINE p == [proc[c] EXCEPT !.pc = "corpus", !.aligned = TRUE]
           w == [s \in Store |-> IF s \in proc[c].empty THEN proc[c].dim ELSE width[s]]
<1>1. proc[c] \in ProcState
  BY DEF TypeOK
<1>2. /\ p \in ProcState /\ p.pc = "corpus" /\ p.caller = proc[c].caller
      /\ p.done = proc[c].done /\ p.dim = proc[c].dim /\ p.blocked = proc[c].blocked
  BY <1>1 DEF ProcState
<1>3. \/ proc' = [proc EXCEPT ![c] = p] /\ width' = w
      \/ width' = width /\ Goto(c, "corpus")
  BY DEF ResizeEmpty
<1> HIDE DEF p
<1>4. CASE proc' = [proc EXCEPT ![c] = p] /\ width' = w
  BY <1>2, <1>4, PutInPlace
<1>5. CASE width' = width /\ Goto(c, "corpus")
  BY <1>5, GotoMoves DEF PC, KeepsAlignment
<1> QED
  BY <1>3, <1>4, <1>5

-----------------------------------------------------------------------------
(* The order of the migrations. *)

(* Versions applied in order are the first ones.                           *)
LEMMA AppliedIsPrefix ==
  ASSUME TypeOK, MigrationsInOrder
  PROVE  ToSet(applied) = 1..Len(applied) /\ Len(applied) \in 0..LastVersion
<1>1. Len(applied) \in Nat /\ DOMAIN applied = 1..Len(applied)
  BY DEF TypeOK
<1>2. \A i \in 1..Len(applied) : applied[i] = i
  BY DEF MigrationsInOrder
<1> QED
  BY <1>1, <1>2, BootAssumption DEF ToSet, TypeOK

(* A runner that has a prefix goes on with the version after it, if there  *)
(* is one.                                                                 *)
LEMMA NextAfterPrefix ==
  ASSUME NEW c \in Container, NEW k \in 0..LastVersion, proc[c].done = 1..k
  PROVE  /\ k < LastVersion => NextVersion(c) = {k + 1}
         /\ NextVersion(c) = {} => k = LastVersion
<1> DEFINE missing == Version \ (1..k)
<1>1. /\ NextVersion(c) = {v \in missing : \A w \in missing : v <= w}
      /\ \A v \in missing : v \in Nat /\ k + 1 <= v
      /\ LastVersion \in Nat /\ k \in Nat /\ k <= LastVersion
  BY BootAssumption DEF NextVersion, Version
<1>2. k < LastVersion => k + 1 \in missing
  BY <1>1 DEF Version
<1> HIDE DEF missing
<1>3. k < LastVersion => k + 1 \in NextVersion(c)
  BY <1>1, <1>2
<1>4. ASSUME k < LastVersion, NEW v \in NextVersion(c)  PROVE v = k + 1
  BY <1>1, <1>2, <1>4
<1> QED
  BY <1>1, <1>3, <1>4

(* Of several runners, the one that applies a version is one that has seen *)
(* all before it applied; the others run into the primary key.             *)
LEMMA ApplyInOrder ==
  ASSUME BootInv, NEW c \in Container, ApplyMigration(c)
  PROVE  \/ /\ proc[c].done = 1..Len(applied) /\ Len(applied) < LastVersion
            /\ Record(c, Len(applied) + 1)
         \/ AfterMigrations(c, FALSE) /\ UNCHANGED <<applied, width>>
<1>1. ToSet(applied) = 1..Len(applied) /\ Len(applied) \in 0..LastVersion
  BY AppliedIsPrefix DEF BootInv, StageInv
<1>2. PICK k \in 0..Len(applied) : proc[c].done = 1..k
  BY DEF BootInv, StageInv, DoneIsPrefix
<1>3. PICK v \in NextVersion(c) :
        IF v \in ToSet(applied) THEN AfterMigrations(c, FALSE) /\ UNCHANGED <<applied, width>>
        ELSE Record(c, v)
  BY DEF ApplyMigration
<1>4. v \in Version \ (1..k)
  BY <1>2, <1>3 DEF NextVersion
<1>5. k < LastVersion /\ v = k + 1
  BY <1>1, <1>2, <1>3, <1>4, NextAfterPrefix, BootAssumption DEF Version
<1>6. CASE v \in ToSet(applied)
  BY <1>3, <1>6
<1>7. CASE v \notin ToSet(applied)
  <2>1. Len(applied) \in Nat /\ k \in 0..Len(applied) /\ ~(k + 1 \in 1..Len(applied))
    BY <1>1, <1>5, <1>7
  <2>2. k = Len(applied)
    BY <2>1
  <2> QED
    BY <1>2, <1>3, <1>5, <1>7, <2>2
<1> QED
  BY <1>6, <1>7

-----------------------------------------------------------------------------
(* What keeps the stages. *)

Late == {"target", "seed", "seeding", "embed", "embedding", "start", "dims",
         "resizing", "corpus", "serving"}

(* A container that goes on, with what it needs for the stage it goes to.  *)
LEMMA MoveStages ==
  ASSUME BootInv, NEW c \in Container, NEW pc \in PC \ {"down"}, Moves(c, pc),
         proc[c].pc # "down", UNCHANGED <<applied, operator, mixed>>,
         proc'[c].dim = proc[c].dim,
         \E k \in 0..Len(applied) : proc'[c].done = 1..k,
         pc \in Late \/ proc'[c].caller = "lifespan" => Len(applied) = LastVersion
  PROVE  MigrationsInOrder' /\ DoneIsPrefix' /\ MigratedFirst' /\ OneWidth'
<1>1. MigrationsInOrder' /\ DoneIsPrefix'
  BY DEF BootInv, StageInv, MigrationsInOrder, DoneIsPrefix, Moves
<1>2. MigratedFirst'
  BY DEF BootInv, StageInv, MigratedFirst, Moves, Late, PC
<1>3. OneWidth'
  BY DEF BootInv, StageInv, OneWidth, Moves
<1> QED
  BY <1>1, <1>2, <1>3

(* A container that goes on, on the columns as they are.                   *)
LEMMA MoveInv ==
  ASSUME BootInv, NEW c \in Container, NEW pc \in PC \ {"down"}, Moves(c, pc),
         proc[c].pc # "down", UNCHANGED <<applied, width, operator, mixed>>,
         proc'[c].dim = proc[c].dim,
         \E k \in 0..Len(applied) : proc'[c].done = 1..k,
         pc \in Late \/ proc'[c].caller = "lifespan" => Len(applied) = LastVersion,
         proc'[c].aligned => /\ pc \in {"corpus", "serving"} /\ proc[c].aligned
                             /\ proc'[c].blocked = proc[c].blocked,
         pc = "resizing" => proc'[c].empty \cup proc'[c].blocked = Mismatched(c)
  PROVE  StageInv'
<1>1. MigrationsInOrder' /\ DoneIsPrefix' /\ MigratedFirst' /\ OneWidth'
  BY MoveStages
<1>2. ASSUME NEW d \in Container, d # c
      PROVE  /\ proc'[d].aligned => proc'[d].pc \in {"corpus", "serving"}
             /\ ~mixed /\ proc'[d].aligned => Mismatched(d)' \subseteq proc'[d].blocked
             /\ ~mixed /\ proc'[d].pc = "resizing" =>
                  Mismatched(d)' \subseteq proc'[d].empty \cup proc'[d].blocked
  <2>1. proc'[d] = proc[d]
    BY <1>2 DEF Moves
  <2>2. Mismatched(d)' = Mismatched(d)
    BY <2>1 DEF Mismatched
  <2> QED
    BY <2>1, <2>2 DEF BootInv, StageInv, AlignsMismatched
<1>3. Mismatched(c)' = Mismatched(c)
  BY DEF Mismatched
<1>4. /\ proc'[c].aligned => proc'[c].pc \in {"corpus", "serving"}
      /\ ~mixed /\ proc'[c].aligned => Mismatched(c)' \subseteq proc'[c].blocked
      /\ ~mixed /\ proc'[c].pc = "resizing" =>
           Mismatched(c)' \subseteq proc'[c].empty \cup proc'[c].blocked
  BY <1>3 DEF BootInv, StageInv, AlignsMismatched, Moves
<1>5. AlignsMismatched'
  BY <1>2, <1>4 DEF AlignsMismatched
<1> QED
  BY <1>1, <1>5 DEF StageInv

(* A container that ends.                                                  *)
LEMMA EndInv ==
  ASSUME BootInv, NEW c \in Container, Fails(c), UNCHANGED <<applied, width, operator, mixed>>
  PROVE  StageInv'
<1>1. /\ Moves(c, "down") /\ proc'[c].caller = "entrypoint" /\ proc'[c].done = {}
      /\ proc'[c].aligned = FALSE
  BY FailsMoves DEF BootInv
<1>2. Len(applied) \in Nat /\ {} = 1..0
  BY DEF BootInv, TypeOK
<1>3. MigrationsInOrder' /\ DoneIsPrefix'
  <2>1. 0 \in 0..Len(applied) /\ proc'[c].done = 1..0
    BY <1>1, <1>2
  <2>2. \A d \in Container : \E k \in 0..Len(applied) : proc'[d].done = 1..k
    BY <1>1, <2>1 DEF BootInv, StageInv, DoneIsPrefix, Moves
  <2> QED
    BY <2>2 DEF BootInv, StageInv, MigrationsInOrder, DoneIsPrefix
<1>4. MigratedFirst'
  BY <1>1 DEF BootInv, StageInv, MigratedFirst, Moves
<1>5. OneWidth'
  BY <1>1 DEF BootInv, StageInv, OneWidth, Moves
<1>6. AlignsMismatched'
  BY <1>1 DEF BootInv, StageInv, AlignsMismatched, Moves, Mismatched
<1> QED
  BY <1>3, <1>4, <1>5, <1>6 DEF StageInv

(* A step that moves neither a container nor the columns.                  *)
LEMMA RestInv ==
  ASSUME BootInv, UNCHANGED <<applied, width, proc, operator, mixed>>
  PROVE  StageInv'
BY DEF BootInv, StageInv, MigrationsInOrder, DoneIsPrefix, MigratedFirst, OneWidth,
       AlignsMismatched, Mismatched

(* The program counter alone, among the states after the migrations.       *)
LEMMA GotoInv ==
  ASSUME BootInv, NEW c \in Container, NEW pc \in Late \ {"resizing"}, Goto(c, pc),
         proc[c].pc # "down", UNCHANGED <<applied, width, operator, mixed>>,
         Len(applied) = LastVersion,
         pc = "serving" \/ proc[c].pc \notin {"corpus", "serving"}
  PROVE  StageInv'
<1>1. /\ Moves(c, pc) /\ KeepsAlignment(c)
      /\ proc'[c].caller = proc[c].caller /\ proc'[c].done = proc[c].done
  BY GotoMoves DEF BootInv, PC, Late
<1>2. \E k \in 0..Len(applied) : proc'[c].done = 1..k
  BY <1>1 DEF BootInv, StageInv, DoneIsPrefix
<1>3. proc[c].aligned => proc[c].pc \in {"corpus", "serving"}
  BY DEF BootInv, StageInv, AlignsMismatched
<1> QED
  BY <1>1, <1>2, <1>3, MoveInv DEF KeepsAlignment, PC, Late

(* After the migrations: what goes on has all of them.                     *)
LEMMA AfterMigrationsInv ==
  ASSUME BootInv, NEW c \in Container, NEW ok \in BOOLEAN, AfterMigrations(c, ok),
         proc[c].pc = "applying", ok => NextVersion(c) = {},
         UNCHANGED <<applied, width, operator, mixed>>
  PROVE  StageInv'
<1>1. CASE proc[c].caller = "lifespan" /\ Goto(c, "dims")
  <2>1. Len(applied) = LastVersion
    BY <1>1 DEF BootInv, StageInv, MigratedFirst
  <2> QED
    BY <1>1, <2>1, GotoInv DEF Late
<1>2. CASE ok /\ Goto(c, "target")
  <2>1. PICK k \in 0..Len(applied) : proc[c].done = 1..k
    BY DEF BootInv, StageInv, DoneIsPrefix
  <2>2. Len(applied) \in 0..LastVersion /\ LastVersion \in Nat
    BY AppliedIsPrefix, BootAssumption DEF BootInv, StageInv
  <2>3. k \in 0..LastVersion /\ NextVersion(c) = {}
    BY <1>2, <2>1, <2>2
  <2>4. k = LastVersion
    BY <2>1, <2>3, NextAfterPrefix
  <2>5. Len(applied) = LastVersion
    BY <2>1, <2>2, <2>4
  <2> QED
    BY <1>2, <2>5, GotoInv DEF Late
<1> QED
  BY <1>1, <1>2, AfterMigrationsMoves, EndInv DEF BootInv

-----------------------------------------------------------------------------
(* The steps. *)

(* A container comes up: those that run side by side are of its width, or  *)
(* it is noted that they are not.                                          *)
LEMMA UpStep ==
  ASSUME BootInv, NEW c \in Container, Up(c)
  PROVE  StageInv'
<1>1. /\ Moves(c, "migrate") /\ proc'[c].caller = "entrypoint" /\ proc'[c].done = {}
      /\ proc'[c].dim = env /\ proc'[c].aligned = FALSE
  BY UpMoves DEF BootInv
<1>2. UNCHANGED <<applied, width, operator>> /\ proc[c].pc = "down"
  BY DEF Up
<1>3. MigrationsInOrder' /\ DoneIsPrefix'
  <2>1. 0 \in 0..Len(applied) /\ proc'[c].done = 1..0
    BY <1>1 DEF BootInv, TypeOK
  <2>2. \A d \in Container : \E k \in 0..Len(applied) : proc'[d].done = 1..k
    BY <1>1, <2>1 DEF BootInv, StageInv, DoneIsPrefix, Moves
  <2> QED
    BY <1>2, <2>2 DEF BootInv, StageInv, MigrationsInOrder, DoneIsPrefix
<1>4. MigratedFirst'
  BY <1>1, <1>2 DEF BootInv, StageInv, MigratedFirst, Moves
<1>5. ~mixed' => ~mixed /\ Running(c) \ {env} = {}
  BY DEF Up, BootInv, TypeOK
<1>6. OneWidth'
  <2> SUFFICES ASSUME ~mixed'
               PROVE  /\ \A d \in Container : proc'[d].pc # "down" => proc'[d].dim = env
                      /\ operator.pc # "idle" => operator.dim = env
    BY <1>2 DEF OneWidth
  <2>1. Running(c) \subseteq {env}
    BY <1>5
  <2>2. ASSUME NEW d \in Container \ {c}, proc[d].pc # "down"  PROVE proc[d].dim = env
    BY <2>1, <2>2 DEF Running
  <2>3. operator.pc # "idle" => operator.dim = env
    BY <2>1 DEF Running
  <2> QED
    BY <1>1, <2>2, <2>3 DEF Moves
<1>7. AlignsMismatched'
  BY <1>1, <1>2, <1>5 DEF BootInv, StageInv, AlignsMismatched, Moves, Mismatched
<1> QED
  BY <1>3, <1>4, <1>6, <1>7 DEF StageInv

(* What a runner has read is what is applied then, which is a prefix.      *)
LEMMA ReadStep ==
  ASSUME BootInv, NEW c \in Container, ReadApplied(c)
  PROVE  StageInv'
<1>1. /\ Moves(c, "applying") /\ KeepsAlignment(c)
      /\ proc'[c].caller = proc[c].caller /\ proc'[c].done = ToSet(applied)
  BY ReadMoves DEF BootInv
<1>2. UNCHANGED <<applied, width, operator, mixed>> /\ proc[c].pc = "migrate"
  BY DEF ReadApplied
<1>3. ToSet(applied) = 1..Len(applied) /\ Len(applied) \in 0..Len(applied)
  BY AppliedIsPrefix DEF BootInv, StageInv, TypeOK
<1>4. proc[c].aligned = FALSE
  BY <1>2 DEF BootInv, StageInv, AlignsMismatched, TypeOK, ProcState
<1>5. proc[c].caller = "lifespan" => Len(applied) = LastVersion
  BY DEF BootInv, StageInv, MigratedFirst
<1> QED
  BY <1>1, <1>2, <1>3, <1>4, <1>5, MoveInv DEF KeepsAlignment, PC, Late

(* The lifespan starts where the entrypoint's migrations are all applied.  *)
LEMMA StartStep ==
  ASSUME BootInv, NEW c \in Container, StartApi(c)
  PROVE  StageInv'
<1>1. /\ Moves(c, "migrate") /\ KeepsAlignment(c)
      /\ proc'[c].caller = "lifespan" /\ proc'[c].done = proc[c].done
  BY StartMoves DEF BootInv
<1>2. UNCHANGED <<applied, width, operator, mixed>> /\ proc[c].pc = "start"
  BY DEF StartApi
<1>3. Len(applied) = LastVersion /\ proc[c].aligned = FALSE
  BY <1>2 DEF BootInv, StageInv, MigratedFirst, AlignsMismatched, TypeOK, ProcState
<1>4. \E k \in 0..Len(applied) : proc'[c].done = 1..k
  BY <1>1 DEF BootInv, StageInv, DoneIsPrefix
<1> QED
  BY <1>1, <1>2, <1>3, <1>4, MoveInv DEF KeepsAlignment, PC, Late

(* What is measured is what mismatches, and is a concern of nobody else.   *)
LEMMA MeasureStep ==
  ASSUME BootInv, NEW c \in Container, MeasureStores(c)
  PROVE  StageInv'
<1>1. UNCHANGED <<applied, width, operator, mixed>> /\ proc[c].pc = "dims"
  BY DEF MeasureStores
<1>2. Len(applied) = LastVersion /\ proc[c].aligned = FALSE
  BY <1>1 DEF BootInv, StageInv, MigratedFirst, AlignsMismatched, TypeOK, ProcState
<1>3. /\ proc'[c].dim = proc[c].dim /\ proc'[c].aligned = proc[c].aligned
      /\ proc'[c].caller = proc[c].caller /\ proc'[c].done = proc[c].done
      /\ \/ Moves(c, "corpus")
         \/ /\ Moves(c, "resizing")
            /\ proc'[c].empty \cup proc'[c].blocked = Mismatched(c)
  BY MeasureMoves DEF BootInv
<1>4. \E k \in 0..Len(applied) : proc'[c].done = 1..k
  BY <1>3 DEF BootInv, StageInv, DoneIsPrefix
<1>5. CASE Moves(c, "corpus")
  BY <1>1, <1>2, <1>3, <1>4, <1>5, MoveInv DEF PC, Late
<1>6. CASE /\ Moves(c, "resizing")
           /\ proc'[c].empty \cup proc'[c].blocked = Mismatched(c)
  BY <1>1, <1>2, <1>3, <1>4, <1>6, MoveInv DEF PC, Late
<1> QED
  BY <1>3, <1>5, <1>6

(* The first missing version is recorded: nobody is past the migrations,   *)
(* so that the columns it may create are nobody's yet.                     *)
LEMMA RecordStep ==
  ASSUME BootInv, NEW c \in Container, proc[c].pc = "applying",
         proc[c].done = 1..Len(applied), Len(applied) < LastVersion,
         Record(c, Len(applied) + 1), UNCHANGED <<operator, mixed>>
  PROVE  StageInv'
<1> DEFINE n == Len(applied)
<1>1. n \in Nat /\ n + 1 \in Version
  BY BootAssumption DEF BootInv, TypeOK, Version
<1>2. /\ Moves(c, "applying") /\ KeepsAlignment(c)
      /\ proc'[c].caller = proc[c].caller /\ proc'[c].done = proc[c].done \cup {n + 1}
  BY <1>1, RecordMoves DEF BootInv
<1>3. \A d \in Container : proc[d].pc \in {"down", "migrate", "applying"} /\ proc[d].caller # "lifespan"
  BY <1>1, BootAssumption DEF BootInv, StageInv, MigratedFirst
<1>4. \A d \in Container :
        /\ proc'[d].pc \in {"down", "migrate", "applying"} /\ proc'[d].caller # "lifespan"
        /\ proc'[d].aligned = FALSE
  <2>1. \A d \in Container : proc[d].aligned = FALSE
    BY <1>3 DEF BootInv, StageInv, AlignsMismatched, TypeOK, ProcState
  <2> QED
    BY <1>2, <1>3, <2>1 DEF Moves, KeepsAlignment
<1>5. Len(applied') = n + 1 /\ \A i \in 1..(n + 1) : applied'[i] = IF i = n + 1 THEN n + 1 ELSE applied[i]
  BY <1>1 DEF Record, BootInv, TypeOK
<1>6. MigrationsInOrder'
  BY <1>1, <1>5 DEF BootInv, StageInv, MigrationsInOrder
<1>7. DoneIsPrefix'
  <2>1. proc'[c].done = 1..(n + 1)
    BY <1>1, <1>2
  <2>2. ASSUME NEW d \in Container, d # c  PROVE \E k \in 0..(n + 1) : proc'[d].done = 1..k
    BY <1>1, <1>2, <2>2 DEF BootInv, StageInv, DoneIsPrefix, Moves
  <2> QED
    BY <1>1, <1>5, <2>1, <2>2 DEF DoneIsPrefix
<1>8. MigratedFirst' /\ AlignsMismatched'
  BY <1>4 DEF MigratedFirst, AlignsMismatched
<1>9. OneWidth'
  BY <1>2 DEF BootInv, StageInv, OneWidth, Moves, KeepsAlignment
<1> QED
  BY <1>6, <1>7, <1>8, <1>9 DEF StageInv

(* The runner's step: its own, or the end of one that came second.         *)
LEMMA ApplyStep ==
  ASSUME BootInv, NEW c \in Container, ApplyMigration(c)
  PROVE  StageInv'
<1>1. proc[c].pc = "applying" /\ UNCHANGED <<operator, mixed>>
  BY DEF ApplyMigration
<1>2. CASE AfterMigrations(c, FALSE) /\ UNCHANGED <<applied, width>>
  BY <1>1, <1>2, AfterMigrationsInv
<1> QED
  BY <1>1, <1>2, ApplyInOrder, RecordStep

(* The empty columns get the width of the container that resizes them,     *)
(* which is that of every other one unless mixed says otherwise.           *)
LEMMA ResizeStep ==
  ASSUME BootInv, NEW c \in Container, ResizeEmpty(c)
  PROVE  StageInv'
<1>1. UNCHANGED <<applied, operator, mixed>> /\ proc[c].pc = "resizing"
  BY DEF ResizeEmpty
<1>2. Len(applied) = LastVersion /\ proc[c].aligned = FALSE
  BY <1>1 DEF BootInv, StageInv, MigratedFirst, AlignsMismatched, TypeOK, ProcState
<1>3. /\ Moves(c, "corpus")
      /\ proc'[c].caller = proc[c].caller /\ proc'[c].done = proc[c].done
      /\ proc'[c].dim = proc[c].dim /\ proc'[c].blocked = proc[c].blocked
      /\ \/ width' = width /\ proc'[c].aligned = proc[c].aligned
         \/ width' = [s \in Store |-> IF s \in proc[c].empty THEN proc[c].dim ELSE width[s]]
  BY ResizeMoves DEF BootInv
<1>4. \E k \in 0..Len(applied) : proc'[c].done = 1..k
  BY <1>3 DEF BootInv, StageInv, DoneIsPrefix
<1>5. CASE width' = width /\ proc'[c].aligned = proc[c].aligned
  BY <1>1, <1>2, <1>3, <1>4, <1>5, MoveInv DEF PC, Late
<1>6. CASE width' = [s \in Store |-> IF s \in proc[c].empty THEN proc[c].dim ELSE width[s]]
  <2>1. MigrationsInOrder' /\ DoneIsPrefix' /\ MigratedFirst' /\ OneWidth'
    BY <1>1, <1>2, <1>3, <1>4, MoveStages DEF PC, Late
  <2>2. \A s \in Store : width'[s] = IF s \in proc[c].empty THEN proc[c].dim ELSE width[s]
    BY <1>6
  <2>3. ASSUME ~mixed  PROVE Mismatched(c)' \subseteq proc'[c].blocked
    <3>1. Mismatched(c) \subseteq proc[c].empty \cup proc[c].blocked
      BY <1>1, <2>3 DEF BootInv, StageInv, AlignsMismatched
    <3>2. Mismatched(c)' \subseteq Mismatched(c) \ proc[c].empty
      BY <1>3, <2>2 DEF Mismatched
    <3> QED
      BY <1>3, <3>1, <3>2
  <2>4. ASSUME NEW d \in Container \ {c}, ~mixed, proc[d].pc # "down"
        PROVE  Mismatched(d)' \subseteq Mismatched(d)
    <3>1. proc[d].dim = proc[c].dim
      BY <1>1, <2>4 DEF BootInv, StageInv, OneWidth
    <3>2. proc'[d] = proc[d]
      BY <1>3 DEF Moves
    <3> QED
      BY <2>2, <3>1, <3>2 DEF Mismatched
  <2>5. ASSUME NEW d \in Container \ {c}
        PROVE  /\ proc'[d].aligned => proc'[d].pc \in {"corpus", "serving"}
               /\ ~mixed /\ proc'[d].aligned => Mismatched(d)' \subseteq proc'[d].blocked
               /\ ~mixed /\ proc'[d].pc = "resizing" =>
                    Mismatched(d)' \subseteq proc'[d].empty \cup proc'[d].blocked
    <3>1. proc'[d] = proc[d]
      BY <1>3 DEF Moves
    <3>2. proc[d].aligned => proc[d].pc # "down"
      BY DEF BootInv, StageInv, AlignsMismatched
    <3> QED
      BY <2>4, <3>1, <3>2 DEF BootInv, StageInv, AlignsMismatched
  <2>6. AlignsMismatched'
    BY <1>1, <1>3, <2>3, <2>5 DEF AlignsMismatched, Moves
  <2> QED
    BY <2>1, <2>6 DEF StageInv
<1> QED
  BY <1>3, <1>5, <1>6

(* Who rebuilds the stores is of the width of those beside it, too.        *)
LEMMA RebuildStep ==
  ASSUME BootInv, RebuildReads \/ RebuildStores \/ RebuildEmbeds \/ RebuildDies
  PROVE  StageInv'
<1>1. UNCHANGED <<applied, proc>>
  BY DEF RebuildReads, RebuildStores, RebuildEmbeds, RebuildDies
<1>2. MigrationsInOrder' /\ DoneIsPrefix' /\ MigratedFirst'
  BY <1>1 DEF BootInv, StageInv, MigrationsInOrder, DoneIsPrefix, MigratedFirst
<1>3. CASE RebuildReads
  <2>1. /\ width' = width /\ operator'.dim = env
        /\ ~mixed' => /\ ~mixed
                      /\ {proc[c].dim : c \in {x \in Container : proc[x].pc # "down"}} \ {env} = {}
    BY <1>3 DEF RebuildReads, BootInv, TypeOK
  <2>2. ~mixed' => ~mixed /\ \A c \in Container : proc[c].pc # "down" => proc[c].dim = env
    BY <2>1
  <2>3. OneWidth'
    BY <1>1, <2>1, <2>2 DEF OneWidth
  <2>4. AlignsMismatched'
    BY <1>1, <2>1 DEF BootInv, StageInv, AlignsMismatched, Mismatched
  <2> QED
    BY <1>2, <2>3, <2>4 DEF StageInv
<1>4. CASE RebuildStores
  <2>1. /\ operator.pc = "read" /\ mixed' = mixed /\ operator'.dim = operator.dim
        /\ \A s \in Store : width'[s] = operator.dim
    BY <1>4 DEF RebuildStores, BootInv, TypeOK, OperatorState
  <2>2. OneWidth'
    BY <1>1, <2>1 DEF BootInv, StageInv, OneWidth
  <2>3. ASSUME NEW c \in Container, ~mixed, proc[c].pc # "down"  PROVE Mismatched(c)' = {}
    BY <1>1, <2>1, <2>3 DEF BootInv, StageInv, OneWidth, Mismatched
  <2>4. AlignsMismatched'
    BY <1>1, <2>1, <2>3 DEF BootInv, StageInv, AlignsMismatched
  <2> QED
    BY <1>2, <2>2, <2>4 DEF StageInv
<1>5. CASE RebuildEmbeds \/ RebuildDies
  <2>1. width' = width /\ mixed' = mixed /\ operator'.pc = "idle"
    BY <1>5 DEF RebuildEmbeds, RebuildDies, Idle
  <2>2. OneWidth' /\ AlignsMismatched'
    BY <1>1, <2>1 DEF BootInv, StageInv, OneWidth, AlignsMismatched, Mismatched
  <2> QED
    BY <1>2, <2>2 DEF StageInv
<1> QED
  BY <1>3, <1>4, <1>5

(* The steps of one container, on the way to serving and on it.            *)
LEMMA BootStep ==
  ASSUME BootInv, NEW c \in Container, Up(c) \/ Boots(c) \/ Breaks(c) \/ Learn(c)
  PROVE  StageInv'
<1>1. CASE Up(c) \/ ReadApplied(c) \/ ApplyMigration(c) \/ StartApi(c) \/ MeasureStores(c) \/ ResizeEmpty(c)
  BY <1>1, UpStep, ReadStep, ApplyStep, StartStep, MeasureStep, ResizeStep
<1>2. CASE MigrationsEnd(c)
  BY <1>2, AfterMigrationsInv DEF MigrationsEnd
<1>3. CASE EnsureTarget(c)
  <2>1. Len(applied) = LastVersion
    BY <1>3 DEF BootInv, StageInv, MigratedFirst, EnsureTarget
  <2> QED
    BY <1>3, <2>1, GotoInv DEF EnsureTarget, Late
<1>4. ASSUME NEW s \in Store, NEW pc \in {"seed", "embed"}, NEW insert \in {"seeding", "embedding"},
             NEW next \in {"embed", "start"}, SkipIfExists(c, s, pc, insert, next)
      PROVE  StageInv'
  <2>1. Len(applied) = LastVersion
    BY <1>4 DEF BootInv, StageInv, MigratedFirst, SkipIfExists
  <2> QED
    BY <1>4, <2>1, GotoInv DEF SkipIfExists, Late
<1>5. ASSUME NEW s \in Store, NEW pc \in {"seeding", "embedding"}, NEW next \in {"embed", "start"},
             InsertAll(c, s, pc, next)
      PROVE  StageInv'
  <2>1. Len(applied) = LastVersion
    BY <1>5 DEF BootInv, StageInv, MigratedFirst, InsertAll
  <2> QED
    BY <1>5, <2>1, GotoInv, EndInv DEF InsertAll, Late
<1>6. CASE SeedCorpus(c)
  <2>1. Len(applied) = LastVersion
    BY <1>6 DEF BootInv, StageInv, MigratedFirst, SeedCorpus
  <2> QED
    BY <1>6, <2>1, GotoInv DEF SeedCorpus, Late
<1>7. CASE MigrationFails(c)
  BY <1>7, AfterMigrationsInv DEF MigrationFails
<1>8. CASE ProviderFails(c, "seeding") \/ ProviderFails(c, "embedding") \/ Crash(c)
  BY <1>8, EndInv DEF ProviderFails, Crash
<1>9. CASE Learn(c)
  BY <1>9, RestInv DEF Learn
<1> QED
  BY <1>1, <1>2, <1>3, <1>4, <1>5, <1>6, <1>7, <1>8, <1>9 DEF Boots, Breaks, Store

-----------------------------------------------------------------------------
(* Types. *)

(* A container's step leaves it in a state.                                *)
LEMMA ContainersTyped ==
  ASSUME BootInv, NEW c \in Container, Up(c) \/ Boots(c) \/ Breaks(c) \/ Learn(c)
  PROVE  proc' \in [Container -> ProcState]
<1> USE DEF BootInv
<1>1. ASSUME NEW pc \in PC, Goto(c, pc)  PROVE proc' \in [Container -> ProcState]
  BY <1>1, GotoMoves DEF Moves
<1>2. ASSUME Fails(c)  PROVE proc' \in [Container -> ProcState]
  BY <1>2, FailsMoves DEF Moves
<1>3. ASSUME NEW ok \in BOOLEAN, AfterMigrations(c, ok)  PROVE proc' \in [Container -> ProcState]
  BY <1>1, <1>2, <1>3, AfterMigrationsMoves DEF PC
<1>4. CASE Up(c) \/ ReadApplied(c) \/ StartApi(c) \/ MeasureStores(c) \/ ResizeEmpty(c)
  BY <1>4, UpMoves, ReadMoves, StartMoves, MeasureMoves, ResizeMoves DEF Moves
<1>5. CASE ApplyMigration(c)
  <2>1. CASE AfterMigrations(c, FALSE)
    BY <2>1, <1>3
  <2>2. CASE Len(applied) < LastVersion /\ Record(c, Len(applied) + 1)
    <3>1. Len(applied) + 1 \in Version /\ proc[c].pc = "applying"
      BY <1>5, <2>2, BootAssumption DEF TypeOK, Version, ApplyMigration
    <3> QED
      BY <2>2, <3>1, RecordMoves DEF Moves
  <2> QED
    BY <1>5, <2>1, <2>2, ApplyInOrder
<1>6. CASE MigrationsEnd(c) \/ MigrationFails(c)
  BY <1>3, <1>6 DEF MigrationsEnd, MigrationFails
<1>7. CASE EnsureTarget(c) \/ SeedCorpus(c)
  BY <1>1, <1>7 DEF EnsureTarget, SeedCorpus, PC
<1>8. ASSUME NEW s \in Store, NEW pc \in PC, NEW insert \in PC, NEW next \in PC,
             SkipIfExists(c, s, pc, insert, next) \/ InsertAll(c, s, pc, next)
      PROVE  proc' \in [Container -> ProcState]
  BY <1>1, <1>2, <1>8 DEF SkipIfExists, InsertAll
<1>9. CASE ProviderFails(c, "seeding") \/ ProviderFails(c, "embedding") \/ Crash(c)
  BY <1>2, <1>9 DEF ProviderFails, Crash
<1>10. CASE Learn(c)
  BY <1>10 DEF Learn, TypeOK
<1> QED
  BY <1>4, <1>5, <1>6, <1>7, <1>8, <1>9, <1>10 DEF Boots, Breaks, Store, PC

\* The columns and their rows.
StoresTyped ==
  /\ applied \in Seq(Version) /\ Len(applied) <= LastVersion
  /\ width \in [Store -> Dim \cup {0}]
  /\ filled \subseteq {s \in Store : width[s] # 0}

(* Rows come only into a column that is there, and no column goes away.    *)
LEMMA BootStoresTyped ==
  ASSUME BootInv, NEW c \in Container, Up(c) \/ Boots(c) \/ Breaks(c) \/ Learn(c)
  PROVE  StoresTyped'
<1>1. StoresTyped /\ proc[c].dim \in Dim \ {0} /\ DeclaredDim \in Dim \ {0}
  BY BootAssumption DEF BootInv, TypeOK, StoresTyped, ProcState
<1>2. ASSUME UNCHANGED <<applied, width>>,
             \A s \in filled' : s \in filled \/ (s \in Store /\ width[s] = proc[c].dim)
      PROVE  StoresTyped'
  BY <1>1, <1>2 DEF StoresTyped
<1>3. CASE ApplyMigration(c)
  <2>1. filled' = filled
    BY <1>3 DEF ApplyMigration
  <2>2. CASE UNCHANGED <<applied, width>>
    BY <1>2, <2>1, <2>2
  <2>3. CASE Len(applied) < LastVersion /\ Record(c, Len(applied) + 1)
    <3>1. Len(applied) + 1 \in Version
      BY <1>1, <2>3, BootAssumption DEF StoresTyped, Version
    <3>2. applied' \in Seq(Version) /\ Len(applied') = Len(applied) + 1
      BY <1>1, <2>3, <3>1 DEF Record, StoresTyped
    <3>3. width' = width \/ width' = [s \in Store |-> DeclaredDim]
      BY <2>3 DEF Record
    <3> QED
      BY <1>1, <2>1, <2>3, <3>2, <3>3, BootAssumption DEF StoresTyped
  <2> QED
    BY <1>3, <2>2, <2>3, ApplyInOrder
<1>4. CASE ResizeEmpty(c)
  <2>1. applied' = applied /\ filled' = filled
    BY <1>4 DEF ResizeEmpty
  <2>2. \/ width' = width
        \/ width' = [s \in Store |-> IF s \in proc[c].empty THEN proc[c].dim ELSE width[s]]
    BY <1>4, ResizeMoves DEF BootInv
  <2> QED
    BY <1>1, <2>1, <2>2 DEF StoresTyped
<1>5. CASE Up(c) \/ ReadApplied(c) \/ MigrationsEnd(c) \/ StartApi(c) \/ MeasureStores(c) \/ Breaks(c)
  BY <1>2, <1>5 DEF Up, ReadApplied, MigrationsEnd, StartApi, MeasureStores, Breaks,
                    MigrationFails, ProviderFails, Crash
<1>6. CASE EnsureTarget(c) \/ Learn(c) \/ SeedCorpus(c)
  BY <1>2, <1>6 DEF EnsureTarget, Learn, SeedCorpus, Store
<1>7. ASSUME NEW s \in Store, NEW pc, NEW insert, NEW next,
             SkipIfExists(c, s, pc, insert, next) \/ InsertAll(c, s, pc, next)
      PROVE  StoresTyped'
  BY <1>2, <1>7 DEF SkipIfExists, InsertAll
<1> QED
  BY <1>3, <1>4, <1>5, <1>6, <1>7 DEF Boots, Store

(* What else a container's step may change.                                *)
LEMMA BootTypeStep ==
  ASSUME BootInv, NEW c \in Container, Up(c) \/ Boots(c) \/ Breaks(c) \/ Learn(c)
  PROVE  TypeOK'
<1>1. StoresTyped' /\ proc' \in [Container -> ProcState]
  BY BootStoresTyped, ContainersTyped
<1>2. UNCHANGED <<env, operator, switches>>
  BY DEF Boots, Breaks, Learn, Up, ReadApplied, ApplyMigration, MigrationsEnd, EnsureTarget,
         SkipIfExists, InsertAll, StartApi, MeasureStores, ResizeEmpty, SeedCorpus,
         MigrationFails, ProviderFails, Crash
<1>3. target' \in BOOLEAN
  BY DEF Boots, Breaks, Learn, Up, ReadApplied, ApplyMigration, MigrationsEnd, EnsureTarget,
         SkipIfExists, InsertAll, StartApi, MeasureStores, ResizeEmpty, SeedCorpus,
         MigrationFails, ProviderFails, Crash, BootInv, TypeOK
<1>4. mixed' \in BOOLEAN
  BY DEF Boots, Breaks, Learn, Up, ReadApplied, ApplyMigration, MigrationsEnd, EnsureTarget,
         SkipIfExists, InsertAll, StartApi, MeasureStores, ResizeEmpty, SeedCorpus,
         MigrationFails, ProviderFails, Crash, BootInv, TypeOK
<1>5. troubles' \in 0..MaxTroubles
  <2>1. UNCHANGED troubles \/ Trouble
    BY DEF Boots, Breaks, Learn, Up, ReadApplied, ApplyMigration, MigrationsEnd, EnsureTarget,
           SkipIfExists, InsertAll, StartApi, MeasureStores, ResizeEmpty, SeedCorpus,
           MigrationFails, ProviderFails, Crash
  <2>2. troubles \in 0..MaxTroubles /\ MaxTroubles \in Nat
    BY BootAssumption DEF BootInv, TypeOK
  <2> QED
    BY <2>1, <2>2 DEF Trouble
<1> QED
  BY <1>1, <1>2, <1>3, <1>4, <1>5 DEF BootInv, TypeOK, StoresTyped

(* The operator's steps keep the types: a rebuilt column has a width.      *)
LEMMA RebuildTypeStep ==
  ASSUME BootInv, RebuildReads \/ RebuildStores \/ RebuildEmbeds \/ RebuildDies
  PROVE  TypeOK'
<1> USE BootAssumption DEF BootInv, TypeOK
<1>1. Idle \in OperatorState
  BY DEF Idle, OperatorState
<1>2. CASE RebuildReads
  <2>1. operator' \in OperatorState
    BY <1>2 DEF RebuildReads, OperatorState
  <2>2. mixed' \in BOOLEAN /\ switches' \in 0..MaxSwitches
    BY <1>2 DEF RebuildReads
  <2> QED
    BY <1>2, <2>1, <2>2 DEF RebuildReads
<1>3. CASE RebuildStores
  <2>1. operator' \in OperatorState /\ operator.dim \in Dim \ {0}
    BY <1>3 DEF RebuildStores, OperatorState
  <2>2. width' \in [Store -> Dim \cup {0}] /\ filled' \subseteq {s \in Store : width'[s] # 0}
    BY <1>3, <2>1 DEF RebuildStores, Store
  <2> QED
    BY <1>3, <2>1, <2>2 DEF RebuildStores
<1>4. CASE RebuildEmbeds
  <2>1. filled' \subseteq {s \in Store : width[s] # 0}
    BY <1>4 DEF RebuildEmbeds, OperatorState, Store
  <2> QED
    BY <1>1, <1>4, <2>1 DEF RebuildEmbeds
<1>5. CASE RebuildDies
  BY <1>1, <1>5 DEF RebuildDies, Trouble
<1> QED
  BY <1>2, <1>3, <1>4, <1>5

-----------------------------------------------------------------------------
(* Whatever containers crash, and whoever runs beside them: the state of   *)
(* each one is typed, the migrations are applied in order and before what  *)
(* depends on them, and an alignment leaves no store of another width      *)
(* unreported.                                                             *)
THEOREM BootInvariant == Spec => []BootInv
<1>1. Init => BootInv
  <2> SUFFICES ASSUME Init PROVE BootInv
    OBVIOUS
  <2>1. Down \in ProcState /\ Idle \in OperatorState
    BY BootAssumption DEF Down, Idle, ProcState, OperatorState
  <2>2. TypeOK
    <3>1. applied \in Seq(Version) /\ Len(applied) = 0
      BY DEF Init
    <3>2. width \in [Store -> Dim \cup {0}] /\ filled = {}
      BY DEF Init
    <3>3. proc \in [Container -> ProcState] /\ operator \in OperatorState
      BY <2>1 DEF Init
    <3>4. /\ target \in BOOLEAN /\ mixed \in BOOLEAN /\ env \in Dim
          /\ troubles \in 0..MaxTroubles /\ switches \in 0..MaxSwitches
      <4>1. target \in BOOLEAN /\ mixed \in BOOLEAN
        BY Zenon DEF Init
      <4>2. env \in Dim /\ troubles = 0 /\ switches = 0
        BY BootAssumption DEF Init
      <4> QED
        BY <4>1, <4>2, BootAssumption
    <3>5. 0 <= LastVersion
      BY BootAssumption
    <3> QED
      BY <3>1, <3>2, <3>3, <3>4, <3>5 DEF TypeOK
  <2>3. \A c \in Container : proc[c] = Down
    BY DEF Init
  <2>4. Len(applied) = 0 /\ {} = 1..0 /\ 0 \in 0..0
    BY DEF Init
  <2>5. DoneIsPrefix
    BY <2>3, <2>4 DEF DoneIsPrefix, Down
  <2>6. MigrationsInOrder
    BY <2>4 DEF MigrationsInOrder
  <2>7. MigratedFirst /\ OneWidth /\ AlignsMismatched
    BY <2>3 DEF MigratedFirst, OneWidth, AlignsMismatched, Down
  <2> QED
    BY <2>2, <2>5, <2>6, <2>7 DEF BootInv, StageInv
<1>2. BootInv /\ [Next]_vars => BootInv'
  <2> SUFFICES ASSUME BootInv, [Next]_vars PROVE BootInv'
    OBVIOUS
  <2>1. ASSUME NEW c \in Container, Up(c) \/ Boots(c) \/ Breaks(c) \/ Learn(c)  PROVE BootInv'
    BY <2>1, BootStep, BootTypeStep DEF BootInv
  <2>2. CASE SwitchProvider
    <3>1. TypeOK'
      BY <2>2, BootAssumption DEF SwitchProvider, BootInv, TypeOK
    <3> QED
      BY <2>2, <3>1, RestInv DEF SwitchProvider, BootInv
  <2>3. CASE RebuildReads \/ RebuildStores \/ RebuildEmbeds \/ RebuildDies
    BY <2>3, RebuildStep, RebuildTypeStep DEF BootInv
  <2>4. CASE UNCHANGED vars
    <3>1. TypeOK'
      BY <2>4 DEF vars, BootInv, TypeOK
    <3> QED
      BY <2>4, <3>1, RestInv DEF vars, BootInv
  <2> QED
    BY <2>1, <2>2, <2>3, <2>4 DEF Next
<1> QED
  BY <1>1, <1>2, PTL DEF Spec

(* The lifespan goes on without its own migrations, but only where the     *)
(* entrypoint's have all been applied.                                     *)
THEOREM MigratedWhenServing == Spec => []ServingIsMigrated
<1>1. BootInv => ServingIsMigrated
  BY DEF BootInv, StageInv, MigratedFirst, ServingIsMigrated, Serving
<1> QED
  BY <1>1, BootInvariant, PTL

(* What an aligned API stores goes into columns of its width, except the   *)
(* ones it has reported.                                                   *)
THEOREM AlignedWhenServing == Spec => []ServingAligned
<1>1. BootInv => ServingAligned
  BY DEF BootInv, StageInv, AlignsMismatched, ServingAligned, Serving
<1> QED
  BY <1>1, BootInvariant, PTL

=============================================================================
