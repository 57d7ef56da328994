------------------------------ MODULE PanelProofs ------------------------------
(***************************************************************************)
(* Proofs about HistoryPanel, for any sessions and any number of rows and   *)
(* acts.  Window and Gestures are about the verdict being staged, Reviews   *)
(* and Shown about the verdicts on their way, LastAsked about the answers   *)
(* to the lists asked for.                                                 *)
(***************************************************************************)
EXTENDS HistoryPanel, FiniteSetTheorems, TLAPS

\* TypeOK, but for the number of staged verdicts, which Window has.
Typed ==
  /\ owner \in BoundedSeq(Session, MaxRows)
  /\ recorded \in [1..Len(owner) -> Verdict \cup {none}]
  /\ scope \in Scope
  /\ entries \in Lists /\ DOMAIN entries \subseteq 1..Len(owner)
  /\ loads \subseteq Load
  /\ asked \in Act /\ shown \in 0..asked /\ total \in 0..MaxRows
  /\ staged \subseteq Staged
  /\ timers \subseteq Act /\ timer \in Act \cup {NoTimer} /\ edits \in 0..MaxActs
  /\ marker \in Row \cup {NoRow}
  /\ posts \subseteq Post
  /\ sent \in Seq(Act) /\ undone \subseteq Act
  /\ {missed, behind, lost} \subseteq BOOLEAN /\ twice \subseteq Row

\* One verdict at most is staged, and its window is the one open.
Window ==
  /\ \A v, w \in staged : v = w
  /\ staged = {} <=> timers = {}
  /\ timers # {} => timers = {edits} /\ timer = edits

\* Gestures are numbered by the edits, and end in one way.
Gestures ==
  /\ \A g \in ToSet(sent) \cup undone : g <= edits
  /\ \A v \in staged : v.gesture <= edits /\ v.gesture \notin ToSet(sent) \cup undone
  /\ IsInjective(sent) /\ ToSet(sent) \cap undone = {}

\* Verdicts and lists are of rows there are.
RowsExist ==
  /\ \A v \in staged : v.row \in 1..Len(owner)
  /\ \A p \in posts : p.row \in 1..Len(owner)
  /\ \A l \in loads : DOMAIN l.items \subseteq 1..Len(owner)

\* Of one row at most one verdict is staged or on its way, unless it was
\* reviewed twice; what a post has recorded stays until its answer is in.
Reviews ==
  /\ \A p, q \in posts : p.row = q.row => p = q \/ p.row \in twice
  /\ \A v \in staged, p \in posts : p.row = v.row => v.row \in twice
  /\ \A p \in posts : p.recorded => p.waiting /\ (recorded[p.row] = p.verdict \/ p.row \in twice)

\* A row shown has the server's verdict, or a post that recorded it will say so.
Shown ==
  (~behind /\ ~lost /\ twice = {}) =>
    \A r \in DOMAIN entries :
      entries[r] = recorded[r] \/ \E p \in posts : p.row = r /\ p.recorded

\* The last list asked for is of the panel's scope, and so is its answer.
LastAsked ==
  /\ \A l \in loads : l.n <= asked /\ (l.n = asked => l.scope = scope)
  /\ ~missed => \A l \in loads : (l.n = asked /\ l.read) =>
                   DOMAIN l.items = PageOf(scope) /\ l.total = Cardinality(Matching(scope))
  /\ (~missed /\ shown = asked) =>
        /\ DOMAIN entries = PageOf(scope)
        /\ Matching(scope) # {} => entries # <<>>

\* The inductive invariant.
PanelInv ==
  Typed /\ Window /\ Gestures /\ RowsExist /\ Reviews /\ Shown /\ LastAsked

-----------------------------------------------------------------------------
(* Lemmas about sequences, rows and pages. *)

(* A sequence of gestures that one is appended to.                         *)
LEMMA AppendFacts ==
  ASSUME NEW S, NEW s \in Seq(S), NEW x \in S
  PROVE  /\ Append(s, x) \in Seq(S) /\ ToSet(Append(s, x)) = ToSet(s) \cup {x}
         /\ (IsInjective(s) /\ x \notin ToSet(s)) => IsInjective(Append(s, x))
<1>1. /\ Append(s, x) \in Seq(S) /\ Len(Append(s, x)) = Len(s) + 1 /\ Len(s) \in Nat
      /\ DOMAIN s = 1..Len(s) /\ DOMAIN Append(s, x) = 1..(Len(s) + 1)
      /\ \A i \in 1..Len(s) : Append(s, x)[i] = s[i]
      /\ Append(s, x)[Len(s) + 1] = x
  OBVIOUS
<1> DEFINE t == Append(s, x)
<1> HIDE DEF t
<1>2. /\ DOMAIN t = 1..(Len(s) + 1) /\ Len(s) \in Nat /\ DOMAIN s = 1..Len(s)
      /\ \A i \in 1..Len(s) : t[i] = s[i]
      /\ t[Len(s) + 1] = x
  BY <1>1 DEF t
<1>3. ToSet(t) = ToSet(s) \cup {x}
  BY <1>2 DEF ToSet
<1>4. (IsInjective(s) /\ x \notin ToSet(s)) => IsInjective(t)
  BY <1>2 DEF IsInjective, ToSet
<1> QED
  BY <1>1, <1>3, <1>4 DEF t

(* ... is a function on one more index.                                    *)
LEMMA AppendedFunction ==
  ASSUME NEW S, NEW s \in Seq(S), NEW x \in S
  PROVE  /\ Append(s, x) \in [1..(Len(s) + 1) -> S] /\ Len(Append(s, x)) = Len(s) + 1
         /\ \A i \in 1..Len(s) : Append(s, x)[i] = s[i]
<1>1. Append(s, x) \in Seq(S) /\ Len(Append(s, x)) = Len(s) + 1
  OBVIOUS
<1>2. \A t \in Seq(S) : t \in [1..Len(t) -> S]
  OBVIOUS
<1>3. \A i \in 1..Len(s) : Append(s, x)[i] = s[i]
  OBVIOUS
<1> QED
  BY <1>1, <1>2, <1>3, Zenon

(* A sequence holds what it is a sequence of.                              *)
LEMMA ToSetTyped ==
  ASSUME NEW S, NEW s \in Seq(S)
  PROVE  ToSet(s) \subseteq S
BY DEF ToSet

(* The query history is a sequence of the sessions of its rows.            *)
LEMMA OwnerFacts ==
  ASSUME owner \in BoundedSeq(Session, MaxRows)
  PROVE  owner \in Seq(Session) /\ Len(owner) \in 0..MaxRows /\ 1..Len(owner) \subseteq Row
<1>1. PICK m \in 0..MaxRows : owner \in [1..m -> Session]
  BY DEF BoundedSeq, SeqOf
<1>2. m \in Nat /\ owner \in Seq(Session) /\ Len(owner) = m
  BY <1>1, PanelBounds
<1> QED
  BY <1>1, <1>2, PanelBounds DEF Row

(* There are no more pages than rows, and the last one has rows.           *)
LEMMA Pages ==
  ASSUME NEW n \in Nat
  PROVE  /\ NumberOfPages(n) \in 0..n
         /\ n > 0 => /\ NumberOfPages(n) \in 1..n
                     /\ (NumberOfPages(n) - 1) * PAGE_SIZE < n
<1> DEFINE p == PAGE_SIZE
           k == (n + p - 1) \div p
<1>1. p \in Nat \ {0} /\ NumberOfPages(n) = k
  BY PanelBounds DEF NumberOfPages
<1> HIDE DEF p
<1>2. CASE n = 0
  BY <1>1, <1>2
<1>3. CASE n > 0
  <2>1. k \in 1..n
    BY <1>1, <1>3
  <2>2. (k - 1) * p < n
    BY <1>1, <1>3
  <2> QED
    BY <1>1, <2>1, <2>2 DEF p
<1> QED
  BY <1>2, <1>3

(* The first row of a page is as far from the newest as the pages before   *)
(* it have rows.                                                           *)
LEMMA FirstOfPage ==
  ASSUME NEW k \in Nat
  PROVE  k * PAGE_SIZE \in Nat /\ (k * PAGE_SIZE) \div PAGE_SIZE = k
BY PanelBounds

(* As many of a set of rows as are newer than one of them differ from one   *)
(* to the other, and so they take every value below the number of rows.     *)
LEMMA EveryRank ==
  ASSUME NEW n \in Nat, NEW S \in SUBSET (1..n), NEW k \in Nat, k < Cardinality(S)
  PROVE  \E r \in S : Cardinality({q \in S : q > r}) = k
<1> DEFINE Newer(r) == {q \in S : q > r}
           f == [r \in S |-> Cardinality(Newer(r))]
           T == 0..(Cardinality(S) - 1)
<1>0. \A q \in S : q \in Nat /\ q > 0
  OBVIOUS
<1>1. IsFiniteSet(S) /\ Cardinality(S) \in Nat
  <2>1. IsFiniteSet(1..n)
    BY FS_Interval
  <2>2. IsFiniteSet(S)
    BY <2>1, FS_Subset
  <2> QED
    BY <2>2, FS_CardinalityType
<1>2. \A r \in S : IsFiniteSet(Newer(r)) /\ Cardinality(Newer(r)) \in Nat
  <2>1. \A r \in S : Newer(r) \in SUBSET S
    OBVIOUS
  <2> HIDE DEF Newer
  <2> QED
    BY <1>1, <2>1, FS_Subset, FS_CardinalityType
<1>3. ASSUME NEW a \in S, NEW b \in S \cup {0}, b < a
      PROVE  Cardinality(Newer(a)) < Cardinality({q \in S : q > b})
  <2> DEFINE U == {q \in S : q > b}
  <2>1. U \in SUBSET S /\ Newer(a) \in SUBSET U /\ a \in U /\ a \notin Newer(a)
    <3>1. b \in Nat /\ a \in Nat
      BY <1>0
    <3>2. \A q \in S : q > a => q > b
      BY <1>0, <1>3, <3>1
    <3>3. a > b /\ ~(a > a)
      BY <1>3, <3>1
    <3> QED
      BY <3>2, <3>3
  <2> HIDE DEF U, Newer
  <2>2. IsFiniteSet(U) /\ Cardinality(U) \in Nat
    BY <1>1, <2>1, FS_Subset, FS_CardinalityType
  <2>3. Cardinality(Newer(a)) <= Cardinality(U) /\ (Cardinality(U) = Cardinality(Newer(a)) => U = Newer(a))
    BY <2>1, <2>2, FS_Subset
  <2>4. Cardinality(Newer(a)) # Cardinality(U)
    BY <2>1, <2>3
  <2>5. Cardinality(Newer(a)) < Cardinality(U)
    BY <1>2, <2>2, <2>3, <2>4
  <2> QED
    BY <2>5 DEF U
<1>4. \A r \in S : f[r] \in T
  <2> SUFFICES ASSUME NEW r \in S PROVE Cardinality(Newer(r)) \in T
    OBVIOUS
  <2>1. {q \in S : q > 0} = S
    BY <1>0
  <2>2. Cardinality(Newer(r)) < Cardinality({q \in S : q > 0})
    BY <1>0, <1>3
  <2>3. Cardinality(Newer(r)) < Cardinality(S)
    BY <2>1, <2>2, Zenon
  <2> HIDE DEF Newer
  <2> QED
    BY <1>1, <1>2, <2>3
<1>5. \A a, b \in S : a # b => f[a] # f[b]
  <2> SUFFICES ASSUME NEW a \in S, NEW b \in S, b < a
               PROVE  Cardinality(Newer(a)) # Cardinality(Newer(b))
    OBVIOUS
  <2>1. Cardinality(Newer(a)) < Cardinality(Newer(b))
    BY <1>3
  <2> HIDE DEF Newer
  <2> QED
    BY <1>2, <2>1
<1> HIDE DEF Newer
<1>6. f \in Injection(S, T)
  BY <1>4, <1>5 DEF Injection, IsInjective
<1>7. IsFiniteSet(T) /\ Cardinality(T) = Cardinality(S)
  <2>1. 0 \in Int /\ Cardinality(S) - 1 \in Int /\ (0 > Cardinality(S) - 1 <=> Cardinality(S) = 0)
    BY <1>1
  <2>2. /\ IsFiniteSet(T)
        /\ Cardinality(T) = IF 0 > Cardinality(S) - 1 THEN 0 ELSE (Cardinality(S) - 1) - 0 + 1
    BY <2>1, FS_Interval
  <2> HIDE DEF T
  <2> QED
    BY <1>1, <2>1, <2>2
<1> HIDE DEF f
<1>8. f \in Surjection(S, T)
  BY <1>6, <1>7, FS_Injection
<1>9. k \in T
  BY <1>1
<1>10. PICK r \in S : f[r] = k
  BY <1>8, <1>9 DEF Surjection
<1> QED
  BY <1>10 DEF f, Newer

(* The rows a list is of, and those of them on its page.                   *)
LEMMA MatchingFacts ==
  ASSUME owner \in BoundedSeq(Session, MaxRows), NEW sc \in Scope
  PROVE  /\ Matching(sc) \subseteq 1..Len(owner) /\ PageOf(sc) \subseteq Matching(sc)
         /\ Cardinality(Matching(sc)) \in 0..MaxRows
         /\ Cardinality(Matching(sc)) = 0 <=> Matching(sc) = {}
         /\ (sc.page - 1) * PAGE_SIZE < Cardinality(Matching(sc)) => PageOf(sc) # {}
<1>1. Len(owner) \in 0..MaxRows /\ MaxRows \in Nat
  BY OwnerFacts, PanelBounds
<1>2. Matching(sc) \subseteq 1..Len(owner) /\ PageOf(sc) \subseteq Matching(sc)
  BY DEF Matching, PageOf
<1> DEFINE M == Matching(sc)
           n == Len(owner)
<1>3. n \in Nat /\ n <= MaxRows /\ M \in SUBSET (1..n)
  BY <1>1, <1>2
<1>4. sc.page \in 1..MaxRows
  BY DEF Scope
<1>5. PageOf(sc) = {r \in M : Cardinality({q \in M : q > r}) \div PAGE_SIZE = sc.page - 1}
  BY DEF PageOf
<1> HIDE DEF M, n
<1>6. IsFiniteSet(1..n) /\ Cardinality(1..n) = n
  BY <1>3, FS_Interval
<1>7. IsFiniteSet(M) /\ Cardinality(M) <= Cardinality(1..n)
  BY <1>3, <1>6, FS_Subset
<1>8. Cardinality(M) \in Nat /\ Cardinality(M) <= n
  BY <1>6, <1>7, FS_CardinalityType
<1>9. Cardinality(M) = 0 <=> M = {}
  BY <1>7, FS_EmptySet
<1>10. ASSUME (sc.page - 1) * PAGE_SIZE < Cardinality(M)
       PROVE  PageOf(sc) # {}
  <2>1. sc.page - 1 \in Nat
    BY <1>4
  <2>2. /\ (sc.page - 1) * PAGE_SIZE \in Nat
        /\ ((sc.page - 1) * PAGE_SIZE) \div PAGE_SIZE = sc.page - 1
    BY <2>1, FirstOfPage
  <2>3. PICK r \in M : Cardinality({q \in M : q > r}) = (sc.page - 1) * PAGE_SIZE
    BY <1>3, <1>10, <2>2, EveryRank
  <2> QED
    BY <1>5, <2>2, <2>3
<1>11. Cardinality(M) \in 0..MaxRows
  BY <1>1, <1>3, <1>8
<1> QED
  BY <1>2, <1>9, <1>10, <1>11 DEF M

(* A list of no rows is the empty list.                                    *)
LEMMA EmptyList ==
  /\ <<>> \in Lists /\ DOMAIN <<>> = {}
  /\ \A f \in Lists : f = <<>> <=> DOMAIN f = {}
<1>1. DOMAIN <<>> = {} /\ <<>> \in [{} -> Verdict \cup {none}]
  OBVIOUS
<1>2. \A f \in [{} -> Verdict \cup {none}] : f = <<>>
  BY <1>1
<1> QED
  BY <1>1, <1>2 DEF Lists

(* Any function from rows to verdicts is a list.                           *)
LEMMA ListsMade ==
  /\ \A T \in SUBSET Row : \A f \in [T -> Verdict \cup {none}] : f \in Lists
  /\ \A f \in Lists : /\ DOMAIN f \in SUBSET Row
                      /\ f \in [DOMAIN f -> Verdict \cup {none}]
BY DEF Lists

-----------------------------------------------------------------------------
(* The lists. *)

(* When what the list depends on changed, it is asked for, by a request     *)
(* numbered after all others; else nothing is.                             *)
LEMMA AskEffect ==
  ASSUME PanelInv, NEW sc \in Scope, NEW flying \in SUBSET loads, AskIfChanged(sc, flying),
         UNCHANGED <<owner, edits>>
  PROVE  /\ scope' = sc /\ loads' \subseteq Load /\ asked' \in Act /\ missed' \in BOOLEAN
         /\ asked' = asked \/ asked' = asked + 1
         /\ asked' = asked => scope' = scope /\ missed' = missed /\ loads' = flying
         /\ \A l \in loads' : /\ l.n <= asked' /\ (l.n = asked' => l.scope = scope')
                              /\ l \in flying \/ (~l.read /\ l.items = <<>> /\ l.n = asked')
         /\ ~missed' => \A l \in loads' : (l.n = asked' /\ l.read) =>
              DOMAIN l.items = PageOf(scope)' /\ l.total = Cardinality(Matching(scope)')
<1>1. /\ asked \in 1..MaxActs /\ edits \in 0..MaxActs /\ loads \subseteq Load
      /\ missed \in BOOLEAN /\ LastAsked
  BY DEF PanelInv, Typed, Act
<1>2. \A l \in loads : l.n \in Nat
  BY <1>1 DEF Load, Act
<1>3. CASE sc = scope
  <2>1. scope' = scope /\ loads' = flying /\ asked' = asked /\ missed' = missed
    BY <1>3 DEF AskIfChanged
  <2>2. PageOf(scope)' = PageOf(scope) /\ Matching(scope)' = Matching(scope)
    BY <2>1 DEF PageOf, Matching
  <2> QED
    BY <1>1, <1>3, <2>1, <2>2 DEF LastAsked, Act
<1>4. CASE sc # scope
  <2> DEFINE q == Request(asked', sc)
  <2>1. /\ scope' = sc /\ asked + edits < MaxActs /\ asked' = asked + 1 /\ missed' = FALSE
        /\ loads' = flying \cup {q}
    BY <1>4 DEF AskIfChanged
  <2>2. asked' \in Act
    BY <1>1, <2>1, PanelBounds DEF Act
  <2>3. q \in Load /\ q.n = asked' /\ q.scope = sc /\ ~q.read /\ q.items = <<>>
    BY <2>2, EmptyList, PanelBounds DEF Request, Load
  <2> HIDE DEF q
  <2>4. \A l \in flying : l.n <= asked' /\ l.n # asked'
    BY <1>1, <1>2, <2>1 DEF LastAsked
  <2>5. \A l \in loads' : /\ l.n <= asked' /\ (l.n = asked' => l.scope = scope')
                          /\ l \in flying \/ (~l.read /\ l.items = <<>> /\ l.n = asked')
                          /\ ~(l.n = asked' /\ l.read)
    BY <2>1, <2>2, <2>3, <2>4 DEF Act
  <2>6. asked' # asked /\ loads' \subseteq Load
    BY <1>1, <2>1, <2>3
  <2>7. scope' = sc /\ missed' \in BOOLEAN /\ asked' = asked + 1
    BY <2>1
  <2> QED
    BY <2>2, <2>5, <2>6, <2>7
<1> QED
  BY <1>3, <1>4

(* The pager, a filter or "new conversation" move the list.                *)
LEMMA ScopeStep ==
  ASSUME PanelInv, Browse \/ NewConversation
  PROVE  PanelInv'
<1>1. UNCHANGED <<owner, recorded, entries, total, shown, behind, staging, posting>>
  BY DEF Browse, NewConversation
<1>2. UNCHANGED <<staged, timers, timer, edits, undone, marker, posts, sent, lost, twice>>
  BY <1>1 DEF staging, posting
<1>3. scope \in Scope /\ total \in 0..MaxRows /\ shown \in 0..asked /\ Typed /\ asked \in Act
  BY DEF PanelInv, Typed
<1>4. PICK sc \in Scope : AskIfChanged(sc, loads)
  <2>1. CASE NewConversation
    <3>1. [scope EXCEPT !.session = Everything] \in Scope
      BY <1>3 DEF Scope
    <3> QED
      BY <2>1, <3>1 DEF NewConversation
  <2>2. CASE Browse /\ Prev
    <3>1. scope.page \in 1..MaxRows /\ scope.page > 1
      BY <1>3, <2>2 DEF Scope, Prev
    <3>2. scope.page - 1 \in 1..MaxRows
      BY <3>1, PanelBounds
    <3>3. [scope EXCEPT !.page = scope.page - 1] \in Scope
      BY <1>3, <3>2 DEF Scope
    <3> QED
      BY <2>2, <3>3 DEF Prev
  <2>3. CASE Browse /\ Following
    <3>1. scope.page \in 1..MaxRows /\ scope.page < total
      BY <1>3, <2>3, Pages DEF Scope, Following
    <3>2. scope.page + 1 \in 1..MaxRows
      BY <1>3, <3>1, PanelBounds
    <3>3. [scope EXCEPT !.page = scope.page + 1] \in Scope
      BY <1>3, <3>2 DEF Scope
    <3> QED
      BY <2>3, <3>3 DEF Following
  <2>4. ASSUME NEW since \in {1, 2}, Filter(since)
        PROVE  \E sc \in Scope : AskIfChanged(sc, loads)
    <3>1. 1 \in 1..MaxRows
      BY PanelBounds
    <3>2. [scope EXCEPT !.since = since, !.page = 1] \in Scope
      BY <1>3, <3>1 DEF Scope
    <3> QED
      BY <2>4, <3>2 DEF Filter
  <2> QED
    BY <2>1, <2>2, <2>3, <2>4 DEF Browse
<1>5. /\ scope' = sc /\ loads' \subseteq Load /\ asked' \in Act /\ missed' \in BOOLEAN
      /\ asked' = asked \/ asked' = asked + 1
      /\ asked' = asked => scope' = scope /\ missed' = missed /\ loads' = loads
      /\ \A l \in loads' : /\ l.n <= asked' /\ (l.n = asked' => l.scope = scope')
                           /\ l \in loads \/ (~l.read /\ l.items = <<>> /\ l.n = asked')
      /\ ~missed' => \A l \in loads' : (l.n = asked' /\ l.read) =>
           DOMAIN l.items = PageOf(scope)' /\ l.total = Cardinality(Matching(scope)')
  BY <1>1, <1>2, <1>4, AskEffect
<1>6. Typed'
  <2>1. shown' \in 0..asked' /\ {missed', behind', lost'} \subseteq BOOLEAN
    BY <1>1, <1>2, <1>3, <1>5 DEF Typed, Act
  <2> QED
    BY <1>1, <1>2, <1>3, <1>5, <2>1 DEF Typed
<1>7. Window' /\ Gestures' /\ Reviews' /\ Shown'
  BY <1>1, <1>2 DEF PanelInv, Window, Gestures, Reviews, Shown
<1>8. RowsExist'
  BY <1>1, <1>2, <1>5, EmptyList DEF PanelInv, RowsExist
<1>9. LastAsked'
  <2>1. ASSUME ~missed', shown' = asked'
        PROVE  /\ DOMAIN entries' = PageOf(scope)'
               /\ Matching(scope)' # {} => entries' # <<>>
    <3>1. asked' = asked
      BY <1>1, <1>3, <1>5, <2>1 DEF Act
    <3>2. PageOf(scope)' = PageOf(scope) /\ Matching(scope)' = Matching(scope)
      BY <1>1, <1>5, <3>1 DEF PageOf, Matching
    <3> QED
      BY <1>1, <1>5, <2>1, <3>1, <3>2 DEF PanelInv, LastAsked
  <2> QED
    BY <1>5, <2>1 DEF LastAsked
<1> QED
  BY <1>6, <1>7, <1>8, <1>9 DEF PanelInv

(* The server answers a list; the answer is of the list it was asked.      *)
LEMMA ServerListsStep ==
  ASSUME PanelInv, NEW l \in loads, ServerLists(l)
  PROVE  PanelInv'
<1> DEFINE m == [l EXCEPT !.read = TRUE, !.total = Cardinality(Matching(l.scope)),
                          !.items = [r \in PageOf(l.scope) |-> recorded[r]]]
<1>1. /\ loads' = (loads \ {l}) \cup {m} /\ ~l.read
      /\ UNCHANGED <<owner, recorded, scope, entries, total, asked, shown, missed, behind>>
      /\ UNCHANGED <<staged, timers, timer, edits, undone, marker, posts, sent, lost, twice>>
  BY DEF ServerLists, staging, posting
<1>2. l \in Load /\ l.scope \in Scope /\ Typed /\ owner \in BoundedSeq(Session, MaxRows)
  BY DEF PanelInv, Typed, Load
<1>3. /\ Cardinality(Matching(l.scope)) \in 0..MaxRows
      /\ PageOf(l.scope) \subseteq 1..Len(owner) /\ PageOf(l.scope) \in SUBSET Row
  BY <1>2, MatchingFacts, OwnerFacts
<1>4. [r \in PageOf(l.scope) |-> recorded[r]] \in [PageOf(l.scope) -> Verdict \cup {none}]
  BY <1>2, <1>3 DEF Typed
<1>5. [r \in PageOf(l.scope) |-> recorded[r]] \in Lists
  BY <1>3, <1>4, ListsMade
<1>6. /\ m \in Load /\ m.n = l.n /\ m.scope = l.scope
      /\ m.total = Cardinality(Matching(l.scope)) /\ DOMAIN m.items = PageOf(l.scope)
  BY <1>2, <1>3, <1>5 DEF Load
<1> HIDE DEF m
<1>7. Typed'
  BY <1>1, <1>6 DEF PanelInv, Typed
<1>8. Window' /\ Gestures' /\ Reviews' /\ Shown'
  BY <1>1 DEF PanelInv, Window, Gestures, Reviews, Shown
<1>9. RowsExist'
  BY <1>1, <1>3, <1>6 DEF PanelInv, RowsExist
<1>10. PageOf(scope)' = PageOf(scope) /\ Matching(scope)' = Matching(scope)
  BY <1>1 DEF PageOf, Matching
<1>11. LastAsked'
  BY <1>1, <1>6, <1>10 DEF PanelInv, LastAsked
<1> QED
  BY <1>7, <1>8, <1>9, <1>11 DEF PanelInv

(* A list request fails.                                                   *)
LEMMA ListFailsStep ==
  ASSUME PanelInv, NEW l \in loads, ListFails(l)
  PROVE  PanelInv'
<1>1. /\ entries' = <<>> /\ shown' = 0 /\ loads' = loads \ {l}
      /\ UNCHANGED <<owner, recorded, scope, total, asked, missed, behind>>
      /\ UNCHANGED <<staged, timers, timer, edits, undone, marker, posts, sent, lost, twice>>
  BY DEF ListFails, staging, posting
<1>2. asked \in 1..MaxActs
  BY DEF PanelInv, Typed, Act
<1>3. Typed'
  BY <1>1, <1>2, EmptyList DEF PanelInv, Typed
<1>4. Window' /\ Gestures' /\ Reviews' /\ RowsExist'
  BY <1>1 DEF PanelInv, Window, Gestures, Reviews, RowsExist
<1>5. Shown'
  BY <1>1, EmptyList DEF Shown
<1>6. PageOf(scope)' = PageOf(scope) /\ Matching(scope)' = Matching(scope)
  BY <1>1 DEF PageOf, Matching
<1>7. LastAsked'
  BY <1>1, <1>2, <1>6 DEF PanelInv, LastAsked
<1> QED
  BY <1>3, <1>4, <1>5, <1>7 DEF PanelInv

(* An answer arrives.  If it is the last asked for and does not pull the    *)
(* page back, its page exists, so it has rows unless there are none.       *)
LEMMA ListArrivesStep ==
  ASSUME PanelInv, NEW l \in loads, ListArrives(l)
  PROVE  PanelInv'
<1>1. /\ l.read /\ entries' = l.items /\ total' = l.total /\ shown' = l.n
      /\ behind' = (\E r \in DOMAIN l.items : l.items[r] # recorded[r])
      /\ AskIfChanged(PulledBack(l), loads \ {l})
      /\ UNCHANGED <<owner, recorded>>
      /\ UNCHANGED <<staged, timers, timer, edits, undone, marker, posts, sent, lost, twice>>
  BY DEF ListArrives, staging, posting
<1>2. /\ l \in Load /\ l.n \in 1..MaxActs /\ l.total \in 0..MaxRows /\ l.items \in Lists
      /\ scope \in Scope /\ asked \in 1..MaxActs /\ l.n <= asked
      /\ scope.page \in 1..MaxRows /\ l.scope \in Scope /\ l.scope.page \in 1..MaxRows
      /\ owner \in BoundedSeq(Session, MaxRows) /\ MaxRows \in Nat
  BY PanelBounds DEF PanelInv, Typed, LastAsked, Load, Act, Scope
<1>3. PulledBack(l) \in Scope /\ (Stranded(l) => PulledBack(l).page = NumberOfPages(l.total))
  <2>1. CASE Stranded(l)
    <3>1. NumberOfPages(l.total) \in 1..MaxRows
      BY <1>2, <2>1, Pages DEF Stranded
    <3>2. PulledBack(l) = [scope EXCEPT !.page = NumberOfPages(l.total)]
      BY <2>1 DEF PulledBack
    <3> QED
      BY <1>2, <3>1, <3>2 DEF Scope
  <2>2. CASE ~Stranded(l)
    BY <1>2, <2>2 DEF PulledBack
  <2> QED
    BY <2>1, <2>2
<1>4. PICK sc \in Scope : sc = PulledBack(l)
  BY <1>3
<1>5. /\ scope' = sc /\ loads' \subseteq Load /\ asked' \in Act /\ missed' \in BOOLEAN
      /\ asked' = asked \/ asked' = asked + 1
      /\ asked' = asked => scope' = scope /\ missed' = missed /\ loads' = loads \ {l}
      /\ \A x \in loads' : /\ x.n <= asked' /\ (x.n = asked' => x.scope = scope')
                           /\ x \in loads \ {l} \/ (~x.read /\ x.items = <<>> /\ x.n = asked')
      /\ ~missed' => \A x \in loads' : (x.n = asked' /\ x.read) =>
           DOMAIN x.items = PageOf(scope)' /\ x.total = Cardinality(Matching(scope)')
  BY <1>1, <1>4, AskEffect
<1>6. Typed'
  <2>1. shown' \in 0..asked' /\ {missed', behind', lost'} \subseteq BOOLEAN
    BY <1>1, <1>2, <1>5 DEF PanelInv, Typed, Act
  <2>2. DOMAIN entries' \subseteq 1..Len(owner')
    BY <1>1 DEF PanelInv, RowsExist
  <2> QED
    BY <1>1, <1>2, <1>5, <2>1, <2>2 DEF PanelInv, Typed
<1>7. Window' /\ Gestures' /\ Reviews' /\ Shown'
  BY <1>1 DEF PanelInv, Window, Gestures, Reviews, Shown
<1>8. RowsExist'
  BY <1>1, <1>5, EmptyList DEF PanelInv, RowsExist
<1>9. LastAsked'
  <2>1. ASSUME ~missed', shown' = asked'
        PROVE  /\ DOMAIN entries' = PageOf(scope)'
               /\ Matching(scope)' # {} => entries' # <<>>
    <3>1. asked' = asked /\ l.n = asked
      BY <1>1, <1>2, <1>5, <2>1
    <3>2. /\ scope' = scope /\ PulledBack(l) = scope /\ ~missed
          /\ PageOf(scope)' = PageOf(scope) /\ Matching(scope)' = Matching(scope)
      BY <1>1, <1>4, <1>5, <2>1, <3>1 DEF PageOf, Matching
    <3>3. /\ DOMAIN l.items = PageOf(scope) /\ l.total = Cardinality(Matching(scope))
          /\ l.scope = scope
      BY <1>1, <3>1, <3>2 DEF PanelInv, LastAsked
    <3>4. ASSUME Matching(scope) # {}
          PROVE  l.items # <<>>
      <4>1. l.total # 0
        BY <1>2, <3>3, <3>4, MatchingFacts
      <4>2. (scope.page - 1) * PAGE_SIZE \in Nat
        BY <1>2, FirstOfPage
      <4>3. l.items = <<>> => (scope.page - 1) * PAGE_SIZE < l.total
        <5>1. CASE Stranded(l)
          <6>1. l.total \in Nat /\ l.total > 0
            BY <1>2, <4>1
          <6>2. (NumberOfPages(l.total) - 1) * PAGE_SIZE < l.total
            BY <6>1, Pages
          <6>3. scope.page = NumberOfPages(l.total)
            BY <1>3, <3>2, <5>1
          <6> QED
            BY <6>2, <6>3, Zenon
        <5>2. CASE ~Stranded(l)
          BY <1>2, <3>3, <4>1, <4>2, <5>2 DEF Stranded
        <5> QED
          BY <5>1, <5>2
      <4>4. (scope.page - 1) * PAGE_SIZE < l.total => PageOf(scope) # {}
        BY <1>2, <3>3, MatchingFacts
      <4> QED
        BY <1>2, <3>3, <4>3, <4>4, EmptyList
    <3> QED
      BY <1>1, <3>2, <3>3, <3>4
  <2> QED
    BY <1>5, <2>1 DEF LastAsked
<1> QED
  BY <1>6, <1>7, <1>8, <1>9 DEF PanelInv

(* A row is written at the end, and has no verdict.                        *)
LEMMA WriteEffect ==
  ASSUME PanelInv, NEW s \in Session, Write(s)
  PROVE  /\ owner' \in BoundedSeq(Session, MaxRows) /\ Len(owner') = Len(owner) + 1
         /\ recorded' \in [1..Len(owner') -> Verdict \cup {none}]
         /\ 1..Len(owner) \subseteq 1..Len(owner')
         /\ \A r \in 1..Len(owner) : recorded'[r] = recorded[r]
<1>1. /\ owner \in Seq(Session) /\ Len(owner) \in 0..MaxRows /\ Len(owner) < MaxRows
      /\ recorded \in [1..Len(owner) -> Verdict \cup {none}]
      /\ owner' = Append(owner, s) /\ recorded' = Append(recorded, none)
  BY OwnerFacts DEF PanelInv, Typed, Write
<1>2. recorded \in Seq(Verdict \cup {none}) /\ Len(recorded) = Len(owner)
  BY <1>1
<1>3. /\ owner' \in [1..(Len(owner) + 1) -> Session] /\ Len(owner') = Len(owner) + 1
      /\ Len(owner) + 1 \in 0..MaxRows
  <2>1. Len(owner) + 1 \in 0..MaxRows
    BY <1>1, PanelBounds
  <2> QED
    BY <1>1, <2>1, AppendedFunction
<1>4. owner' \in BoundedSeq(Session, MaxRows)
  BY <1>3 DEF BoundedSeq, SeqOf
<1>5. /\ recorded' \in [1..(Len(owner) + 1) -> Verdict \cup {none}]
      /\ \A r \in 1..Len(owner) : recorded'[r] = recorded[r]
  <2>1. none \in Verdict \cup {none}
    OBVIOUS
  <2>2. /\ Append(recorded, none) \in [1..(Len(recorded) + 1) -> Verdict \cup {none}]
        /\ \A r \in 1..Len(recorded) : Append(recorded, none)[r] = recorded[r]
    BY <1>2, <2>1, AppendedFunction
  <2> QED
    BY <1>1, <1>2, <2>2
<1>6. 1..Len(owner) \subseteq 1..Len(owner')
  BY <1>1, <1>3
<1> QED
  BY <1>3, <1>4, <1>5, <1>6

(* A run writes a row: either the panel asks again, or it misses it.       *)
LEMMA RunRowStep ==
  ASSUME PanelInv, NEW s \in Session, RunCompletes(s) \/ ClarificationAnswered(s)
  PROVE  PanelInv'
<1>1. /\ owner' \in BoundedSeq(Session, MaxRows)
      /\ recorded' \in [1..Len(owner') -> Verdict \cup {none}]
      /\ 1..Len(owner) \subseteq 1..Len(owner')
      /\ \A r \in 1..Len(owner) : recorded'[r] = recorded[r]
  BY WriteEffect DEF RunCompletes, ClarificationAnswered
<1>2. /\ UNCHANGED <<entries, total, shown, behind>>
      /\ UNCHANGED <<staged, timers, timer, edits, undone, marker, posts, sent, lost, twice>>
  BY DEF RunCompletes, ClarificationAnswered, staging, posting
<1>3. /\ asked \in 1..MaxActs /\ edits \in 0..MaxActs /\ shown \in 0..asked /\ loads \subseteq Load
      /\ \A l \in loads : l.n <= asked /\ l.n \in Nat
      /\ scope \in Scope
  BY DEF PanelInv, Typed, LastAsked, Load, Act
<1>4. /\ scope' \in Scope /\ loads' \subseteq Load /\ asked' \in Act /\ missed' \in BOOLEAN
      /\ shown' \in 0..asked'
      /\ \A l \in loads' : l \in loads \/ l.items = <<>>
      /\ LastAsked'
  <2>1. CASE RunCompletes(s)
    <3> DEFINE q == Request(asked', scope')
    <3>1. /\ scope' = [scope EXCEPT !.session = {s}] /\ asked' = asked + 1 /\ missed' = FALSE
          /\ loads' = loads \cup {q} /\ asked + edits < MaxActs
      BY <2>1 DEF RunCompletes
    <3>2. scope' \in Scope
      BY <1>3, <3>1 DEF Scope
    <3>3. asked' \in Act /\ shown' \in 0..asked' /\ shown' # asked'
      BY <1>2, <1>3, <3>1, PanelBounds DEF Act
    <3>4. q \in Load /\ q.n = asked' /\ q.scope = scope' /\ ~q.read /\ q.items = <<>>
      BY <3>2, <3>3, EmptyList, PanelBounds DEF Request, Load
    <3> HIDE DEF q
    <3>5. \A l \in loads : l.n <= asked' /\ l.n # asked'
      BY <1>3, <3>1
    <3>6. LastAsked'
      BY <3>1, <3>3, <3>4, <3>5 DEF LastAsked, Act
    <3> QED
      BY <1>3, <3>1, <3>2, <3>3, <3>4, <3>6
  <2>2. CASE ClarificationAnswered(s)
    <3>1. missed' = TRUE /\ UNCHANGED <<scope, loads, asked, shown>>
      BY <2>2 DEF ClarificationAnswered
    <3>2. LastAsked'
      BY <3>1 DEF PanelInv, LastAsked
    <3> QED
      BY <1>3, <3>1, <3>2 DEF Act
  <2> QED
    BY <2>1, <2>2
<1>5. Typed'
  <2>1. {missed', behind', lost'} \subseteq BOOLEAN /\ DOMAIN entries' \subseteq 1..Len(owner')
    BY <1>1, <1>2, <1>4 DEF PanelInv, Typed
  <2> QED
    BY <1>1, <1>2, <1>4, <2>1 DEF PanelInv, Typed
<1>6. Window' /\ Gestures'
  BY <1>2 DEF PanelInv, Window, Gestures
<1>7. RowsExist'
  <2>1. /\ \A v \in staged : v.row \in 1..Len(owner')
        /\ \A p \in posts : p.row \in 1..Len(owner')
        /\ \A l \in loads : DOMAIN l.items \subseteq 1..Len(owner')
    BY <1>1 DEF PanelInv, RowsExist
  <2> QED
    BY <1>2, <1>4, <2>1, EmptyList DEF RowsExist
<1>8. Reviews' /\ Shown'
  BY <1>1, <1>2 DEF PanelInv, Typed, RowsExist, Reviews, Shown
<1> QED
  BY <1>4, <1>5, <1>6, <1>7, <1>8 DEF PanelInv

-----------------------------------------------------------------------------
(* The verdicts. *)

(* What the list invariant says does not depend on the verdicts.           *)
LEMMA ListsKept ==
  ASSUME PanelInv, UNCHANGED <<owner, scope, loads, asked, shown, missed>>,
         entries' \in Lists, DOMAIN entries' = DOMAIN entries
  PROVE  LastAsked'
<1>1. entries' # <<>> <=> entries # <<>>
  BY EmptyList DEF PanelInv, Typed
<1>2. PageOf(scope)' = PageOf(scope) /\ Matching(scope)' = Matching(scope)
  BY DEF PageOf, Matching
<1> QED
  BY <1>1, <1>2 DEF PanelInv, LastAsked

\* What is staged, if anything, is committed.
CommitStaged ==
  IF staged = {} THEN UNCHANGED <<marker, posts, sent, entries>> ELSE \A v \in staged : Commit(v)

(* A commit sends the gesture once, and posts its verdict beside those on   *)
(* their way, which are of other rows.                                     *)
LEMMA CommitEffect ==
  ASSUME PanelInv, CommitStaged
  PROVE  /\ marker' \in Row \cup {NoRow} /\ posts' \subseteq Post /\ sent' \in Seq(Act)
         /\ entries' = entries /\ posts \subseteq posts' /\ IsInjective(sent')
         /\ \A g \in ToSet(sent') : g \in ToSet(sent) \/ \E v \in staged : g = v.gesture
         /\ \A p \in posts' : p \in posts \/ (~p.recorded /\ \E v \in staged : p.row = v.row)
         /\ \A p, q \in posts' : p.row = q.row => p = q \/ p.row \in twice
<1>1. /\ Typed /\ staged \subseteq Staged /\ posts \subseteq Post /\ sent \in Seq(Act)
      /\ Gestures /\ Reviews /\ \A v, w \in staged : v = w
  BY DEF PanelInv, Typed, Window
<1>2. CASE staged = {}
  BY <1>1, <1>2 DEF CommitStaged, Typed, Gestures, Reviews
<1>3. CASE staged # {}
  <2>1. PICK v \in staged : Commit(v)
    BY <1>3 DEF CommitStaged
  <2> DEFINE p == [gesture |-> v.gesture, row |-> v.row, verdict |-> v.verdict,
                   recorded |-> FALSE, waiting |-> TRUE]
  <2>2. /\ posts' = posts \cup {p} /\ sent' = Append(sent, v.gesture) /\ marker' = v.row
        /\ entries' = entries
    BY <2>1 DEF Commit
  <2>3. v \in Staged /\ v.gesture \in Act /\ v.row \in Row
    BY <1>1 DEF Staged
  <2>4. p \in Post /\ p.row = v.row /\ ~p.recorded
    BY <2>3 DEF Post, Staged
  <2> HIDE DEF p
  <2>5. /\ sent' \in Seq(Act) /\ ToSet(sent') = ToSet(sent) \cup {v.gesture}
        /\ (IsInjective(sent) /\ v.gesture \notin ToSet(sent)) => IsInjective(sent')
    BY <1>1, <2>2, <2>3, AppendFacts
  <2>6. IsInjective(sent) /\ v.gesture \notin ToSet(sent)
    BY <1>1 DEF Gestures
  <2>7. \A q \in posts : q.row = p.row => p.row \in twice
    BY <1>1, <2>4 DEF Reviews
  <2>8. \A x, q \in posts' : x.row = q.row => x = q \/ x.row \in twice
    BY <1>1, <2>2, <2>7 DEF Reviews
  <2> QED
    BY <1>1, <2>2, <2>3, <2>4, <2>5, <2>6, <2>8
<1> QED
  BY <1>2, <1>3

(* The window's end commits what is staged.                                *)
LEMMA TimerStep ==
  ASSUME PanelInv, NEW t \in timers, TimerFires(t)
  PROVE  PanelInv'
<1>1. /\ timers' = timers \ {t} /\ timer' = NoTimer /\ staged' = {} /\ CommitStaged
      /\ UNCHANGED <<edits, undone, owner, recorded, scope, total, loads, asked, shown, missed,
                     behind, lost, twice>>
  BY DEF TimerFires, CommitStaged
<1>2. /\ marker' \in Row \cup {NoRow} /\ posts' \subseteq Post /\ sent' \in Seq(Act)
      /\ entries' = entries /\ posts \subseteq posts' /\ IsInjective(sent')
      /\ \A g \in ToSet(sent') : g \in ToSet(sent) \/ \E v \in staged : g = v.gesture
      /\ \A p \in posts' : p \in posts \/ (~p.recorded /\ \E v \in staged : p.row = v.row)
      /\ \A p, q \in posts' : p.row = q.row => p = q \/ p.row \in twice
  BY <1>1, CommitEffect
<1>3. timers' = {}
  BY <1>1 DEF PanelInv, Window
<1>4. Typed'
  BY <1>1, <1>2, <1>3 DEF PanelInv, Typed
<1>5. Window'
  BY <1>1, <1>3 DEF Window
<1>6. Gestures'
  BY <1>1, <1>2 DEF PanelInv, Gestures
<1>7. RowsExist'
  BY <1>1, <1>2 DEF PanelInv, RowsExist
<1>8. Reviews' /\ Shown'
  BY <1>1, <1>2 DEF PanelInv, Reviews, Shown
<1>9. LastAsked'
  BY <1>1, <1>2, ListsKept DEF PanelInv, Typed
<1> QED
  BY <1>4, <1>5, <1>6, <1>7, <1>8, <1>9 DEF PanelInv

(* Staging a verdict commits the one staged on another row, and opens a     *)
(* window of its own.                                                      *)
LEMMA StageStep ==
  ASSUME PanelInv, NEW r \in DOMAIN entries, NEW verdict \in Verdict, Stage(r, verdict)
  PROVE  PanelInv'
<1> DEFINE w == [row |-> r, verdict |-> verdict, gesture |-> edits + 1]
<1>1. /\ Offered(r) /\ asked + edits < MaxActs /\ edits' = edits + 1 /\ timer' = edits'
      /\ timers' = ClearedTimers \cup {edits'} /\ staged' = {w} /\ CommitStaged
      /\ twice' = (IF \E p \in posts : p.row = r THEN twice \cup {r} ELSE twice)
      /\ UNCHANGED <<owner, recorded, scope, total, loads, asked, shown, missed, behind, undone,
                     lost>>
  BY DEF Stage, Open, CommitStaged
<1>2. /\ marker' \in Row \cup {NoRow} /\ posts' \subseteq Post /\ sent' \in Seq(Act)
      /\ entries' = entries /\ posts \subseteq posts' /\ IsInjective(sent')
      /\ \A g \in ToSet(sent') : g \in ToSet(sent) \/ \E v \in staged : g = v.gesture
      /\ \A p \in posts' : p \in posts \/ (~p.recorded /\ \E v \in staged : p.row = v.row)
      /\ \A p, q \in posts' : p.row = q.row => p = q \/ p.row \in twice
  BY <1>1, CommitEffect
<1>3. /\ edits \in 0..MaxActs /\ asked \in 1..MaxActs /\ r \in 1..Len(owner) /\ r \in Row
      /\ Gestures /\ Window /\ undone \subseteq Act
  BY OwnerFacts DEF PanelInv, Typed, Act
<1>4. edits' \in Act /\ edits' \in 0..MaxActs
  BY <1>1, <1>3, PanelBounds DEF Act
<1>5. w \in Staged /\ w.row = r /\ w.gesture = edits'
  BY <1>1, <1>3, <1>4 DEF Staged
<1> HIDE DEF w
<1>6. timers' = {edits'}
  BY <1>1, <1>3 DEF Window, ClearedTimers
<1>7. twice' \subseteq Row /\ twice \subseteq twice' /\ (\A p \in posts : p.row = r => r \in twice')
  BY <1>1, <1>3 DEF PanelInv, Typed
<1>8. Typed'
  BY <1>1, <1>2, <1>4, <1>5, <1>6, <1>7 DEF PanelInv, Typed
<1>9. Window'
  BY <1>1, <1>6 DEF Window
<1>10. Gestures'
  <2>1. \A g \in ToSet(sent') \cup undone : g \in Act /\ g <= edits
    <3>1. ToSet(sent') \subseteq Act
      BY <1>2, ToSetTyped
    <3> QED
      BY <1>2, <1>3, <3>1 DEF Gestures
  <2>2. \A g \in ToSet(sent') \cup undone : g <= edits' /\ g # edits'
    BY <1>1, <1>3, <2>1 DEF Act
  <2>3. ToSet(sent') \cap undone' = {}
    BY <1>1, <1>2, <1>3 DEF Gestures
  <2> QED
    BY <1>1, <1>2, <1>4, <1>5, <2>2, <2>3 DEF Gestures, Act
<1>11. RowsExist'
  BY <1>1, <1>2, <1>3, <1>5 DEF PanelInv, RowsExist
<1>12. Reviews'
  <2>1. \A v \in staged : v.row # r
    BY <1>1 DEF Offered
  <2>2. \A p \in posts' : p.row = r => r \in twice'
    BY <1>2, <1>7, <2>1
  <2> QED
    BY <1>1, <1>2, <1>5, <1>7, <2>2 DEF PanelInv, Reviews
<1>13. Shown'
  BY <1>1, <1>2, <1>7 DEF PanelInv, Shown
<1>14. LastAsked'
  BY <1>1, <1>2, ListsKept DEF PanelInv, Typed
<1> QED
  BY <1>8, <1>9, <1>10, <1>11, <1>12, <1>13, <1>14 DEF PanelInv

(* Typing a note restarts the window; undoing takes the verdict back.      *)
LEMMA NoteStep ==
  ASSUME PanelInv, TypeNote \/ Undo
  PROVE  PanelInv'
<1>1. PICK v \in staged :
        \/ /\ asked + edits < MaxActs /\ edits' = edits + 1 /\ timer' = edits'
           /\ timers' = ClearedTimers \cup {edits'} /\ staged' = {v} /\ undone' = undone
        \/ /\ undone' = undone \cup {v.gesture} /\ edits' = edits
           /\ staged' = {} /\ timers' = ClearedTimers /\ timer' = NoTimer
  BY DEF TypeNote, Undo, Open
<1>2. /\ UNCHANGED <<owner, recorded, scope, entries, total, loads, asked, shown, missed, behind>>
      /\ UNCHANGED <<marker, posts, sent, lost, twice>>
  BY DEF TypeNote, Undo, listing, posting
<1>3. /\ edits \in 0..MaxActs /\ asked \in 1..MaxActs /\ Gestures /\ Window
      /\ v \in Staged /\ staged = {v} /\ v.gesture \in Act /\ v.gesture <= edits
      /\ undone \subseteq Act /\ sent \in Seq(Act)
  BY DEF PanelInv, Typed, Act, Staged, Window, Gestures
<1>4. ClearedTimers = {}
  BY <1>3 DEF Window, ClearedTimers
<1>5. edits' \in 0..MaxActs /\ edits' >= edits /\ (edits' = edits \/ edits' \in Act)
  BY <1>1, <1>3, PanelBounds DEF Act
<1>6. timers' \subseteq Act /\ timer' \in Act \cup {NoTimer} /\ undone' \subseteq Act
  <2>1. edits' = edits + 1 => edits' \in Act
    BY <1>3, <1>5 DEF Act
  <2> QED
    BY <1>1, <1>3, <1>4, <2>1
<1>7. Typed'
  BY <1>1, <1>2, <1>3, <1>5, <1>6 DEF PanelInv, Typed
<1>8. Window'
  BY <1>1, <1>4 DEF Window
<1>9. Gestures'
  <2>1. \A g \in ToSet(sent) \cup undone : g \in Act /\ g <= edits
    <3>1. ToSet(sent) \subseteq Act
      BY <1>3, ToSetTyped
    <3> QED
      BY <1>3, <3>1 DEF Gestures
  <2>2. \A g \in ToSet(sent) \cup undone' : g <= edits'
    BY <1>1, <1>3, <1>5, <2>1 DEF Act
  <2>3. \A x \in staged' : x = v /\ undone' = undone /\ x.gesture <= edits'
    BY <1>1, <1>3, <1>5 DEF Act
  <2>4. v.gesture \notin ToSet(sent) /\ v.gesture \notin undone
    BY <1>3 DEF Gestures
  <2>5. IsInjective(sent') /\ ToSet(sent') = ToSet(sent) /\ ToSet(sent) \cap undone' = {}
    BY <1>1, <1>2, <1>3, <2>4 DEF Gestures
  <2> QED
    BY <2>2, <2>3, <2>4, <2>5 DEF Gestures
<1>10. RowsExist' /\ Reviews' /\ Shown'
  BY <1>1, <1>2, <1>3 DEF PanelInv, RowsExist, Reviews, Shown
<1>11. LastAsked'
  BY <1>2, ListsKept DEF PanelInv, Typed
<1> QED
  BY <1>7, <1>8, <1>9, <1>10, <1>11 DEF PanelInv

(* The server records a verdict: the row has it until the answer is in.    *)
LEMMA RecordsStep ==
  ASSUME PanelInv, NEW p \in posts, ServerRecords(p)
  PROVE  PanelInv'
<1> DEFINE q == [p EXCEPT !.recorded = TRUE]
<1>1. /\ ~p.recorded /\ recorded' = [recorded EXCEPT ![p.row] = p.verdict]
      /\ posts' = (posts \ {p}) \cup (IF p.waiting THEN {q} ELSE {})
      /\ lost' = (lost \/ ~p.waiting)
      /\ UNCHANGED <<owner, scope, entries, total, loads, asked, shown, missed, behind>>
      /\ UNCHANGED <<staged, timers, timer, edits, undone, marker, sent, twice>>
  BY DEF ServerRecords, listing, staging
<1>2. /\ p \in Post /\ p.row \in 1..Len(owner) /\ p.verdict \in Verdict
      /\ recorded \in [1..Len(owner) -> Verdict \cup {none}]
      /\ entries \in Lists /\ DOMAIN entries \subseteq 1..Len(owner)
  BY DEF PanelInv, Typed, RowsExist, Post
<1>3. /\ q \in Post /\ q.row = p.row /\ q.verdict = p.verdict /\ q.recorded
      /\ q.waiting = p.waiting
  BY <1>2 DEF Post
<1> HIDE DEF q
<1>4. /\ recorded' \in [1..Len(owner) -> Verdict \cup {none}] /\ recorded'[p.row] = p.verdict
      /\ \A r \in 1..Len(owner) : r # p.row => recorded'[r] = recorded[r]
  BY <1>1, <1>2
<1>5. \A x \in posts' : (x \in posts /\ x # p) \/ (x = q /\ p.waiting)
  BY <1>1
<1>6. Typed'
  <2>1. posts' \subseteq Post /\ lost' \in BOOLEAN
    BY <1>1, <1>3 DEF PanelInv, Typed
  <2> QED
    BY <1>1, <1>4, <2>1 DEF PanelInv, Typed
<1>7. Window' /\ Gestures'
  BY <1>1 DEF PanelInv, Window, Gestures
<1>8. RowsExist'
  BY <1>1, <1>2, <1>3, <1>5 DEF PanelInv, RowsExist
<1>9. Reviews'
  <2>1. \A x, y \in posts' : x.row = y.row => x = y \/ x.row \in twice'
    BY <1>1, <1>3, <1>5 DEF PanelInv, Reviews
  <2>2. \A v \in staged', x \in posts' : x.row = v.row => v.row \in twice'
    BY <1>1, <1>3, <1>5 DEF PanelInv, Reviews
  <2>3. ASSUME NEW x \in posts', x.recorded
        PROVE  x.waiting /\ (recorded'[x.row] = x.verdict \/ x.row \in twice')
    <3>1. CASE x = q /\ p.waiting
      BY <1>3, <1>4, <3>1
    <3>2. CASE x \in posts /\ x # p
      <4>1. x.row = p.row => x.row \in twice
        BY <3>2 DEF PanelInv, Reviews
      <4>2. x.waiting /\ (recorded[x.row] = x.verdict \/ x.row \in twice) /\ x.row \in 1..Len(owner)
        BY <2>3, <3>2 DEF PanelInv, Reviews, RowsExist
      <4> QED
        BY <1>1, <1>4, <4>1, <4>2
    <3> QED
      BY <1>5, <3>1, <3>2
  <2> QED
    BY <2>1, <2>2, <2>3 DEF Reviews
<1>10. Shown'
  <2>1. ASSUME ~behind', ~lost', twice' = {}, NEW r \in DOMAIN entries'
        PROVE  entries'[r] = recorded'[r] \/ \E x \in posts' : x.row = r /\ x.recorded
    <3>1. ~behind /\ ~lost /\ twice = {} /\ p.waiting /\ q \in posts' /\ r \in DOMAIN entries
      BY <1>1, <2>1
    <3>2. CASE r = p.row
      BY <1>3, <3>1, <3>2
    <3>3. CASE r # p.row
      <4>1. recorded'[r] = recorded[r] /\ entries'[r] = entries[r]
        BY <1>1, <1>2, <1>4, <3>1, <3>3
      <4>2. entries[r] = recorded[r] \/ \E x \in posts : x.row = r /\ x.recorded
        BY <3>1 DEF PanelInv, Shown
      <4> QED
        BY <1>1, <4>1, <4>2
    <3> QED
      BY <3>2, <3>3
  <2> QED
    BY <2>1 DEF Shown
<1>11. LastAsked'
  BY <1>1, <1>2, ListsKept
<1> QED
  BY <1>6, <1>7, <1>8, <1>9, <1>10, <1>11 DEF PanelInv

(* A post ends with an answer: a success flips the row to what the server   *)
(* has, a refusal leaves it.                                               *)
LEMMA AnswerStep ==
  ASSUME PanelInv, NEW p \in posts, PostSucceeds(p) \/ PostRefused(p) \/ PostLost(p)
  PROVE  PanelInv'
<1>1. /\ p.waiting /\ marker' = NoRow
      /\ UNCHANGED <<owner, recorded, scope, total, loads, asked, shown, missed, behind>>
      /\ UNCHANGED <<staged, timers, timer, edits, undone, sent, twice>>
  BY DEF PostSucceeds, PostRefused, PostLost, EndOfWait, listing, staging
<1>2. p \in Post /\ p.row \in 1..Len(owner) /\ p.verdict \in Verdict /\ posts \subseteq Post
  BY DEF PanelInv, Typed, RowsExist, Post
<1>3. /\ entries \in Lists /\ DOMAIN entries \in SUBSET Row /\ lost \in BOOLEAN
      /\ entries \in [DOMAIN entries -> Verdict \cup {none}]
  BY ListsMade DEF PanelInv, Typed
<1> DEFINE gone == [p EXCEPT !.waiting = FALSE]
<1>4. /\ gone \in Post /\ gone.row = p.row /\ gone.recorded = p.recorded
  BY <1>2 DEF Post
<1>5. /\ \A x \in posts' : (x \in posts /\ x # p) \/ (x = gone /\ ~p.recorded)
      /\ posts \ {p} \subseteq posts' /\ lost' \in BOOLEAN /\ (lost => lost')
  BY <1>3 DEF PostSucceeds, PostRefused, PostLost, EndOfWait
<1> HIDE DEF gone
<1>6. /\ entries' \in Lists /\ DOMAIN entries' = DOMAIN entries
      /\ \A r \in DOMAIN entries : r # p.row => entries'[r] = entries[r]
  <2>1. CASE PostSucceeds(p)
    <3>1. entries' = [r \in DOMAIN entries |-> IF r = p.row THEN p.verdict ELSE entries[r]]
      BY <2>1 DEF PostSucceeds
    <3>2. entries' \in [DOMAIN entries -> Verdict \cup {none}]
      BY <1>2, <1>3, <3>1
    <3> QED
      BY <1>3, <3>1, <3>2, ListsMade
  <2>2. CASE PostRefused(p) \/ PostLost(p)
    BY <1>3, <2>2 DEF PostRefused, PostLost, listing
  <2> QED
    BY <2>1, <2>2
<1>7. Typed'
  <2>1. posts' \subseteq Post
    BY <1>2, <1>4, <1>5
  <2> QED
    BY <1>1, <1>5, <1>6, <2>1 DEF PanelInv, Typed
<1>8. Window' /\ Gestures'
  BY <1>1 DEF PanelInv, Window, Gestures
<1>9. RowsExist'
  BY <1>1, <1>2, <1>4, <1>5 DEF PanelInv, RowsExist
<1>10. Reviews'
  BY <1>1, <1>4, <1>5 DEF PanelInv, Reviews
<1>11. Shown'
  <2>1. ASSUME ~behind', ~lost', twice' = {}, NEW r \in DOMAIN entries'
        PROVE  entries'[r] = recorded'[r] \/ \E x \in posts' : x.row = r /\ x.recorded
    <3>1. /\ ~behind /\ ~lost /\ twice = {} /\ r \in DOMAIN entries /\ recorded' = recorded
          /\ entries[r] = recorded[r] \/ \E x \in posts : x.row = r /\ x.recorded
      BY <1>1, <1>3, <1>5, <1>6, <2>1 DEF PanelInv, Shown
    <3>2. CASE PostSucceeds(p) /\ r = p.row
      <4>1. entries'[r] = p.verdict /\ p.recorded
        BY <3>1, <3>2 DEF PostSucceeds
      <4>2. recorded[p.row] = p.verdict
        BY <3>1, <4>1 DEF PanelInv, Reviews
      <4> QED
        BY <3>1, <3>2, <4>1, <4>2
    <3>3. CASE PostSucceeds(p) /\ r # p.row
      BY <1>5, <1>6, <3>1, <3>3
    <3>4. CASE PostRefused(p) \/ PostLost(p)
      <4>1. ~p.recorded /\ entries' = entries
        BY <2>1, <3>4 DEF PostRefused, PostLost, listing
      <4> QED
        BY <1>5, <3>1, <4>1
    <3> QED
      BY <3>2, <3>3, <3>4
  <2> QED
    BY <2>1 DEF Shown
<1>12. LastAsked'
  BY <1>1, <1>6, ListsKept
<1> QED
  BY <1>7, <1>8, <1>9, <1>10, <1>11, <1>12 DEF PanelInv

-----------------------------------------------------------------------------
(* The panel is mounted, and asks for the whole record.                    *)
LEMMA PanelInit == Init => PanelInv
<1> SUFFICES ASSUME Init PROVE PanelInv
  OBVIOUS
<1>1. /\ owner \in [1..(MaxRows - 1) -> Session] /\ MaxRows - 1 \in 0..MaxRows
      /\ MaxRows \in Nat /\ MaxActs \in Nat /\ 1 \in Act /\ 1 \in 1..MaxRows
  BY PanelBounds DEF Init, Act
<1>2. owner \in BoundedSeq(Session, MaxRows) /\ Len(owner) = MaxRows - 1
  BY <1>1 DEF BoundedSeq, SeqOf
<1>3. recorded \in [1..Len(owner) -> Verdict \cup {none}]
  BY DEF Init
<1>4. scope \in Scope
  BY <1>1 DEF Init, Scope
<1>5. PICK q : q = Request(1, scope)
  OBVIOUS
<1>6. q \in Load /\ q.n = 1 /\ q.scope = scope /\ ~q.read /\ q.items = <<>>
  BY <1>1, <1>4, <1>5, EmptyList DEF Request, Load
<1>7. /\ loads = {q} /\ asked = 1 /\ shown = 0 /\ entries = <<>> /\ total = 0
      /\ staged = {} /\ timers = {} /\ timer = NoTimer /\ edits = 0 /\ marker = NoRow
      /\ posts = {} /\ sent = <<>> /\ undone = {} /\ twice = {}
      /\ missed = FALSE /\ behind = FALSE /\ lost = FALSE
  BY <1>5 DEF Init
<1>8. sent \in Seq(Act) /\ DOMAIN sent = {}
  BY <1>7
<1>9. Typed
  <2>1. shown \in 0..asked /\ edits \in 0..MaxActs /\ total \in 0..MaxRows
    BY <1>1, <1>7
  <2>2. {missed, behind, lost} \subseteq BOOLEAN
    BY <1>7
  <2> QED
    BY <1>1, <1>2, <1>3, <1>4, <1>6, <1>7, <1>8, <2>1, <2>2, EmptyList DEF Typed
<1>10. Window /\ RowsExist /\ Reviews /\ Shown
  BY <1>6, <1>7, EmptyList DEF Window, RowsExist, Reviews, Shown
<1>11. Gestures
  BY <1>7, <1>8 DEF Gestures, ToSet, IsInjective
<1>12. LastAsked
  BY <1>6, <1>7 DEF LastAsked
<1> QED
  BY <1>9, <1>10, <1>11, <1>12 DEF PanelInv

(* Every step keeps the invariant.                                         *)
LEMMA PanelNext == PanelInv /\ [Next]_vars => PanelInv'
<1> SUFFICES ASSUME PanelInv, [Next]_vars PROVE PanelInv'
  OBVIOUS
<1>1. CASE User
  <2>1. CASE Browse \/ NewConversation
    BY <2>1, ScopeStep
  <2>2. CASE TypeNote \/ Undo
    BY <2>2, NoteStep
  <2>3. CASE \E s \in Session : RunCompletes(s) \/ ClarificationAnswered(s)
    BY <2>3, RunRowStep
  <2>4. CASE \E r \in DOMAIN entries, verdict \in Verdict : Stage(r, verdict)
    BY <2>4, StageStep
  <2> QED
    BY <1>1, <2>1, <2>2, <2>3, <2>4 DEF User
<1>2. CASE WindowEnds
  BY <1>2, TimerStep DEF WindowEnds
<1>3. CASE Network
  BY <1>3, ServerListsStep, ListArrivesStep, ListFailsStep, RecordsStep, AnswerStep DEF Network
<1>4. CASE UNCHANGED vars
  <2>1. /\ UNCHANGED <<owner, recorded, scope, entries, total, loads, asked, shown, missed, behind>>
        /\ UNCHANGED <<staged, timers, timer, edits, undone, marker, posts, sent, lost, twice>>
    BY <1>4 DEF vars, listing, staging, posting
  <2>2. Typed' /\ Window' /\ Gestures' /\ RowsExist' /\ Reviews' /\ Shown'
    BY <2>1 DEF PanelInv, Typed, Window, Gestures, RowsExist, Reviews, Shown
  <2>3. LastAsked'
    BY <2>1, ListsKept DEF PanelInv, Typed
  <2> QED
    BY <2>2, <2>3 DEF PanelInv
<1> QED
  BY <1>1, <1>2, <1>3, <1>4 DEF Next

(* The inductive invariant types the state.                                *)
LEMMA PanelInvTypes == PanelInv => TypeOK
<1> SUFFICES ASSUME PanelInv PROVE TypeOK
  OBVIOUS
<1>1. CASE staged = {}
  <2>1. Cardinality({}) = 0
    BY FS_EmptySet
  <2>2. Cardinality(staged) = 0
    BY <1>1, <2>1, Zenon
  <2> QED
    BY <2>2 DEF PanelInv, Typed, TypeOK
<1>2. CASE staged # {}
  <2>1. PICK v \in staged : staged = {v}
    BY <1>2 DEF PanelInv, Window
  <2>2. Cardinality({v}) = 1
    BY FS_Singleton
  <2>3. Cardinality(staged) = 1
    BY <2>1, <2>2, Zenon
  <2> QED
    BY <2>3 DEF PanelInv, Typed, TypeOK
<1> QED
  BY <1>1, <1>2

(* The rows, the panel and what is on its way keep their types, and        *)
(* PanelInv holds throughout.                                              *)
THEOREM PanelInvariant == Spec => [](TypeOK /\ PanelInv)
<1>1. Spec => []PanelInv
  BY PanelInit, PanelNext, PTL DEF Spec
<1> QED
  BY <1>1, PanelInvTypes, PTL

(* A verdict is posted at most once, never after its undo, and not by the  *)
(* window of another.                                                      *)
THEOREM VerdictsSentOnce == Spec => []SentOnce
<1>1. PanelInv => SentOnce
  BY DEF PanelInv, Window, Gestures, SentOnce, WindowIsOfStaged
<1> QED
  BY <1>1, PanelInvariant, PTL

(* When nothing is on its way the rows shown carry the server's verdicts.  *)
THEOREM VerdictsAgree == Spec => []SettledVerdictsAgree
<1>1. PanelInv => SettledVerdictsAgree
  BY DEF PanelInv, Shown, SettledVerdictsAgree
<1> QED
  BY <1>1, PanelInvariant, PTL

(* Once the last list asked for has arrived, the panel shows the rows of   *)
(* its scope, and shows some if there are any.                             *)
THEOREM ListIsOfScope == Spec => []SettledListIsOfScope
<1>1. PanelInv => SettledListIsOfScope
  BY DEF PanelInv, LastAsked, SettledListIsOfScope
<1> QED
  BY <1>1, PanelInvariant, PTL

=============================================================================
