------------------------------ MODULE HistoryPanel ------------------------------
(***************************************************************************)
(* The history panel of the page (web/components/HistoryPanel.tsx) and the *)
(* two endpoints it calls: GET /history and POST /history/{id}/feedback.   *)
(*                                                                         *)
(* A list request is sent whenever what it depends on changes, and none is *)
(* cancelled, so answers come in any order.  A verdict is staged, may be   *)
(* undone during a window, and is then posted.  A step is a gesture, a run *)
(* of the page, the window's end, or one half of a request: the server     *)
(* acts, then the answer arrives or is lost.                               *)
(***************************************************************************)
EXTENDS Integers, Sequences, FiniteSets, SequencesExt, FiniteSetsExt

CONSTANTS
  Session,    \* sessions the rows belong to
  PAGE_SIZE,  \* rows of a page
  MaxRows,    \* bound: rows of query_history
  MaxActs     \* bound: list requests, verdicts staged and notes typed

ASSUME PanelBounds ==
  /\ PAGE_SIZE \in Nat \ {0}
  /\ MaxRows \in Nat \ {0}
  /\ MaxActs \in Nat \ {0}

VARIABLES
  owner,     \* query_history, by id: the session of the row
  recorded,  \* feedback_verdict of each row
  scope,     \* sessionId, the `since' filter and the page
  entries,   \* the rows shown, with their verdicts
  total,     \* the matching rows, as the last list said
  loads,     \* list requests in flight
  asked,     \* list requests sent so far
  shown,     \* the list request that `entries' answers; 0: none, or it failed
  staged,    \* the staged verdict: {} or a singleton
  timers,    \* live windows, by the edit that opened each
  timer,     \* commitTimer.current
  edits,     \* edits made so far: each opens a window of its own
  marker,    \* committingId
  posts,     \* verdicts on their way
  sent, undone,  \* history: the gestures posted, and those taken back
  missed,    \* history: a row was recorded and the panel was not told
  behind,    \* history: a list answered with verdicts older than the server's
  lost,      \* history: the answer to a recorded verdict was lost
  twice      \* history: a row was reviewed while a verdict of it was on its way

listing == <<scope, entries, total, loads, asked, shown, missed, behind>>
staging == <<staged, timers, timer, edits, undone>>
posting == <<marker, posts, sent, lost, twice>>
vars == <<owner, recorded, listing, staging, posting>>

-----------------------------------------------------------------------------
Row == 1..MaxRows
Verdict == {"accept", "reject"}
none == "none"
NoRow == 0
NoTimer == 0
Everything == {}   \* the scope without a session

Act == 1..MaxActs
Scope == [session : {Everything} \cup {{s} : s \in Session}, since : {1, 2}, page : 1..MaxRows]
Staged == [row : Row, verdict : Verdict, gesture : Act]
Lists == UNION {[rows -> Verdict \cup {none}] : rows \in SUBSET Row}
Load == [n : Act, scope : Scope, read : BOOLEAN, items : Lists, total : 0..MaxRows]
Post == [gesture : Act, row : Row, verdict : Verdict, recorded : BOOLEAN, waiting : BOOLEAN]

TypeOK ==
  /\ owner \in BoundedSeq(Session, MaxRows)
  /\ recorded \in [1..Len(owner) -> Verdict \cup {none}]
  /\ scope \in Scope
  /\ entries \in Lists /\ DOMAIN entries \subseteq 1..Len(owner)
  /\ loads \subseteq Load
  /\ asked \in Act /\ shown \in 0..asked /\ total \in 0..MaxRows
  /\ staged \subseteq Staged /\ Cardinality(staged) <= 1
  /\ timers \subseteq Act /\ timer \in Act \cup {NoTimer} /\ edits \in 0..MaxActs
  /\ marker \in Row \cup {NoRow}
  /\ posts \subseteq Post
  /\ sent \in Seq(Act) /\ undone \subseteq Act
  /\ {missed, behind, lost} \subseteq BOOLEAN /\ twice \subseteq Row

Request(n, sc) == [n |-> n, scope |-> sc, read |-> FALSE, items |-> <<>>, total |-> 0]

\* The panel is mounted with the page, and asks for the whole record.
Init ==
  /\ owner \in [1..(MaxRows - 1) -> Session]
  /\ recorded = [r \in 1..Len(owner) |-> none]
  /\ scope = [session |-> Everything, since |-> 1, page |-> 1]
  /\ entries = <<>> /\ total = 0
  /\ loads = {Request(1, scope)} /\ asked = 1 /\ shown = 0
  /\ staged = {} /\ timers = {} /\ timer = NoTimer /\ edits = 0 /\ marker = NoRow
  /\ posts = {} /\ sent = <<>> /\ undone = {}
  /\ missed = FALSE /\ behind = FALSE /\ lost = FALSE /\ twice = {}

-----------------------------------------------------------------------------
(* The server's side of a list: newest first, a page of the matching rows.  *)

Matching(sc) ==
  {r \in 1..Len(owner) : r >= sc.since /\ (sc.session # Everything => owner[r] \in sc.session)}

NumberOfPages(n) == (n + PAGE_SIZE - 1) \div PAGE_SIZE

PageOf(sc) ==
  {r \in Matching(sc) : Cardinality({q \in Matching(sc) : q > r}) \div PAGE_SIZE = sc.page - 1}

\* What the panel's effect does when what the list depends on may have changed.
\* An effect that forgot the page is in its dependencies.
AskWithoutPage(sc, flying) ==
  /\ scope' = sc
  /\ IF [sc EXCEPT !.page = 1] = [scope EXCEPT !.page = 1]
     THEN loads' = flying /\ UNCHANGED <<asked, missed>>
     ELSE /\ asked + edits < MaxActs
          /\ asked' = asked + 1 /\ missed' = FALSE
          /\ loads' = flying \cup {Request(asked', sc)}

AskIfChanged(sc, flying) ==
  /\ scope' = sc
  /\ IF sc = scope
     THEN loads' = flying /\ UNCHANGED <<asked, missed>>
     ELSE /\ asked + edits < MaxActs
          /\ asked' = asked + 1 /\ missed' = FALSE
          /\ loads' = flying \cup {Request(asked', sc)}

ServerLists(l) ==
  /\ ~l.read
  /\ loads' = (loads \ {l})
                \cup {[l EXCEPT !.read = TRUE, !.total = Cardinality(Matching(l.scope)),
                                !.items = [r \in PageOf(l.scope) |-> recorded[r]]]}
  /\ UNCHANGED <<owner, recorded, scope, entries, total, asked, shown, missed, behind, staging, posting>>

\* A page past the last one is pulled back.
Stranded(l) == l.items = <<>> /\ l.total > 0 /\ (l.scope.page - 1) * PAGE_SIZE >= l.total
PulledBack(l) == IF Stranded(l) THEN [scope EXCEPT !.page = NumberOfPages(l.total)] ELSE scope

ListArrives(l) ==
  /\ l.read
  /\ entries' = l.items /\ total' = l.total /\ shown' = l.n
  /\ behind' = (\E r \in DOMAIN l.items : l.items[r] # recorded[r])
  /\ AskIfChanged(PulledBack(l), loads \ {l})
  /\ UNCHANGED <<owner, recorded, staging, posting>>

ListFails(l) ==
  /\ ~l.read
  /\ entries' = <<>> /\ shown' = 0
  /\ loads' = loads \ {l}
  /\ UNCHANGED <<owner, recorded, scope, total, asked, missed, behind, staging, posting>>

-----------------------------------------------------------------------------
(* What moves the list: the pager, a filter, and the page's runs.           *)

Prev == scope.page > 1 /\ AskIfChanged([scope EXCEPT !.page = @ - 1], loads)

Following == scope.page < NumberOfPages(total) /\ AskIfChanged([scope EXCEPT !.page = @ + 1], loads)

Filter(since) == AskIfChanged([scope EXCEPT !.since = since, !.page = 1], loads)

Browse ==
  /\ Prev \/ Following \/ \E since \in {1, 2} : since # scope.since /\ Filter(since)
  /\ UNCHANGED <<owner, recorded, entries, total, shown, behind, staging, posting>>

\* newConversation: back to the whole record, on the page it was on.
NewConversation ==
  /\ scope.session # Everything
  /\ AskIfChanged([scope EXCEPT !.session = Everything], loads)
  /\ UNCHANGED <<owner, recorded, entries, total, shown, behind, staging, posting>>

Write(s) ==
  /\ Len(owner) < MaxRows
  /\ owner' = Append(owner, s) /\ recorded' = Append(recorded, none)

\* syncHistoryAfterRun: the row is written, the panel moves to its session and
\* asks again even if nothing else changed.
RunCompletes(s) ==
  /\ Write(s)
  /\ asked + edits < MaxActs
  /\ scope' = [scope EXCEPT !.session = {s}]
  /\ asked' = asked + 1 /\ missed' = FALSE
  /\ loads' = loads \cup {Request(asked', scope')}
  /\ UNCHANGED <<entries, total, shown, behind, staging, posting>>

\* answerClarification, which does not call it.
ClarificationAnswered(s) ==
  /\ Write(s)
  /\ missed' = TRUE
  /\ UNCHANGED <<scope, entries, total, loads, asked, shown, behind, staging, posting>>

-----------------------------------------------------------------------------
(* Staged verdicts.                                                          *)

\* Accept and Reject are shown on a row without a verdict, staged or on its way.
Offered(r) ==
  /\ r \in DOMAIN entries /\ entries[r] = none
  /\ r # marker /\ \A v \in staged : v.row # r

ClearedTimers == timers \ {timer}

\* One that flips the row before the server has answered.
CommitFlips(v) ==
  /\ posts' = posts \cup {[gesture |-> v.gesture, row |-> v.row, verdict |-> v.verdict,
                           recorded |-> FALSE, waiting |-> TRUE]}
  /\ sent' = Append(sent, v.gesture)
  /\ marker' = v.row
  /\ entries' = [r \in DOMAIN entries |-> IF r = v.row THEN v.verdict ELSE entries[r]]

Commit(v) ==
  /\ posts' = posts \cup {[gesture |-> v.gesture, row |-> v.row, verdict |-> v.verdict,
                           recorded |-> FALSE, waiting |-> TRUE]}
  /\ sent' = Append(sent, v.gesture)
  /\ marker' = v.row
  /\ UNCHANGED entries

Open(v, cleared) ==
  /\ asked + edits < MaxActs
  /\ edits' = edits + 1 /\ timer' = edits' /\ timers' = cleared \cup {edits'}
  /\ staged' = {v}

\* stageVerdict: a verdict staged on another row is committed at once.
Stage(r, verdict) ==
  /\ Offered(r)
  /\ Open([row |-> r, verdict |-> verdict, gesture |-> edits + 1], ClearedTimers)
  /\ IF staged = {} THEN UNCHANGED <<marker, posts, sent, entries>>
     ELSE \A v \in staged : Commit(v)
  /\ twice' = IF \E p \in posts : p.row = r THEN twice \cup {r} ELSE twice
  /\ UNCHANGED <<owner, recorded, scope, total, loads, asked, shown, missed, behind, undone, lost>>

\* A note that only stops the window.
TypeNoteStops ==
  /\ staged # {} /\ edits < MaxActs /\ edits' = edits + 1
  /\ timers' = ClearedTimers /\ timer' = NoTimer
  /\ UNCHANGED <<owner, recorded, listing, staged, undone, posting>>

\* updateStagedNote: the window starts again.
TypeNote ==
  /\ \E v \in staged : v.row \in DOMAIN entries /\ Open(v, ClearedTimers)
  /\ UNCHANGED <<owner, recorded, listing, undone, posting>>

\* undoStaged; its button is on the row.
Undo ==
  /\ \E v \in staged : v.row \in DOMAIN entries /\ undone' = undone \cup {v.gesture}
  /\ staged' = {} /\ timers' = ClearedTimers /\ timer' = NoTimer
  /\ UNCHANGED <<edits, owner, recorded, listing, posting>>

\* A window that keeps what it has committed.
TimerKeeps(t) ==
  /\ timers' = timers \ {t} /\ timer' = NoTimer
  /\ IF staged = {} THEN UNCHANGED <<marker, posts, sent, entries>>
     ELSE \A v \in staged : Commit(v)
  /\ UNCHANGED <<edits, undone, staged, owner, recorded, scope, total, loads, asked, shown, missed,
                 behind, lost, twice>>

\* The window ends: what is staged then is committed.
TimerFires(t) ==
  /\ timers' = timers \ {t} /\ timer' = NoTimer
  /\ IF staged = {} THEN UNCHANGED <<marker, posts, sent, entries>>
     ELSE \A v \in staged : Commit(v)
  /\ staged' = {}
  /\ UNCHANGED <<edits, undone, owner, recorded, scope, total, loads, asked, shown, missed, behind,
                 lost, twice>>

-----------------------------------------------------------------------------
(* Posts.  Whatever its end, a post clears the one marker.                   *)

EndOfWait(p, rest) ==
  /\ posts' = (posts \ {p}) \cup rest
  /\ marker' = NoRow

\* record_feedback overwrites.
ServerRecords(p) ==
  /\ ~p.recorded
  /\ recorded' = [recorded EXCEPT ![p.row] = p.verdict]
  /\ posts' = (posts \ {p}) \cup IF p.waiting THEN {[p EXCEPT !.recorded = TRUE]} ELSE {}
  /\ lost' = (lost \/ ~p.waiting)
  /\ UNCHANGED <<owner, listing, staging, marker, sent, twice>>

PostSucceeds(p) ==
  /\ p.waiting /\ p.recorded
  /\ EndOfWait(p, {})
  /\ entries' = [r \in DOMAIN entries |-> IF r = p.row THEN p.verdict ELSE entries[r]]
  /\ UNCHANGED <<owner, recorded, scope, total, loads, asked, shown, missed, behind, staging, sent,
                 lost, twice>>

\* The server refuses, and has recorded nothing.
PostRefused(p) ==
  /\ p.waiting /\ ~p.recorded
  /\ EndOfWait(p, {})
  /\ UNCHANGED <<owner, recorded, listing, staging, sent, lost, twice>>

\* The connection fails: the server has recorded the verdict, or still may.
PostLost(p) ==
  /\ p.waiting
  /\ EndOfWait(p, IF p.recorded THEN {} ELSE {[p EXCEPT !.waiting = FALSE]})
  /\ lost' = (lost \/ p.recorded)
  /\ UNCHANGED <<owner, recorded, listing, staging, sent, twice>>

-----------------------------------------------------------------------------
User ==
  \/ Browse \/ NewConversation \/ TypeNote \/ Undo
  \/ \E s \in Session : RunCompletes(s) \/ ClarificationAnswered(s)
  \/ \E r \in DOMAIN entries, verdict \in Verdict : Stage(r, verdict)

WindowEnds == \E t \in timers : TimerFires(t)

Network ==
  \/ \E l \in loads : ServerLists(l) \/ ListArrives(l) \/ ListFails(l)
  \/ \E p \in posts : ServerRecords(p) \/ PostSucceeds(p) \/ PostRefused(p) \/ PostLost(p)

Next == User \/ WindowEnds \/ Network

\* The browser fires a timer that is not cleared.
Spec == Init /\ [][Next]_vars /\ WF_vars(WindowEnds)

-----------------------------------------------------------------------------
(* Properties.                                                               *)

\* A verdict is posted at most once, and never after its undo ("cancel before
\* anything is sent"): there is a window open exactly while a verdict is staged,
\* one, and it is the one its last edit opened, so that no verdict is cut short
\* by the window of another (stageVerdict and updateStagedNote clear and set the
\* timer; the ref, not the closure, is what it reads).
WindowIsOfStaged ==
  /\ staged = {} <=> timers = {}
  /\ timers # {} => timers = {edits}

SentOnce ==
  /\ WindowIsOfStaged
  /\ IsInjective(sent)
  /\ ToSet(sent) \cap undone = {}

\* When nothing is on its way, the rows shown carry the server's verdicts, unless
\* an answer was lost, a list was read before a verdict and arrived after, or a
\* row was reviewed while its first verdict was on its way ("flip the row in
\* place (no refetch - the server has recorded it)").
SettledVerdictsAgree ==
  posts = {} /\ ~behind /\ ~lost /\ twice = {}
    => \A r \in DOMAIN entries : entries[r] = recorded[r]

\* Once the last list asked for was also the last to arrive, the panel shows the
\* rows of its scope, and shows some if there are any, unless a clarification's
\* run was kept from it (the effect's dependencies; "pull back").
SettledListIsOfScope ==
  loads = {} /\ shown = asked /\ ~missed
    => /\ DOMAIN entries = PageOf(scope)
       /\ Matching(scope) # {} => entries # <<>>

\* A staged verdict is sent or taken back.
StagedEnds ==
  \A g \in Act : (\E v \in staged : v.gesture = g) ~> (g \in ToSet(sent) \cup undone)
=================================================================================
