------------------------------ MODULE Conversation ------------------------------
(***************************************************************************)
(* The page that owns a conversation (web/app/page.tsx), its transport      *)
(* (web/lib/api.ts) and the endpoints it calls (api/main.py: /stream, /run, *)
(* /run-sql).  The page makes one call at a time.  A question is sent over   *)
(* the SSE stream first; if the stream is lost, or reports an error that is  *)
(* not the provider's, the same question is sent again to /run, and what the *)
(* stream had started may still be running, and may still be recorded.       *)
(*                                                                         *)
(* A step is a user's gesture, the answer of the transport to the page, or   *)
(* the beginning or the end of a request on the server.  What a request does *)
(* in between is module QueryRun.  `loading' is set and reset with the call, *)
(* so it is read off it.                                                     *)
(***************************************************************************)
EXTENDS Integers, FiniteSets

CONSTANTS
  Question,  \* texts a user types, or finds among saved and starter questions
  MaxAsks,   \* bound: calls the page makes
  MaxAdrift  \* bound: runs that go on at a time after their stream is gone

ASSUME BoundsAssumption == MaxAsks \in Nat /\ MaxAdrift \in Nat

VARIABLES
  box,       \* question: the text in the ask box
  result,    \* the reply shown
  thread,    \* the clarification thread
  error,     \* the last call failed, and hides the result
  manual,    \* {} unless manualSqlRun, whose manualOriginQuestion it holds
  panel,     \* historySessionId
  call,      \* the call in flight
  asks,      \* calls made
  since,     \* calls made before the conversation was last cleared
  requests,  \* what the server is working on or has answered
  sessions,  \* table api_sessions: how many ids were issued
  history    \* table query_history

page == <<box, result, thread, error, manual, panel>>
server == <<requests, sessions, history>>
vars == <<page, call, asks, since, server>>

-----------------------------------------------------------------------------
CLARIFICATION_ROUND_CAP == 2

\* The text of a run, as recorded: a question, a user's reply to a clarifying
\* question ("followup"), or the marker of /run-sql ("edited").
Text == Question \cup {"followup", "edited"}
Session == 1..(2 * MaxAsks)

\* What a SQL text answers: a question and the clarifications folded into it.
About == [original : Text, exchanges : 0..CLARIFICATION_ROUND_CAP]

Kind == {"answer", "clarification", "refusal"}
Op == {"fresh", "followup", "sql"}
Reply == [ask : 1..MaxAsks, op : Op, about : About, kind : Kind, session : Session]
Thread == [original : Text, session : Session, exchanges : 0..CLARIFICATION_ROUND_CAP]
\* `sql' is {} for a run that generated none, or says what its SQL answers.
HistoryRow == [session : Session, text : Text, sql : SUBSET About]

\* A call sends `text'; `session' is {} for a new conversation.  `silent': nothing
\* comes over its stream any more, not even the server's pings.
Call == [ask : 1..MaxAsks, op : Op, leg : {"stream", "run", "run_sql"}, text : Text,
         about : About, session : SUBSET Session, accepted : BOOLEAN, silent : BOOLEAN]
Request == [ask : 1..MaxAsks, op : Op, leg : {"stream", "run", "run_sql"}, text : Text,
            about : About, session : Session,
            pc : {"running", "error", "provider"} \cup Kind]

loading == call # {}
Awaited(r) == \E c \in call : c.ask = r.ask /\ c.leg = r.leg
Heard(r) == \E c \in call : c.ask = r.ask /\ c.leg = r.leg /\ ~c.silent
Adrift == {r \in requests : ~Awaited(r)}

\* The list of exchanges a follow-up carries, the latest answer included.
ExchangesSent(t) == t.exchanges + 1

\* scope.py: after the cap, an input still ambiguous is refused.
MayAskOnceMore(exchanges) == exchanges <= CLARIFICATION_ROUND_CAP
MayAsk(exchanges) == exchanges < CLARIFICATION_ROUND_CAP

-----------------------------------------------------------------------------
Init ==
  /\ box = "none" /\ result = {} /\ thread = {} /\ error = FALSE
  /\ manual = {} /\ panel = {}
  /\ call = {} /\ asks = 0 /\ since = 0
  /\ requests = {} /\ sessions = 0 /\ history = {}

\* The user edits the ask box, or fills it with an example; it is disabled
\* while a call is in flight.  What is typed after the last call is not asked.
Type ==
  /\ ~loading /\ asks < MaxAsks
  /\ box' \in Question \cup {"none"}
  /\ UNCHANGED <<result, thread, error, manual, panel, call, asks, since, server>>

\* A call leaves the page.
Send(op, leg, text, about, session) ==
  /\ ~loading /\ asks < MaxAsks
  /\ asks' = asks + 1
  /\ call' = {[ask |-> asks', op |-> op, leg |-> leg, text |-> text, about |-> about,
               session |-> session, accepted |-> FALSE, silent |-> FALSE]}
  /\ error' = FALSE

\* submitFreshWith.
SendFresh(text) ==
  /\ Send("fresh", "stream", text, [original |-> text, exchanges |-> 0], {})
  /\ result' = {} /\ thread' = {}

SubmitFresh ==
  /\ box # "none"
  /\ SendFresh(box)
  /\ manual' = {}
  /\ UNCHANGED <<box, panel, since, server>>

\* runFromPanel: a saved query, a starter, or "ask again" on a history row.
\* The panels stay active while a call is in flight: the text and the manual
\* note change then, and nothing is sent.
RunFromPanel(text) ==
  /\ box' = text /\ manual' = {}
  /\ \/ SendFresh(text)
     \/ loading /\ UNCHANGED <<result, thread, error, call, asks>>
  /\ UNCHANGED <<panel, since, server>>

\* The clarification form is on screen when there is a thread and no error.
AnswerClarification ==
  \E t \in thread, r \in result :
    /\ r.kind = "clarification" /\ ~error
    /\ Send("followup", "stream", "followup",
            [original |-> t.original, exchanges |-> ExchangesSent(t)], {t.session})
    /\ UNCHANGED <<box, result, thread, manual, panel, since, server>>

\* runSqlFromHistory: the rows that hold a SQL text offer it.
RunSqlFromHistory(h) ==
  /\ \E about \in h.sql : Send("sql", "run_sql", h.text, about, {h.session})
  /\ thread' = {}
  /\ UNCHANGED <<box, result, manual, panel, since, server>>

NewConversation ==
  /\ ~loading
  /\ box' = "none" /\ result' = {} /\ thread' = {} /\ error' = FALSE
  /\ manual' = {} /\ panel' = {} /\ since' = asks
  /\ UNCHANGED <<call, asks, server>>

-----------------------------------------------------------------------------
(* The server. *)

\* resolve_session_id: a new id for a new conversation, the given one otherwise.
SessionFor(c) == IF c.session = {} THEN {sessions + 1} ELSE c.session

Accept ==
  \E c \in call :
    /\ ~c.accepted
    /\ sessions' = IF c.session = {} THEN sessions + 1 ELSE sessions
    /\ \E s \in SessionFor(c) :
         requests' = requests \cup
           {[ask |-> c.ask, op |-> c.op, leg |-> c.leg, text |-> c.text,
             about |-> c.about, session |-> s, pc |-> "running"]}
    /\ call' = {[c EXCEPT !.accepted = TRUE]}
    /\ UNCHANGED <<page, asks, since, history>>

\* What a run has to say is kept for the page only if it still waits for it.
Become(r, pc) ==
  requests' = (requests \ {r}) \cup {[x EXCEPT !.pc = pc] : x \in {r} \ Adrift}

\* record_history_safely: one row, or its failure is logged.
Record(r, sql) ==
  \/ history' = history \cup
       {[session |-> r.session, sql |-> sql,
         text |-> IF r.op = "sql" THEN "edited" ELSE r.text]}
  \/ UNCHANGED history

\* The run ends, is recorded, and only then is the answer sent.
Finish(r) ==
  /\ r.pc = "running"
  /\ \E kind \in Kind :
       /\ kind = "clarification" => MayAsk(r.about.exchanges)
       /\ r.op = "sql" => kind = "answer"
       /\ Become(r, kind)
       /\ Record(r, IF kind = "answer" THEN {r.about} ELSE {})
  /\ UNCHANGED <<page, call, asks, since, sessions>>

\* The run raises: an unusable provider, or any other error.  A /run-sql that
\* fails raises nothing and is recorded, unless its text was refused.
Raise(r) ==
  /\ r.pc = "running"
  /\ \/ r.op # "sql" /\ Become(r, "provider") /\ UNCHANGED history
     \/ Become(r, "error") /\ UNCHANGED history
     \/ r.op = "sql" /\ Become(r, "error") /\ Record(r, {r.about})
  /\ UNCHANGED <<page, call, asks, since, sessions>>

\* A run whose stream is gone is cancelled, now or after it has recorded.
Cancel(r) ==
  /\ r \in Adrift
  /\ requests' = requests \ {r}
  /\ UNCHANGED <<page, call, asks, since, sessions, history>>

-----------------------------------------------------------------------------
(* What comes back to the page. *)

ReplyOf(r) == [ask |-> r.ask, op |-> r.op, about |-> r.about, kind |-> r.pc,
               session |-> r.session]

\* syncHistoryAfterRun, which answerClarification does not call.
PanelAfter(r) == IF r.op = "followup" THEN panel ELSE {r.session}

\* The reply of the awaited request r; its handler updates the page.
Deliver(r) ==
  /\ Heard(r) /\ r.pc \in Kind
  /\ call' = {} /\ requests' = requests \ {r}
  /\ result' = {ReplyOf(r)}
  /\ thread' = CASE r.op = "fresh" /\ r.pc = "clarification" ->
                      {[original |-> r.text, session |-> r.session, exchanges |-> 0]}
                 [] r.op = "followup" ->
                      {[t EXCEPT !.exchanges = ExchangesSent(t)] : t \in thread}
                 [] OTHER -> {}
  /\ manual' = IF r.op = "sql" THEN {r.text} ELSE manual
  /\ panel' = PanelAfter(r)
  /\ UNCHANGED <<box, error, asks, since, sessions, history>>

\* runWithFallback: the same question again, to /run.
FallbackDropsOpts(c) ==
  call' = {[c EXCEPT !.leg = "run", !.accepted = FALSE, !.silent = FALSE,
                     !.session = {}]}
Fallback(c) ==
  call' = {[c EXCEPT !.leg = "run", !.accepted = FALSE, !.silent = FALSE]}

\* The server drops the run of a lost stream at once or later: the awaited
\* request goes adrift.
GoAdrift ==
  \/ Cardinality(Adrift) < MaxAdrift /\ UNCHANGED requests
  \/ requests' = Adrift

\* The server hangs as a whole, or its connection is gone unnoticed: neither an
\* event nor one of EventSourceResponse's pings reaches the page.  A run that
\* merely takes long does not make its stream silent.
GoesSilent ==
  \E c \in call :
    /\ c.leg = "stream" /\ c.accepted /\ ~c.silent
    /\ call' = {[c EXCEPT !.silent = TRUE]}
    /\ UNCHANGED <<page, asks, since, server>>

\* The stream cannot be opened, ends without a result, or has been silent for
\* STREAM_INACTIVITY_MS: every chunk, a ping too, arms the watchdog anew.
LostOnlyBeforeAccepted ==
  \E c \in call :
    /\ c.leg = "stream" /\ ~c.accepted
    /\ Fallback(c) /\ GoAdrift
    /\ UNCHANGED <<page, asks, since, sessions, history>>

StreamLost ==
  \E c \in call :
    /\ c.leg = "stream"
    /\ Fallback(c) /\ GoAdrift
    /\ UNCHANGED <<page, asks, since, sessions, history>>

StreamReportsError(r) ==
  /\ Heard(r) /\ r.leg = "stream" /\ r.pc = "error"
  /\ requests' = requests \ {r}
  /\ \E c \in call : Fallback(c)
  /\ UNCHANGED <<page, asks, since, sessions, history>>

\* The call has failed.  A failed /run-sql is reported in its history row;
\* the page's own error is only for a question.
Fail ==
  \E c \in call :
    /\ call' = {}
    /\ error' = (c.op # "sql")
    /\ UNCHANGED <<box, result, thread, manual, panel, asks, since, sessions,
                   history>>

\* A provider failure is final on either path; any failure is, on /run.
CallFails(r) ==
  /\ Heard(r)
  /\ r.pc = "provider" \/ (r.pc = "error" /\ r.leg # "stream")
  /\ requests' = requests \ {r}
  /\ Fail

\* A blocking call whose connection breaks: the request goes on.
ConnectionLost ==
  /\ \E c \in call : c.leg # "stream"
  /\ Fail /\ GoAdrift

-----------------------------------------------------------------------------
Gesture ==
  \/ Type \/ SubmitFresh \/ AnswerClarification \/ NewConversation
  \/ \E q \in Question \cup {h.text : h \in history} : RunFromPanel(q)
  \/ \E h \in history : RunSqlFromHistory(h)

\* What the page awaits reaches it.
Arrival == \E r \in requests : Deliver(r) \/ StreamReportsError(r) \/ CallFails(r)

Next ==
  \/ Gesture \/ Accept \/ Arrival \/ GoesSilent \/ StreamLost \/ ConnectionLost
  \/ \E r \in requests : Finish(r) \/ Raise(r) \/ Cancel(r)

Spec == Init /\ [][Next]_vars

\* The watchdog, armed until the stream has ended, fires over a silent one.
WatchdogFires == (\E c \in call : c.silent) /\ StreamLost

\* What a call in flight waits for: it reaches the server or fails to connect,
\* the run behind it ends (QueryRun: RunsTerminate), what was answered arrives,
\* or the watchdog fires.
CallStep ==
  \/ Accept \/ Arrival \/ WatchdogFires
  \/ \E r \in requests : Awaited(r) /\ (Finish(r) \/ Raise(r))

\* One of these happens as long as one is due.  It is the end of the run that is
\* assumed, not that the watchdog would end a call whose run hangs: the pings of
\* a live server keep arming it.
Fairness == WF_vars(CallStep)

FairSpec == Spec /\ Fairness

-----------------------------------------------------------------------------
(* Properties. *)

Optional(c, S) == c \subseteq S /\ Cardinality(c) <= 1

(* Type invariant: the page's state, the call in flight, the requests and    *)
(* the tables keep their types.                                              *)
TypeOK ==
  /\ box \in Text \cup {"none"} /\ Optional(result, Reply) /\ Optional(thread, Thread)
  /\ error \in BOOLEAN /\ Optional(manual, Text)
  /\ Optional(panel, Session) /\ Optional(call, Call)
  /\ asks \in 0..MaxAsks /\ since \in 0..asks
  /\ requests \subseteq Request /\ sessions \in 0..(2 * MaxAsks)
  /\ history \subseteq HistoryRow

(* No conversation is asked more clarifying questions than the cap, although *)
(* the client carries the count and may send a round twice (scope.py: the    *)
(* cap is applied to the exchanges the request carries).                     *)
ClarificationsEnd ==
  \A r \in result : \A t \in thread :
    r.kind = "clarification" => t.exchanges < CLARIFICATION_ROUND_CAP

(* Whatever is beside a reply is of that reply, whichever of the stream and  *)
(* its fallback answered, and whatever failed in between (page.tsx: "the     *)
(* answer continues the SAME conversation").  The thread has its session,    *)
(* its original question and as many exchanges as the server folded into it. *)
(* The history panel is scoped to its session, also for a follow-up, which   *)
(* does not set it ("Clarifications keep the session").  The manual note is  *)
(* not put beside a reply of the grounded pipeline.  And after "new          *)
(* conversation" no reply, and no call, of an earlier one is left.           *)
ThreadIsOfResult ==
  \A t \in thread : \A r \in result :
    /\ t.session = r.session
    /\ [original |-> t.original, exchanges |-> t.exchanges] = r.about
PanelIsOfResult == \A r \in result : panel = {r.session}
NoteOnlyOnManualRuns == manual # {} => \A r \in result : r.op = "sql"
NothingFromBefore == \A r \in result \cup call : r.ask > since

PageIsOfOneReply ==
  ThreadIsOfResult /\ PanelIsOfResult /\ NoteOnlyOnManualRuns /\ NothingFromBefore

(* Loading always ends, by a reply or by an error (page.tsx: "Never a         *)
(* perpetual thinking... hang"), if the run behind the call does, though its  *)
(* stream be lost, or fall silent, or report an error at any time: what is    *)
(* left in flight is then answered, repeated once over /run, or given up.     *)
LoadingEnds == loading ~> ~loading

=============================================================================
